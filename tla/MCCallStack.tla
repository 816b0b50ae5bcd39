---------------------------- MODULE MCCallStack ----------------------------
(***************************************************************************)
(* Nested calls with pushes and pops around them, balanced or not.  The    *)
(* main program at 0100 is made of any three of the blocks below, the      *)
(* subroutine at 0200 is one of eight, and RST 08 calls another one at     *)
(* 0008.  The stack starts at one of three addresses, so that it fits the  *)
(* RAM, runs out of its lower end or never touches it.  A word that is     *)
(* popped off as a return address by mistake leads to an opcode that       *)
(* throws, as the end of the main program does.                            *)
(***************************************************************************)
EXTENDS CallStack

Place(address, bytes) ==
  [a \in address .. (address + Len(bytes) - 1) |-> bytes[1 + a - address]]

Overlay(f, g) == [a \in DOMAIN f \cup DOMAIN g |-> IF a \in DOMAIN f THEN f[a] ELSE g[a]]

LoadWord(op, w) == <<op, Low(w), High(w)>>

\* LD BC, HL and SP.
Setup(sp) == LoadWord(\h01, \h3412) \o LoadWord(\h21, \h3678) \o LoadWord(\h31, sp)

\* CALL 0200; CALL Z, 0200; RST 08; PUSH BC; PUSH AF; POP DE; POP AF; INC A
Block == {<<\hCD, \h00, \h02>>, <<\hCC, \h00, \h02>>, <<\hCF>>, <<\hC5>>, <<\hF5>>, <<\hD1>>, <<\hF1>>, <<\h3C>>}

\* RET; RST 08, RET; PUSH HL, RST 08, POP DE, RETI; PUSH HL, POP AF, RET;
\* PUSH HL, RET; POP HL, RET; RET Z, RST 08, RET; XOR A, RET NC
Subroutine == {<<\hC9>>, <<\hCF, \hC9>>, <<\hE5, \hCF, \hD1, \hD9>>, <<\hE5, \hF1, \hC9>>,
               <<\hE5, \hC9>>, <<\hE1, \hC9>>, <<\hC8, \hCF, \hC9>>, <<\hAF, \hD0>>}

Program(sp, main, subroutine) ==
  Overlay(Place(\h0100, Setup(sp) \o main),
          Overlay(Place(\h0200, subroutine), Place(\h0008, <<\hC9>>)))

MCPrograms ==
  {Program(sp, p \o q \o r, s) :
     sp \in {\hC008, \hC002, \hFFFE}, p \in Block, q \in Block, r \in Block, s \in Subroutine}

MCRamEnd  == \hC007
MCRomFill == \h76
=============================================================================
