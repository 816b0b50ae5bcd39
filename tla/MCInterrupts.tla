---------------------------- MODULE MCInterrupts ----------------------------
(***************************************************************************)
(* Endless programs that enable and disable interrupts in every order: a   *)
(* loop over any three of EI, DI, NOP, RETI, a two-cycle load, a taken     *)
(* jump and an illegal opcode.  The stack is left at FFFE, where reads     *)
(* give 0, so that RETI goes to 0000 and on from there to the loop.        *)
(***************************************************************************)
EXTENDS Cpu

Place(address, bytes) ==
  [a \in address .. (address + Len(bytes) - 1) |-> bytes[1 + a - address]]

JumpTo(w) == <<\hC3, Low(w), High(w)>>

Instruction == {<<\hFB>>, <<\hF3>>, <<\h00>>, <<\hD9>>, <<\h3E, \h55>>, <<\h18, \h00>>, <<\hD3>>}

Loop(body) ==
  LET low  == JumpTo(\h0100)
      high == body \o JumpTo(\h0100)
      placed == Place(\h0100, high)
  IN  [a \in (0 .. 2) \cup DOMAIN placed |-> IF a \in 0 .. 2 THEN low[a + 1] ELSE placed[a]]

MCPrograms == {Loop(p \o q \o r) : p \in Instruction, q \in Instruction, r \in Instruction}

MCRamEnd  == \hC000
MCRomFill == \h76
=============================================================================
