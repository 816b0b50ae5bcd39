---------------------------- MODULE MCRefinement ----------------------------
(***************************************************************************)
(* The programs of MCEveryOpcode, and programs that execute from the RAM   *)
(* and write over the instruction that follows: with LD (HL), n; LD (HL),  *)
(* A; LD (HL+), A; LD (a16), A; LD (a16), SP; PUSH BC; and a CALL that     *)
(* pushes its return address onto its own target.                          *)
(***************************************************************************)
EXTENDS Microcode, MCEveryOpcode

\* LD (HL), n; INC HL, for each of the bytes.
RECURSIVE Store(_)
Store(bytes) ==
  IF bytes = <<>> THEN <<>> ELSE <<\h36, Head(bytes), \h23>> \o Store(Tail(bytes))

\* Code that is put at C000, and the contents of BC, HL and SP to run it
\* with; A is the high byte of BC.  It ends in an opcode that throws.
InRam(code, bc, hl, sp) ==
  Place(\h0100, LoadWord(\h21, \hC000) \o Store(code) \o LoadWord(\h01, bc) \o <<\h78>>
                \o LoadWord(\h21, hl) \o LoadWord(\h31, sp) \o <<\hC3, \h00, \hC0>>)

\* The instruction written: INC A, CPL, HALT (which throws).
Written == {\h3C, \h2F, \h76}

SelfModifying ==
  UNION { { InRam(<<\h36, op, \h00, \h76>>, \h0000, \hC002, \hFFFE),
            InRam(<<\h77, \h00, \h76>>, 256 * op, \hC001, \hFFFE),
            InRam(<<\h22, \h00, \h76>>, 256 * op, \hC001, \hFFFE),
            InRam(<<\hEA, \h03, \hC0, \h00, \h76>>, 256 * op, \h0000, \hFFFE),
            InRam(<<\h08, \h03, \hC0, \h00, \h00, \h76>>, \h0000, \h0000, 256 * \h2F + op),
            InRam(<<\hC5, \h00, \h00, \h76>>, 256 * \h3C + op, \h0000, \hC003),
            InRam(<<\hCD, \h04, \hC0, op, \h76, \h76, \h76>>, \h0000, \h0000, \hC006) } : op \in Written }

RefinementPrograms == MCPrograms \cup SelfModifying
=============================================================================
