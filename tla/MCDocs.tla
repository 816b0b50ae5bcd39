------------------------------- MODULE MCDocs -------------------------------
(***************************************************************************)
(* What comments and documents of the repository say of single             *)
(* instructions, on a program that executes each of them:                  *)
(*                                                                         *)
(*     LD HL, C000; LD (HL), AB; LD A, (HL+); LD C, 01;                    *)
(*     LD A, (FF00+C); LD (FF00+C), A; LD (C001), A; and again.            *)
(***************************************************************************)
EXTENDS CpuHistory

Place(address, bytes) ==
  [a \in address .. (address + Len(bytes) - 1) |-> bytes[1 + a - address]]

MCPrograms == {Place(\h0100, <<\h21, \h00, \hC0, \h36, \hAB, \h2A, \h0E, \h01,
                               \hF2, \hE2, \hEA, \h01, \hC0, \hC3, \h00, \h01>>)}
MCRamEnd  == \hC007
MCRomFill == \h76

Takes(opcode, mCycles) == Completes /\ ir = opcode => elapsed + 1 = mCycles

\* What three comments say of the M-cycles an instruction takes: 5 for
\* LD A, (FF00+C) (load_a_from_indirect_c.h:23), 3 for LD (FF00+C), A
\* (load_indirect_c_from_a.h:23) and 3 for LD (a16), A
\* (load_indirect_address_from_a.h:42).  If any one of them were right it
\* would be right from some time on, so this is refuted by a run of the
\* program only if all three are wrong.
ACommentedCountIsRight ==
  \/ <>[][Takes(\hF2, 5)]_<<vars, historyVars>>
  \/ <>[][Takes(\hE2, 3)]_<<vars, historyVars>>
  \/ <>[][Takes(\hEA, 3)]_<<vars, historyVars>>

\* docs/04-instructions.md:117: LD A, (HL+) and LD A, (HL-) load A from the
\* adjusted HL.
LoadsFromAdjustedHL ==
  [][Completes /\ ir \in {\h2A, \h3A} =>
       Value8(reg', "A") = BusRead(reg'["HL"])]_<<vars, historyVars>>
=============================================================================
