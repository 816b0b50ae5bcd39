------------------------------ MODULE Stepping ------------------------------
(***************************************************************************)
(* What Cpu::Step() promises of the instructions it runs, with nothing     *)
(* said of coroutines, handles or promises: there is one instruction at a  *)
(* time; it advances M-cycle by M-cycle until it finishes; only then does  *)
(* another one take its place, or does the CPU fail; and one of the two    *)
(* happens.                                                                *)
(***************************************************************************)
EXTENDS Naturals

CONSTANTS
  Instructions,  \* names for the instructions in progress
  MaxYields      \* the most M-cycles an instruction takes before its last

VARIABLES
  current,   \* the instruction in progress
  cycles,    \* the M-cycles it has taken so far
  finished,  \* its last M-cycle is over
  failed     \* the CPU has thrown

vars == <<current, cycles, finished, failed>>

Init ==
  /\ current \in Instructions
  /\ cycles = 0
  /\ finished = FALSE
  /\ failed = FALSE

Advance ==
  /\ ~finished
  /\ cycles < MaxYields
  /\ cycles' = cycles + 1
  /\ UNCHANGED <<current, finished, failed>>

Finish ==
  /\ ~finished
  /\ finished' = TRUE
  /\ UNCHANGED <<current, cycles, failed>>

Replace ==
  /\ finished /\ ~failed
  /\ current' \in Instructions \ {current}
  /\ cycles' = 0
  /\ finished' = FALSE
  /\ UNCHANGED failed

Fail ==
  /\ finished /\ ~failed
  /\ failed' = TRUE
  /\ UNCHANGED <<current, cycles, finished>>

Next == Advance \/ Finish \/ Replace \/ Fail

Spec == Init /\ [][Next]_vars /\ WF_vars(Next)
=============================================================================
