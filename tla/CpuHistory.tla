----------------------------- MODULE CpuHistory -----------------------------
(***************************************************************************)
(* The CPU with a record of its last instruction boundary, and the         *)
(* refinement it makes possible: from one boundary to the next the         *)
(* micro-coded CPU has executed exactly one instruction of the             *)
(* instruction set.                                                        *)
(*                                                                         *)
(* An instruction ends in the Step() in which its handler reaches          *)
(* co_return, which has also fetched the next opcode; at the boundary the  *)
(* machine's program counter is therefore one behind PC.                   *)
(***************************************************************************)
EXTENDS Cpu

VARIABLES
  boundary,  \* the machine at the last boundary
  elapsed,   \* how many times Step() has run since
  cycles     \* how many times it ran for the instruction before

historyVars == <<boundary, elapsed, cycles>>

FlagName == [f \in FlagPositions |-> CASE f = Zero      -> "Z"
                                       [] f = Subtract  -> "N"
                                       [] f = HalfCarry -> "H"
                                       [] f = Carry     -> "C"]

Machine(r, i, m, pc) ==
  [r       |-> [n \in Register8 |-> Value8(r, n)],
   flags   |-> {FlagName[f] : f \in Flags(r)},
   sp      |-> r["SP"],
   pc      |-> pc,
   enabled |-> i = "ENABLED",
   armed   |-> i = "PENDING",
   ram     |-> m]

HInit ==
  /\ Init
  /\ boundary = Machine(reg, ime, ram, reg["PC"])
  /\ elapsed = 0
  /\ cycles = 1

Record ==
  \/ /\ Completes
     /\ boundary' = Machine(reg', ime', ram', (reg'["PC"] - 1) % 65536)
     /\ elapsed' = 0
     /\ cycles' = elapsed + 1
  \/ /\ ~Completes
     /\ elapsed' = elapsed + 1
     /\ UNCHANGED <<boundary, cycles>>

HNext ==
  \/ Step /\ Record
  \/ Exited /\ UNCHANGED historyVars

HSpec ==
  /\ HInit
  /\ [][HNext]_<<vars, historyVars>>
  /\ WF_<<vars, historyVars>>(Step /\ Record)

Architecture == INSTANCE Isa WITH machine <- boundary

(***************************************************************************)
(* Every instruction the CPU completes, by whatever sequence of M-cycles,  *)
(* reads, writes and internal registers, changes the registers, flags,     *)
(* memory and interrupt state as the instruction set says, takes the       *)
(* number of M-cycles it says, and changes nothing else.                   *)
(***************************************************************************)
ImplementsIsa == Architecture!IsaSpec
=============================================================================
