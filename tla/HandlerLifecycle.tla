-------------------------- MODULE HandlerLifecycle --------------------------
(***************************************************************************)
(* The coroutines behind Cpu::Step(): which frames exist, which object's   *)
(* handle refers to them, and what becomes of exceptions.                  *)
(*                                                                         *)
(* A frame is created by the opcode table's function, suspended before its *)
(* first statement, resumed by Step(), and suspended for good when its     *)
(* body returns or throws: what a body throws is kept in its promise.  An  *)
(* InstructionHandler owns a frame through its handle and destroys it in   *)
(* its destructor; moving one swaps handles.  A body may do anything that  *)
(* a coroutine may: yield, return or throw.  (What the bodies of the table *)
(* compute is in module Cpu.)                                              *)
(*                                                                         *)
(* There is one thread.  pc says which statement comes next; it is also    *)
(* "undefined" once the code has done what C++ leaves undefined: resumed a *)
(* coroutine that is not suspended at a co_yield or at its start, or       *)
(* destroyed a frame that is not there or is running.                      *)
(***************************************************************************)
EXTENDS Naturals

CONSTANTS
  Frames,     \* the places a coroutine frame can be allocated at
  Null,       \* the null handle
  MaxYields,  \* the most co_yields in a body (CALL has five)
  InMain      \* the caller is main(); otherwise it may go on after a throw,
              \* or destroy the Cpu between two Steps, as a test does

ASSUME LifecycleAssumption ==
  /\ Null \notin Frames
  /\ MaxYields \in Nat
  /\ InMain \in BOOLEAN

VARIABLES
  frame,   \* of each place: what the frame there is doing, the co_yields it
           \* has reached, and whether its promise holds an exception
  handle,  \* the m_handle of each InstructionHandler; Null if there is none
  pc,      \* the statement that comes next
  thrown   \* a Step() has thrown

vars == <<frame, handle, pc, thrown>>

\* m_handler of the Cpu; the temporary Step() assigns from; and the object
\* that get_return_object() makes from the promise.
Objects == {"m_handler", "result", "returned"}

Frame(s, y, e) == [state |-> s, yields |-> y, exception |-> e]

Free        == Frame("free", 0, FALSE)
InitialSusp == Frame("suspended", 0, FALSE)

FrameType == [state : {"free", "suspended", "running", "done"},
              yields : 0 .. MaxYields, exception : BOOLEAN]

(* Types; and the Cpu has an instruction in progress for as long as it     *)
(* exists: m_handler is never the handler that was moved from              *)
(* (cpu.cpp:60, instruction_handler.h:45-49).                              *)
TypeOK ==
  /\ frame \in [Frames -> FrameType]
  /\ handle \in [Objects -> Frames \cup {Null}]
  /\ pc \in {"rest", "body", "fetch", "return", "assign", "release",
             "threw", "gone", "undefined"}
  /\ thrown \in BOOLEAN
  /\ handle["m_handler"] = Null => pc \in {"gone", "undefined"}

\* Cpu::Cpu creates m_handler from the entry of opcode 00.
Init ==
  \E f \in Frames :
    /\ frame = [g \in Frames |-> IF g = f THEN InitialSusp ELSE Free]
    /\ handle = [o \in Objects |-> IF o = "m_handler" THEN f ELSE Null]
    /\ pc = "rest"
    /\ thrown = FALSE

-----------------------------------------------------------------------------
(* Helpers *)

At(s)   == pc = s
GoTo(s) == pc' = s

Current == handle["m_handler"]

Yields == frame[Current].yields

Live(f) == frame[f].state # "free"

HasException(o) == handle[o] # Null /\ frame[handle[o]].exception

Swapped(o, p) == [handle EXCEPT ![o] = handle[p], ![p] = handle[o]]

\* Faulty: the old handle is overwritten instead of handed over.
Overwritten(o, p) == [handle EXCEPT ![o] = handle[p], ![p] = Null]

Destroyable(f) == f # Null /\ frame[f].state \in {"suspended", "done"}

\* ~InstructionHandler(), after which comes statement s.
Destruct(o, s) ==
  /\ handle' = [handle EXCEPT ![o] = Null]
  /\ frame' = IF Destroyable(handle[o]) THEN [frame EXCEPT ![handle[o]] = Free] ELSE frame
  /\ GoTo(IF handle[o] = Null \/ Destroyable(handle[o]) THEN s ELSE "undefined")

\* The current frame changes.
Becomes(r) == frame' = [frame EXCEPT ![Current] = r]

-----------------------------------------------------------------------------
(* Step(), statement by statement *)

Rethrow ==
  /\ At("rest") /\ HasException("m_handler")
  /\ thrown' = TRUE
  /\ GoTo("threw")
  /\ UNCHANGED <<frame, handle>>

Resume ==
  /\ At("rest") /\ ~HasException("m_handler")
  /\ IF Current # Null /\ frame[Current].state = "suspended"
     THEN Becomes(Frame("running", Yields, FALSE)) /\ GoTo("body")
     ELSE GoTo("undefined") /\ UNCHANGED frame
  /\ UNCHANGED <<handle, thrown>>

\* Faulty: Step() goes on to the fetch whether the coroutine is done or not.
BodyYieldsUnchecked ==
  /\ At("body") /\ Yields < MaxYields
  /\ Becomes(Frame("suspended", Yields + 1, FALSE))
  /\ GoTo("fetch")
  /\ UNCHANGED <<handle, thrown>>

\* The body reaches a co_yield: Step() finds it not done and returns.
BodyYields ==
  /\ At("body") /\ Yields < MaxYields
  /\ Becomes(Frame("suspended", Yields + 1, FALSE))
  /\ GoTo("rest")
  /\ UNCHANGED <<handle, thrown>>

\* Faulty: final_suspend() does not suspend, so the frame destroys itself.
BodyReturnsUnsuspended ==
  /\ At("body")
  /\ Becomes(Free)
  /\ GoTo("fetch")
  /\ UNCHANGED <<handle, thrown>>

\* return_void(), final_suspend().
BodyReturns ==
  /\ At("body")
  /\ Becomes(Frame("done", Yields, FALSE))
  /\ GoTo("fetch")
  /\ UNCHANGED <<handle, thrown>>

\* unhandled_exception(), final_suspend().
BodyThrows ==
  /\ At("body")
  /\ Becomes(Frame("done", Yields, TRUE))
  /\ GoTo("fetch")
  /\ UNCHANGED <<handle, thrown>>

\* The table's function throws before there is a frame.
DispatchThrows ==
  /\ At("fetch")
  /\ thrown' = TRUE
  /\ GoTo("threw")
  /\ UNCHANGED <<frame, handle>>

\* The table's function creates a frame; get_return_object() makes an
\* InstructionHandler of its promise.
CreateFrame ==
  /\ At("fetch")
  /\ \E f \in Frames :
       /\ ~Live(f)
       /\ frame' = [frame EXCEPT ![f] = InitialSusp]
       /\ handle' = [handle EXCEPT !["returned"] = f]
  /\ GoTo("return")
  /\ UNCHANGED thrown

\* That object is moved into the one returned to Step().  (A compiler may
\* construct it there at once: the outcome is the same.)
MoveConstruct ==
  /\ At("return")
  /\ handle' = Swapped("result", "returned")
  /\ GoTo("assign")
  /\ UNCHANGED <<frame, thrown>>

\* Faulty: the move assignment loses the old frame.
MoveAssignOverwriting ==
  /\ At("assign")
  /\ handle' = Overwritten("m_handler", "result")
  /\ GoTo("release")
  /\ UNCHANGED <<frame, thrown>>

\* Faulty: assigns from the object that was moved from already.
MoveAssignFromMoved ==
  /\ At("assign")
  /\ handle' = Swapped("m_handler", "returned")
  /\ GoTo("release")
  /\ UNCHANGED <<frame, thrown>>

MoveAssign ==
  /\ At("assign")
  /\ handle' = Swapped("m_handler", "result")
  /\ GoTo("release")
  /\ UNCHANGED <<frame, thrown>>

Release ==
  /\ At("release")
  /\ Destruct("result", "rest")
  /\ UNCHANGED thrown

-----------------------------------------------------------------------------
(* Callers *)

\* A caller other than main() catches the exception and calls Step() again.
StepOn ==
  /\ At("threw") /\ ~InMain
  /\ GoTo("rest")
  /\ UNCHANGED <<frame, handle, thrown>>

\* Faulty: the Cpu's handler has no destructor.
AbandonCpu ==
  /\ pc \in {"rest", "threw"} /\ ~InMain
  /\ handle' = [handle EXCEPT !["m_handler"] = Null]
  /\ GoTo("gone")
  /\ UNCHANGED <<frame, thrown>>

\* A caller other than main() destroys the Cpu.  main() leaves by exit().
DestroyCpu ==
  /\ pc \in {"rest", "threw"} /\ ~InMain
  /\ Destruct("m_handler", "gone")
  /\ UNCHANGED thrown

Ended ==
  /\ pc \in {"gone", "undefined"} \/ (At("threw") /\ InMain)
  /\ UNCHANGED vars

Begin == Rethrow \/ Resume

Inside ==
  \/ BodyYields \/ BodyReturns \/ BodyThrows
  \/ DispatchThrows \/ CreateFrame \/ MoveConstruct \/ MoveAssign \/ Release

Next == Begin \/ Inside \/ StepOn \/ DestroyCpu \/ Ended

\* A Step() that has begun goes on, and main() always begins another.
Spec == Init /\ [][Next]_vars /\ WF_vars(Inside) /\ WF_vars(InMain /\ Begin)

-----------------------------------------------------------------------------
(* Every frame there is belongs to exactly one InstructionHandler, and    *)
(* every handle that is not null refers to a frame that is there: through *)
(* creation, move construction, the swap of Step()'s assignment and the   *)
(* temporary's destructor, no frame is lost, shared or left dangling      *)
(* (instruction_handler.h:31-49).                                          *)
FramesOwnedOnce ==
  /\ \A f \in Frames : Live(f) =>
       \E o \in Objects : /\ handle[o] = f
                          /\ \A p \in Objects : handle[p] = f => p = o
  /\ \A o \in Objects : handle[o] # Null => Live(handle[o])

(* Nothing undefined happens unless a caller goes on after a Step() has   *)
(* thrown: Step() resumes only a coroutine that waits to be resumed, and  *)
(* destroys each frame once, when it is suspended.  main() (InMain) does  *)
(* not go on (cpu.cpp:44, main.cpp:49-62).                                *)
DefinedUntilThrown == At("undefined") => thrown /\ ~InMain

(* When a caller has destroyed the Cpu no frame is left, whether it did   *)
(* so in the middle of an instruction, after it or after a throw          *)
(* (instruction_handler.h:31-35).                                          *)
NothingOutlivesCpu == At("gone") => \A f \in Frames : ~Live(f)

(* Step() runs one instruction at a time, each to its end before the next *)
(* takes its place (cpu.cpp:44-60): the instruction in progress is the    *)
(* frame that m_handler owns.                                             *)
Abstract == INSTANCE Stepping WITH
  Instructions <- Frames,
  current      <- Current,
  cycles       <- Yields,
  finished     <- frame[Current].state = "done",
  failed       <- thrown

ImplementsStepping == Abstract!Spec

(* docs/02-cpu.md:49: "coroutine stores std::exception_ptr, re-thrown in  *)
(* next Step()".  What a body has thrown leaves some Step().              *)
BodyExceptionIsRethrown ==
  \A f \in Frames : frame[f].exception ~> thrown
=============================================================================
