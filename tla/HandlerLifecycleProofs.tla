----------------------- MODULE HandlerLifecycleProofs -----------------------
(***************************************************************************)
(* For any number of frames, and for both kinds of caller: no frame is     *)
(* lost, shared or destroyed twice, and nothing undefined happens before   *)
(* a Step() has thrown.  For main(), Step() implements Stepping.           *)
(*                                                                         *)
(* The invariant says of each statement who owns what there.               *)
(***************************************************************************)
EXTENDS HandlerLifecycle, TLAPS

State(o) == frame[handle[o]].state

Only(S) == \A o \in Objects : handle[o] # Null <=> o \in S

\* Which handles are not null at a statement, and what their frames do.
Owners ==
  /\ pc \in {"rest", "threw"} =>
       Only({"m_handler"}) /\ State("m_handler") \in {"suspended", "done"}
  /\ pc = "body" => Only({"m_handler"}) /\ State("m_handler") = "running"
  /\ pc = "fetch" => Only({"m_handler"}) /\ State("m_handler") = "done"
  /\ pc = "return" =>
       /\ Only({"m_handler", "returned"})
       /\ State("m_handler") = "done" /\ State("returned") = "suspended"
  /\ pc = "assign" =>
       /\ Only({"m_handler", "result"})
       /\ State("m_handler") = "done" /\ State("result") = "suspended"
  /\ pc = "release" =>
       /\ Only({"m_handler", "result"})
       /\ State("m_handler") = "suspended" /\ State("result") = "done"
  /\ pc = "gone" => Only({})

\* A finished coroutine is left in m_handler only by a throw.
Throws ==
  /\ pc = "rest" /\ State("m_handler") = "done" => thrown /\ ~InMain
  /\ pc = "threw" => thrown
  /\ pc = "undefined" => thrown /\ ~InMain
  /\ InMain /\ thrown => pc = "threw"
  /\ \A f \in Frames : frame[f].exception => frame[f].state = "done"
  /\ pc = "return" => frame[handle["returned"]].yields = 0
  /\ pc = "assign" => frame[handle["result"]].yields = 0

LInv == TypeOK /\ FramesOwnedOnce /\ Owners /\ Throws

-----------------------------------------------------------------------------
LEMMA LInit == Init => LInv
<1> SUFFICES ASSUME Init PROVE LInv
  OBVIOUS
<1>1. PICK f \in Frames :
        /\ frame = [g \in Frames |-> IF g = f THEN InitialSusp ELSE Free]
        /\ handle = [o \in Objects |-> IF o = "m_handler" THEN f ELSE Null]
        /\ pc = "rest"
        /\ thrown = FALSE
  BY DEF Init
<1>2. TypeOK
  <2>1. Free \in FrameType /\ InitialSusp \in FrameType
    BY LifecycleAssumption DEF LifecycleAssumption, FrameType, InitialSusp, Free, Frame
  <2> QED
    BY <1>1, <2>1, LifecycleAssumption DEF LifecycleAssumption, TypeOK, Objects
<1>3. FramesOwnedOnce
  BY <1>1, LifecycleAssumption DEF LifecycleAssumption, FramesOwnedOnce, Live, InitialSusp, Free, Frame, Objects
<1>4. Owners /\ Throws
  BY <1>1, LifecycleAssumption DEF LifecycleAssumption, Owners, Throws, Only, State, InitialSusp, Free, Frame, Objects
<1> QED
  BY <1>2, <1>3, <1>4 DEF LInv

\* Resumption and the body change the current frame and no handle.
LEMMA CurrentStep ==
  ASSUME LInv, handle' = handle, NEW r \in FrameType, r.state # "free",
         pc \in {"rest", "body"}, r.exception => r.state = "done",
         frame' = [frame EXCEPT ![Current] = r]
  PROVE  /\ frame' \in [Frames -> FrameType]
         /\ FramesOwnedOnce'
         /\ Only({"m_handler"})'
         /\ State("m_handler")' = r.state
         /\ \A f \in Frames : frame'[f].exception => frame'[f].state = "done"
<1>1. Only({"m_handler"}) /\ Current \in Frames
  BY DEF LInv, Owners, TypeOK, Current, Only, Objects
<1> QED
  BY <1>1 DEF LInv, TypeOK, FramesOwnedOnce, Live, Only, State, Current, Throws, Objects

LEMMA FrameTypes ==
  \A s \in {"free", "suspended", "running", "done"}, y \in 0 .. MaxYields, e \in BOOLEAN :
    /\ Frame(s, y, e) \in FrameType
    /\ Frame(s, y, e).state = s
    /\ Frame(s, y, e).yields = y
    /\ Frame(s, y, e).exception = e
  BY DEF Frame, FrameType

LEMMA YieldsType ==
  ASSUME LInv, Current \in Frames
  PROVE  Yields \in 0 .. MaxYields
  BY DEF LInv, TypeOK, FrameType, Yields

LEMMA BeginStep ==
  ASSUME LInv, Begin
  PROVE  LInv'
<1>1. CASE Rethrow
  BY <1>1 DEF Rethrow, HasException, Current, At, GoTo, LInv, TypeOK, FramesOwnedOnce, Live,
              Owners, Only, State, Throws, Objects
<1>2. CASE Resume
  <2>1. pc = "rest" /\ Current \in Frames /\ handle' = handle /\ thrown' = thrown
    BY <1>2 DEF Resume, At, LInv, TypeOK, Owners, Only, Current, Objects
  <2>2. CASE frame[Current].state = "suspended"
    <3> DEFINE r == Frame("running", Yields, FALSE)
    <3>1. frame' = [frame EXCEPT ![Current] = r] /\ pc' = "body"
      BY <1>2, <2>1, <2>2, LifecycleAssumption DEF LifecycleAssumption, Resume, Becomes, GoTo
    <3>2. r \in FrameType /\ r.state = "running" /\ r.exception = FALSE
      BY <2>1, YieldsType, FrameTypes
    <3> HIDE DEF r
    <3>3. /\ frame' \in [Frames -> FrameType] /\ FramesOwnedOnce' /\ Only({"m_handler"})'
          /\ State("m_handler")' = "running"
          /\ \A f \in Frames : frame'[f].exception => frame'[f].state = "done"
      BY <2>1, <3>1, <3>2, CurrentStep
    <3>4. ~ (InMain /\ thrown)
      BY <2>1 DEF LInv, Throws
    <3> QED
      BY <2>1, <3>1, <3>3, <3>4 DEF LInv, TypeOK, Owners, Throws, Objects, Only
  <2>3. CASE frame[Current].state # "suspended"
    <3>1. pc' = "undefined" /\ frame' = frame
      BY <1>2, <2>3 DEF Resume, GoTo
    <3>2. thrown /\ ~InMain
      BY <2>1, <2>3 DEF LInv, Owners, Throws, State, Current
    <3> QED
      BY <2>1, <3>1, <3>2 DEF LInv, TypeOK, FramesOwnedOnce, Live, Owners, Throws, Objects
  <2> QED
    BY <2>2, <2>3
<1> QED
  BY <1>1, <1>2 DEF Begin

LEMMA BodyStep ==
  ASSUME LInv, BodyYields \/ BodyReturns \/ BodyThrows
  PROVE  LInv'
<1>1. /\ pc = "body" /\ Current \in Frames /\ handle' = handle /\ thrown' = thrown
      /\ frame[Current].state = "running"
  BY DEF BodyYields, BodyReturns, BodyThrows, At, LInv, TypeOK, Owners, Only, Current, State, Objects
<1>3. ~ (InMain /\ thrown)
  BY <1>1 DEF LInv, Throws
<1>4. CASE BodyYields
  <2> DEFINE r == Frame("suspended", Yields + 1, FALSE)
  <2>1. frame' = [frame EXCEPT ![Current] = r] /\ pc' = "rest" /\ Yields < MaxYields
    BY <1>4 DEF BodyYields, Becomes, GoTo
  <2>3. Yields + 1 \in 0 .. MaxYields
    BY <1>1, <2>1, YieldsType, LifecycleAssumption DEF LifecycleAssumption
  <2>4. r \in FrameType /\ r.state = "suspended" /\ r.exception = FALSE
    <3>1. \A y \in 0 .. MaxYields : LET f == Frame("suspended", y, FALSE)
                                    IN  f \in FrameType /\ f.state = "suspended" /\ f.exception = FALSE
      BY DEF Frame, FrameType
    <3> QED
      BY <2>3, <3>1, Zenon
  <2> HIDE DEF r
  <2>2. /\ frame' \in [Frames -> FrameType] /\ FramesOwnedOnce' /\ Only({"m_handler"})'
        /\ State("m_handler")' = "suspended"
        /\ \A f \in Frames : frame'[f].exception => frame'[f].state = "done"
    BY <1>1, <2>1, <2>4, CurrentStep
  <2> QED
    BY <1>1, <1>3, <2>1, <2>2 DEF LInv, TypeOK, Owners, Throws, Only, Objects
<1>5. CASE BodyReturns \/ BodyThrows
  <2>1. pc' = "fetch"
    BY <1>5 DEF BodyReturns, BodyThrows, GoTo
  <2>2. PICK e \in BOOLEAN : frame' = [frame EXCEPT ![Current] = Frame("done", Yields, e)]
    BY <1>5 DEF BodyReturns, BodyThrows, Becomes
  <2> DEFINE r == Frame("done", Yields, e)
  <2>3. r \in FrameType /\ r.state = "done" /\ r.exception = e
    BY <1>1, YieldsType, FrameTypes
  <2> HIDE DEF r
  <2>4. /\ frame' \in [Frames -> FrameType] /\ FramesOwnedOnce' /\ Only({"m_handler"})'
        /\ State("m_handler")' = "done"
        /\ \A f \in Frames : frame'[f].exception => frame'[f].state = "done"
    BY <1>1, <2>2, <2>3, CurrentStep DEF r
  <2> QED
    BY <1>1, <1>3, <2>1, <2>4 DEF LInv, TypeOK, Owners, Throws, Only, Objects
<1> QED
  BY <1>4, <1>5
\* Dispatch: a throw changes no frame; a new one is in no other object.
LEMMA DispatchStep ==
  ASSUME LInv, DispatchThrows \/ CreateFrame
  PROVE  LInv'
<1>1. /\ pc = "fetch" /\ Only({"m_handler"}) /\ State("m_handler") = "done"
      /\ handle \in [Objects -> Frames \cup {Null}] /\ Current \in Frames
  BY DEF DispatchThrows, CreateFrame, At, LInv, TypeOK, Owners, Only, Current, Objects
<1>2. CASE DispatchThrows
  BY <1>1, <1>2 DEF DispatchThrows, GoTo, LInv, TypeOK, FramesOwnedOnce, Live, Owners, Only,
                    State, Throws, Objects
<1>3. CASE CreateFrame
  <2>1. PICK f \in Frames :
          /\ frame[f].state = "free"
          /\ frame' = [frame EXCEPT ![f] = InitialSusp]
          /\ handle' = [handle EXCEPT !["returned"] = f]
    BY <1>3 DEF CreateFrame, Live
  <2>2. pc' = "return" /\ thrown' = thrown
    BY <1>3 DEF CreateFrame, GoTo
  <2>3. InitialSusp \in FrameType /\ InitialSusp.state = "suspended"
        /\ InitialSusp.exception = FALSE /\ InitialSusp.yields = 0
    BY LifecycleAssumption DEF LifecycleAssumption, InitialSusp, Frame, FrameType
  <2>4. f # Current /\ \A o \in Objects : handle[o] # f
    BY <1>1, <2>1, LifecycleAssumption
       DEF LifecycleAssumption, LInv, FramesOwnedOnce, Live, State, Current, Only, Objects
  <2>5. TypeOK' /\ Owners' /\ Throws'
    BY <1>1, <2>1, <2>2, <2>3, <2>4, LifecycleAssumption
       DEF LifecycleAssumption, LInv, TypeOK, Owners, Only, State, Throws, Current, Objects
  <2>6. FramesOwnedOnce'
    BY <1>1, <2>1, <2>3, <2>4, LifecycleAssumption
       DEF LifecycleAssumption, LInv, TypeOK, FramesOwnedOnce, Live, Only, Objects
  <2> QED
    BY <2>5, <2>6 DEF LInv
<1> QED
  BY <1>2, <1>3

\* A swap permutes the owners.
LEMMA MoveStep ==
  ASSUME LInv, MoveConstruct \/ MoveAssign
  PROVE  LInv'
<1>1. frame' = frame /\ thrown' = thrown /\ handle \in [Objects -> Frames \cup {Null}]
  BY DEF MoveConstruct, MoveAssign, LInv, TypeOK
<1>2. CASE MoveConstruct
  BY <1>1, <1>2 DEF MoveConstruct, At, GoTo, Swapped, LInv, TypeOK, FramesOwnedOnce, Live,
                    Owners, Only, State, Throws, Objects
<1>3. CASE MoveAssign
  BY <1>1, <1>3 DEF MoveAssign, At, GoTo, Swapped, LInv, TypeOK, FramesOwnedOnce, Live,
                    Owners, Only, State, Throws, Objects
<1> QED
  BY <1>2, <1>3

\* A destructor frees the frame of its object, which no other object owns.
LEMMA DestructStep ==
  ASSUME LInv, Release \/ DestroyCpu
  PROVE  LInv'
<1>1. /\ handle \in [Objects -> Frames \cup {Null}] /\ frame \in [Frames -> FrameType]
      /\ Free \in FrameType /\ Free.state = "free" /\ Free.exception = FALSE
      /\ thrown' = thrown
  BY LifecycleAssumption DEF LifecycleAssumption, LInv, TypeOK, Free, Frame, FrameType, Release, DestroyCpu
<1>2. CASE Release
  <2>1. pc = "release" /\ Destruct("result", "rest") /\ Destroyable(handle["result"])
    BY <1>2, LifecycleAssumption
       DEF LifecycleAssumption, Release, At, LInv, Owners, Only, State, Destroyable, Objects
  <2>2. /\ handle' = [handle EXCEPT !["result"] = Null]
        /\ frame' = [frame EXCEPT ![handle["result"]] = Free]
        /\ pc' = "rest"
    BY <2>1 DEF Destruct, GoTo
  <2>3. /\ handle["result"] \in Frames /\ Current \in Frames /\ Current # handle["result"]
        /\ Only({"m_handler", "result"}) /\ State("m_handler") = "suspended"
        /\ ~ (InMain /\ thrown)
    BY <1>1, <2>1, LifecycleAssumption
       DEF LifecycleAssumption, LInv, Owners, Only, State, Throws, Current, Objects
  <2>4. TypeOK' /\ Owners' /\ Throws'
    BY <1>1, <2>1, <2>2, <2>3 DEF LInv, TypeOK, Owners, Only, State, Throws, Current, Objects
  <2>5. FramesOwnedOnce'
    BY <1>1, <2>1, <2>2, <2>3, LifecycleAssumption
       DEF LifecycleAssumption, LInv, FramesOwnedOnce, Live, Only, Current, Objects
  <2> QED
    BY <2>4, <2>5 DEF LInv
<1>3. CASE DestroyCpu
  <2>1. /\ pc \in {"rest", "threw"} /\ ~InMain /\ Destruct("m_handler", "gone")
        /\ Destroyable(handle["m_handler"])
    BY <1>3, LifecycleAssumption
       DEF LifecycleAssumption, DestroyCpu, LInv, Owners, Only, State, Destroyable, Objects
  <2>2. /\ handle' = [handle EXCEPT !["m_handler"] = Null]
        /\ frame' = [frame EXCEPT ![handle["m_handler"]] = Free]
        /\ pc' = "gone"
    BY <2>1 DEF Destruct, GoTo
  <2> QED
    BY <1>1, <2>1, <2>2 DEF LInv, TypeOK, FramesOwnedOnce, Live, Owners, Only, State, Throws, Objects
<1> QED
  BY <1>2, <1>3

LEMMA LNext == LInv /\ [Next]_vars => LInv'
<1> SUFFICES ASSUME LInv, [Next]_vars PROVE LInv'
  OBVIOUS
<1>1. CASE Inside
  BY <1>1, BodyStep, DispatchStep, MoveStep, DestructStep DEF Inside
<1>2. CASE StepOn
  BY <1>2 DEF StepOn, At, GoTo, LInv, TypeOK, FramesOwnedOnce, Live, Owners, Only, State, Throws, Objects
<1>3. CASE UNCHANGED vars
  BY <1>3 DEF vars, LInv, TypeOK, FramesOwnedOnce, Live, Owners, Only, State, Throws
<1> QED
  BY <1>1, <1>2, <1>3, BeginStep, DestructStep DEF Next, Ended

(* The invariant holds of the specification, for any number of frames and *)
(* for both kinds of caller.                                               *)
THEOREM LifecycleInvariance == Spec => []LInv
  BY LInit, LNext, PTL DEF Spec

(* Every handle refers to a frame or to none, and every frame is in a      *)
(* state that a coroutine can be in, at every statement (cpu.cpp:36-61).   *)
THEOREM TypeCorrectness == Spec => []TypeOK
<1>1. LInv => TypeOK
  BY DEF LInv
<1> QED
  BY <1>1, LifecycleInvariance, PTL

(* Step() owns each coroutine frame exactly once at every statement:      *)
(* nothing is lost, shared or dangling (instruction_handler.h:31-49).     *)
THEOREM Ownership == Spec => []FramesOwnedOnce
<1>1. LInv => FramesOwnedOnce
  BY DEF LInv
<1> QED
  BY <1>1, LifecycleInvariance, PTL

(* Until a Step() has thrown, and for main() ever, Step() does nothing    *)
(* that C++ leaves undefined (cpu.cpp:36-61).                             *)
THEOREM Defined == Spec => []DefinedUntilThrown
<1>1. LInv => DefinedUntilThrown
  BY DEF LInv, Throws, DefinedUntilThrown, At
<1> QED
  BY <1>1, LifecycleInvariance, PTL

(* Destroying the Cpu between two Steps leaves no frame behind            *)
(* (instruction_handler.h:31-35).                                         *)
THEOREM Released == Spec => []NothingOutlivesCpu
<1>1. LInv => NothingOutlivesCpu
  BY LifecycleAssumption DEF LifecycleAssumption, LInv, FramesOwnedOnce, Owners, Only, NothingOutlivesCpu, At
<1> QED
  BY <1>1, LifecycleInvariance, PTL
-----------------------------------------------------------------------------
(* The frame of m_handler as the instruction in progress *)

LEMMA AbstractInit == Init => Abstract!Init
<1> SUFFICES ASSUME Init PROVE Abstract!Init
  OBVIOUS
<1>1. PICK f \in Frames :
        /\ frame = [g \in Frames |-> IF g = f THEN InitialSusp ELSE Free]
        /\ handle = [o \in Objects |-> IF o = "m_handler" THEN f ELSE Null]
        /\ thrown = FALSE
  BY DEF Init
<1>2. Current = f /\ frame[f] = InitialSusp
  BY <1>1 DEF Current, Objects
<1> QED
  BY <1>1, <1>2 DEF Abstract!Init, Yields, InitialSusp, Frame

LEMMA BodySimulates ==
  ASSUME LInv, BodyYields \/ BodyReturns \/ BodyThrows
  PROVE  Abstract!Next
<1>1. /\ Current \in Frames /\ frame \in [Frames -> FrameType]
      /\ frame[Current].state = "running"
  BY DEF BodyYields, BodyReturns, BodyThrows, At, LInv, TypeOK, Owners, Only, Current, State, Objects
<1>2. Current' = Current /\ thrown' = thrown
  BY DEF BodyYields, BodyReturns, BodyThrows, Current
<1>3. CASE BodyYields
  <2>1. frame'[Current] = Frame("suspended", Yields + 1, FALSE)
    BY <1>1, <1>3 DEF BodyYields, Becomes
  <2> QED
    BY <1>1, <1>2, <1>3, <2>1 DEF Abstract!Next, Abstract!Advance, BodyYields, Yields, Frame
<1>4. CASE BodyReturns \/ BodyThrows
  <2>1. PICK e \in BOOLEAN : frame'[Current] = Frame("done", Yields, e)
    BY <1>1, <1>4 DEF BodyReturns, BodyThrows, Becomes
  <2> QED
    BY <1>1, <1>2, <2>1 DEF Abstract!Next, Abstract!Finish, Yields, Frame
<1> QED
  BY <1>3, <1>4

LEMMA StepSimulates ==
  ASSUME InMain, LInv, [Next]_vars
  PROVE  [Abstract!Next]_(Abstract!vars)
<1>1. CASE Begin
  <2>1. /\ pc = "rest" /\ Current \in Frames /\ frame[Current].state = "suspended"
        /\ frame \in [Frames -> FrameType]
    BY <1>1 DEF Begin, Rethrow, Resume, At, LInv, TypeOK, Owners, Throws, Only, Current, State, Objects
  <2>2. Resume
    BY <1>1, <2>1 DEF Begin, Rethrow, HasException, LInv, Throws, Current
  <2>3. frame' = [frame EXCEPT ![Current] = Frame("running", Yields, FALSE)]
    BY <2>1, <2>2, LifecycleAssumption DEF LifecycleAssumption, Resume, Becomes
  <2>4. handle' = handle /\ thrown' = thrown
    BY <2>2 DEF Resume
  <2>5. /\ Current' = Current /\ frame'[Current].state = "running" /\ Yields' = Yields
    BY <2>1, <2>3, <2>4 DEF Current, Yields, Frame
  <2> QED
    BY <2>1, <2>4, <2>5 DEF Abstract!vars
<1>2. CASE BodyYields \/ BodyReturns \/ BodyThrows
  BY <1>2, BodySimulates
<1>3. CASE DispatchThrows
  <2>1. frame[Current].state = "done" /\ ~thrown /\ thrown' = TRUE
    BY <1>3 DEF DispatchThrows, At, LInv, TypeOK, Owners, Throws, State, Current
  <2>2. UNCHANGED <<Current, Yields, frame>>
    BY <1>3 DEF DispatchThrows, Current, Yields
  <2> QED
    BY <2>1, <2>2 DEF Abstract!Next, Abstract!Fail
<1>4. CASE CreateFrame \/ MoveConstruct \/ Release
  <2>1. pc \in {"fetch", "return", "release"} /\ Current \in Frames /\ Live(Current)
    BY <1>4 DEF CreateFrame, MoveConstruct, Release, At, LInv, TypeOK, Owners, Only, State, Current,
                Live, Objects
  <2>2. Current' = Current /\ thrown' = thrown
    BY <1>4, <2>1 DEF CreateFrame, MoveConstruct, Release, Destruct, Swapped, Current, LInv, TypeOK, Objects
  <2>3. frame'[Current] = frame[Current]
    <3>1. CASE CreateFrame
      BY <2>1, <3>1 DEF CreateFrame, LInv, TypeOK
    <3>2. CASE MoveConstruct
      BY <3>2 DEF MoveConstruct
    <3>3. CASE Release
      <4>1. Current # handle["result"]
        BY <3>3, LifecycleAssumption
           DEF LifecycleAssumption, Release, At, LInv, Owners, State, Current
      <4> QED
        BY <2>1, <3>3, <4>1 DEF Release, Destruct, LInv, TypeOK
    <3> QED
      BY <1>4, <3>1, <3>2, <3>3
  <2> QED
    BY <2>2, <2>3 DEF Abstract!vars, Yields
<1>5. CASE MoveAssign
  <2>1. /\ pc = "assign" /\ frame[Current].state = "done" /\ ~thrown
        /\ frame[handle["result"]].state = "suspended" /\ handle["result"] \in Frames
    BY <1>5 DEF MoveAssign, At, LInv, TypeOK, Owners, Throws, Only, State, Current, Objects
  <2>2. Current' = handle["result"] /\ frame' = frame /\ thrown' = thrown
    BY <1>5 DEF MoveAssign, Swapped, Current, LInv, TypeOK, Objects
  <2>3. frame[handle["result"]].yields = 0
    BY <2>1 DEF LInv, Throws
  <2> QED
    BY <2>1, <2>2, <2>3 DEF Abstract!Next, Abstract!Replace, Yields
<1>6. CASE UNCHANGED vars
  BY <1>6 DEF vars, Abstract!vars, Current, Yields
<1> QED
  BY <1>1, <1>2, <1>3, <1>4, <1>5, <1>6
     DEF Next, Inside, StepOn, DestroyCpu, Ended

(* Called by main(), Step() runs one instruction at a time, each to its   *)
(* end before the next takes its place (cpu.cpp:36-61): every statement   *)
(* is a step of Stepping or leaves its state alone.                        *)
THEOREM StepImplements ==
  ASSUME InMain
  PROVE  Spec => Abstract!Init /\ [][Abstract!Next]_(Abstract!vars)
  BY LifecycleInvariance, AbstractInit, StepSimulates, PTL DEF Spec
=============================================================================
