------------------------ MODULE MaskedRegisterProofs ------------------------
(***************************************************************************)
(* Hidden bits stay hidden, until they are counted, for registers of every *)
(* width and every mask.  No arithmetic is needed: a sum of equal bits is  *)
(* the same sum, whatever it is, so each operator needs only that what it  *)
(* reads or what it stores is masked.                                      *)
(***************************************************************************)
EXTENDS MaskedRegister, TLAPS

Contents == mask \subseteq Whole /\ value \subseteq Whole /\ twin \subseteq Whole

MInv ==
  /\ Contents
  /\ counted \in BOOLEAN
  /\ ~counted => Shown(value, Whole) = Shown(twin, Whole)

LEMMA Views == \A v \in View : v \subseteq Whole
  BY DEF View, Whole

LEMMA ShownInViews == MInv => HiddenBitsStayHidden
  BY Views DEF MInv, Shown, HiddenBitsStayHidden, ShowsNoHiddenBit

LEMMA BitsInView ==
  ASSUME NEW s, NEW t, NEW v
  PROVE  Sum(s, t, v) \subseteq v /\ Difference(s, t, v) \subseteq v
  BY DEF Sum, Difference, BitsOf

\* Storing bits that show the same in a view keeps the invariant.  In the
\* whole word, nothing need have been shown the same before.
LEMMA StoreInv ==
  ASSUME MInv, NEW v \in View, NEW a \in SUBSET v, NEW b \in SUBSET v,
         value' = Stored(value, v, a), twin' = Stored(twin, v, b), UNCHANGED mask,
         counted' \in BOOLEAN,
         ~counted' => a \cap mask = b \cap mask /\ (~counted \/ v = Whole)
  PROVE  MInv'
<1>1. v \subseteq Whole
  BY Views
<1>2. Contents'
  BY <1>1 DEF MInv, Contents, Stored
<1>3. ASSUME ~counted'
      PROVE  Shown(value', Whole) = Shown(twin', Whole)
  <2>1. CASE v = Whole
    BY <1>3, <2>1 DEF MInv, Contents, Shown, Stored
  <2>2. CASE ~counted
    BY <1>1, <1>3, <2>2 DEF MInv, Shown, Stored
  <2> QED
    BY <1>3, <2>1, <2>2
<1> QED
  BY <1>2, <1>3 DEF MInv, Shown

\* Counting keeps it where there is nothing hidden.
LEMMA CountInv ==
  ASSUME MInv, UNCHANGED mask, counted' = (counted \/ mask # Whole),
         value' \subseteq Whole, twin' \subseteq Whole,
         value = twin => value' = twin'
  PROVE  MInv'
<1>1. counted' \in BOOLEAN
  BY DEF MInv
<1>2. ASSUME ~counted'
      PROVE  value' = twin'
  BY <1>2 DEF MInv, Contents, Shown
<1> QED
  BY <1>1, <1>2 DEF MInv, Contents, Shown

LEMMA StepInv ==
  ASSUME MInv, Next
  PROVE  MInv'
<1>0. counted \in BOOLEAN
  BY DEF MInv
<1>1. ~counted => \A v \in View : Shown(value, v) = Shown(twin, v)
  BY ShownInViews DEF HiddenBitsStayHidden, ShowsNoHiddenBit
<1>2. CASE Assign
  <2>0. PICK v \in View : \E o \in SUBSET v :
          value' = Assigned(value, v, o) /\ twin' = Assigned(twin, v, o)
          /\ counted' = (counted /\ v # Whole) /\ UNCHANGED mask
    BY <1>2 DEF Assign
  <2>1. PICK o \in SUBSET v :
          value' = Assigned(value, v, o) /\ twin' = Assigned(twin, v, o)
          /\ counted' = (counted /\ v # Whole) /\ UNCHANGED mask
    BY <2>0
  <2>2. counted' \in BOOLEAN /\ (~counted' => ~counted \/ v = Whole)
    BY <1>0, <2>1
  <2> QED
    BY <2>1, <2>2, StoreInv DEF Assigned
<1>3. CASE Add
  <2>0. PICK v \in View : \E o \in SUBSET v :
          value' = Added(value, v, o) /\ twin' = Added(twin, v, o)
          /\ UNCHANGED <<mask, counted>>
    BY <1>3 DEF Add
  <2>1. PICK o \in SUBSET v :
          value' = Added(value, v, o) /\ twin' = Added(twin, v, o)
          /\ UNCHANGED <<mask, counted>>
    BY <2>0
  <2> DEFINE a == Sum(Shown(value, v), o, v) \cap mask
             b == Sum(Shown(twin, v), o, v) \cap mask
  <2>2. ~counted => a = b
    BY <1>1
  <2>3. a \subseteq v /\ b \subseteq v
    BY BitsInView
  <2>4. value' = Stored(value, v, a) /\ twin' = Stored(twin, v, b)
    BY <2>1 DEF Added
  <2> HIDE DEF a, b
  <2> QED
    BY <1>0, <2>1, <2>2, <2>3, <2>4, StoreInv
<1>4. CASE Subtract
  <2>0. PICK v \in View : \E o \in SUBSET v :
          value' = Subtracted(value, v, o) /\ twin' = Subtracted(twin, v, o)
          /\ UNCHANGED <<mask, counted>>
    BY <1>4 DEF Subtract
  <2>1. PICK o \in SUBSET v :
          value' = Subtracted(value, v, o) /\ twin' = Subtracted(twin, v, o)
          /\ UNCHANGED <<mask, counted>>
    BY <2>0
  <2> DEFINE a == Difference(Shown(value, v), o, v) \cap mask
             b == Difference(Shown(twin, v), o, v) \cap mask
  <2>2. ~counted => a = b
    BY <1>1
  <2>3. a \subseteq v /\ b \subseteq v
    BY BitsInView
  <2>4. value' = Stored(value, v, a) /\ twin' = Stored(twin, v, b)
    BY <2>1 DEF Subtracted
  <2> HIDE DEF a, b
  <2> QED
    BY <1>0, <2>1, <2>2, <2>3, <2>4, StoreInv
<1>5. CASE AndAssign
  <2>0. PICK v \in View : \E o \in SUBSET v :
          value' = Anded(value, v, o) /\ twin' = Anded(twin, v, o)
          /\ UNCHANGED <<mask, counted>>
    BY <1>5 DEF AndAssign
  <2>1. PICK o \in SUBSET v :
          value' = Anded(value, v, o) /\ twin' = Anded(twin, v, o)
          /\ UNCHANGED <<mask, counted>>
    BY <2>0
  <2> DEFINE a == value \cap v \cap o \cap mask
             b == twin \cap v \cap o \cap mask
  <2>2. ~counted => a = b
    BY <1>1 DEF Shown
  <2>3. a \subseteq v /\ b \subseteq v
    OBVIOUS
  <2>4. value' = Stored(value, v, a) /\ twin' = Stored(twin, v, b)
    BY <2>1 DEF Anded
  <2> HIDE DEF a, b
  <2> QED
    BY <1>0, <2>1, <2>2, <2>3, <2>4, StoreInv
<1>6. CASE OrAssign
  <2>0. PICK v \in View : \E o \in SUBSET v :
          value' = Ored(value, v, o) /\ twin' = Ored(twin, v, o)
          /\ UNCHANGED <<mask, counted>>
    BY <1>6 DEF OrAssign
  <2>1. PICK o \in SUBSET v :
          value' = Ored(value, v, o) /\ twin' = Ored(twin, v, o)
          /\ UNCHANGED <<mask, counted>>
    BY <2>0
  <2> DEFINE a == ((value \cap v) \cup o) \cap mask
             b == ((twin \cap v) \cup o) \cap mask
  <2>2. ~counted => a = b
    BY <1>1 DEF Shown
  <2>3. a \subseteq v /\ b \subseteq v
    OBVIOUS
  <2>4. value' = Stored(value, v, a) /\ twin' = Stored(twin, v, b)
    BY <2>1 DEF Ored
  <2> HIDE DEF a, b
  <2> QED
    BY <1>0, <2>1, <2>2, <2>3, <2>4, StoreInv
<1>7. CASE XorAssign
  <2>0. PICK v \in View : \E o \in SUBSET v :
          value' = Xored(value, v, o) /\ twin' = Xored(twin, v, o)
          /\ UNCHANGED <<mask, counted>>
    BY <1>7 DEF XorAssign
  <2>1. PICK o \in SUBSET v :
          value' = Xored(value, v, o) /\ twin' = Xored(twin, v, o)
          /\ UNCHANGED <<mask, counted>>
    BY <2>0
  <2> DEFINE a == (((value \cap v) \cup o) \ (value \cap v \cap o)) \cap mask
             b == (((twin \cap v) \cup o) \ (twin \cap v \cap o)) \cap mask
  <2>2. ~counted => a = b
    BY <1>1 DEF Shown
  <2>3. a \subseteq v /\ b \subseteq v
    OBVIOUS
  <2>4. value' = Stored(value, v, a) /\ twin' = Stored(twin, v, b)
    BY <2>1 DEF Xored
  <2> HIDE DEF a, b
  <2> QED
    BY <1>0, <2>1, <2>2, <2>3, <2>4, StoreInv
<1>8. CASE Increment
  <2>1. /\ value' = Incremented(value) /\ twin' = Incremented(twin)
        /\ counted' = (counted \/ mask # Whole) /\ UNCHANGED mask
    BY <1>8 DEF Increment
  <2>2. value' \subseteq Whole /\ twin' \subseteq Whole
    BY <2>1, BitsInView DEF Incremented
  <2> QED
    BY <2>1, <2>2, CountInv
<1>9. CASE Decrement
  <2>1. /\ value' = Decremented(value) /\ twin' = Decremented(twin)
        /\ counted' = (counted \/ mask # Whole) /\ UNCHANGED mask
    BY <1>9 DEF Decrement
  <2>2. value' \subseteq Whole /\ twin' \subseteq Whole
    BY <2>1, BitsInView DEF Decremented
  <2> QED
    BY <2>1, <2>2, CountInv
<1>10. CASE WriteValue
  <2>0. PICK v \in View : \E o, p \in SUBSET v :
          /\ Shown(o, v) = Shown(p, v)
          /\ value' = Stored(value, v, o) /\ twin' = Stored(twin, v, p)
          /\ counted' = (counted /\ v # Whole) /\ UNCHANGED mask
    BY <1>10 DEF WriteValue
  <2>1. PICK o \in SUBSET v, p \in SUBSET v :
          /\ Shown(o, v) = Shown(p, v)
          /\ value' = Stored(value, v, o) /\ twin' = Stored(twin, v, p)
          /\ counted' = (counted /\ v # Whole) /\ UNCHANGED mask
    BY <2>0
  <2>2. o \cap mask = p \cap mask
    BY <2>1 DEF Shown
  <2>3. counted' \in BOOLEAN /\ (~counted' => ~counted \/ v = Whole)
    BY <1>0, <2>1
  <2> QED
    BY <2>1, <2>2, <2>3, StoreInv
<1> QED
  BY <1>2, <1>3, <1>4, <1>5, <1>6, <1>7, <1>8, <1>9, <1>10 DEF Next

LEMMA MaskedInvariance == MInv /\ [Next]_vars => MInv'
<1>1. ASSUME MInv, UNCHANGED vars PROVE MInv'
  BY <1>1 DEF vars, MInv, Contents, Shown
<1> QED
  BY <1>1, StepInv

(* What a register shows does not depend on its hidden bits, until ++ or   *)
(* -- counts with them and again from the next assignment of the word on,  *)
(* for every width of a byte and every mask (register.h:24-146).           *)
THEOREM HiddenBits == Spec => []HiddenBitsStayHidden
<1>1. Init => MInv
  BY DEF Init, MInv, Contents
<1> QED
  BY <1>1, MaskedInvariance, ShownInViews, PTL DEF Spec

(* While callers use ++ and -- only on registers that have no hidden bits, *)
(* as this code does with PC, SP, WZ and HL, what a register shows never   *)
(* depends on hidden bits (load_a16_sp.h:24, register_io_helpers.h:65-71). *)
THEOREM NeverCounted == Spec /\ [][CountsNoHiddenBit]_vars => []ShowsNoHiddenBit
<1>1. Init => MInv /\ ~counted
  BY DEF Init, MInv, Contents
<1>2. MInv /\ ~counted /\ [Next]_vars /\ [CountsNoHiddenBit]_vars => ~counted'
  <2> SUFFICES ASSUME MInv, ~counted, [Next]_vars, [CountsNoHiddenBit]_vars
               PROVE  ~counted'
    OBVIOUS
  <2>1. CASE Increment \/ Decrement
    <3>1. UNCHANGED vars \/ mask = Whole
      BY <2>1 DEF CountsNoHiddenBit
    <3>2. counted' = (counted \/ mask # Whole)
      BY <2>1 DEF Increment, Decrement
    <3> QED
      BY <3>1, <3>2 DEF vars
  <2>2. CASE Assign \/ WriteValue
    BY <2>2 DEF Assign, WriteValue
  <2>3. CASE Add \/ Subtract \/ AndAssign \/ OrAssign \/ XorAssign
    BY <2>3 DEF Add, Subtract, AndAssign, OrAssign, XorAssign
  <2>4. CASE UNCHANGED vars
    BY <2>4 DEF vars
  <2> QED
    BY <2>1, <2>2, <2>3, <2>4 DEF Next
<1>3. MInv /\ ~counted => ShowsNoHiddenBit
  BY ShownInViews DEF HiddenBitsStayHidden
<1> QED
  BY <1>1, <1>2, <1>3, MaskedInvariance, PTL DEF Spec
=============================================================================
