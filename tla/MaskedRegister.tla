--------------------------- MODULE MaskedRegister ---------------------------
(***************************************************************************)
(* Register<T>: a word with a mask, and the two byte views of it.  The     *)
(* bits outside the mask are hidden: operators mask what they read, what   *)
(* they write, or both, each in its own way; .value is the word without    *)
(* its mask, and handlers write the flags through it.                      *)
(*                                                                         *)
(* Bits are hidden if nothing that a register shows ever depends on them.  *)
(* That is a statement about two registers, so there are two here: they    *)
(* have the same mask, show the same bits, and are used in the same way.   *)
(*                                                                         *)
(* ++ and -- count the word as it is, hidden bits included, and let them   *)
(* out; the history variable counted says whether that has happened.       *)
(*                                                                         *)
(* The contents of a register are the set of the positions of its 1 bits.  *)
(***************************************************************************)
EXTENDS Integers

CONSTANT Half  \* the bits of a byte, half of a word (8 in the code)

ASSUME HalfAssumption == Half \in Nat \ {0}

VARIABLES
  mask,   \* of both registers
  value,  \* what backs the one register
  twin,   \* what backs the other
  counted \* history: hidden bits have been counted with, by ++ or --, since
          \* the whole word was last assigned

vars == <<mask, value, twin, counted>>

Lower == 0 .. (Half - 1)
Upper == Half .. (2 * Half - 1)
Whole == Lower \cup Upper

View == {Lower, Upper, Whole}

\* operator T(), and the same of a view.
Shown(x, v) == x \cap v \cap mask

Init ==
  /\ mask \in SUBSET Whole
  /\ value \in SUBSET Whole
  /\ twin \in SUBSET Whole
  /\ Shown(value, Whole) = Shown(twin, Whole)
  /\ counted = FALSE

-----------------------------------------------------------------------------
(* Arithmetic modulo the width of a view *)

Position(i, v) == IF v = Upper THEN i - Half ELSE i

Width(v) == IF v = Whole THEN 2 * Half ELSE Half

BitsOf(n, v) == {i \in v : (n \div 2 ^ Position(i, v)) % 2 = 1}

Number(s, v) == CHOOSE n \in 0 .. (2 ^ Width(v) - 1) : BitsOf(n, v) = s

Sum(s, t, v)        == BitsOf(Number(s, v) + Number(t, v), v)
Difference(s, t, v) == BitsOf(Number(s, v) - Number(t, v), v)

One == BitsOf(1, Whole)

-----------------------------------------------------------------------------
(* What an operator, applied to view v of x with operand o, makes of x *)

Stored(x, v, bits) == (x \ v) \cup bits

Assigned(x, v, o)   == Stored(x, v, o \cap mask)
\* Faulty: the sum takes the bits that are not shown.
AddedUnmasked(x, v, o) == Stored(x, v, Sum(x \cap v, o, v) \cap mask)

Added(x, v, o)      == Stored(x, v, Sum(Shown(x, v), o, v) \cap mask)
Subtracted(x, v, o) == Stored(x, v, Difference(Shown(x, v), o, v) \cap mask)
Anded(x, v, o)      == Stored(x, v, x \cap v \cap o \cap mask)
Ored(x, v, o)       == Stored(x, v, ((x \cap v) \cup o) \cap mask)
Xored(x, v, o)      == Stored(x, v, (((x \cap v) \cup o) \ (x \cap v \cap o)) \cap mask)

\* value++ and value--, which know of no mask.  A std::byte has no ++ and --,
\* so that only the word can be counted.
Incremented(x) == Sum(x, One, Whole)
Decremented(x) == Difference(x, One, Whole)

-----------------------------------------------------------------------------
Assign == \E v \in View : \E o \in SUBSET v :
  /\ value' = Assigned(value, v, o) /\ twin' = Assigned(twin, v, o)
  /\ counted' = (counted /\ v # Whole) /\ UNCHANGED mask

Add == \E v \in View : \E o \in SUBSET v :
  value' = Added(value, v, o) /\ twin' = Added(twin, v, o) /\ UNCHANGED <<mask, counted>>

Subtract == \E v \in View : \E o \in SUBSET v :
  value' = Subtracted(value, v, o) /\ twin' = Subtracted(twin, v, o) /\ UNCHANGED <<mask, counted>>

AndAssign == \E v \in View : \E o \in SUBSET v :
  value' = Anded(value, v, o) /\ twin' = Anded(twin, v, o) /\ UNCHANGED <<mask, counted>>

OrAssign == \E v \in View : \E o \in SUBSET v :
  value' = Ored(value, v, o) /\ twin' = Ored(twin, v, o) /\ UNCHANGED <<mask, counted>>

XorAssign == \E v \in View : \E o \in SUBSET v :
  value' = Xored(value, v, o) /\ twin' = Xored(twin, v, o) /\ UNCHANGED <<mask, counted>>

\* Under any mask.
Increment ==
  /\ value' = Incremented(value) /\ twin' = Incremented(twin)
  /\ counted' = (counted \/ mask # Whole) /\ UNCHANGED mask

Decrement ==
  /\ value' = Decremented(value) /\ twin' = Decremented(twin)
  /\ counted' = (counted \/ mask # Whole) /\ UNCHANGED mask

\* Both registers' value is written with the same bits as far as they are
\* shown, and any others.
WriteValue == \E v \in View : \E o, p \in SUBSET v :
  /\ Shown(o, v) = Shown(p, v)
  /\ value' = Stored(value, v, o) /\ twin' = Stored(twin, v, p)
  /\ counted' = (counted /\ v # Whole) /\ UNCHANGED mask

Next ==
  \/ Assign \/ Add \/ Subtract \/ AndAssign \/ OrAssign \/ XorAssign
  \/ Increment \/ Decrement \/ WriteValue

Spec == Init /\ [][Next]_vars

-----------------------------------------------------------------------------
\* A register shows, as a word and through its byte views, and so yields in
\* sums and differences, nothing that depends on its hidden bits.
ShowsNoHiddenBit == \A v \in View : Shown(value, v) = Shown(twin, v)

(* What a register shows never depends on its hidden bits, whatever they   *)
(* are, whoever writes them through .value and whichever operators follow  *)
(* on the word and on its bytes (register.h:24-89, 101-146), until ++ or   *)
(* -- is applied to a register that has hidden bits (register.h:91-99),    *)
(* and again once the whole word is assigned.                              *)
HiddenBitsStayHidden == ~counted => ShowsNoHiddenBit

\* What the callers see to: of the registers only AF has hidden bits
\* (cpu_registers.h:33), and it is none of those that ++ and -- are applied
\* to: PC, SP, WZ (load_a16_sp.h:24) and HL (register_io_helpers.h:65-71).
CountsNoHiddenBit == Increment \/ Decrement => mask = Whole
=============================================================================
