---------------------------- MODULE CpuRegisters ----------------------------
(***************************************************************************)
(* The CPU's register file (cpu_registers.h): 16-bit backing stores, on    *)
(* which the 8-bit registers are views of the upper or the lower byte.     *)
(*                                                                         *)
(* A register file r is a function from the names of the 16-bit registers  *)
(* to words.  Register.value is the stored number; assigning to it writes  *)
(* the number as it is, whereas assigning to the Register itself masks it  *)
(* first.  Only AF has a mask that differs from all ones: the low four     *)
(* bits of F do not exist.                                                 *)
(***************************************************************************)
EXTENDS Bytes

Register16 == {"AF", "BC", "DE", "HL", "WZ", "PC", "SP"}
Register8  == {"A", "B", "C", "D", "E", "H", "L"}

RegisterFile == [Register16 -> Word]

\* The backing register of an 8-bit view, and the views of an upper byte.
Whole(n) == CASE n \in {"A", "F"} -> "AF"
              [] n \in {"B", "C"} -> "BC"
              [] n \in {"D", "E"} -> "DE"
              [] n \in {"H", "L"} -> "HL"
              [] OTHER            -> "WZ"

UpperByte == {"A", "B", "D", "H", "W"}

Value8(r, n) == IF n \in UpperByte THEN High(r[Whole(n)]) ELSE Low(r[Whole(n)])

\* register.value = v
AssignValue8(r, n, v) ==
  [r EXCEPT ![Whole(n)] = IF n \in UpperByte THEN Pair(v, Low(@)) ELSE Pair(High(@), v)]

\* register = v, which keeps the bits of the register's mask.
Masked(v) == v - (v % 16)

Assign8(r, n, v) == AssignValue8(r, n, IF n = "F" THEN Masked(v) ELSE v)

\* Faulty: a 16-bit assignment that does not mask.
Assign16Unmasked(r, n, v) == [r EXCEPT ![n] = v]

Assign16(r, n, v) == [r EXCEPT ![n] = IF n = "AF" THEN Masked(v) ELSE v]

\* register++, register--, += 1 and -= 1 wrap around.
Bump(r, n, by) == [r EXCEPT ![n] = (@ + by) % 65536]

-----------------------------------------------------------------------------
(***************************************************************************)
(* The flags: their positions in F, and the functions of flag_helpers.h    *)
(* that derive them from a result.                                         *)
(***************************************************************************)
Zero      == 7
Subtract  == 6
HalfCarry == 5
Carry     == 4

FlagPositions == {Zero, Subtract, HalfCarry, Carry}

Flags(r) == Bits(Value8(r, "F")) \cap FlagPositions

\* flags.value = the flags in S
AssignFlags(r, S) == AssignValue8(r, "F", FromBits(S))

CarryIn(r) == Carry \in Flags(r)

FlagIf(flag, condition) == IF condition THEN {flag} ELSE {}

ZeroFlag(x)      == FlagIf(Zero, x.result = 0)
HalfCarryFlag(x) == FlagIf(HalfCarry, 3 \in x.carryBits)
CarryFlag(x)     == FlagIf(Carry, 7 \in x.carryBits)

AdditionFlags(x)    == ZeroFlag(x) \cup HalfCarryFlag(x) \cup CarryFlag(x)
SubtractionFlags(x) == {Subtract} \cup AdditionFlags(x)
AndFlags(x)         == ZeroFlag(x) \cup {HalfCarry}
OrFlags(x)          == ZeroFlag(x)

\* The conditions of flags_based_predicates.h.
Condition == {"Always", "NonZero", "Zero", "NonCarry", "Carry"}

Holds(condition, r) ==
  CASE condition = "NonZero"  -> Zero \notin Flags(r)
    [] condition = "Zero"     -> Zero \in Flags(r)
    [] condition = "NonCarry" -> Carry \notin Flags(r)
    [] condition = "Carry"    -> Carry \in Flags(r)
    [] OTHER                  -> TRUE

-----------------------------------------------------------------------------
(***************************************************************************)
(* The operands ExecuteMathOperandR and ExecuteMathN8 are instantiated     *)
(* with: the operation on two bytes, and what it makes of the registers    *)
(* when the accumulator is its left operand.                               *)
(***************************************************************************)
MathOperation == {"Add", "Adc", "Sub", "Sbc", "And", "Xor", "Or", "Cp"}

NoCarry(v) == [result |-> v, carryBits |-> {}]

Compute(operation, left, right, carryIn) ==
  CASE operation = "Add"          -> AddWithCarry(left, right)
    [] operation = "Adc"          -> AddWithCarryIn(left, right, carryIn)
    [] operation \in {"Sub", "Cp"} -> SubWithBorrow(left, right)
    [] operation = "Sbc"          -> SubWithBorrowIn(left, right, carryIn)
    [] operation = "And"          -> NoCarry(And(left, right))
    [] operation = "Xor"          -> NoCarry(Xor(left, right))
    [] operation = "Or"           -> NoCarry(Or(left, right))

OperationFlags(operation, x) ==
  CASE operation \in {"Add", "Adc"}       -> AdditionFlags(x)
    [] operation \in {"Sub", "Sbc", "Cp"} -> SubtractionFlags(x)
    [] operation = "And"                  -> AndFlags(x)
    [] OTHER                              -> OrFlags(x)

\* sink names the register that takes the result: A, or Z for CP r and CP n.
Math(r, operation, right, sink) ==
  LET x == Compute(operation, Value8(r, "A"), right, CarryIn(r))
  IN  AssignFlags(Assign8(r, sink, x.result), OperationFlags(operation, x))

Sink(operation) == IF operation = "Cp" THEN "Z" ELSE "A"

\* INC r and DEC r leave the carry flag as it was.
Increment(r, n) ==
  LET x == AddWithCarry(Value8(r, n), 1)
  IN  AssignFlags(Assign8(r, n, x.result),
                  (Flags(r) \cap {Carry}) \cup ZeroFlag(x) \cup HalfCarryFlag(x))

\* Faulty: DEC r clears the carry flag.
DecrementClearingCarry(r, n) ==
  LET x == SubWithBorrow(Value8(r, n), 1)
  IN  AssignFlags(Assign8(r, n, x.result), {Subtract} \cup ZeroFlag(x) \cup HalfCarryFlag(x))

Decrement(r, n) ==
  LET x == SubWithBorrow(Value8(r, n), 1)
  IN  AssignFlags(Assign8(r, n, x.result),
                  (Flags(r) \cap {Carry}) \cup {Subtract} \cup ZeroFlag(x) \cup HalfCarryFlag(x))
=============================================================================
