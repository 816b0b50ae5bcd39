------------------------------- MODULE Bytes -------------------------------
(***************************************************************************)
(* utilitylib: arithmetic on bytes, and the carry and borrow bits from     *)
(* which the CPU derives its HalfCarry and Carry flags.                    *)
(*                                                                         *)
(* A byte is a number; a byte that is only used as a bit mask (the carry   *)
(* bits, a set of flags) is the set of the positions of its 1 bits, so     *)
(* that & is \cap, | is \cup and "& ~" is set difference.                  *)
(***************************************************************************)
EXTENDS Integers

Byte == 0 .. 255
Word == {w \in Nat : w < 65536}

BitIndex == 0 .. 7

\* The value of bit i of a byte.
BitMask(i) == <<1, 2, 4, 8, 16, 32, 64, 128>>[i + 1]

\* The positions of the 1 bits of byte x, and the byte with the 1 bits S.
Bits(x) == {i \in BitIndex : (x \div BitMask(i)) % 2 = 1}

FromBits(S) ==
  LET bit(i) == IF i \in S THEN BitMask(i) ELSE 0
  IN  bit(0) + bit(1) + bit(2) + bit(3) + bit(4) + bit(5) + bit(6) + bit(7)

And(x, y) == FromBits(Bits(x) \cap Bits(y))
Or(x, y)  == FromBits(Bits(x) \cup Bits(y))
Xor(x, y) == FromBits((Bits(x) \cup Bits(y)) \ (Bits(x) \cap Bits(y)))
Complement(x) == 255 - x

High(w) == w \div 256
Low(w)  == w % 256
Pair(hi, lo) == 256 * hi + lo

-----------------------------------------------------------------------------
\* A carry leaves bit i when both operands have the bit, or one of them has
\* it and the sum does not.
AddWithCarry(left, right) ==
  LET sum == (left + right) % 256
  IN  [result    |-> sum,
       carryBits |-> (Bits(left) \cap Bits(right))
                       \cup ((Bits(left) \cup Bits(right)) \ Bits(sum))]

\* The carry-in is added in a second addition, whose carries are added to
\* those of the first.
AddWithCarryIn(left, right, carryIn) ==
  LET first  == AddWithCarry(left, right)
      second == AddWithCarry(first.result, 1)
  IN  IF carryIn
        THEN [result    |-> second.result,
              carryBits |-> first.carryBits \cup second.carryBits]
        ELSE first

\* A borrow enters bit i when only the subtrahend has the bit, or when the
\* operands agree there and the difference has the bit.
SubWithBorrow(left, right) ==
  LET difference == (left - right) % 256
      gamma      == Bits(right) \ Bits(left)
      pi         == (BitIndex \ Bits(left)) \cup Bits(right)
  IN  [result    |-> difference,
       carryBits |-> gamma \cup (pi \cap Bits(difference))]

SubWithBorrowIn(left, right, borrowIn) ==
  LET first  == SubWithBorrow(left, right)
      second == SubWithBorrow(first.result, 1)
  IN  IF borrowIn
        THEN [result    |-> second.result,
              carryBits |-> first.carryBits \cup second.carryBits]
        ELSE first
=============================================================================
