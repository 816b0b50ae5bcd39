----------------------------- MODULE CpuProofs -----------------------------
(***************************************************************************)
(* What the operators of utilitylib compute, for every byte, and what the  *)
(* operations on the register file preserve: every register fits its width *)
(* and the low four bits of F stay zero.                                   *)
(*                                                                         *)
(* From that, type correctness of the CPU, and the low four bits of F, for *)
(* every program, every size of the RAM and every run.  The two are proved *)
(* together: that F stays clean needs what a handler has read to be a      *)
(* byte, and that registers keep their width needs nothing else, but the   *)
(* operations on the register file preserve both at once (CleanFile).      *)
(***************************************************************************)
EXTENDS Cpu, TLAPS

(* utilitylib *)

LEMMA BitMasks == BitMask(3) = 8 /\ BitMask(7) = 128
  BY DEF BitMask

LEMMA BitsOf ==
  ASSUME NEW b \in Byte
  PROVE  /\ 3 \in Bits(b) <=> b % 16 >= 8
         /\ 7 \in Bits(b) <=> b >= 128
  BY BitMasks DEF Bits, BitIndex, Byte

LEMMA FromBitsType ==
  ASSUME NEW S
  PROVE  FromBits(S) \in Byte
  BY DEF FromBits, BitMask, Byte

LEMMA FromHighBits ==
  ASSUME NEW S, S \cap (0 .. 3) = {}
  PROVE  FromBits(S) % 16 = 0
<1>1. 0 \notin S /\ 1 \notin S /\ 2 \notin S /\ 3 \notin S
  OBVIOUS
<1>2. BitMask(4) = 16 /\ BitMask(5) = 32 /\ BitMask(6) = 64 /\ BitMask(7) = 128
  BY DEF BitMask
<1> QED
  BY <1>1, <1>2 DEF FromBits

LEMMA LogicType ==
  ASSUME NEW a, NEW b
  PROVE  And(a, b) \in Byte /\ Or(a, b) \in Byte /\ Xor(a, b) \in Byte
  BY FromBitsType DEF And, Or, Xor

\* A byte is the sum of its bits, so or-ing nothing to it changes nothing.
LEMMA FromItsBits ==
  ASSUME NEW b \in Byte
  PROVE  FromBits(Bits(b)) = b
<1>1. /\ BitMask(0) = 1 /\ BitMask(1) = 2 /\ BitMask(2) = 4 /\ BitMask(3) = 8
      /\ BitMask(4) = 16 /\ BitMask(5) = 32 /\ BitMask(6) = 64 /\ BitMask(7) = 128
  BY DEF BitMask
<1>2. /\ 0 \in Bits(b) <=> b % 2 = 1
      /\ 1 \in Bits(b) <=> (b \div 2) % 2 = 1
      /\ 2 \in Bits(b) <=> (b \div 4) % 2 = 1
      /\ 3 \in Bits(b) <=> (b \div 8) % 2 = 1
      /\ 4 \in Bits(b) <=> (b \div 16) % 2 = 1
      /\ 5 \in Bits(b) <=> (b \div 32) % 2 = 1
      /\ 6 \in Bits(b) <=> (b \div 64) % 2 = 1
      /\ 7 \in Bits(b) <=> (b \div 128) % 2 = 1
  BY <1>1 DEF Bits, BitIndex, Byte
<1> QED
  BY <1>1, <1>2 DEF FromBits, Byte

LEMMA OrNothing ==
  ASSUME NEW b \in Byte
  PROVE  Or(b, 0) = b
<1>1. \A i \in 0 .. 7 : BitMask(i) \in Nat \ {0}
  BY DEF BitMask
<1>2. Bits(0) = {}
  BY <1>1 DEF Bits, BitIndex
<1> QED
  BY <1>2, FromItsBits DEF Or

LEMMA WordParts ==
  /\ \A w \in Word : High(w) \in Byte /\ Low(w) \in Byte
  /\ \A h, l \in Byte : Pair(h, l) \in Word /\ High(Pair(h, l)) = h /\ Low(Pair(h, l)) = l
<1>1. ASSUME NEW w \in Word
      PROVE  High(w) \in Byte /\ Low(w) \in Byte
  BY DEF Word, Byte, High, Low
<1>2. ASSUME NEW h \in Byte, NEW l \in Byte
      PROVE  Pair(h, l) \in Word /\ High(Pair(h, l)) = h /\ Low(Pair(h, l)) = l
  <2>1. 256 * h + l \in Word
    BY DEF Word, Byte
  <2>2. (256 * h + l) \div 256 = h /\ (256 * h + l) % 256 = l
    BY DEF Byte
  <2> QED
    BY <2>1, <2>2 DEF High, Low, Pair
<1> QED
  BY <1>1, <1>2

LEMMA SumType ==
  ASSUME NEW l \in Byte, NEW r \in Byte
  PROVE  AddWithCarry(l, r).result \in Byte /\ SubWithBorrow(l, r).result \in Byte
  BY DEF AddWithCarry, SubWithBorrow, Byte

LEMMA SumInType ==
  ASSUME NEW l \in Byte, NEW r \in Byte, NEW c
  PROVE  AddWithCarryIn(l, r, c).result \in Byte /\ SubWithBorrowIn(l, r, c).result \in Byte
<1>1. 1 \in Byte
  BY DEF Byte
<1>2. /\ AddWithCarry(AddWithCarry(l, r).result, 1).result \in Byte
      /\ SubWithBorrow(SubWithBorrow(l, r).result, 1).result \in Byte
  BY <1>1, SumType
<1> HIDE DEF AddWithCarry, SubWithBorrow
<1> QED
  BY <1>2, SumType DEF AddWithCarryIn, SubWithBorrowIn
-----------------------------------------------------------------------------
(* AddWithCarry (add_with_carry.h:15): bit 3 of carryBits, from which the  *)
(* HalfCarry flag is set, is the carry out of the low nibbles, and bit 7,  *)
(* the Carry flag's, the carry out of the bytes.                           *)
THEOREM AddCarry ==
  ASSUME NEW l \in Byte, NEW r \in Byte
  PROVE  /\ AddWithCarry(l, r).result = (l + r) % 256
         /\ 3 \in AddWithCarry(l, r).carryBits <=> (l % 16) + (r % 16) >= 16
         /\ 7 \in AddWithCarry(l, r).carryBits <=> l + r >= 256
<1> DEFINE s == (l + r) % 256
<1>1. s \in Byte
  BY DEF Byte
<1>2. /\ AddWithCarry(l, r).result = s
      /\ AddWithCarry(l, r).carryBits = (Bits(l) \cap Bits(r)) \cup ((Bits(l) \cup Bits(r)) \ Bits(s))
  BY DEF AddWithCarry
<1> HIDE DEF s
<1>3. 3 \in AddWithCarry(l, r).carryBits <=>
        \/ l % 16 >= 8 /\ r % 16 >= 8
        \/ (l % 16 >= 8 \/ r % 16 >= 8) /\ ~(s % 16 >= 8)
  BY <1>1, <1>2, BitsOf
<1>4. 7 \in AddWithCarry(l, r).carryBits <=>
        \/ l >= 128 /\ r >= 128
        \/ (l >= 128 \/ r >= 128) /\ ~(s >= 128)
  BY <1>1, <1>2, BitsOf
<1> QED
  BY <1>2, <1>3, <1>4 DEF s, Byte

(* SubWithBorrow (sub_with_borrow.h:16): bit 3 of carryBits is the borrow  *)
(* into the low nibble, bit 7 the borrow into the byte.                    *)
THEOREM SubBorrow ==
  ASSUME NEW l \in Byte, NEW r \in Byte
  PROVE  /\ SubWithBorrow(l, r).result = (l - r) % 256
         /\ 3 \in SubWithBorrow(l, r).carryBits <=> l % 16 < r % 16
         /\ 7 \in SubWithBorrow(l, r).carryBits <=> l < r
<1> DEFINE d == (l - r) % 256
<1>1. d \in Byte
  BY DEF Byte
<1>2. /\ SubWithBorrow(l, r).result = d
      /\ SubWithBorrow(l, r).carryBits
           = (Bits(r) \ Bits(l)) \cup (((BitIndex \ Bits(l)) \cup Bits(r)) \cap Bits(d))
  BY DEF SubWithBorrow
<1>3. 3 \in BitIndex /\ 7 \in BitIndex
  BY DEF BitIndex
<1> HIDE DEF d
<1>4. 3 \in SubWithBorrow(l, r).carryBits <=>
        \/ r % 16 >= 8 /\ ~(l % 16 >= 8)
        \/ (~(l % 16 >= 8) \/ r % 16 >= 8) /\ d % 16 >= 8
  BY <1>1, <1>2, <1>3, BitsOf
<1>5. 7 \in SubWithBorrow(l, r).carryBits <=>
        \/ r >= 128 /\ ~(l >= 128)
        \/ (~(l >= 128) \/ r >= 128) /\ d >= 128
  BY <1>1, <1>2, <1>3, BitsOf
<1>6. l \in 0 .. 255 /\ r \in 0 .. 255
  BY DEF Byte
<1>7. (l >= r /\ d = l - r) \/ (l < r /\ d = l - r + 256)
  BY <1>6 DEF d
<1>8. 7 \in SubWithBorrow(l, r).carryBits <=> l < r
  BY <1>5, <1>6, <1>7
<1>9. 3 \in SubWithBorrow(l, r).carryBits <=> l % 16 < r % 16
  <2>1. \/ (l % 16 >= r % 16) /\ d % 16 = (l % 16) - (r % 16)
        \/ (l % 16 < r % 16) /\ d % 16 = (l % 16) - (r % 16) + 16
    <3>1. CASE l >= r
      BY <1>6, <1>7, <3>1
    <3>2. CASE l < r
      BY <1>6, <1>7, <3>2
    <3> QED
      BY <1>6, <3>1, <3>2
  <2>2. l % 16 \in 0 .. 15 /\ r % 16 \in 0 .. 15
    BY <1>6
  <2> QED
    BY <1>4, <2>1, <2>2
<1>10. SubWithBorrow(l, r).result = (l - r) % 256
  BY <1>2 DEF d
<1> QED
  BY <1>8, <1>9, <1>10

(* AddWithCarryIn (add_with_carry.h:24): the carries of the two additions  *)
(* it makes, taken together, are those of the sum of all three numbers.    *)
THEOREM AddCarryIn ==
  ASSUME NEW l \in Byte, NEW r \in Byte
  PROVE  LET x == AddWithCarryIn(l, r, TRUE)
         IN  /\ x.result = (l + r + 1) % 256
             /\ 3 \in x.carryBits <=> (l % 16) + (r % 16) + 1 >= 16
             /\ 7 \in x.carryBits <=> l + r + 1 >= 256
<1> DEFINE f == AddWithCarry(l, r).result
           g == AddWithCarry(f, 1)
           x == AddWithCarryIn(l, r, TRUE)
<1>1. f \in Byte
  BY SumType
<1>7. 1 \in Byte
  BY DEF Byte
<1>2. /\ f = (l + r) % 256
      /\ 3 \in AddWithCarry(l, r).carryBits <=> (l % 16) + (r % 16) >= 16
      /\ 7 \in AddWithCarry(l, r).carryBits <=> l + r >= 256
  BY AddCarry
<1>3. /\ g.result = (f + 1) % 256
      /\ 3 \in g.carryBits <=> (f % 16) + 1 >= 16
      /\ 7 \in g.carryBits <=> f + 1 >= 256
  <2> HIDE DEF f
  <2>1. /\ g.result = (f + 1) % 256
        /\ 3 \in g.carryBits <=> (f % 16) + (1 % 16) >= 16
        /\ 7 \in g.carryBits <=> f + 1 >= 256
    BY <1>1, <1>7, AddCarry
  <2> QED
    BY <2>1
<1>4. x.result = g.result /\ x.carryBits = AddWithCarry(l, r).carryBits \cup g.carryBits
  BY DEF AddWithCarryIn
<1> HIDE DEF f, g, x
<1>5. /\ x.result = (f + 1) % 256
      /\ 3 \in x.carryBits <=> (l % 16) + (r % 16) >= 16 \/ (f % 16) + 1 >= 16
      /\ 7 \in x.carryBits <=> l + r >= 256 \/ f + 1 >= 256
  BY <1>2, <1>3, <1>4
<1>6. /\ x.result = (l + r + 1) % 256
      /\ 3 \in x.carryBits <=> (l % 16) + (r % 16) + 1 >= 16
      /\ 7 \in x.carryBits <=> l + r + 1 >= 256
  <2>1. l \in 0 .. 255 /\ r \in 0 .. 255
    BY DEF Byte
  <2>2. (l + r < 256 /\ f = l + r) \/ (l + r >= 256 /\ f = l + r - 256)
    BY <1>2, <2>1
  <2>3. (f + 1) % 256 = (l + r + 1) % 256
    BY <2>1, <2>2
  <2>4. l + r >= 256 \/ f + 1 >= 256 <=> l + r + 1 >= 256
    BY <2>1, <2>2
  <2>5. \/ (l % 16) + (r % 16) < 16 /\ f % 16 = (l % 16) + (r % 16)
        \/ (l % 16) + (r % 16) >= 16 /\ f % 16 = (l % 16) + (r % 16) - 16
    <3>1. CASE l + r < 256
      BY <2>1, <2>2, <3>1
    <3>2. CASE l + r >= 256
      BY <2>1, <2>2, <3>2
    <3> QED
      BY <2>1, <3>1, <3>2
  <2>6. l % 16 \in 0 .. 15 /\ r % 16 \in 0 .. 15
    BY <2>1
  <2>7. (l % 16) + (r % 16) >= 16 \/ (f % 16) + 1 >= 16 <=> (l % 16) + (r % 16) + 1 >= 16
    BY <2>5, <2>6
  <2> QED
    BY <1>5, <2>3, <2>4, <2>7
<1> QED
  BY <1>6 DEF x

(* SubWithBorrowIn (sub_with_borrow.h:28): likewise for subtraction.       *)
THEOREM SubBorrowIn ==
  ASSUME NEW l \in Byte, NEW r \in Byte
  PROVE  LET x == SubWithBorrowIn(l, r, TRUE)
         IN  /\ x.result = (l - r - 1) % 256
             /\ 3 \in x.carryBits <=> l % 16 < (r % 16) + 1
             /\ 7 \in x.carryBits <=> l < r + 1
<1> DEFINE f == SubWithBorrow(l, r).result
           g == SubWithBorrow(f, 1)
           x == SubWithBorrowIn(l, r, TRUE)
<1>1. f \in Byte
  BY SumType
<1>7. 1 \in Byte
  BY DEF Byte
<1>2. /\ f = (l - r) % 256
      /\ 3 \in SubWithBorrow(l, r).carryBits <=> l % 16 < r % 16
      /\ 7 \in SubWithBorrow(l, r).carryBits <=> l < r
  BY SubBorrow
<1>3. /\ g.result = (f - 1) % 256
      /\ 3 \in g.carryBits <=> f % 16 < 1
      /\ 7 \in g.carryBits <=> f < 1
  <2> HIDE DEF f
  <2>1. /\ g.result = (f - 1) % 256
        /\ 3 \in g.carryBits <=> f % 16 < 1 % 16
        /\ 7 \in g.carryBits <=> f < 1
    BY <1>1, <1>7, SubBorrow
  <2> QED
    BY <2>1
<1>4. x.result = g.result /\ x.carryBits = SubWithBorrow(l, r).carryBits \cup g.carryBits
  BY DEF SubWithBorrowIn
<1> HIDE DEF f, g, x
<1>5. /\ x.result = (f - 1) % 256
      /\ 3 \in x.carryBits <=> l % 16 < r % 16 \/ f % 16 < 1
      /\ 7 \in x.carryBits <=> l < r \/ f < 1
  BY <1>2, <1>3, <1>4
<1>6. /\ x.result = (l - r - 1) % 256
      /\ 3 \in x.carryBits <=> l % 16 < (r % 16) + 1
      /\ 7 \in x.carryBits <=> l < r + 1
  <2>1. l \in 0 .. 255 /\ r \in 0 .. 255
    BY DEF Byte
  <2>2. (l >= r /\ f = l - r) \/ (l < r /\ f = l - r + 256)
    BY <1>2, <2>1
  <2>3. (f - 1) % 256 = (l - r - 1) % 256
    BY <2>1, <2>2
  <2>4. l < r \/ f < 1 <=> l < r + 1
    BY <2>1, <2>2
  <2>5. \/ (l % 16 >= r % 16) /\ f % 16 = (l % 16) - (r % 16)
        \/ (l % 16 < r % 16) /\ f % 16 = (l % 16) - (r % 16) + 16
    <3>1. CASE l >= r
      BY <2>1, <2>2, <3>1
    <3>2. CASE l < r
      BY <2>1, <2>2, <3>2
    <3> QED
      BY <2>1, <3>1, <3>2
  <2>6. l % 16 \in 0 .. 15 /\ r % 16 \in 0 .. 15
    BY <2>1
  <2>7. l % 16 < r % 16 \/ f % 16 < 1 <=> l % 16 < (r % 16) + 1
    BY <2>5, <2>6
  <2> QED
    BY <1>5, <2>3, <2>4, <2>7
<1> QED
  BY <1>6 DEF x
-----------------------------------------------------------------------------
(* The register file *)

\* The register files whose F has no bit that does not exist.
CleanFile == {r \in RegisterFile : r["AF"] % 16 = 0}

\* The 8-bit views other than F.
Plain8 == Register8 \cup {"W", "Z"}

LEMMA Value8Type ==
  ASSUME NEW r \in CleanFile, NEW n
  PROVE  Value8(r, n) \in Byte
<1>1. r \in [Register16 -> Word] /\ Whole(n) \in Register16
  BY DEF CleanFile, RegisterFile, Whole, Register16
<1>2. r[Whole(n)] \in Word
  BY <1>1
<1>3. High(r[Whole(n)]) \in Byte /\ Low(r[Whole(n)]) \in Byte
  BY <1>2, WordParts
<1> QED
  BY <1>3 DEF Value8

LEMMA Assign8Clean ==
  ASSUME NEW r \in CleanFile, NEW n \in Plain8, NEW v \in Byte
  PROVE  Assign8(r, n, v) \in CleanFile
<1> DEFINE whole == Whole(n)
           w == IF n \in UpperByte THEN Pair(v, Low(r[whole])) ELSE Pair(High(r[whole]), v)
<1>1. r \in [Register16 -> Word] /\ r["AF"] % 16 = 0 /\ "AF" \in Register16
  BY DEF CleanFile, RegisterFile, Register16
<1>2. n # "F" /\ whole \in Register16 /\ (whole = "AF" => n = "A")
  BY DEF Plain8, Register8, Whole, Register16
<1>3. r[whole] \in Word
  BY <1>1, <1>2
<1>4. High(r[whole]) \in Byte /\ Low(r[whole]) \in Byte
  BY <1>3, WordParts
<1>5. w \in Word
  BY <1>4, WordParts
<1>6. Assign8(r, n, v) = [r EXCEPT ![whole] = w]
  BY <1>1, <1>2 DEF Assign8, AssignValue8
<1>7. n = "A" => w % 16 = 0
  <2>1. ASSUME n = "A"
        PROVE  w = 256 * v + (r["AF"] % 256)
    BY <2>1 DEF UpperByte, Whole, Pair, Low
  <2>2. r["AF"] \in Word /\ r["AF"] % 16 = 0
    BY <1>1
  <2>3. (r["AF"] % 256) % 16 = 0
    BY <2>2 DEF Word
  <2>4. (256 * v + (r["AF"] % 256)) % 16 = 0
    BY <2>2, <2>3 DEF Word, Byte
  <2> QED
    BY <2>1, <2>4
<1> HIDE DEF w, whole
<1>8. [r EXCEPT ![whole] = w] \in [Register16 -> Word]
  BY <1>1, <1>2, <1>5
<1>9. [r EXCEPT ![whole] = w]["AF"] % 16 = 0
  BY <1>1, <1>2, <1>7
<1> QED
  BY <1>6, <1>8, <1>9 DEF CleanFile, RegisterFile

LEMMA AssignFClean ==
  ASSUME NEW r \in CleanFile, NEW v \in Byte, v % 16 = 0
  PROVE  AssignValue8(r, "F", v) \in CleanFile
<1> DEFINE w == Pair(High(r["AF"]), v)
<1>1. r \in [Register16 -> Word] /\ "AF" \in Register16
  BY DEF CleanFile, RegisterFile, Register16
<1>2. High(r["AF"]) \in Byte
  BY <1>1, WordParts
<1>3. w \in Word
  BY <1>2, WordParts
<1>4. w % 16 = 0
  BY <1>2 DEF Pair, Byte
<1>5. AssignValue8(r, "F", v) = [r EXCEPT !["AF"] = w]
  BY <1>1 DEF AssignValue8, Whole, UpperByte
<1> HIDE DEF w
<1> QED
  BY <1>1, <1>3, <1>4, <1>5 DEF CleanFile, RegisterFile

LEMMA Assign8FClean ==
  ASSUME NEW r \in CleanFile, NEW v \in Byte
  PROVE  Assign8(r, "F", v) \in CleanFile
<1>1. Masked(v) \in Byte /\ Masked(v) % 16 = 0
  BY DEF Masked, Byte
<1> QED
  BY <1>1, AssignFClean DEF Assign8

LEMMA AssignFlagsClean ==
  ASSUME NEW r \in CleanFile, NEW S, S \subseteq FlagPositions
  PROVE  AssignFlags(r, S) \in CleanFile
<1>1. S \cap (0 .. 3) = {}
  BY DEF FlagPositions, Zero, Subtract, HalfCarry, Carry
<1>2. FromBits(S) \in Byte /\ FromBits(S) % 16 = 0
  BY <1>1, FromBitsType, FromHighBits
<1> QED
  BY <1>2, AssignFClean DEF AssignFlags

LEMMA Assign16Clean ==
  ASSUME NEW r \in CleanFile, NEW n \in Register16, NEW w \in Word
  PROVE  Assign16(r, n, w) \in CleanFile
<1> DEFINE v == IF n = "AF" THEN Masked(w) ELSE w
<1>1. Masked(w) \in Word /\ Masked(w) % 16 = 0
  BY DEF Masked, Word
<1>2. v \in Word /\ (n = "AF" => v % 16 = 0)
  BY <1>1
<1>3. Assign16(r, n, w) = [r EXCEPT ![n] = v]
  BY DEF Assign16
<1> HIDE DEF v
<1> QED
  BY <1>2, <1>3 DEF CleanFile, RegisterFile, Register16

LEMMA BumpClean ==
  ASSUME NEW r \in CleanFile, NEW n \in Register16 \ {"AF"}, NEW by \in Int
  PROVE  Bump(r, n, by) \in CleanFile
<1>1. r \in [Register16 -> Word]
  BY DEF CleanFile, RegisterFile
<1>2. (r[n] + by) % 65536 \in Word
  BY <1>1 DEF Word
<1>3. Bump(r, n, by) = [r EXCEPT ![n] = (r[n] + by) % 65536]
  BY <1>1 DEF Bump
<1> DEFINE v == (r[n] + by) % 65536
<1> HIDE DEF v
<1>4. v \in Word /\ Bump(r, n, by) = [r EXCEPT ![n] = v]
  BY <1>2, <1>3 DEF v
<1> QED
  BY <1>1, <1>4 DEF CleanFile, RegisterFile, Register16
-----------------------------------------------------------------------------
(* The operations of the arithmetic handlers. *)

LEMMA FlagSets ==
  ASSUME NEW x
  PROVE  /\ ZeroFlag(x) \subseteq FlagPositions
         /\ HalfCarryFlag(x) \subseteq FlagPositions
         /\ CarryFlag(x) \subseteq FlagPositions
         /\ \A o : OperationFlags(o, x) \subseteq FlagPositions
<1>1. /\ ZeroFlag(x) \subseteq FlagPositions
      /\ HalfCarryFlag(x) \subseteq FlagPositions
      /\ CarryFlag(x) \subseteq FlagPositions
      /\ {Subtract} \subseteq FlagPositions /\ {HalfCarry} \subseteq FlagPositions
  BY DEF ZeroFlag, HalfCarryFlag, CarryFlag, FlagIf, FlagPositions
<1>2. /\ AdditionFlags(x) \subseteq FlagPositions /\ SubtractionFlags(x) \subseteq FlagPositions
      /\ AndFlags(x) \subseteq FlagPositions /\ OrFlags(x) \subseteq FlagPositions
  BY <1>1 DEF AdditionFlags, SubtractionFlags, AndFlags, OrFlags
<1> QED
  BY <1>1, <1>2, Zenon DEF OperationFlags

LEMMA ComputeType ==
  ASSUME NEW o \in MathOperation, NEW l \in Byte, NEW r \in Byte, NEW c
  PROVE  Compute(o, l, r, c).result \in Byte
<1>1. /\ AddWithCarry(l, r).result \in Byte
      /\ AddWithCarryIn(l, r, c).result \in Byte
      /\ SubWithBorrow(l, r).result \in Byte
      /\ SubWithBorrowIn(l, r, c).result \in Byte
  BY SumType, SumInType
<1>2. /\ NoCarry(And(l, r)).result \in Byte
      /\ NoCarry(Or(l, r)).result \in Byte
      /\ NoCarry(Xor(l, r)).result \in Byte
  BY LogicType DEF NoCarry
<1> QED
  BY <1>1, <1>2 DEF Compute, MathOperation

LEMMA MathClean ==
  ASSUME NEW r \in CleanFile, NEW o \in MathOperation, NEW v \in Byte, NEW n \in Plain8
  PROVE  Math(r, o, v, n) \in CleanFile
<1> DEFINE x == Compute(o, Value8(r, "A"), v, CarryIn(r))
<1>1. x.result \in Byte
  BY Value8Type, ComputeType
<1>2. Math(r, o, v, n) = AssignFlags(Assign8(r, n, x.result), OperationFlags(o, x))
  BY DEF Math
<1> HIDE DEF x
<1>3. Assign8(r, n, x.result) \in CleanFile
  BY <1>1, Assign8Clean
<1> QED
  BY <1>2, <1>3, FlagSets, AssignFlagsClean

LEMMA IncDecClean ==
  ASSUME NEW r \in CleanFile, NEW n \in Plain8
  PROVE  Increment(r, n) \in CleanFile /\ Decrement(r, n) \in CleanFile
<1> DEFINE a == AddWithCarry(Value8(r, n), 1)
           s == SubWithBorrow(Value8(r, n), 1)
           aFlags == (Flags(r) \cap {Carry}) \cup ZeroFlag(a) \cup HalfCarryFlag(a)
           sFlags == (Flags(r) \cap {Carry}) \cup {Subtract} \cup ZeroFlag(s) \cup HalfCarryFlag(s)
<1>1. 1 \in Byte
  BY DEF Byte
<1>2. a.result \in Byte /\ s.result \in Byte
  BY <1>1, Value8Type, SumType
<1>3. aFlags \subseteq FlagPositions /\ sFlags \subseteq FlagPositions
  <2>1. {Carry} \subseteq FlagPositions /\ {Subtract} \subseteq FlagPositions
    BY DEF FlagPositions
  <2> HIDE DEF a, s
  <2> QED
    BY <2>1, FlagSets
<1>4. /\ Increment(r, n) = AssignFlags(Assign8(r, n, a.result), aFlags)
      /\ Decrement(r, n) = AssignFlags(Assign8(r, n, s.result), sFlags)
  BY DEF Increment, Decrement
<1> HIDE DEF a, s, aFlags, sFlags
<1>5. Assign8(r, n, a.result) \in CleanFile /\ Assign8(r, n, s.result) \in CleanFile
  BY <1>2, Assign8Clean
<1> QED
  BY <1>3, <1>4, <1>5, AssignFlagsClean

-----------------------------------------------------------------------------
(* The CPU *)

ImeState  == {"DISABLED", "PENDING", "ENABLED"}
RamImage  == [RamAddress -> Byte]
Coroutine == [body : Handlers, at : 1 .. 6, local : Byte]

IInv ==
  /\ BusTypeOK
  /\ reg \in CleanFile
  /\ ime \in ImeState
  /\ ir \in Byte
  /\ handler \in Coroutine
  /\ status \in {"running", "threw"}
  /\ ReportedOpcode

LEMMA IInvMeans == IInv <=> TypeOK /\ FlagsLowNibbleZero /\ ReportedOpcode
  BY DEF IInv, TypeOK, FlagsLowNibbleZero, CleanFile, ImeState, Coroutine

LEMMA ReadType ==
  ASSUME NEW a
  PROVE  BusRead(a) \in Byte
  BY LogicType DEF BusRead

LEMMA WriteType ==
  ASSUME IInv, NEW a, NEW v \in Byte
  PROVE  BusWrite(a, v) \in RamImage
  BY DEF IInv, BusTypeOK, BusWrite, RamImage

LEMMA RegisterTypes ==
  ASSUME IInv
  PROVE  /\ reg \in CleanFile
         /\ \A n : R8(n) \in Byte
         /\ \A n \in Register16 : reg[n] \in Word /\ High(reg[n]) \in Byte /\ Low(reg[n]) \in Byte
<1>1. reg \in CleanFile
  BY DEF IInv
<1>2. \A n \in Register16 : reg[n] \in Word
  BY <1>1 DEF CleanFile, RegisterFile
<1> QED
  BY <1>1, <1>2, Value8Type, WordParts DEF R8
-----------------------------------------------------------------------------
(* What every handler is made of preserves the invariant. *)

LEMMA SuspendInv ==
  ASSUME IInv, status = "running", NEW k, NEW next \in 1 .. 6, NEW r \in CleanFile, NEW i \in ImeState,
         NEW m \in RamImage, NEW local \in Byte,
         Suspend(k, next, r, i, m, local)
  PROVE  IInv'
<1>1. reg' = r /\ ime' = i /\ ram' = m /\ rom' = rom /\ ir' = ir /\ status' = status
  BY DEF Suspend
<1>2. handler' = [handler EXCEPT !.at = next, !.local = local]
  BY DEF Suspend
<1>3. handler' \in Coroutine
  BY <1>2 DEF IInv, Coroutine
<1>4. BusTypeOK'
  BY <1>1 DEF IInv, BusTypeOK, RamImage
<1> QED
  BY <1>1, <1>3, <1>4 DEF IInv, ReportedOpcode

LEMMA YieldInv ==
  ASSUME IInv, status = "running", NEW k \in 1 .. 5, NEW r \in CleanFile, Yield(k, r)
  PROVE  IInv'
<1>1. ram \in RamImage /\ ime \in ImeState /\ handler.local \in Byte /\ k + 1 \in 1 .. 6
  BY DEF IInv, BusTypeOK, RamImage, Coroutine
<1> QED
  BY <1>1, SuspendInv DEF Yield

LEMMA YieldWritingInv ==
  ASSUME IInv, status = "running", NEW k \in 1 .. 5, NEW a, NEW v \in Byte, NEW r \in CleanFile,
         YieldWriting(k, a, v, r)
  PROVE  IInv'
<1>1. BusWrite(a, v) \in RamImage /\ ime \in ImeState /\ handler.local \in Byte /\ k + 1 \in 1 .. 6
  BY WriteType DEF IInv, Coroutine
<1> QED
  BY <1>1, SuspendInv DEF YieldWriting

\* The opcode just read selects a coroutine of the table, or nothing does.
LEMMA ReturnInv ==
  ASSUME IInv, status = "running", NEW k, NEW r \in CleanFile, NEW i \in ImeState, Return(k, r, i)
  PROVE  IInv'
<1> DEFINE opcode == BusRead(r["PC"])
           h      == OpcodeHandlers[opcode]
<1>1. opcode \in Byte
  BY ReadType
<1>2. /\ ime' = Promote(i) /\ ir' = opcode /\ reg' = Bump(r, "PC", 1)
      /\ rom' = rom /\ ram' = ram /\ Dispatch(h)
  BY DEF Return
<1>3. ime' \in ImeState
  BY <1>2 DEF Promote, ImeState
<1>4. reg' \in CleanFile
  BY <1>2, BumpClean DEF Register16
<1>5. h \notin Throwing => h \in Handlers
  BY <1>1 DEF Handlers
<1> HIDE DEF opcode, h
<1>6. h \in Handlers => Created(h) \in Coroutine
  BY DEF Created, Coroutine, Byte
<1>7. handler' \in Coroutine /\ status' \in {"running", "threw"}
  BY <1>2, <1>5, <1>6 DEF Dispatch, IInv
<1>8. BusTypeOK'
  BY <1>2 DEF IInv, BusTypeOK
<1>9. ReportedOpcode'
  <2>1. r["PC"] \in Word /\ reg'["PC"] = (r["PC"] + 1) % 65536
    BY <1>2 DEF CleanFile, RegisterFile, Register16, Bump
  <2>2. (reg'["PC"] - 1) % 65536 = r["PC"]
    BY <2>1 DEF Word
  <2>3. BusRead((reg["PC"] - 1) % 65536)' = BusRead(r["PC"])
    BY <1>2, <2>2 DEF BusRead, CartridgeRead, RamRead
  <2>4. ir' = BusRead((reg["PC"] - 1) % 65536)'
    BY <1>2, <2>3 DEF opcode
  <2>5. status' = "threw" => OpcodeHandlers[ir'] \in Throwing
    BY <1>2 DEF Dispatch, opcode, h
  <2> QED
    BY <2>4, <2>5 DEF ReportedOpcode
<1> QED
  BY <1>1, <1>2, <1>3, <1>4, <1>7, <1>8, <1>9 DEF IInv

LEMMA OperandInv ==
  ASSUME IInv, status = "running", NEW k \in 1 .. 5, NEW n \in {"W", "Z"}, Operand(k, n) \/ PopByte(k, n)
  PROVE  IInv'
<1>1. n \in Plain8 /\ {"PC", "SP"} \subseteq Register16 \ {"AF"}
  BY DEF Plain8, Register16
<1>2. \A a : Assign8(reg, n, BusRead(a)) \in CleanFile
  BY <1>1, ReadType, RegisterTypes, Assign8Clean
<1>3. \A a : /\ Bump(Assign8(reg, n, BusRead(a)), "PC", 1) \in CleanFile
             /\ Bump(Assign8(reg, n, BusRead(a)), "SP", 1) \in CleanFile
  BY <1>1, <1>2, BumpClean
<1> QED
  BY <1>3, YieldInv DEF Operand, PopByte
-----------------------------------------------------------------------------
(* The handlers, one step each. *)

LEMMA LoadStepInv ==
  ASSUME IInv, status = "running", LoadStep
  PROVE  IInv'
<1>1. /\ reg \in CleanFile
      /\ ime \in ImeState
      /\ ram \in RamImage
      /\ handler.local \in Byte
      /\ \A n : R8(n) \in Byte
  BY RegisterTypes DEF IInv, BusTypeOK, RamImage, Coroutine
<1>2. Pair16 \subseteq Register16 \ {"AF"} /\ StackedPair \subseteq Register16 /\ Register8 \subseteq Plain8
  BY DEF Pair16, StackedPair, Register16, Plain8
<1>3. /\ \A n \in Register16 : reg[n] \in Word /\ High(reg[n]) \in Byte /\ Low(reg[n]) \in Byte
      /\ {"WZ", "PC", "SP", "HL"} \subseteq Register16 \ {"AF"}
  BY RegisterTypes DEF Register16
<1>4. {"A", "L", "H", "Z"} \subseteq Plain8
  BY DEF Plain8, Register8
<1>5. CASE NoopStep
  BY <1>1, <1>5, ReturnInv DEF NoopStep
<1>6. CASE LoadRegReg
  <2>1. PICK d, s \in Register8 : Return(1, Assign8(reg, d, R8(s)), ime)
    BY <1>6 DEF LoadRegReg
  <2>2. Assign8(reg, d, R8(s)) \in CleanFile
    BY <1>1, <1>2, Assign8Clean
  <2> QED
    BY <1>1, <2>1, <2>2, ReturnInv
<1>7. CASE LoadRegN8
  <2>1. PICK d \in Register8 : Operand(1, "Z") \/ Return(2, Assign8(reg, d, R8("Z")), ime)
    BY <1>7 DEF LoadRegN8
  <2>2. Assign8(reg, d, R8("Z")) \in CleanFile
    BY <1>1, <1>2, Assign8Clean
  <2> QED
    BY <1>1, <2>1, <2>2, OperandInv, ReturnInv
<1>8. CASE LoadRegN16
  <2>1. PICK d \in Pair16 : \/ Operand(1, "Z")
                            \/ Operand(2, "W")
                            \/ Return(3, Assign16(reg, d, reg["WZ"]), ime)
    BY <1>8 DEF LoadRegN16
  <2>2. Assign16(reg, d, reg["WZ"]) \in CleanFile
    BY <1>1, <1>2, <1>3, Assign16Clean
  <2> QED
    BY <1>1, <2>1, <2>2, OperandInv, ReturnInv
<1>9. CASE LoadIndirectFrom
  <2>1. PICK a \in Pair16, s \in Register8, by \in {-1, 0, 1} :
          \/ YieldWriting(1, reg[a], Value8(Bump(reg, a, by), s), Bump(reg, a, by))
          \/ Return(2, reg, ime)
    BY <1>9 DEF LoadIndirectFrom
  <2>2. Bump(reg, a, by) \in CleanFile
    BY <1>1, <1>2, BumpClean
  <2>3. Value8(Bump(reg, a, by), s) \in Byte
    BY <2>2, Value8Type
  <2> QED
    BY <1>1, <2>1, <2>2, <2>3, YieldWritingInv, ReturnInv
<1>10. CASE LoadRIndirectRr
  <2>1. PICK d \in Register8, a \in Pair16, by \in {-1, 0, 1} :
          \/ Suspend(1, 2, Bump(reg, a, by), ime, ram, BusRead(reg[a]))
          \/ Return(2, Assign8(reg, d, handler.local), ime)
    BY <1>10 DEF LoadRIndirectRr
  <2>2. Bump(reg, a, by) \in CleanFile
    BY <1>1, <1>2, BumpClean
  <2>3. Assign8(reg, d, handler.local) \in CleanFile
    BY <1>1, <1>2, Assign8Clean
  <2> QED
    BY <1>1, <2>1, <2>2, <2>3, ReadType, SuspendInv, ReturnInv
<1>11. CASE LoadIndirectHlN8
  BY <1>1, <1>11, OperandInv, YieldWritingInv, ReturnInv DEF LoadIndirectHlN8
<1>12. CASE LoadA16SP
  <2>1. Bump(reg, "WZ", 1) \in CleanFile
    BY <1>1, <1>3, BumpClean
  <2> QED
    BY <1>1, <1>3, <1>12, <2>1, OperandInv, YieldWritingInv, ReturnInv DEF LoadA16SP
<1>13. CASE LoadIndirectA8FromA
  BY <1>1, <1>13, OperandInv, YieldWritingInv, ReturnInv DEF LoadIndirectA8FromA
<1>14. CASE LoadIndirectA16FromA
  BY <1>1, <1>14, OperandInv, YieldWritingInv, ReturnInv DEF LoadIndirectA16FromA
<1>15. CASE LoadIndirectCFromA
  BY <1>1, <1>15, YieldWritingInv, ReturnInv DEF LoadIndirectCFromA
<1>16. /\ \A a : Assign8(reg, "Z", BusRead(a)) \in CleanFile /\ Assign8(reg, "A", BusRead(a)) \in CleanFile
       /\ Assign8(reg, "A", R8("Z")) \in CleanFile
  BY <1>1, <1>4, ReadType, Assign8Clean
<1>17. CASE LoadAFromIndirectA8
  BY <1>1, <1>16, <1>17, OperandInv, YieldInv, ReturnInv DEF LoadAFromIndirectA8
<1>18. CASE LoadAFromIndirectA16
  BY <1>1, <1>16, <1>18, OperandInv, YieldInv, ReturnInv DEF LoadAFromIndirectA16
<1>19. CASE LoadAFromIndirectC
  BY <1>1, <1>16, <1>19, YieldInv, ReturnInv DEF LoadAFromIndirectC
<1>20. CASE LoadReg16Reg16
  <2>1. PICK d, s \in Pair16 : Yield(1, Assign16(reg, d, reg[s])) \/ Return(2, reg, ime)
    BY <1>20 DEF LoadReg16Reg16
  <2>2. Assign16(reg, d, reg[s]) \in CleanFile
    BY <1>1, <1>2, <1>3, Assign16Clean
  <2> QED
    BY <1>1, <2>1, <2>2, YieldInv, ReturnInv
<1>21. CASE LoadSPFromHlPlusE8
  <2> DEFINE sum   == AddWithCarry(Low(reg["SP"]), R8("Z"))
             flags == FromBits(HalfCarryFlag(sum) \cup CarryFlag(sum))
             high  == (High(reg["SP"]) + (IF handler.local > 0 THEN \hFF ELSE 0)
                         + (IF CarryIn(reg) THEN 1 ELSE 0)) % 256
  <2>1. \/ Operand(1, "Z")
        \/ Suspend(2, 3, Assign8(Assign8(reg, "L", sum.result), "F", flags), ime, ram, And(\h80, R8("Z")))
        \/ Return(3, Assign8(reg, "H", high), ime)
    BY <1>21 DEF LoadSPFromHlPlusE8
  <2>2. sum.result \in Byte
    BY <1>1, <1>3, SumType
  <2>3. high \in Byte
    BY <1>3 DEF Byte
  <2>4. flags \in Byte /\ And(\h80, R8("Z")) \in Byte
    BY FromBitsType, LogicType
  <2> HIDE DEF sum, flags, high
  <2>5. Assign8(Assign8(reg, "L", sum.result), "F", flags) \in CleanFile
    BY <1>1, <1>4, <2>2, <2>4, Assign8Clean, Assign8FClean
  <2>6. Assign8(reg, "H", high) \in CleanFile
    BY <1>1, <1>4, <2>3, Assign8Clean
  <2> QED
    BY <1>1, <2>1, <2>4, <2>5, <2>6, OperandInv, SuspendInv, ReturnInv
<1>22. CASE PushRr
  <2>1. PICK s \in StackedPair : \/ Yield(1, Bump(reg, "SP", -1))
                                 \/ YieldWriting(2, reg["SP"], High(reg[s]), Bump(reg, "SP", -1))
                                 \/ YieldWriting(3, reg["SP"], Low(reg[s]), reg)
                                 \/ Return(4, reg, ime)
    BY <1>22 DEF PushRr
  <2>2. Bump(reg, "SP", -1) \in CleanFile
    BY <1>1, <1>3, BumpClean
  <2> QED
    BY <1>1, <1>2, <1>3, <2>1, <2>2, YieldInv, YieldWritingInv, ReturnInv
<1>23. CASE PopRr
  <2>1. PICK d \in StackedPair : \/ PopByte(1, "Z")
                                 \/ PopByte(2, "W")
                                 \/ Return(3, Assign16(reg, d, reg["WZ"]), ime)
    BY <1>23 DEF PopRr
  <2>2. Assign16(reg, d, reg["WZ"]) \in CleanFile
    BY <1>1, <1>2, <1>3, Assign16Clean
  <2> QED
    BY <1>1, <2>1, <2>2, OperandInv, ReturnInv
<1> QED
  BY <1>5, <1>6, <1>7, <1>8, <1>9, <1>10, <1>11, <1>12, <1>13, <1>14, <1>15, <1>17, <1>18,
     <1>19, <1>20, <1>21, <1>22, <1>23 DEF LoadStep

LEMMA MathStepInv ==
  ASSUME IInv, status = "running", MathStep
  PROVE  IInv'
<1>1. /\ reg \in CleanFile
      /\ ime \in ImeState
      /\ \A n : R8(n) \in Byte
  BY RegisterTypes DEF IInv
<1>2. Pair16 \subseteq Register16 \ {"AF"} /\ Register8 \subseteq Plain8 /\ {"A", "Z"} \subseteq Plain8
  BY DEF Pair16, Register16, Register8, Plain8
<1>3. \A o \in MathOperation : Sink(o) \in Plain8
  BY <1>2 DEF Sink
<1>4. CASE MathOperandR
  <2>1. PICK o \in MathOperation, s \in Register8 : Return(1, Math(reg, o, R8(s), Sink(o)), ime)
    BY <1>4 DEF MathOperandR
  <2>2. Math(reg, o, R8(s), Sink(o)) \in CleanFile
    BY <1>1, <1>3, MathClean
  <2> QED
    BY <1>1, <2>1, <2>2, ReturnInv
<1>5. CASE MathN8
  <2>1. PICK o \in MathOperation : Operand(1, "Z") \/ Return(2, Math(reg, o, R8("Z"), Sink(o)), ime)
    BY <1>5 DEF MathN8
  <2>2. Math(reg, o, R8("Z"), Sink(o)) \in CleanFile
    BY <1>1, <1>3, MathClean
  <2> QED
    BY <1>1, <2>1, <2>2, OperandInv, ReturnInv
<1>6. CASE MathIndirectHL
  <2> DEFINE flags(o) == OperationFlags(o, Compute(o, R8("A"), R8("Z"), CarryIn(reg)))
  <2>1. PICK o \in MathOperation : \/ Yield(1, Assign8(reg, "Z", BusRead(reg["HL"])))
                                   \/ Return(2, Math(reg, o, R8("Z"), "A"), ime)
                                   \/ Return(2, AssignFlags(reg, flags(o)), ime)
    BY <1>6 DEF MathIndirectHL
  <2>2. Assign8(reg, "Z", BusRead(reg["HL"])) \in CleanFile
    BY <1>1, <1>2, ReadType, Assign8Clean
  <2>3. Math(reg, o, R8("Z"), "A") \in CleanFile
    BY <1>1, <1>2, MathClean
  <2>4. AssignFlags(reg, flags(o)) \in CleanFile
    BY <1>1, FlagSets, AssignFlagsClean
  <2> QED
    BY <1>1, <2>1, <2>2, <2>3, <2>4, YieldInv, ReturnInv
<1>7. CASE IncR
  <2>1. PICK n \in Register8 : Return(1, Increment(reg, n), ime)
    BY <1>7 DEF IncR
  <2> QED
    BY <1>1, <1>2, <2>1, IncDecClean, ReturnInv
<1>8. CASE DecR
  <2>1. PICK n \in Register8 : Return(1, Decrement(reg, n), ime)
    BY <1>8 DEF DecR
  <2> QED
    BY <1>1, <1>2, <2>1, IncDecClean, ReturnInv
<1>9. CASE IncRR
  <2>1. PICK n \in Pair16 : Yield(1, Bump(reg, n, 1)) \/ Return(2, reg, ime)
    BY <1>9 DEF IncRR
  <2> QED
    BY <1>1, <1>2, <2>1, BumpClean, YieldInv, ReturnInv
<1>10. CASE DecRR
  <2>1. PICK n \in Pair16 : Yield(1, Bump(reg, n, -1)) \/ Return(2, reg, ime)
    BY <1>10 DEF DecRR
  <2> QED
    BY <1>1, <1>2, <2>1, BumpClean, YieldInv, ReturnInv
<1>11. \A entering, leaving, left \in BOOLEAN : Rotation(entering, leaving, left) \in CleanFile
  <2> SUFFICES ASSUME NEW entering \in BOOLEAN, NEW leaving \in BOOLEAN, NEW left \in BOOLEAN
               PROVE  Rotation(entering, leaving, left) \in CleanFile
    OBVIOUS
  <2>1. R8("A") \in Byte
    BY <1>1
  <2>2. Rotated(entering, left) \in Byte
    BY <2>1 DEF Rotated, Byte
  <2>3. Assign8(reg, "A", Rotated(entering, left)) \in CleanFile
    BY <1>1, <1>2, <2>2, Assign8Clean
  <2> QED
    BY <2>3, FromBitsType, Assign8FClean DEF Rotation
<1>12. /\ Bit7OfA \in BOOLEAN /\ Bit0OfA \in BOOLEAN /\ CarryIn(reg) \in BOOLEAN
  BY DEF Bit7OfA, Bit0OfA, CarryIn
<1>13. CASE Rlca
  BY <1>1, <1>11, <1>12, <1>13, ReturnInv DEF Rlca
<1>14. CASE Rrca
  BY <1>1, <1>11, <1>12, <1>14, ReturnInv DEF Rrca
<1>15. CASE Rla
  BY <1>1, <1>11, <1>12, <1>15, ReturnInv DEF Rla
<1>16. CASE Rra
  BY <1>1, <1>11, <1>12, <1>16, ReturnInv DEF Rra
<1>17. CASE Cpl
  <2> DEFINE S == Flags(reg) \cup {Subtract, HalfCarry}
             a == Complement(R8("A"))
  <2>1. Return(1, AssignFlags(Assign8(reg, "A", a), S), ime)
    BY <1>17 DEF Cpl
  <2>2. a \in Byte
    BY <1>1 DEF Complement, Byte
  <2>3. S \subseteq FlagPositions
    BY DEF Flags, FlagPositions
  <2> HIDE DEF S, a
  <2>4. AssignFlags(Assign8(reg, "A", a), S) \in CleanFile
    BY <1>1, <1>2, <2>2, <2>3, Assign8Clean, AssignFlagsClean
  <2> QED
    BY <1>1, <2>1, <2>4, ReturnInv
<1>18. CASE Ccf
  <2> DEFINE kept == Flags(reg) \cap {Carry, Zero}
             S    == (kept \ {Carry}) \cup ({Carry} \ kept)
  <2>1. Return(1, AssignFlags(reg, S), ime)
    BY <1>18 DEF Ccf
  <2>2. S \subseteq FlagPositions
    BY DEF FlagPositions
  <2> HIDE DEF S
  <2>3. AssignFlags(reg, S) \in CleanFile
    BY <1>1, <2>2, AssignFlagsClean
  <2> QED
    BY <1>1, <2>1, <2>3, ReturnInv
<1> QED
  BY <1>4, <1>5, <1>6, <1>7, <1>8, <1>9, <1>10, <1>13, <1>14, <1>15, <1>16, <1>17, <1>18 DEF MathStep

LEMMA ControlStepInv ==
  ASSUME IInv, status = "running", ControlStep
  PROVE  IInv'
<1>1. /\ reg \in CleanFile
      /\ ime \in ImeState
      /\ ram \in RamImage
      /\ handler.local \in Byte
      /\ \A n : R8(n) \in Byte
      /\ \A n \in Register16 : reg[n] \in Word /\ High(reg[n]) \in Byte /\ Low(reg[n]) \in Byte
  BY RegisterTypes DEF IInv, BusTypeOK, RamImage, Coroutine
<1>2. {"WZ", "PC", "SP", "HL"} \subseteq Register16 \ {"AF"}
  BY DEF Register16
<1>3. /\ Assign16(reg, "PC", reg["WZ"]) \in CleanFile
      /\ Assign16(reg, "PC", reg["HL"]) \in CleanFile
      /\ Bump(reg, "SP", -1) \in CleanFile
  BY <1>1, <1>2, Assign16Clean, BumpClean
<1>4. CASE Jump
  BY <1>1, <1>3, <1>4, OperandInv, YieldInv, ReturnInv DEF Jump
<1>5. CASE JumpRelative
  <2> DEFINE sum  == AddWithCarry(R8("Z"), Low(reg["PC"]))
             adjustment == IF 7 \in sum.carryBits /\ ~(7 \in Bits(R8("Z"))) THEN 1
                           ELSE IF ~(7 \in sum.carryBits) /\ 7 \in Bits(R8("Z")) THEN 255 ELSE 0
             high == (High(reg["PC"]) + adjustment) % 256
  <2>1. JumpTarget = Pair(high, sum.result)
    BY DEF JumpTarget
  <2>2. sum.result \in Byte
    BY <1>1, <1>2, SumType
  <2>3. high \in Byte
    <3>1. adjustment \in {0, 1, 255} /\ High(reg["PC"]) \in Byte
      BY <1>1, <1>2
    <3> HIDE DEF adjustment
    <3> QED
      BY <3>1 DEF Byte
  <2> HIDE DEF sum, high
  <2>4. JumpTarget \in Word
    BY <2>1, <2>2, <2>3, WordParts
  <2>5. Assign16(reg, "WZ", JumpTarget) \in CleanFile
    BY <1>1, <1>2, <2>4, Assign16Clean
  <2> QED
    BY <1>1, <1>3, <1>5, <2>5, OperandInv, YieldInv, ReturnInv DEF JumpRelative
<1>6. CASE JumpHl
  BY <1>1, <1>3, <1>6, ReturnInv DEF JumpHl
<1>7. CASE Call
  BY <1>1, <1>2, <1>3, <1>7, OperandInv, YieldInv, YieldWritingInv, ReturnInv DEF Call
<1>8. CASE Rst
  <2>1. PICK target \in {\h00, \h08, \h10, \h18, \h20, \h28, \h30, \h38} :
          \/ Yield(1, Bump(reg, "SP", -1))
          \/ YieldWriting(2, reg["SP"], High(reg["PC"]), Bump(reg, "SP", -1))
          \/ YieldWriting(3, reg["SP"], Low(reg["PC"]), Assign16(reg, "PC", target))
          \/ Return(4, reg, ime)
    BY <1>8 DEF Rst
  <2>2. target \in Word
    BY DEF Word
  <2>3. Assign16(reg, "PC", target) \in CleanFile
    BY <1>1, <1>2, <2>2, Assign16Clean
  <2> QED
    BY <1>1, <1>2, <1>3, <2>1, <2>3, YieldInv, YieldWritingInv, ReturnInv
<1>9. CASE Ret
  BY <1>1, <1>3, <1>9, OperandInv, YieldInv, ReturnInv DEF Ret
<1>10. CASE RetConditional
  BY <1>1, <1>3, <1>10, SuspendInv, OperandInv, YieldInv, ReturnInv DEF RetConditional
<1>11. CASE RetI
  <2>1. "ENABLED" \in ImeState
    BY DEF ImeState
  <2> QED
    BY <1>1, <1>3, <1>11, <2>1, SuspendInv, OperandInv, ReturnInv DEF RetI
<1>12. CASE Di
  BY <1>1, <1>12, ReturnInv DEF Di, ImeState
<1>13. CASE Ei
  <2>1. (IF ime = "DISABLED" THEN "PENDING" ELSE ime) \in ImeState
    BY <1>1 DEF ImeState
  <2> QED
    BY <1>1, <1>13, <2>1, ReturnInv DEF Ei
<1> QED
  BY <1>4, <1>5, <1>6, <1>7, <1>8, <1>9, <1>10, <1>11, <1>12, <1>13 DEF ControlStep
-----------------------------------------------------------------------------
LEMMA PowerUpInv ==
  ASSUME BusTypeOK, PowerUp
  PROVE  IInv
<1>1. reg \in CleanFile
  BY DEF PowerUp, CleanFile, RegisterFile, Register16, Word
<1>2. OpcodeHandlers[\h00] = Noop /\ \h00 \in Byte
  BY DEF OpcodeHandlers, Octets, Byte
<1>3. Noop \in Handlers
  BY <1>2 DEF Handlers, Throwing, Noop, Unimplemented, Illegal
<1> QED
  BY <1>1, <1>3 DEF PowerUp, IInv, ImeState, Coroutine, Created, Byte, ReportedOpcode

LEMMA InitInv == Init => IInv
<1> SUFFICES ASSUME Init
             PROVE  IInv
  OBVIOUS
<1>1. BusTypeOK
  BY BusAssumption DEF Init, BusInit, BusAssumption, BusTypeOK, Byte
<1> QED
  BY <1>1, PowerUpInv DEF Init

-----------------------------------------------------------------------------
(***************************************************************************)
(* The delay of EI.  It needs, beside the types, that the handler that     *)
(* runs is the one the instruction register selects, and that only one     *)
(* opcode each selects DI, EI and RETI.                                    *)
(***************************************************************************)
Selected == status = "running" => handler.body = OpcodeHandlers[ir]

\* The handler stays and the interrupt state becomes i, or the handler ends
\* with the interrupt state i and the opcode fetched selects the next one.
Stays(i) ==
  ime' = i /\ ir' = ir /\ status' = status /\ handler'.body = handler.body /\ rom' = rom
Ends(i) == ime' = Promote(i) /\ Dispatch(OpcodeHandlers[ir']) /\ rom' = rom

\* A handler other than those of DI, EI and RETI leaves the interrupt state
\* alone, but for the promotion of a pending enable.
Ordinary ==
  /\ status = "running"
  /\ handler.body # <<"Di">>
  /\ Stays(ime) \/ Ends(ime)

LEMMA SuspendStays ==
  ASSUME IInv, NEW k, NEW next, NEW r, NEW i, NEW m, NEW local, Suspend(k, next, r, i, m, local)
  PROVE  Stays(i) /\ handler'.at = next
<1>1. handler \in Coroutine /\ handler' = [handler EXCEPT !.at = next, !.local = local]
  BY DEF IInv, Suspend
<1>2. handler'.body = handler.body /\ handler'.at = next
  BY <1>1 DEF Coroutine
<1> QED
  BY <1>2 DEF Suspend, Stays

LEMMA YieldStays ==
  ASSUME IInv, NEW k, NEW r, NEW a, NEW v, NEW n,
         Yield(k, r) \/ YieldWriting(k, a, v, r) \/ Operand(k, n) \/ PopByte(k, n)
  PROVE  Stays(ime)
  BY SuspendStays DEF Yield, YieldWriting, Operand, PopByte

LEMMA ReturnEnds ==
  ASSUME NEW k, NEW r, NEW i, Return(k, r, i)
  PROVE  Ends(i)
  BY DEF Return, Ends

LEMMA LoadStepOrdinary ==
  ASSUME IInv, LoadStep
  PROVE  Ordinary
<1>1. CASE NoopStep
  BY <1>1, SuspendStays, YieldStays, ReturnEnds DEF NoopStep, Executing, Ordinary, Noop
<1>2. CASE LoadRegReg
  BY <1>2, SuspendStays, YieldStays, ReturnEnds DEF LoadRegReg, Executing, Ordinary
<1>3. CASE LoadRegN8
  BY <1>3, SuspendStays, YieldStays, ReturnEnds DEF LoadRegN8, Executing, Ordinary
<1>4. CASE LoadRegN16
  BY <1>4, SuspendStays, YieldStays, ReturnEnds DEF LoadRegN16, Executing, Ordinary
<1>5. CASE LoadIndirectFrom
  BY <1>5, SuspendStays, YieldStays, ReturnEnds DEF LoadIndirectFrom, Executing, Ordinary
<1>6. CASE LoadRIndirectRr
  BY <1>6, SuspendStays, YieldStays, ReturnEnds DEF LoadRIndirectRr, Executing, Ordinary
<1>7. CASE LoadIndirectHlN8
  BY <1>7, SuspendStays, YieldStays, ReturnEnds DEF LoadIndirectHlN8, Executing, Ordinary
<1>8. CASE LoadA16SP
  BY <1>8, SuspendStays, YieldStays, ReturnEnds DEF LoadA16SP, Executing, Ordinary
<1>9. CASE LoadIndirectA8FromA
  BY <1>9, SuspendStays, YieldStays, ReturnEnds DEF LoadIndirectA8FromA, Executing, Ordinary
<1>10. CASE LoadIndirectA16FromA
  BY <1>10, SuspendStays, YieldStays, ReturnEnds DEF LoadIndirectA16FromA, Executing, Ordinary
<1>11. CASE LoadIndirectCFromA
  BY <1>11, SuspendStays, YieldStays, ReturnEnds DEF LoadIndirectCFromA, Executing, Ordinary
<1>12. CASE LoadAFromIndirectA8
  BY <1>12, SuspendStays, YieldStays, ReturnEnds DEF LoadAFromIndirectA8, Executing, Ordinary
<1>13. CASE LoadAFromIndirectA16
  BY <1>13, SuspendStays, YieldStays, ReturnEnds DEF LoadAFromIndirectA16, Executing, Ordinary
<1>14. CASE LoadAFromIndirectC
  BY <1>14, SuspendStays, YieldStays, ReturnEnds DEF LoadAFromIndirectC, Executing, Ordinary
<1>15. CASE LoadReg16Reg16
  BY <1>15, SuspendStays, YieldStays, ReturnEnds DEF LoadReg16Reg16, Executing, Ordinary
<1>16. CASE LoadSPFromHlPlusE8
  BY <1>16, SuspendStays, YieldStays, ReturnEnds DEF LoadSPFromHlPlusE8, Executing, Ordinary
<1>17. CASE PushRr
  BY <1>17, SuspendStays, YieldStays, ReturnEnds DEF PushRr, Executing, Ordinary
<1>18. CASE PopRr
  BY <1>18, SuspendStays, YieldStays, ReturnEnds DEF PopRr, Executing, Ordinary
<1> QED
  BY <1>1, <1>2, <1>3, <1>4, <1>5, <1>6, <1>7, <1>8, <1>9, <1>10, <1>11, <1>12,
     <1>13, <1>14, <1>15, <1>16, <1>17, <1>18 DEF LoadStep

LEMMA MathStepOrdinary ==
  ASSUME IInv, MathStep
  PROVE  Ordinary
<1>1. CASE MathOperandR
  BY <1>1, SuspendStays, YieldStays, ReturnEnds DEF MathOperandR, Executing, Ordinary
<1>2. CASE MathN8
  BY <1>2, SuspendStays, YieldStays, ReturnEnds DEF MathN8, Executing, Ordinary
<1>3. CASE MathIndirectHL
  BY <1>3, SuspendStays, YieldStays, ReturnEnds DEF MathIndirectHL, Executing, Ordinary
<1>4. CASE IncR
  BY <1>4, SuspendStays, YieldStays, ReturnEnds DEF IncR, Executing, Ordinary
<1>5. CASE DecR
  BY <1>5, SuspendStays, YieldStays, ReturnEnds DEF DecR, Executing, Ordinary
<1>6. CASE IncRR
  BY <1>6, SuspendStays, YieldStays, ReturnEnds DEF IncRR, Executing, Ordinary
<1>7. CASE DecRR
  BY <1>7, SuspendStays, YieldStays, ReturnEnds DEF DecRR, Executing, Ordinary
<1>8. CASE Rlca
  <2>1. status = "running" /\ handler.body = <<"Rlca">> /\ \E r : Return(1, r, ime)
    BY <1>8, Zenon DEF Rlca, Executing
  <2> QED
    BY <2>1, ReturnEnds DEF Ordinary
<1>9. CASE Rrca
  <2>1. status = "running" /\ handler.body = <<"Rrca">> /\ \E r : Return(1, r, ime)
    BY <1>9, Zenon DEF Rrca, Executing
  <2> QED
    BY <2>1, ReturnEnds DEF Ordinary
<1>10. CASE Rla
  <2>1. status = "running" /\ handler.body = <<"Rla">> /\ \E r : Return(1, r, ime)
    BY <1>10, Zenon DEF Rla, Executing
  <2> QED
    BY <2>1, ReturnEnds DEF Ordinary
<1>11. CASE Rra
  <2>1. status = "running" /\ handler.body = <<"Rra">> /\ \E r : Return(1, r, ime)
    BY <1>11, Zenon DEF Rra, Executing
  <2> QED
    BY <2>1, ReturnEnds DEF Ordinary
<1>12. CASE Cpl
  BY <1>12, SuspendStays, YieldStays, ReturnEnds DEF Cpl, Executing, Ordinary
<1>13. CASE Ccf
  BY <1>13, SuspendStays, YieldStays, ReturnEnds DEF Ccf, Executing, Ordinary
<1> QED
  BY <1>1, <1>2, <1>3, <1>4, <1>5, <1>6, <1>7, <1>8, <1>9, <1>10, <1>11, <1>12,
     <1>13 DEF MathStep

LEMMA ControlStepOrdinary ==
  ASSUME IInv, ControlStep
  PROVE  \/ Ordinary
         \/ RetI \/ Di \/ Ei
<1>1. CASE Jump
  BY <1>1, SuspendStays, YieldStays, ReturnEnds DEF Jump, Executing, Ordinary
<1>2. CASE JumpRelative
  BY <1>2, SuspendStays, YieldStays, ReturnEnds DEF JumpRelative, Executing, Ordinary
<1>3. CASE JumpHl
  BY <1>3, SuspendStays, YieldStays, ReturnEnds DEF JumpHl, Executing, Ordinary
<1>4. CASE Call
  BY <1>4, SuspendStays, YieldStays, ReturnEnds DEF Call, Executing, Ordinary
<1>5. CASE Rst
  BY <1>5, SuspendStays, YieldStays, ReturnEnds DEF Rst, Executing, Ordinary
<1>6. CASE Ret
  BY <1>6, SuspendStays, YieldStays, ReturnEnds DEF Ret, Executing, Ordinary
<1>7. CASE RetConditional
  BY <1>7, SuspendStays, YieldStays, ReturnEnds DEF RetConditional, Executing, Ordinary
<1> QED
  BY <1>1, <1>2, <1>3, <1>4, <1>5, <1>6, <1>7 DEF ControlStep

LEMMA InterruptOpcodes ==
  ASSUME NEW op \in Byte, NEW n \in {"Di", "Ei", "RetI"}, OpcodeHandlers[op] = <<n>>
  PROVE  \/ n = "Di" /\ op = \hF3
         \/ n = "Ei" /\ op = \hFB
         \/ n = "RetI" /\ op = \hD9
<1> DEFINE i == 1 + (op \div 8)
           j == 1 + (op % 8)
<1>1. i \in 1 .. 32 /\ j \in 1 .. 8 /\ op = 8 * (i - 1) + (j - 1)
  BY DEF Byte
<1>2. Octets[i][j] = <<n>>
  BY DEF OpcodeHandlers
<1> HIDE DEF i, j
<1>3. \A o : MathOctet(o)[j] # <<n>>
  BY <1>1 DEF MathOctet
<1>4. \A o : LoadOctet(o)[j] # <<n>>
  BY <1>1 DEF LoadOctet
<1>5. StoreOctet[j] # <<n>>
  BY <1>1 DEF StoreOctet, Unimplemented
<1>6. ASSUME NEW m \in 1 .. 8, i = m
      PROVE  FALSE
  <2>1. Octets[m][j] = <<n>>
    BY <1>2, <1>6
  <2>2. CASE m = 1
    BY <1>1, <2>1, <2>2 DEF Octets, Unimplemented, Noop
  <2>3. CASE m = 2
    BY <1>1, <2>1, <2>3 DEF Octets, Unimplemented, Noop
  <2>4. CASE m = 3
    BY <1>1, <2>1, <2>4 DEF Octets, Unimplemented, Noop
  <2>5. CASE m = 4
    BY <1>1, <2>1, <2>5 DEF Octets, Unimplemented, Noop
  <2>6. CASE m = 5
    BY <1>1, <2>1, <2>6 DEF Octets, Unimplemented, Noop
  <2>7. CASE m = 6
    BY <1>1, <2>1, <2>7 DEF Octets, Unimplemented, Noop
  <2>8. CASE m = 7
    BY <1>1, <2>1, <2>8 DEF Octets, Unimplemented, Noop
  <2>9. CASE m = 8
    BY <1>1, <2>1, <2>9 DEF Octets, Unimplemented, Noop
  <2> QED
    BY <2>2, <2>3, <2>4, <2>5, <2>6, <2>7, <2>8, <2>9
<1>7. CASE i \in 9 .. 24
  <2>1. \/ Octets[i] \in {LoadOctet("B"), LoadOctet("C"), LoadOctet("D"), LoadOctet("E"),
                         LoadOctet("H"), LoadOctet("L"), LoadOctet("A"), StoreOctet}
        \/ Octets[i] \in {MathOctet("Add"), MathOctet("Adc"), MathOctet("Sub"), MathOctet("Sbc"),
                         MathOctet("And"), MathOctet("Xor"), MathOctet("Or"), MathOctet("Cp")}
    BY <1>7 DEF Octets
  <2> QED
    BY <1>2, <1>3, <1>4, <1>5, <2>1
<1>8. ASSUME NEW m \in 25 .. 32, i = m
      PROVE  \/ n = "Di" /\ m = 31 /\ j = 4
             \/ n = "Ei" /\ m = 32 /\ j = 4
             \/ n = "RetI" /\ m = 28 /\ j = 2
  <2>1. Octets[m][j] = <<n>>
    BY <1>2, <1>8
  <2>2. CASE m = 25
    BY <1>1, <2>1, <2>2 DEF Octets, Unimplemented, Illegal
  <2>3. CASE m = 26
    BY <1>1, <2>1, <2>3 DEF Octets, Unimplemented, Illegal
  <2>4. CASE m = 27
    BY <1>1, <2>1, <2>4 DEF Octets, Unimplemented, Illegal
  <2>5. CASE m = 28
    BY <1>1, <2>1, <2>5 DEF Octets, Unimplemented, Illegal
  <2>6. CASE m = 29
    BY <1>1, <2>1, <2>6 DEF Octets, Unimplemented, Illegal
  <2>7. CASE m = 30
    BY <1>1, <2>1, <2>7 DEF Octets, Unimplemented, Illegal
  <2>8. CASE m = 31
    BY <1>1, <2>1, <2>8 DEF Octets, Unimplemented, Illegal
  <2>9. CASE m = 32
    BY <1>1, <2>1, <2>9 DEF Octets, Unimplemented, Illegal
  <2> QED
    BY <2>2, <2>3, <2>4, <2>5, <2>6, <2>7, <2>8, <2>9
<1> QED
  BY <1>1, <1>6, <1>7, <1>8

LEMMA DiOpcode == OpcodeHandlers[\hF3] = <<"Di">>
  BY DEF OpcodeHandlers, Octets, Byte

\* What the three other handlers do, beside popping bytes.
LEMMA InterruptHandlers ==
  ASSUME IInv
  PROVE  /\ RetI => /\ handler.body = <<"RetI">>
                    /\ \/ Stays(ime) \/ Ends(ime)
                       \/ Stays("ENABLED") /\ handler'.at = 4
         /\ Di => handler.body = <<"Di">> /\ Ends("DISABLED")
         /\ Ei => handler.body = <<"Ei">> /\ Ends(IF ime = "DISABLED" THEN "PENDING" ELSE ime)
<1>1. CASE RetI
  <2>1. handler.body = <<"RetI">>
    BY <1>1 DEF RetI, Executing
  <2>2. \/ PopByte(1, "Z") \/ PopByte(2, "W")
        \/ Suspend(3, 4, Assign16(reg, "PC", reg["WZ"]), "ENABLED", ram, handler.local)
        \/ Return(4, reg, ime)
    BY <1>1 DEF RetI
  <2>3. ~Di /\ ~Ei
    BY <2>1 DEF Di, Ei, Executing
  <2> QED
    BY <2>1, <2>2, <2>3, SuspendStays, YieldStays, ReturnEnds
<1>2. CASE Di
  <2>1. handler.body = <<"Di">> /\ Return(1, reg, "DISABLED")
    BY <1>2 DEF Di, Executing
  <2>2. ~RetI /\ ~Ei
    BY <2>1 DEF RetI, Ei, Executing
  <2> QED
    BY <2>1, <2>2, ReturnEnds
<1>3. CASE Ei
  <2>1. handler.body = <<"Ei">> /\ Return(1, reg, IF ime = "DISABLED" THEN "PENDING" ELSE ime)
    BY <1>3 DEF Ei, Executing
  <2>2. ~RetI /\ ~Di
    BY <2>1 DEF RetI, Di, Executing
  <2>3. Ends(IF ime = "DISABLED" THEN "PENDING" ELSE ime)
    BY <2>1, ReturnEnds, Zenon
  <2> QED
    BY <2>1, <2>2, <2>3
<1>4. CASE ~RetI /\ ~Di /\ ~Ei
  BY <1>4
<1> QED
  BY <1>1, <1>2, <1>3, <1>4

LEMMA StepCases ==
  ASSUME IInv, Step
  PROVE  status = "running" /\ (Ordinary \/ RetI \/ Di \/ Ei)
<1>1. Ordinary \/ RetI \/ Di \/ Ei
  BY LoadStepOrdinary, MathStepOrdinary, ControlStepOrdinary DEF Step
<1> QED
  BY <1>1 DEF Ordinary, RetI, Di, Ei, Executing

-----------------------------------------------------------------------------
(***************************************************************************)
(* The invariant holds of every run of every program.                      *)
(***************************************************************************)
THEOREM Invariance == Spec => []IInv
<1>1. ASSUME IInv, [Next]_vars
      PROVE  IInv'
  <2>1. CASE Step
    BY <1>1, <2>1, StepCases, LoadStepInv, MathStepInv, ControlStepInv DEF Step
  <2>2. CASE UNCHANGED vars
    BY <1>1, <2>2 DEF IInv, BusTypeOK, ReportedOpcode, BusRead, CartridgeRead, RamRead, vars
  <2> QED
    BY <1>1, <2>1, <2>2 DEF Next, Exited
<1> QED
  BY InitInv, <1>1, PTL DEF Spec

(* Every register keeps its width and every handler that runs is one the   *)
(* opcode table can create, for every program (Cpu::Step, cpu.cpp:36).     *)
THEOREM TypeCorrectness == Spec => []TypeOK
  BY Invariance, IInvMeans, PTL

(* The low four bits of F are zero at every M-cycle, for every program: no *)
(* handler that writes flags.value, which no mask protects, can set them,  *)
(* nor can any byte that POP AF finds on the stack (register.h:24).        *)
THEOREM FlagsStayClean == Spec => []FlagsLowNibbleZero
  BY Invariance, IInvMeans, PTL

(* When a Step() has thrown, the instruction register holds an opcode      *)
(* without a handler and PC leads back to it in memory, for every program  *)
(* (cpu.cpp:56-60).                                                        *)
THEOREM CulpritReported == Spec => []ReportedOpcode
  BY Invariance, IInvMeans, PTL

(* A Step() never changes the cartridge's contents, whatever the program   *)
(* writes to its addresses (cartridge.cpp:132).                            *)
LEMMA StepKeepsRom ==
  ASSUME IInv, Step
  PROVE  rom' = rom
  BY StepCases, InterruptHandlers DEF Ordinary, Stays, Ends
-----------------------------------------------------------------------------
LEMMA SelectedKept ==
  ASSUME IInv, Selected, [Next]_vars
  PROVE  Selected'
<1>1. ASSUME NEW i, Stays(i) \/ Ends(i)
      PROVE  Selected'
  BY <1>1 DEF Stays, Ends, Selected, Dispatch, Created
<1>2. CASE Step
  BY <1>1, <1>2, StepCases, InterruptHandlers DEF Ordinary
<1>3. CASE UNCHANGED vars
  BY <1>3 DEF Selected, vars
<1> QED
  BY <1>2, <1>3 DEF Next, Exited

(* The master interrupt state changes only as EI, DI, RETI and the end of  *)
(* the instruction after EI change it, for every program: whatever the     *)
(* order of these instructions, no step promotes a state it should not,    *)
(* nor disables it (Cpu::Step, cpu.cpp:43-54).                             *)
THEOREM DelayedEnable == Spec => EnableIsDelayed
<1> DEFINE Allowed ==
      ime' # ime =>
       \/ ime' = "DISABLED" /\ Completes /\ ir = \hF3
       \/ ime' = "PENDING" /\ Completes /\ ir = \hFB /\ ime = "DISABLED"
       \/ ime' = "ENABLED" /\ Completes /\ ir # \hF3 /\ ime = "PENDING"
       \/ ime' = "ENABLED" /\ ~Completes /\ ir = \hD9
<1>1. ASSUME NEW i, Ends(i)
      PROVE  Completes /\ ime' = Promote(i)
  BY <1>1 DEF Ends, Dispatch, Created, Completes
<1>2. ASSUME IInv, Selected, Step
      PROVE  Allowed
  <2>1. status = "running" /\ handler.body = OpcodeHandlers[ir] /\ ir \in Byte /\ ime \in ImeState
    BY <1>2, StepCases DEF Selected, IInv
  <2>2. CASE Ordinary
    <3>1. ir # \hF3
      BY <2>1, <2>2, DiOpcode DEF Ordinary
    <3>2. Stays(ime) \/ Ends(ime)
      BY <2>2 DEF Ordinary
    <3> QED
      BY <1>1, <2>1, <3>1, <3>2 DEF Stays, Promote, ImeState
  <2>3. CASE RetI
    <3>1. ir = \hD9
      BY <1>2, <2>1, <2>3, InterruptHandlers, InterruptOpcodes
    <3>2. CASE Stays(ime) \/ Ends(ime)
      BY <1>1, <2>1, <3>1, <3>2 DEF Stays, Promote, ImeState
    <3>3. CASE Stays("ENABLED") /\ handler'.at = 4
      BY <2>1, <3>1, <3>3 DEF Stays, Completes
    <3> QED
      BY <1>2, <2>3, <3>2, <3>3, InterruptHandlers
  <2>4. CASE Di
    <3>1. ir = \hF3 /\ Ends("DISABLED")
      BY <1>2, <2>1, <2>4, InterruptHandlers, InterruptOpcodes
    <3> QED
      BY <1>1, <2>1, <3>1 DEF Promote, ImeState
  <2>5. CASE Ei
    <3>1. ir = \hFB /\ Ends(IF ime = "DISABLED" THEN "PENDING" ELSE ime)
      BY <1>2, <2>1, <2>5, InterruptHandlers, InterruptOpcodes
    <3> QED
      BY <1>1, <2>1, <3>1 DEF Promote, ImeState
  <2> QED
    BY <1>2, <2>2, <2>3, <2>4, <2>5, StepCases
<1>3. Init => Selected
  BY DEF Init, PowerUp, Created, Selected, OpcodeHandlers, Octets, Byte
<1>4. IInv /\ Selected /\ [Next]_vars => Selected'
  BY SelectedKept
<1>5. IInv /\ Selected /\ [Next]_vars => [Allowed]_vars
  BY <1>2 DEF Next, Exited
<1> QED
  BY <1>3, <1>4, <1>5, Invariance, PTL DEF Spec, EnableIsDelayed
=============================================================================
