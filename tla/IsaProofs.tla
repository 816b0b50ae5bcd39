----------------------------- MODULE IsaProofs -----------------------------
(***************************************************************************)
(* The two descriptions of the machine related: what an operation on the   *)
(* register file or on the bus does to the machine that programs see, in   *)
(* the terms of the instruction set; that the arithmetic of the code is    *)
(* the arithmetic of the instruction set; and that the opcode table        *)
(* follows the octal pattern of the opcodes.                               *)
(***************************************************************************)
EXTENDS Microcode, CpuProofs

FlagNames(S) == {FlagName[f] : f \in S}

\* Two views of one pair, in the same half of it, are one view.
LEMMA ViewsApart ==
  ASSUME NEW n \in Plain8 \cup {"F"}, NEW d \in Plain8 \cup {"F"},
         Whole(n) = Whole(d), n \in UpperByte <=> d \in UpperByte
  PROVE  n = d
  BY DEF Plain8, Register8, Whole, UpperByte

\* Writing a register of eight bits changes what is read of it alone, and no
\* other word.
LEMMA Assign8Views ==
  ASSUME NEW r \in CleanFile, NEW d \in Plain8, NEW v \in Byte
  PROVE  /\ \A n \in Plain8 \cup {"F"} : Value8(Assign8(r, d, v), n) = IF n = d THEN v ELSE Value8(r, n)
         /\ \A p \in Register16 : p # Whole(d) => Assign8(r, d, v)[p] = r[p]
<1> DEFINE whole == Whole(d)
           w == IF d \in UpperByte THEN Pair(v, Low(r[whole])) ELSE Pair(High(r[whole]), v)
<1>1. r \in [Register16 -> Word] /\ whole \in Register16 /\ d # "F" /\ "F" \notin UpperByte
  BY DEF CleanFile, RegisterFile, Register16, Whole, Plain8, Register8, UpperByte
<1>2. Assign8(r, d, v) = [r EXCEPT ![whole] = w]
  BY <1>1 DEF Assign8, AssignValue8
<1>3. r[whole] \in Word /\ High(r[whole]) \in Byte /\ Low(r[whole]) \in Byte
  BY <1>1, WordParts
<1>4. High(w) = (IF d \in UpperByte THEN v ELSE High(r[whole])) /\ Low(w) = (IF d \in UpperByte THEN Low(r[whole]) ELSE v)
  BY <1>3, WordParts
<1>5. Assign8(r, d, v)[whole] = w /\ \A p \in Register16 : p # whole => Assign8(r, d, v)[p] = r[p]
  BY <1>1, <1>2
<1>6. ASSUME NEW n \in Plain8 \cup {"F"}
      PROVE  Value8(Assign8(r, d, v), n) = IF n = d THEN v ELSE Value8(r, n)
  <2>1. Whole(n) \in Register16
    BY DEF Whole, Register16
  <2> HIDE DEF w
  <2>2. CASE Whole(n) # whole
    BY <1>5, <2>1, <2>2 DEF Value8
  <2>3. CASE Whole(n) = whole
    BY <1>4, <1>5, <2>3, ViewsApart DEF Value8
  <2> QED
    BY <2>2, <2>3
<1> QED
  BY <1>5, <1>6

\* Writing a register other than F leaves the flags.
LEMMA Assign8Flags ==
  ASSUME NEW r \in CleanFile, NEW d \in Plain8, NEW v \in Byte
  PROVE  Flags(Assign8(r, d, v)) = Flags(r)
<1>1. "F" # d
  BY DEF Plain8, Register8
<1> QED
  BY <1>1, Assign8Views DEF Flags

\* An assignment to F, from flags or masked, leaves the other registers.
LEMMA AssignFViews ==
  ASSUME NEW r \in CleanFile, NEW v \in Byte
  PROVE  /\ \A n \in Plain8 : Value8(AssignValue8(r, "F", v), n) = Value8(r, n)
         /\ Value8(AssignValue8(r, "F", v), "F") = v
         /\ \A p \in Register16 : p # "AF" => AssignValue8(r, "F", v)[p] = r[p]
<1> DEFINE w == Pair(High(r["AF"]), v)
<1>1. r \in [Register16 -> Word] /\ "AF" \in Register16
  BY DEF CleanFile, RegisterFile, Register16
<1>2. AssignValue8(r, "F", v) = [r EXCEPT !["AF"] = w]
  BY <1>1 DEF AssignValue8, Whole, UpperByte
<1>3. High(w) = High(r["AF"]) /\ Low(w) = v
  BY <1>1, WordParts
<1> HIDE DEF w
<1>4. AssignValue8(r, "F", v)["AF"] = w /\ \A p \in Register16 : p # "AF" => AssignValue8(r, "F", v)[p] = r[p]
  BY <1>1, <1>2
<1>5. ASSUME NEW n \in Plain8
      PROVE  Value8(AssignValue8(r, "F", v), n) = Value8(r, n)
  <2>1. Whole(n) = "AF" => n = "A"
    BY DEF Plain8, Register8, Whole
  <2>2. Whole(n) \in Register16
    BY DEF Whole, Register16
  <2> QED
    BY <1>3, <1>4, <2>1, <2>2 DEF Value8, UpperByte
<1>6. Value8(AssignValue8(r, "F", v), "F") = v
  BY <1>3, <1>4 DEF Value8, UpperByte, Whole
<1> QED
  BY <1>4, <1>5, <1>6

\* Flags are read back as they were assigned.
LEMMA FlagsOfFlags ==
  ASSUME NEW S, S \subseteq FlagPositions
  PROVE  Bits(FromBits(S)) \cap FlagPositions = S
<1>1. /\ BitMask(0) = 1 /\ BitMask(1) = 2 /\ BitMask(2) = 4 /\ BitMask(3) = 8
      /\ BitMask(4) = 16 /\ BitMask(5) = 32 /\ BitMask(6) = 64 /\ BitMask(7) = 128
  BY DEF BitMask
<1> DEFINE b4 == IF 4 \in S THEN 1 ELSE 0
           b5 == IF 5 \in S THEN 1 ELSE 0
           b6 == IF 6 \in S THEN 1 ELSE 0
           b7 == IF 7 \in S THEN 1 ELSE 0
           f  == FromBits(S)
<1>2. 0 \notin S /\ 1 \notin S /\ 2 \notin S /\ 3 \notin S
  BY DEF FlagPositions, Zero, Subtract, HalfCarry, Carry
<1>3. f = 16 * b4 + 32 * b5 + 64 * b6 + 128 * b7
  BY <1>1, <1>2 DEF FromBits
<1>4. b4 \in {0, 1} /\ b5 \in {0, 1} /\ b6 \in {0, 1} /\ b7 \in {0, 1}
  OBVIOUS
<1> HIDE DEF b4, b5, b6, b7, f
<1>5. (f \div 16) % 2 = b4 /\ (f \div 32) % 2 = b5 /\ (f \div 64) % 2 = b6 /\ (f \div 128) % 2 = b7
  BY <1>3, <1>4
<1>6. /\ 4 \in Bits(f) <=> b4 = 1
      /\ 5 \in Bits(f) <=> b5 = 1
      /\ 6 \in Bits(f) <=> b6 = 1
      /\ 7 \in Bits(f) <=> b7 = 1
  BY <1>1, <1>5 DEF Bits, BitIndex
<1>7. (b4 = 1 <=> 4 \in S) /\ (b5 = 1 <=> 5 \in S) /\ (b6 = 1 <=> 6 \in S) /\ (b7 = 1 <=> 7 \in S)
  BY DEF b4, b5, b6, b7
<1>8. \A i \in {4, 5, 6, 7} : i \in Bits(f) <=> i \in S
  BY <1>6, <1>7
<1>9. FlagPositions = {4, 5, 6, 7}
  BY DEF FlagPositions, Zero, Subtract, HalfCarry, Carry
<1>10. Bits(f) \cap FlagPositions = S
  <2>1. ASSUME NEW i \in FlagPositions
        PROVE  i \in Bits(f) <=> i \in S
    BY <1>8, <1>9
  <2> QED
    BY <2>1
<1> QED
  BY <1>10 DEF f

\* Writing the flags leaves every other register.
LEMMA AssignFlagsViews ==
  ASSUME NEW r \in CleanFile, NEW S, S \subseteq FlagPositions
  PROVE  /\ \A n \in Plain8 : Value8(AssignFlags(r, S), n) = Value8(r, n)
         /\ Flags(AssignFlags(r, S)) = S
         /\ \A p \in Register16 : p # "AF" => AssignFlags(r, S)[p] = r[p]
  BY AssignFViews, FromBitsType, FlagsOfFlags DEF AssignFlags, Flags

\* The pairs as opcodes number them, and their upper and lower bytes.
PairOf == <<"BC", "DE", "HL", "SP">>
UpperOf(p) == CASE p = "BC" -> "B" [] p = "DE" -> "D" [] p = "HL" -> "H"
LowerOf(p) == CASE p = "BC" -> "C" [] p = "DE" -> "E" [] p = "HL" -> "L"

\* Writing BC, DE or HL changes its two halves, and nothing else.
LEMMA Assign16Views ==
  ASSUME NEW r \in CleanFile, NEW p \in {"BC", "DE", "HL"}, NEW w \in Word
  PROVE  /\ \A n \in Register8 : Value8(Assign16(r, p, w), n) = IF n = UpperOf(p) THEN High(w)
                                                                ELSE IF n = LowerOf(p) THEN Low(w) ELSE Value8(r, n)
         /\ Flags(Assign16(r, p, w)) = Flags(r)
<1>1. r \in [Register16 -> Word] /\ p \in Register16 /\ "AF" \in Register16
  BY DEF CleanFile, RegisterFile, Register16
<1>0. p # "AF"
  OBVIOUS
<1>2. Assign16(r, p, w) = [r EXCEPT ![p] = w]
  BY <1>0, Zenon DEF Assign16
<1>3. Assign16(r, p, w)[p] = w /\ \A n \in Register16 : n # p => Assign16(r, p, w)[n] = r[n]
  BY <1>1, <1>2
<1>4. Value8(Assign16(r, p, w), "F") = Value8(r, "F")
  BY <1>1, <1>3 DEF Value8, Whole, UpperByte
<1>5. ASSUME NEW n \in Register8
      PROVE  Value8(Assign16(r, p, w), n) = IF n = UpperOf(p) THEN High(w)
                                            ELSE IF n = LowerOf(p) THEN Low(w) ELSE Value8(r, n)
  <2>1. Whole(n) \in Register16
    BY DEF Whole, Register16
  <2>2. CASE Whole(n) # p
    <3>1. n # UpperOf(p) /\ n # LowerOf(p)
      BY <2>2 DEF Whole, UpperOf, LowerOf
    <3> QED
      BY <1>3, <2>1, <2>2, <3>1 DEF Value8
  <2>3. CASE Whole(n) = p
    <3>1. IF n \in UpperByte THEN n = UpperOf(p) ELSE n = LowerOf(p) /\ n # UpperOf(p)
      BY <2>3 DEF Whole, UpperOf, LowerOf, UpperByte, Register8
    <3> QED
      BY <1>3, <2>3, <3>1 DEF Value8
  <2> QED
    BY <2>2, <2>3
<1> QED
  BY <1>4, <1>5 DEF Flags

\* The registers that are no part of the pairs.
LEMMA Assign16Others ==
  ASSUME NEW r \in CleanFile, NEW p \in {"PC", "SP", "WZ"}, NEW w \in Word
  PROVE  /\ \A n \in Register8 : Value8(Assign16(r, p, w), n) = Value8(r, n)
         /\ Flags(Assign16(r, p, w)) = Flags(r)
<1>1. r \in [Register16 -> Word] /\ p \in Register16 /\ "AF" \in Register16
  BY DEF CleanFile, RegisterFile, Register16
<1>2. \A n \in Register16 : n # p => Assign16(r, p, w)[n] = r[n]
  BY <1>1 DEF Assign16
<1>3. \A n \in Register8 \cup {"F"} : Whole(n) \in Register16 /\ Whole(n) # p
  BY DEF Register8, Whole, Register16
<1>4. \A n \in Register8 \cup {"F"} : Value8(Assign16(r, p, w), n) = Value8(r, n)
  BY <1>2, <1>3 DEF Value8
<1> QED
  BY <1>4 DEF Flags

\* Writing a word leaves the other words.
LEMMA Assign16Kept ==
  ASSUME NEW r \in CleanFile, NEW p \in Register16, NEW w \in Word
  PROVE  /\ p # "AF" => Assign16(r, p, w)[p] = w
         /\ \A n \in Register16 : n # p => Assign16(r, p, w)[n] = r[n]
  BY DEF Assign16, CleanFile, RegisterFile

\* ++ and -- on a word are an assignment modulo 65536.
LEMMA BumpIsAssign ==
  ASSUME NEW r \in CleanFile, NEW p \in Register16 \ {"AF"}, NEW by \in Int
  PROVE  (r[p] + by) % 65536 \in Word /\ Bump(r, p, by) = Assign16(r, p, (r[p] + by) % 65536)
<1>1. r[p] \in Word
  BY DEF CleanFile, RegisterFile
<1> QED
  BY <1>1 DEF Word, Bump, Assign16, CleanFile, RegisterFile
-----------------------------------------------------------------------------
(* The machine that programs see, after each operation on the registers. *)

Image(a, b, c, d, e, f, g) ==
  [r |-> a, flags |-> b, sp |-> c, pc |-> d, enabled |-> e, armed |-> f, ram |-> g]

\* Changing one component of the machine, component by component.
LEMMA ImageFlags ==
  ASSUME NEW a, NEW b, NEW c, NEW d, NEW e, NEW f, NEW g, NEW v
  PROVE  [Image(a, b, c, d, e, f, g) EXCEPT !.flags = v] = Image(a, v, c, d, e, f, g)
  BY DEF Image

LEMMA ImageSP ==
  ASSUME NEW a, NEW b, NEW c, NEW d, NEW e, NEW f, NEW g, NEW v
  PROVE  [Image(a, b, c, d, e, f, g) EXCEPT !.sp = v] = Image(a, b, v, d, e, f, g)
  BY DEF Image

LEMMA ImagePC ==
  ASSUME NEW a, NEW b, NEW c, NEW d, NEW e, NEW f, NEW g, NEW v
  PROVE  [Image(a, b, c, d, e, f, g) EXCEPT !.pc = v] = Image(a, b, c, v, e, f, g)
  BY DEF Image

LEMMA ImageEnabled ==
  ASSUME NEW a, NEW b, NEW c, NEW d, NEW e, NEW f, NEW g, NEW v
  PROVE  [Image(a, b, c, d, e, f, g) EXCEPT !.enabled = v] = Image(a, b, c, d, v, f, g)
  BY DEF Image

LEMMA ImageArmed ==
  ASSUME NEW a, NEW b, NEW c, NEW d, NEW e, NEW f, NEW g, NEW v
  PROVE  [Image(a, b, c, d, e, f, g) EXCEPT !.armed = v] = Image(a, b, c, d, e, v, g)
  BY DEF Image

LEMMA ImageRam ==
  ASSUME NEW a, NEW b, NEW c, NEW d, NEW e, NEW f, NEW g, NEW v
  PROVE  [Image(a, b, c, d, e, f, g) EXCEPT !.ram = v] = Image(a, b, c, d, e, f, v)
  BY DEF Image

\* The 8-bit registers as a program sees them.
Seen8(r) == [n \in Register8 |-> Value8(r, n)]

On(i)      == i = "ENABLED"
Pending(i) == i = "PENDING"

\* The machine that programs see, component by component.
LEMMA MachineIsImage ==
  ASSUME NEW r, NEW i, NEW m, NEW pc
  PROVE  Machine(r, i, m, pc) = Image(Seen8(r), FlagNames(Flags(r)), r["SP"], pc, On(i), Pending(i), m)
  BY DEF Machine, Image, Seen8, FlagNames, On, Pending

\* Files that agree on registers, flags and SP show the same machine.
LEMMA SameMachine ==
  ASSUME NEW r, NEW q, NEW i, NEW m, NEW pc,
         \A n \in Register8 : Value8(q, n) = Value8(r, n),
         Flags(q) = Flags(r), q["SP"] = r["SP"]
  PROVE  Machine(q, i, m, pc) = Machine(r, i, m, pc)
  BY DEF Machine

\* PC, W and Z are not seen: the machine's own pc is that of the boundary.
LEMMA MachineInternal ==
  ASSUME NEW r \in CleanFile, NEW i, NEW m, NEW pc
  PROVE  /\ \A n \in {"W", "Z"}, v \in Byte : Machine(Assign8(r, n, v), i, m, pc) = Machine(r, i, m, pc)
         /\ \A p \in {"PC", "WZ"}, w \in Word : Machine(Assign16(r, p, w), i, m, pc) = Machine(r, i, m, pc)
         /\ \A p \in {"PC", "WZ"}, by \in Int : Machine(Bump(r, p, by), i, m, pc) = Machine(r, i, m, pc)
<1>1. "SP" \in Register16 /\ {"PC", "WZ"} \subseteq Register16 \ {"AF"}
  BY DEF Register16
<1>2. ASSUME NEW n \in {"W", "Z"}, NEW v \in Byte
      PROVE  Machine(Assign8(r, n, v), i, m, pc) = Machine(r, i, m, pc)
  <2>1. n \in Plain8 /\ Whole(n) = "WZ" /\ n \notin Register8 /\ Register8 \subseteq Plain8
    BY DEF Plain8, Register8, Whole
  <2>2. /\ \A k \in Register8 : Value8(Assign8(r, n, v), k) = Value8(r, k)
        /\ Assign8(r, n, v)["SP"] = r["SP"]
    BY <1>1, <2>1, Assign8Views
  <2> QED
    BY <2>1, <2>2, Assign8Flags, SameMachine
<1>3. ASSUME NEW p \in {"PC", "WZ"}, NEW w \in Word
      PROVE  Machine(Assign16(r, p, w), i, m, pc) = Machine(r, i, m, pc)
  <2>1. Assign16(r, p, w)["SP"] = r["SP"]
    BY <1>1, Assign16Kept
  <2> QED
    BY <2>1, Assign16Others, SameMachine
<1>4. ASSUME NEW p \in {"PC", "WZ"}, NEW by \in Int
      PROVE  Machine(Bump(r, p, by), i, m, pc) = Machine(r, i, m, pc)
  BY <1>1, <1>3, BumpIsAssign
<1> QED
  BY <1>2, <1>3, <1>4

Stored8(s, n, v) == [s EXCEPT !.r[n] = v]

\* Writing a register that programs see.
LEMMA MachineStored8 ==
  ASSUME NEW r \in CleanFile, NEW i, NEW m, NEW pc, NEW d \in Register8, NEW v \in Byte
  PROVE  Machine(Assign8(r, d, v), i, m, pc) = Stored8(Machine(r, i, m, pc), d, v)
<1>1. d \in Plain8 /\ Whole(d) # "SP" /\ "SP" \in Register16 /\ Register8 \subseteq Plain8
  BY DEF Plain8, Register8, Whole, Register16
<1>2. /\ \A n \in Register8 : Value8(Assign8(r, d, v), n) = IF n = d THEN v ELSE Value8(r, n)
      /\ Assign8(r, d, v)["SP"] = r["SP"]
  BY <1>1, Assign8Views
<1>3. Flags(Assign8(r, d, v)) = Flags(r)
  BY <1>1, Assign8Flags
<1>4. Seen8(Assign8(r, d, v)) = [Seen8(r) EXCEPT ![d] = v]
  BY <1>2, Zenon DEF Seen8
<1>5. /\ Machine(r, i, m, pc) = Image(Seen8(r), FlagNames(Flags(r)), r["SP"], pc, On(i), Pending(i), m)
      /\ Machine(Assign8(r, d, v), i, m, pc)
           = Image(Seen8(Assign8(r, d, v)), FlagNames(Flags(Assign8(r, d, v))), Assign8(r, d, v)["SP"], pc, On(i), Pending(i), m)
  BY MachineIsImage
<1>6. Machine(Assign8(r, d, v), i, m, pc)
           = Image([Seen8(r) EXCEPT ![d] = v], FlagNames(Flags(r)), r["SP"], pc, On(i), Pending(i), m)
  BY <1>2, <1>3, <1>4, <1>5, Zenon
<1> DEFINE a == Seen8(r)
           b == FlagNames(Flags(r))
           c == r["SP"]
           e == On(i)
           f == Pending(i)
<1>7. Machine(r, i, m, pc) = Image(a, b, c, pc, e, f, m)
  BY <1>5
<1>8. Machine(Assign8(r, d, v), i, m, pc) = Image([a EXCEPT ![d] = v], b, c, pc, e, f, m)
  BY <1>6
<1> HIDE DEF a, b, c, e, f
<1>9. [Image(a, b, c, pc, e, f, m) EXCEPT !.r[d] = v] = Image([a EXCEPT ![d] = v], b, c, pc, e, f, m)
  BY DEF Image
<1>20. Machine(Assign8(r, d, v), i, m, pc) = [Machine(r, i, m, pc) EXCEPT !.r[d] = v]
  BY <1>7, <1>8, <1>9
<1> QED
  BY <1>20 DEF Stored8

\* The same, as an update of the record.
LEMMA MachineAssign8 ==
  ASSUME NEW r \in CleanFile, NEW i, NEW m, NEW pc, NEW d \in Register8, NEW v \in Byte
  PROVE  Machine(Assign8(r, d, v), i, m, pc) = [Machine(r, i, m, pc) EXCEPT !.r[d] = v]
<1>1. Machine(Assign8(r, d, v), i, m, pc) = Stored8(Machine(r, i, m, pc), d, v)
  BY MachineStored8
<1> QED
  BY <1>1 DEF Stored8

\* Writing the flags.
LEMMA MachineFlags ==
  ASSUME NEW r \in CleanFile, NEW i, NEW m, NEW pc, NEW S, S \subseteq FlagPositions
  PROVE  Machine(AssignFlags(r, S), i, m, pc) = [Machine(r, i, m, pc) EXCEPT !.flags = FlagNames(S)]
<1>1. "SP" \in Register16 /\ Register8 \subseteq Plain8
  BY DEF Plain8, Register16
<1>2. /\ \A n \in Register8 : Value8(AssignFlags(r, S), n) = Value8(r, n)
      /\ Flags(AssignFlags(r, S)) = S
      /\ AssignFlags(r, S)["SP"] = r["SP"]
  BY <1>1, AssignFlagsViews
<1>3. Seen8(AssignFlags(r, S)) = Seen8(r)
  BY <1>2 DEF Seen8
<1> QED
  BY <1>2, <1>3, MachineIsImage, ImageFlags

\* Writing SP.
LEMMA MachineSP ==
  ASSUME NEW r \in CleanFile, NEW i, NEW m, NEW pc, NEW w \in Word
  PROVE  Machine(Assign16(r, "SP", w), i, m, pc) = [Machine(r, i, m, pc) EXCEPT !.sp = w]
<1>1. Assign16(r, "SP", w)["SP"] = w
  BY Assign16Kept DEF Register16
<1>2. Seen8(Assign16(r, "SP", w)) = Seen8(r) /\ Flags(Assign16(r, "SP", w)) = Flags(r)
  BY Assign16Others DEF Seen8
<1> QED
  BY <1>1, <1>2, MachineIsImage, ImageSP

\* Writing the word that the instruction set numbers p.
LEMMA MachinePair ==
  ASSUME NEW r \in CleanFile, NEW i, NEW m, NEW pc, NEW p \in 0 .. 3, NEW v \in Int
  PROVE  /\ v % 65536 \in Word
         /\ Machine(Assign16(r, PairOf[p + 1], v % 65536), i, m, pc) = Architecture!Set16(Machine(r, i, m, pc), p, v)
<1> DEFINE w == v % 65536
           q == PairOf[p + 1]
<1>1. w \in Word /\ High(w) = (v % 65536) \div 256 /\ Low(w) = v % 256
  BY DEF Word, High, Low
<1>2. CASE p = 3
  <2>1. q = "SP" /\ Architecture!Set16(Machine(r, i, m, pc), p, v) = [Machine(r, i, m, pc) EXCEPT !.sp = w]
    BY <1>2 DEF PairOf, Architecture!Set16
  <2> QED
    BY <1>1, <2>1, MachineSP
<1>3. CASE p # 3
  <2> DEFINE up == UpperOf(q)
             lo == LowerOf(q)
             a  == Seen8(r)
             b  == FlagNames(Flags(r))
             c  == r["SP"]
             e  == On(i)
             f  == Pending(i)
  <2>1. /\ q \in {"BC", "DE", "HL"}
        /\ up = Architecture!Name16[p + 1][1] /\ lo = Architecture!Name16[p + 1][2]
        /\ up \in Register8 /\ lo \in Register8 /\ up # lo
    BY <1>3 DEF PairOf, UpperOf, LowerOf, Architecture!Name16, Register8
  <2>2. q # "SP" /\ {q, "SP"} \subseteq Register16
    BY <2>1 DEF Register16
  <2>3. Assign16(r, q, w)["SP"] = c /\ Flags(Assign16(r, q, w)) = Flags(r)
    BY <1>1, <2>1, <2>2, Assign16Kept, Assign16Views
  <2>4. Seen8(Assign16(r, q, w)) = [a EXCEPT ![up] = High(w), ![lo] = Low(w)]
    <3>1. \A n \in Register8 : Value8(Assign16(r, q, w), n) = IF n = up THEN High(w)
                                                              ELSE IF n = lo THEN Low(w) ELSE Value8(r, n)
      BY <1>1, <2>1, Assign16Views
    <3> HIDE DEF up, lo, q, w
    <3> QED
      BY <2>1, <3>1 DEF Seen8
  <2>5. Machine(r, i, m, pc) = Image(a, b, c, pc, e, f, m)
    BY MachineIsImage
  <2>6. Machine(Assign16(r, q, w), i, m, pc)
          = Image(Seen8(Assign16(r, q, w)), FlagNames(Flags(Assign16(r, q, w))), Assign16(r, q, w)["SP"], pc, e, f, m)
    BY MachineIsImage
  <2>7. b = FlagNames(Flags(r))
    OBVIOUS
  <2> HIDE DEF a, b, c, e, f, up, lo, w, q
  <2> DEFINE one == [a EXCEPT ![up] = High(w)]
             two == [one EXCEPT ![lo] = Low(w)]
  <2>8. Machine(Assign16(r, q, w), i, m, pc) = Image(two, b, c, pc, e, f, m)
    BY <2>3, <2>4, <2>6, <2>7
  <2>9. Architecture!Set16(Machine(r, i, m, pc), p, v)
          = [Machine(r, i, m, pc) EXCEPT !.r[Architecture!Name16[p + 1][1]] = (v % 65536) \div 256,
                                         !.r[Architecture!Name16[p + 1][2]] = v % 256]
    BY <1>3 DEF Architecture!Set16
  <2>10. Architecture!Set16(Machine(r, i, m, pc), p, v)
          = [Image(a, b, c, pc, e, f, m) EXCEPT !.r[up] = High(w), !.r[lo] = Low(w)]
    BY <1>1, <2>1, <2>5, <2>9
  <2>11. [Image(a, b, c, pc, e, f, m) EXCEPT !.r[up] = High(w)] = Image(one, b, c, pc, e, f, m)
    BY DEF Image
  <2> HIDE DEF one
  <2>12. [Image(one, b, c, pc, e, f, m) EXCEPT !.r[lo] = Low(w)] = Image(two, b, c, pc, e, f, m)
    BY DEF Image
  <2> HIDE DEF two
  <2>13. [Image(a, b, c, pc, e, f, m) EXCEPT !.r[up] = High(w), !.r[lo] = Low(w)] = Image(two, b, c, pc, e, f, m)
    BY <2>11, <2>12
  <2>14. Machine(Assign16(r, q, w), i, m, pc) = Architecture!Set16(Machine(r, i, m, pc), p, v)
    BY <2>8, <2>10, <2>13
  <2> QED
    BY <1>1, <2>14 DEF q, w
<1> QED
  BY <1>2, <1>3

\* Writing through the bus is the instruction set's write to memory.
LEMMA MachineRam ==
  ASSUME NEW r, NEW i, NEW pc, NEW a, NEW v
  PROVE  Machine(r, i, BusWrite(a, v), pc) = Architecture!Poke(Machine(r, i, ram, pc), a, v)
<1> DEFINE b == Seen8(r)
           c == FlagNames(Flags(r))
           d == r["SP"]
           e == On(i)
           f == Pending(i)
<1>1. \A m : Machine(r, i, m, pc) = Image(b, c, d, pc, e, f, m)
  BY MachineIsImage
<1> HIDE DEF b, c, d, e, f
<1>2. [Image(b, c, d, pc, e, f, ram) EXCEPT !.ram[a] = v] = Image(b, c, d, pc, e, f, [ram EXCEPT ![a] = v])
  BY DEF Image
<1> QED
  BY <1>1, <1>2 DEF BusWrite, RamAddress, RamStart, Architecture!Poke

\* What is read of the machine is what is read of the file.
LEMMA MachineR ==
  ASSUME NEW r, NEW i, NEW m, NEW pc, NEW n \in Register8
  PROVE  Machine(r, i, m, pc).r[n] = Value8(r, n)
  BY DEF Machine

LEMMA MachineRest ==
  ASSUME NEW r, NEW i, NEW m, NEW pc
  PROVE  /\ Machine(r, i, m, pc).flags = FlagNames(Flags(r))
         /\ Machine(r, i, m, pc).sp = r["SP"]
         /\ Machine(r, i, m, pc).pc = pc
         /\ Machine(r, i, m, pc).ram = m
         /\ Machine(r, i, m, pc).enabled <=> On(i)
         /\ Machine(r, i, m, pc).armed <=> Pending(i)
  BY DEF Machine, FlagNames, On, Pending

\* A word is made of its two halves.
LEMMA PairWhole ==
  ASSUME NEW r \in CleanFile
  PROVE  /\ r["AF"] = 256 * Value8(r, "A") + Value8(r, "F")
         /\ r["BC"] = 256 * Value8(r, "B") + Value8(r, "C")
         /\ r["DE"] = 256 * Value8(r, "D") + Value8(r, "E")
         /\ r["HL"] = 256 * Value8(r, "H") + Value8(r, "L")
         /\ r["WZ"] = 256 * Value8(r, "W") + Value8(r, "Z")
<1>1. \A p \in {"AF", "BC", "DE", "HL", "WZ"} : r[p] \in Word /\ r[p] = 256 * High(r[p]) + Low(r[p])
  <2>1. \A p \in {"AF", "BC", "DE", "HL", "WZ"} : r[p] \in Word
    BY DEF CleanFile, RegisterFile, Register16
  <2>2. \A w \in Word : w = 256 * High(w) + Low(w)
    BY DEF Word, High, Low
  <2> QED
    BY <2>1, <2>2
<1>2. /\ Value8(r, "A") = High(r["AF"]) /\ Value8(r, "F") = Low(r["AF"])
      /\ Value8(r, "B") = High(r["BC"]) /\ Value8(r, "C") = Low(r["BC"])
      /\ Value8(r, "D") = High(r["DE"]) /\ Value8(r, "E") = Low(r["DE"])
      /\ Value8(r, "H") = High(r["HL"]) /\ Value8(r, "L") = Low(r["HL"])
      /\ Value8(r, "W") = High(r["WZ"]) /\ Value8(r, "Z") = Low(r["WZ"])
  BY DEF Value8, Whole, UpperByte
<1> QED
  BY <1>1, <1>2

-----------------------------------------------------------------------------
(* What the code reads and what the instruction set reads. *)

MachineState ==
  [r : [Register8 -> Byte], flags : SUBSET {"Z", "N", "H", "C"}, sp : Word, pc : Word,
   enabled : BOOLEAN, armed : BOOLEAN, ram : RamImage]

\* The names of the four flag positions.
LEMMA FlagNameOf == FlagName[Zero] = "Z" /\ FlagName[Subtract] = "N" /\ FlagName[HalfCarry] = "H" /\ FlagName[Carry] = "C"
  BY DEF FlagName, FlagPositions, Zero, Subtract, HalfCarry, Carry

\* The names of a set of flags are those of its members.
LEMMA NamedFlags ==
  ASSUME NEW S, S \subseteq FlagPositions
  PROVE  /\ FlagNames(S) \subseteq {"Z", "N", "H", "C"}
         /\ "Z" \in FlagNames(S) <=> Zero \in S
         /\ "N" \in FlagNames(S) <=> Subtract \in S
         /\ "H" \in FlagNames(S) <=> HalfCarry \in S
         /\ "C" \in FlagNames(S) <=> Carry \in S
<1>1. \A f \in S : f \in {Zero, Subtract, HalfCarry, Carry}
  BY DEF FlagPositions
<1>2. Zero # Subtract /\ Zero # HalfCarry /\ Zero # Carry /\ Subtract # HalfCarry /\ Subtract # Carry /\ HalfCarry # Carry
  BY DEF Zero, Subtract, HalfCarry, Carry
<1> QED
  BY <1>1, <1>2, FlagNameOf DEF FlagNames

\* Two sets of flag names are equal when they agree on the four flags.
LEMMA SameFlags ==
  ASSUME NEW S, NEW T, S \subseteq {"Z", "N", "H", "C"}, T \subseteq {"Z", "N", "H", "C"},
         "Z" \in S <=> "Z" \in T, "N" \in S <=> "N" \in T, "H" \in S <=> "H" \in T, "C" \in S <=> "C" \in T
  PROVE  S = T
<1>1. ASSUME NEW f
      PROVE  f \in S <=> f \in T
  <2>1. f \in S \/ f \in T => f \in {"Z", "N", "H", "C"}
    OBVIOUS
  <2> QED
    BY <2>1
<1> QED
  BY <1>1

\* The machine seen through a clean file is a machine state.
LEMMA MachineType ==
  ASSUME NEW r \in CleanFile, NEW i, NEW m \in RamImage, NEW pc \in Word
  PROVE  Machine(r, i, m, pc) \in MachineState
<1>1. Seen8(r) \in [Register8 -> Byte]
  BY Value8Type DEF Seen8
<1>2. FlagNames(Flags(r)) \in SUBSET {"Z", "N", "H", "C"}
  <2>1. Flags(r) \subseteq FlagPositions
    BY DEF Flags
  <2> QED
    BY <2>1, NamedFlags
<1>3. r["SP"] \in Word
  BY DEF CleanFile, RegisterFile, Register16
<1>4. On(i) \in BOOLEAN /\ Pending(i) \in BOOLEAN
  BY DEF On, Pending
<1> DEFINE a == Seen8(r)
           b == FlagNames(Flags(r))
           c == r["SP"]
           e == On(i)
           f == Pending(i)
<1>5. Machine(r, i, m, pc) = Image(a, b, c, pc, e, f, m)
  BY MachineIsImage
<1> HIDE DEF a, b, c, e, f
<1>6. Image(a, b, c, pc, e, f, m) \in MachineState
  BY <1>1, <1>2, <1>3, <1>4 DEF Image, MachineState, a, b, c, e, f
<1> QED
  BY <1>5, <1>6

\* A byte that no other device answers passes the bus as it is.
LEMMA OrOntoNothing ==
  ASSUME NEW b \in Byte
  PROVE  Or(0, b) = b
<1>1. Bits(0) \cup Bits(b) = Bits(b) \cup Bits(0)
  OBVIOUS
<1> QED
  BY <1>1, OrNothing DEF Or

\* The bus, which ORs what its devices read, reads the memory map.
LEMMA ReadIsPeek ==
  ASSUME BusTypeOK, NEW a \in Word, boundary.ram = ram
  PROVE  BusRead(a) = Architecture!Peek(a)
<1>1. 0 \in Byte
  BY DEF Byte
<1>2. CASE a < \h8000
  <2>1. RamRead(a) = 0
    BY <1>2 DEF RamRead, RamAddress, RamStart
  <2>2. CartridgeRead(a) = IF a \in DOMAIN rom THEN rom[a] ELSE RomFill
    BY <1>2 DEF CartridgeRead, RomEnd, Word
  <2>3. CartridgeRead(a) \in Byte
    BY <2>2, BusAssumption DEF BusTypeOK, BusAssumption
  <2> QED
    BY <1>2, <2>1, <2>2, <2>3, OrNothing DEF BusRead, Architecture!Peek
<1>3. CASE ~(a < \h8000)
  <2>1. CartridgeRead(a) = 0
    BY <1>3 DEF CartridgeRead, RomEnd, Word
  <2>2. RamRead(a) = IF a \in \hC000 .. RamEnd THEN boundary.ram[a] ELSE 0
    BY DEF RamRead, RamAddress, RamStart
  <2>3. RamRead(a) \in Byte
    BY <1>1 DEF RamRead, BusTypeOK
  <2> QED
    BY <1>3, <2>1, <2>2, <2>3, OrOntoNothing DEF BusRead, Architecture!Peek
<1> QED
  BY <1>2, <1>3

\* What is read from memory is a byte.
LEMMA PeekType ==
  ASSUME BusTypeOK, boundary \in MachineState, NEW a
  PROVE  Architecture!Peek(a) \in Byte
<1>1. 0 \in Byte
  BY DEF Byte
<1>2. RomFill \in Byte
  BY BusAssumption DEF BusAssumption
<1>3. \A k \in RamAddress : boundary.ram[k] \in Byte
  <2>1. boundary.ram \in [RamAddress -> Byte]
    BY DEF MachineState, RamImage
  <2> QED
    BY <2>1
<1>4. \A k \in DOMAIN rom : rom[k] \in Byte
  BY DEF BusTypeOK
<1>5. Architecture!Peek(a) = IF a < \h8000 THEN (IF a \in DOMAIN rom THEN rom[a] ELSE RomFill)
                             ELSE IF a \in RamAddress THEN boundary.ram[a] ELSE 0
  BY DEF Architecture!Peek, RamAddress, RamStart
<1> QED
  BY <1>1, <1>2, <1>3, <1>4, <1>5

\* The opcode and its operands are bytes and words.
LEMMA OperandTypes ==
  ASSUME BusTypeOK, boundary \in MachineState
  PROVE  /\ Architecture!opcode \in Byte /\ Architecture!imm8 \in Byte
         /\ Architecture!imm16 \in Word /\ Architecture!Popped \in Word
<1>1. \A a : Architecture!Peek16(a) \in Word
  <2>1. \A a : Architecture!Peek(a) \in Byte
    BY PeekType
  <2>2. \A h, l \in Byte : 256 * h + l \in Word
    BY DEF Byte, Word
  <2> QED
    BY <2>1, <2>2 DEF Architecture!Peek16
<1> QED
  BY <1>1, PeekType DEF Architecture!opcode, Architecture!imm8, Architecture!imm16, Architecture!Popped

\* The octal digits of the opcode.
LEMMA OctalDigits ==
  ASSUME BusTypeOK, boundary \in MachineState
  PROVE  Architecture!x \in 0 .. 3 /\ Architecture!y \in 0 .. 7 /\ Architecture!z \in 0 .. 7
<1>1. Architecture!opcode \in 0 .. 255
  BY OperandTypes DEF Byte
<1> QED
  BY <1>1 DEF Architecture!x, Architecture!y, Architecture!z

\* Every register number but 6 names a register; 7 names A.
LEMMA RegisterNames ==
  /\ \A k \in 0 .. 7 : k # 6 => Architecture!Name8[k + 1] \in Register8
  /\ Architecture!Name8[8] = "A"
  BY DEF Architecture!Name8, Register8

\* Stores to two addresses commute.
LEMMA PokesCommute ==
  ASSUME NEW s \in MachineState, NEW a, NEW b, NEW v, NEW w, a # b
  PROVE  Architecture!Poke(Architecture!Poke(s, a, v), b, w) = Architecture!Poke(Architecture!Poke(s, b, w), a, v)
<1>1. CASE ~(a \in \hC000 .. RamEnd) \/ ~(b \in \hC000 .. RamEnd)
  BY <1>1 DEF Architecture!Poke
<1>2. CASE a \in \hC000 .. RamEnd /\ b \in \hC000 .. RamEnd
  <2>1. PICK p1, p2, p3, p4, p5, p6, p7 : s = Image(p1, p2, p3, p4, p5, p6, p7)
    BY DEF MachineState, Image
  <2>2. /\ Architecture!Poke(Architecture!Poke(s, a, v), b, w) = [[s EXCEPT !.ram[a] = v] EXCEPT !.ram[b] = w]
        /\ Architecture!Poke(Architecture!Poke(s, b, w), a, v) = [[s EXCEPT !.ram[b] = w] EXCEPT !.ram[a] = v]
    BY <1>2 DEF Architecture!Poke
  <2>3. [[p7 EXCEPT ![a] = v] EXCEPT ![b] = w] = [[p7 EXCEPT ![b] = w] EXCEPT ![a] = v]
    OBVIOUS
  <2> DEFINE q1 == [p7 EXCEPT ![a] = v]
             q2 == [p7 EXCEPT ![b] = w]
             q3 == [q1 EXCEPT ![b] = w]
  <2>4. /\ [s EXCEPT !.ram[a] = v] = Image(p1, p2, p3, p4, p5, p6, q1)
        /\ [s EXCEPT !.ram[b] = w] = Image(p1, p2, p3, p4, p5, p6, q2)
    BY <2>1 DEF Image
  <2>5. [q2 EXCEPT ![a] = v] = q3
    BY <2>3
  <2> HIDE DEF q1, q2
  <2>6. [Image(p1, p2, p3, p4, p5, p6, q1) EXCEPT !.ram[b] = w] = Image(p1, p2, p3, p4, p5, p6, q3)
    BY DEF Image
  <2>7. [Image(p1, p2, p3, p4, p5, p6, q2) EXCEPT !.ram[a] = v] = Image(p1, p2, p3, p4, p5, p6, [q2 EXCEPT ![a] = v])
    BY DEF Image
  <2> QED
    BY <2>2, <2>4, <2>5, <2>6, <2>7
<1> QED
  BY <1>1, <1>2

-----------------------------------------------------------------------------
(* Arithmetic: what the code computes with carry bits and flag sets is the *)
(* arithmetic on numbers of the instruction set.                           *)

\* AND, XOR and OR, bit by bit, are those of the code.
LEMMA BitwiseIsLogic ==
  ASSUME boundary.r["A"] \in Byte, NEW v \in Byte
  PROVE  /\ Architecture!Bitwise2(Architecture!Both, v) = And(boundary.r["A"], v)
         /\ Architecture!Bitwise2(Architecture!Exactly, v) = Xor(boundary.r["A"], v)
         /\ Architecture!Bitwise2(Architecture!Either, v) = Or(boundary.r["A"], v)
<1> DEFINE a == boundary.r["A"]
           l(i) == (a \div BitMask(i)) % 2
           r(i) == (v \div BitMask(i)) % 2
           and(i) == IF i \in Bits(a) \cap Bits(v) THEN BitMask(i) ELSE 0
           or(i)  == IF i \in Bits(a) \cup Bits(v) THEN BitMask(i) ELSE 0
           xor(i) == IF i \in (Bits(a) \cup Bits(v)) \ (Bits(a) \cap Bits(v)) THEN BitMask(i) ELSE 0
<1>1. ASSUME NEW i \in 0 .. 7
      PROVE  /\ Architecture!Both(l(i), r(i)) * BitMask(i) = and(i)
             /\ Architecture!Exactly(l(i), r(i)) * BitMask(i) = xor(i)
             /\ Architecture!Either(l(i), r(i)) * BitMask(i) = or(i)
  <2>1. BitMask(i) \in Nat /\ BitMask(i) > 0
    BY DEF BitMask
  <2>2. a \in Nat /\ v \in Nat
    BY DEF Byte
  <2>3. a \div BitMask(i) \in Int /\ v \div BitMask(i) \in Int
    BY <2>1, <2>2
  <2>4. l(i) \in {0, 1} /\ r(i) \in {0, 1}
    BY <2>3
  <2>5. (i \in Bits(a) <=> l(i) = 1) /\ (i \in Bits(v) <=> r(i) = 1)
    BY DEF Bits, BitIndex
  <2> HIDE DEF l, r
  <2> QED
    BY <2>1, <2>4, <2>5 DEF Architecture!Both, Architecture!Exactly, Architecture!Either
<1>2. /\ And(a, v) = and(0) + and(1) + and(2) + and(3) + and(4) + and(5) + and(6) + and(7)
      /\ Or(a, v) = or(0) + or(1) + or(2) + or(3) + or(4) + or(5) + or(6) + or(7)
      /\ Xor(a, v) = xor(0) + xor(1) + xor(2) + xor(3) + xor(4) + xor(5) + xor(6) + xor(7)
  BY DEF And, Or, Xor, FromBits
<1>0. \A i : Architecture!BitMask(i) = BitMask(i)
  BY DEF Architecture!BitMask, BitMask
<1> DEFINE both(i) == Architecture!Both(l(i), r(i)) * BitMask(i)
           exactly(i) == Architecture!Exactly(l(i), r(i)) * BitMask(i)
           either(i) == Architecture!Either(l(i), r(i)) * BitMask(i)
<1>3. Architecture!Bitwise2(Architecture!Both, v)
        = both(0) + both(1) + both(2) + both(3) + both(4) + both(5) + both(6) + both(7)
  BY <1>0 DEF Architecture!Bitwise2, Architecture!A
<1>4. Architecture!Bitwise2(Architecture!Exactly, v)
        = exactly(0) + exactly(1) + exactly(2) + exactly(3) + exactly(4) + exactly(5) + exactly(6) + exactly(7)
  BY <1>0 DEF Architecture!Bitwise2, Architecture!A
<1>5. Architecture!Bitwise2(Architecture!Either, v)
        = either(0) + either(1) + either(2) + either(3) + either(4) + either(5) + either(6) + either(7)
  BY <1>0 DEF Architecture!Bitwise2, Architecture!A
<1>6. \A i \in 0 .. 7 : both(i) = and(i) /\ exactly(i) = xor(i) /\ either(i) = or(i)
  BY <1>1
<1> HIDE DEF and, or, xor, both, exactly, either
<1> QED
  BY <1>2, <1>3, <1>4, <1>5, <1>6

\* When each of the flags is set that follow from a result.
LEMMA FlagIfNames ==
  ASSUME NEW x
  PROVE  /\ Zero \in ZeroFlag(x) <=> x.result = 0
         /\ HalfCarry \in HalfCarryFlag(x) <=> 3 \in x.carryBits
         /\ Carry \in CarryFlag(x) <=> 7 \in x.carryBits
         /\ ZeroFlag(x) \subseteq {Zero} /\ HalfCarryFlag(x) \subseteq {HalfCarry} /\ CarryFlag(x) \subseteq {Carry}
  BY DEF ZeroFlag, HalfCarryFlag, CarryFlag, FlagIf

\* The flags after each of the eight operations, by name.
LEMMA OperationFlagNames ==
  ASSUME NEW o \in MathOperation, NEW x
  PROVE  LET F == FlagNames(OperationFlags(o, x))
         IN  /\ F \subseteq {"Z", "N", "H", "C"}
             /\ "Z" \in F <=> x.result = 0
             /\ "N" \in F <=> o \in {"Sub", "Sbc", "Cp"}
             /\ "H" \in F <=> o = "And" \/ (o \notin {"And", "Xor", "Or"} /\ 3 \in x.carryBits)
             /\ "C" \in F <=> o \notin {"And", "Xor", "Or"} /\ 7 \in x.carryBits
<1> DEFINE S == OperationFlags(o, x)
<1>1. Zero # Subtract /\ Zero # HalfCarry /\ Zero # Carry /\ Subtract # HalfCarry /\ Subtract # Carry /\ HalfCarry # Carry
  BY DEF Zero, Subtract, HalfCarry, Carry
<1>2. /\ Zero \in S <=> x.result = 0
      /\ Subtract \in S <=> o \in {"Sub", "Sbc", "Cp"}
      /\ HalfCarry \in S <=> o = "And" \/ (o \notin {"And", "Xor", "Or"} /\ 3 \in x.carryBits)
      /\ Carry \in S <=> o \notin {"And", "Xor", "Or"} /\ 7 \in x.carryBits
  <2>1. CASE o \in {"Add", "Adc"}
    <3>1. S = ZeroFlag(x) \cup HalfCarryFlag(x) \cup CarryFlag(x)
      BY <2>1 DEF OperationFlags, AdditionFlags
    <3> HIDE DEF S
    <3> QED
      BY <1>1, <2>1, <3>1, FlagIfNames
  <2>2. CASE o \in {"Sub", "Sbc", "Cp"}
    <3>1. S = {Subtract} \cup (ZeroFlag(x) \cup HalfCarryFlag(x) \cup CarryFlag(x))
      BY <2>2 DEF OperationFlags, AdditionFlags, SubtractionFlags
    <3> HIDE DEF S
    <3> QED
      BY <1>1, <2>2, <3>1, FlagIfNames
  <2>3. CASE o = "And"
    <3>1. S = ZeroFlag(x) \cup {HalfCarry}
      BY <2>3 DEF OperationFlags, AndFlags
    <3> HIDE DEF S
    <3> QED
      BY <1>1, <2>3, <3>1, FlagIfNames
  <2>4. CASE o \in {"Xor", "Or"}
    <3>1. S = ZeroFlag(x)
      BY <2>4 DEF OperationFlags, OrFlags
    <3> HIDE DEF S
    <3> QED
      BY <1>1, <2>4, <3>1, FlagIfNames
  <2> QED
    BY <2>1, <2>2, <2>3, <2>4 DEF MathOperation
<1>3. S \subseteq FlagPositions
  BY FlagSets
<1> HIDE DEF S
<1>4. /\ FlagNames(S) \subseteq {"Z", "N", "H", "C"}
      /\ "Z" \in FlagNames(S) <=> Zero \in S
      /\ "N" \in FlagNames(S) <=> Subtract \in S
      /\ "H" \in FlagNames(S) <=> HalfCarry \in S
      /\ "C" \in FlagNames(S) <=> Carry \in S
  BY <1>3, NamedFlags
<1> QED
  BY <1>2, <1>4 DEF S

\* The operations as opcodes number them.
OperationOf == <<"Add", "Adc", "Sub", "Sbc", "And", "Xor", "Or", "Cp">>

\* Operation y on a and v: the sum or difference, before it is cut to a
\* byte, and that of the low nibbles.
AluCarry(y, c)        == IF y \in {1, 3} THEN IF c THEN 1 ELSE 0 ELSE 0
AluTotal(y, a, v, c)  == CASE y \in {0, 1}    -> a + v + AluCarry(y, c)
                           [] y \in {2, 3, 7} -> a - v - AluCarry(y, c)
                           [] y = 4           -> And(a, v)
                           [] y = 5           -> Xor(a, v)
                           [] y = 6           -> Or(a, v)
AluNibble(y, a, v, c) == CASE y \in {0, 1}    -> (a % 16) + (v % 16) + AluCarry(y, c)
                           [] y \in {2, 3, 7} -> (a % 16) - (v % 16) - AluCarry(y, c)
                           [] y = 4           -> 16
                           [] OTHER           -> 0

\* The results and carry bits of the eight operations, as numbers.
LEMMA ComputeIsArithmetic ==
  ASSUME NEW y \in 0 .. 7, NEW a \in Byte, NEW v \in Byte, NEW c \in BOOLEAN
  PROVE  LET o == OperationOf[y + 1]
             x == Compute(o, a, v, c)
         IN  /\ o \in MathOperation /\ (o = "Cp" <=> y = 7)
             /\ x.result = AluTotal(y, a, v, c) % 256
             /\ o \in {"Sub", "Sbc", "Cp"} <=> y \in {2, 3, 7}
             /\ (o = "And" \/ (o \notin {"And", "Xor", "Or"} /\ 3 \in x.carryBits))
                  <=> AluNibble(y, a, v, c) \notin 0 .. 15
             /\ (o \notin {"And", "Xor", "Or"} /\ 7 \in x.carryBits) <=> AluTotal(y, a, v, c) \notin 0 .. 255
<1> DEFINE o == OperationOf[y + 1]
           x == Compute(o, a, v, c)
           T == AluTotal(y, a, v, c)
           N == AluNibble(y, a, v, c)
           k == AluCarry(y, c)
           Same == /\ x.result = T % 256
                   /\ (o = "And" \/ (o \notin {"And", "Xor", "Or"} /\ 3 \in x.carryBits)) <=> N \notin 0 .. 15
                   /\ (o \notin {"And", "Xor", "Or"} /\ 7 \in x.carryBits) <=> T \notin 0 .. 255
<1>0. a \in 0 .. 255 /\ v \in 0 .. 255
  BY DEF Byte
<1>1. k = (IF y \in {1, 3} /\ c THEN 1 ELSE 0)
  BY DEF AluCarry
<1>2. /\ y \in {0, 1} => T = a + v + k
      /\ y \in {2, 3, 7} => T = a - v - k
      /\ y = 4 => T = And(a, v)
      /\ y = 5 => T = Xor(a, v)
      /\ y = 6 => T = Or(a, v)
  <2> HIDE DEF k
  <2> QED
    BY DEF AluTotal, k
<1>3. /\ y \in {0, 1} => N = (a % 16) + (v % 16) + k
      /\ y \in {2, 3, 7} => N = (a % 16) - (v % 16) - k
      /\ y = 4 => N = 16
      /\ y \in {5, 6} => N = 0
  BY DEF AluNibble
<1>4. /\ y = 0 => o = "Add"
      /\ y = 1 => o = "Adc"
      /\ y = 2 => o = "Sub"
      /\ y = 3 => o = "Sbc"
      /\ y = 4 => o = "And"
      /\ y = 5 => o = "Xor"
      /\ y = 6 => o = "Or"
      /\ y = 7 => o = "Cp"
  BY DEF OperationOf
<1> HIDE DEF T, N, k, o
<1>5. ASSUME y = 0 \/ (y = 1 /\ ~c)
      PROVE  Same
  <2>1. x = AddWithCarry(a, v)
    BY <1>4, <1>5 DEF Compute, AddWithCarryIn
  <2>2. T = a + v /\ N = (a % 16) + (v % 16) /\ o \in MathOperation \ {"And", "Xor", "Or"}
    BY <1>0, <1>1, <1>2, <1>3, <1>4, <1>5 DEF MathOperation
  <2> HIDE DEF x
  <2>3. x.result = T % 256
    BY <2>1, <2>2, AddCarry
  <2>4. 3 \in x.carryBits <=> N \notin 0 .. 15
    <3>1. 3 \in x.carryBits <=> (a % 16) + (v % 16) >= 16
      BY <2>1, AddCarry
    <3>2. a % 16 \in 0 .. 15 /\ v % 16 \in 0 .. 15
      BY <1>0
    <3> QED
      BY <2>2, <3>1, <3>2
  <2>5. 7 \in x.carryBits <=> T \notin 0 .. 255
    <3>1. 7 \in x.carryBits <=> a + v >= 256
      BY <2>1, AddCarry
    <3> QED
      BY <1>0, <2>2, <3>1
  <2> QED
    BY <2>2, <2>3, <2>4, <2>5
<1>6. ASSUME y = 1 /\ c
      PROVE  Same
  <2>1. x = AddWithCarryIn(a, v, TRUE)
    BY <1>4, <1>6 DEF Compute
  <2>2. T = a + v + 1 /\ N = (a % 16) + (v % 16) + 1 /\ o \in MathOperation \ {"And", "Xor", "Or"}
    BY <1>0, <1>1, <1>2, <1>3, <1>4, <1>6 DEF MathOperation
  <2> HIDE DEF x
  <2>7. /\ AddWithCarryIn(a, v, TRUE).result = (a + v + 1) % 256
        /\ 3 \in AddWithCarryIn(a, v, TRUE).carryBits <=> (a % 16) + (v % 16) + 1 >= 16
        /\ 7 \in AddWithCarryIn(a, v, TRUE).carryBits <=> a + v + 1 >= 256
    BY AddCarryIn
  <2>6. /\ x.result = (a + v + 1) % 256
        /\ 3 \in x.carryBits <=> (a % 16) + (v % 16) + 1 >= 16
        /\ 7 \in x.carryBits <=> a + v + 1 >= 256
    BY <2>1, <2>7
  <2>3. x.result = T % 256
    BY <2>2, <2>6
  <2>4. 3 \in x.carryBits <=> N \notin 0 .. 15
    <3>1. 3 \in x.carryBits <=> (a % 16) + (v % 16) + 1 >= 16
      BY <2>6
    <3>2. a % 16 \in 0 .. 15 /\ v % 16 \in 0 .. 15
      BY <1>0
    <3> QED
      BY <2>2, <3>1, <3>2
  <2>5. 7 \in x.carryBits <=> T \notin 0 .. 255
    <3>1. 7 \in x.carryBits <=> a + v + 1 >= 256
      BY <2>6
    <3> QED
      BY <1>0, <2>2, <3>1
  <2> QED
    BY <2>2, <2>3, <2>4, <2>5
<1>7. ASSUME y = 2 \/ (y = 3 /\ ~c) \/ y = 7
      PROVE  Same
  <2>1. x = SubWithBorrow(a, v)
    BY <1>4, <1>7 DEF Compute, SubWithBorrowIn
  <2>2. T = a - v /\ N = (a % 16) - (v % 16) /\ o \in MathOperation \ {"And", "Xor", "Or"}
    BY <1>0, <1>1, <1>2, <1>3, <1>4, <1>7 DEF MathOperation
  <2> HIDE DEF x
  <2>3. x.result = T % 256
    BY <2>1, <2>2, SubBorrow
  <2>4. 3 \in x.carryBits <=> N \notin 0 .. 15
    <3>1. 3 \in x.carryBits <=> a % 16 < v % 16
      BY <2>1, SubBorrow
    <3>2. a % 16 \in 0 .. 15 /\ v % 16 \in 0 .. 15
      BY <1>0
    <3> QED
      BY <2>2, <3>1, <3>2
  <2>5. 7 \in x.carryBits <=> T \notin 0 .. 255
    <3>1. 7 \in x.carryBits <=> a < v
      BY <2>1, SubBorrow
    <3> QED
      BY <1>0, <2>2, <3>1
  <2> QED
    BY <2>2, <2>3, <2>4, <2>5
<1>8. ASSUME y = 3 /\ c
      PROVE  Same
  <2>1. x = SubWithBorrowIn(a, v, TRUE)
    BY <1>4, <1>8 DEF Compute
  <2>2. T = a - v - 1 /\ N = (a % 16) - (v % 16) - 1 /\ o \in MathOperation \ {"And", "Xor", "Or"}
    BY <1>0, <1>1, <1>2, <1>3, <1>4, <1>8 DEF MathOperation
  <2> HIDE DEF x
  <2>7. /\ SubWithBorrowIn(a, v, TRUE).result = (a - v - 1) % 256
        /\ 3 \in SubWithBorrowIn(a, v, TRUE).carryBits <=> a % 16 < (v % 16) + 1
        /\ 7 \in SubWithBorrowIn(a, v, TRUE).carryBits <=> a < v + 1
    BY SubBorrowIn
  <2>6. /\ x.result = (a - v - 1) % 256
        /\ 3 \in x.carryBits <=> a % 16 < (v % 16) + 1
        /\ 7 \in x.carryBits <=> a < v + 1
    BY <2>1, <2>7
  <2>3. x.result = T % 256
    BY <2>2, <2>6
  <2>4. 3 \in x.carryBits <=> N \notin 0 .. 15
    <3>1. 3 \in x.carryBits <=> a % 16 < (v % 16) + 1
      BY <2>6
    <3>2. a % 16 \in 0 .. 15 /\ v % 16 \in 0 .. 15
      BY <1>0
    <3> QED
      BY <2>2, <3>1, <3>2
  <2>5. 7 \in x.carryBits <=> T \notin 0 .. 255
    <3>1. 7 \in x.carryBits <=> a < v + 1
      BY <2>6
    <3> QED
      BY <1>0, <2>2, <3>1
  <2> QED
    BY <2>2, <2>3, <2>4, <2>5
<1>9. ASSUME y \in {4, 5, 6}
      PROVE  Same
  <2>1. o \in {"And", "Xor", "Or"} /\ (o = "And" <=> y = 4)
    BY <1>4, <1>9
  <2>2. x.result = T
    BY <1>2, <1>4, <1>9 DEF Compute, NoCarry
  <2>3. T \in 0 .. 255 /\ T % 256 = T
    <3>1. T \in Byte
      BY <1>2, <1>9, LogicType
    <3> QED
      BY <3>1 DEF Byte
  <2> HIDE DEF x
  <2> QED
    BY <1>3, <1>9, <2>1, <2>2, <2>3
<1>10. Same
  BY <1>5, <1>6, <1>7, <1>8, <1>9
<1>11. /\ o \in MathOperation /\ (o = "Cp" <=> y = 7)
       /\ o \in {"Sub", "Sbc", "Cp"} <=> y \in {2, 3, 7}
  BY DEF OperationOf, MathOperation, o
<1> HIDE DEF x
<1> QED
  BY <1>10, <1>11, Zenon DEF o, x, T, N

\* What the instruction set says of the eight operations, in the terms of
\* the code.
LEMMA AluMeans ==
  ASSUME BusTypeOK, boundary \in MachineState, NEW v \in Byte
  PROVE  LET y == Architecture!y
             o == OperationOf[y + 1]
             x == Compute(o, boundary.r["A"], v, "C" \in boundary.flags)
         IN  /\ y = 7 => Architecture!Alu(v) = [boundary EXCEPT !.flags = FlagNames(OperationFlags(o, x))]
             /\ y # 7 => Architecture!Alu(v) = [boundary EXCEPT !.r["A"] = x.result,
                                                                !.flags = FlagNames(OperationFlags(o, x))]
<1> DEFINE y == Architecture!y
           o == OperationOf[y + 1]
           a == boundary.r["A"]
           c == "C" \in boundary.flags
           x == Compute(o, a, v, c)
           T == AluTotal(y, a, v, c)
           N == AluNibble(y, a, v, c)
           W == Architecture!When(T % 256 = 0, "Z") \cup Architecture!When(y \in {2, 3, 7}, "N")
                  \cup Architecture!When(N \notin 0 .. 15, "H") \cup Architecture!When(T \notin 0 .. 255, "C")
           F == FlagNames(OperationFlags(o, x))
<1>1. y \in 0 .. 7 /\ a \in Byte /\ c \in BOOLEAN
  BY OctalDigits DEF MachineState, Register8
<1>2. /\ o \in MathOperation
      /\ x.result = T % 256
      /\ o \in {"Sub", "Sbc", "Cp"} <=> y \in {2, 3, 7}
      /\ (o = "And" \/ (o \notin {"And", "Xor", "Or"} /\ 3 \in x.carryBits)) <=> N \notin 0 .. 15
      /\ (o \notin {"And", "Xor", "Or"} /\ 7 \in x.carryBits) <=> T \notin 0 .. 255
  <2> HIDE DEF y, a, c
  <2>1. \A cc \in BOOLEAN :
          LET oo == OperationOf[y + 1]
              xx == Compute(oo, a, v, cc)
          IN  /\ oo \in MathOperation
              /\ xx.result = AluTotal(y, a, v, cc) % 256
              /\ oo \in {"Sub", "Sbc", "Cp"} <=> y \in {2, 3, 7}
              /\ (oo = "And" \/ (oo \notin {"And", "Xor", "Or"} /\ 3 \in xx.carryBits))
                   <=> AluNibble(y, a, v, cc) \notin 0 .. 15
              /\ (oo \notin {"And", "Xor", "Or"} /\ 7 \in xx.carryBits) <=> AluTotal(y, a, v, cc) \notin 0 .. 255
    BY <1>1, ComputeIsArithmetic
  <2> QED
    BY <1>1, <2>1
<1>3. Architecture!Alu(v) = [boundary EXCEPT !.r["A"] = IF y = 7 THEN @ ELSE T % 256, !.flags = W]
  <2>1. /\ Architecture!Bitwise2(Architecture!Both, v) = And(a, v)
        /\ Architecture!Bitwise2(Architecture!Exactly, v) = Xor(a, v)
        /\ Architecture!Bitwise2(Architecture!Either, v) = Or(a, v)
    BY <1>1, BitwiseIsLogic
  <2> QED
    BY <2>1 DEF Architecture!Alu, Architecture!A, Architecture!CarryValue, AluTotal, AluNibble, AluCarry
<1>4. W = F
  <2> HIDE DEF T, N, o, x, y
  <2>1. /\ F \subseteq {"Z", "N", "H", "C"}
        /\ "Z" \in F <=> x.result = 0
        /\ "N" \in F <=> o \in {"Sub", "Sbc", "Cp"}
        /\ "H" \in F <=> o = "And" \/ (o \notin {"And", "Xor", "Or"} /\ 3 \in x.carryBits)
        /\ "C" \in F <=> o \notin {"And", "Xor", "Or"} /\ 7 \in x.carryBits
    BY <1>2, OperationFlagNames
  <2>2. /\ W \subseteq {"Z", "N", "H", "C"}
        /\ "Z" \in W <=> T % 256 = 0
        /\ "N" \in W <=> y \in {2, 3, 7}
        /\ "H" \in W <=> N \notin 0 .. 15
        /\ "C" \in W <=> T \notin 0 .. 255
    BY DEF Architecture!When
  <2>3. /\ "Z" \in F <=> "Z" \in W
        /\ "N" \in F <=> "N" \in W
        /\ "H" \in F <=> "H" \in W
        /\ "C" \in F <=> "C" \in W
    BY <1>2, <2>1, <2>2, Zenon
  <2> HIDE DEF W, F
  <2> QED
    BY <2>1, <2>2, <2>3, SameFlags
<1> HIDE DEF y, T, W, F, x
<1>5. y # 7 => Architecture!Alu(v) = [boundary EXCEPT !.r["A"] = x.result, !.flags = F]
  BY <1>2, <1>3, <1>4
<1>6. y = 7 => Architecture!Alu(v) = [boundary EXCEPT !.flags = F]
  <2>1. y = 7 => Architecture!Alu(v) = [boundary EXCEPT !.r["A"] = @, !.flags = F]
    BY <1>3, <1>4
  <2>2. [boundary EXCEPT !.r["A"] = @, !.flags = F] = [boundary EXCEPT !.flags = F]
    BY DEF MachineState
  <2> QED
    BY <2>1, <2>2
<1> QED
  BY <1>5, <1>6, Zenon DEF y, o, a, c, x, F

\* The carry-in is the carry flag of the machine.
LEMMA CarrySeen ==
  ASSUME NEW r, NEW i, NEW m, NEW pc
  PROVE  CarryIn(r) <=> "C" \in Machine(r, i, m, pc).flags
<1>1. Flags(r) \subseteq FlagPositions
  BY DEF Flags
<1> QED
  BY <1>1, MachineRest, NamedFlags DEF CarryIn

(***************************************************************************)
(* What Math leaves of registers and flags is what the instruction set     *)
(* says of the eight operations, on all operands and with either carry:    *)
(* carry bits and chained additions against sums (math_operand_r.h,        *)
(* add_with_carry.h:32, sub_with_borrow.h:37).                             *)
(***************************************************************************)
THEOREM MathIsAlu ==
  ASSUME BusTypeOK, boundary \in MachineState, NEW r \in CleanFile, NEW i, NEW m,
         Machine(r, i, m, boundary.pc) = boundary, NEW v \in Byte, NEW o, o = OperationOf[Architecture!y + 1]
  PROVE  /\ Machine(Math(r, o, v, Sink(o)), i, m, boundary.pc) = Architecture!Alu(v)
         /\ Math(r, o, v, Sink(o)) \in CleanFile
         /\ Math(r, o, v, Sink(o))["PC"] = r["PC"]
         /\ o = "Cp" => Machine(AssignFlags(r, OperationFlags(o, Compute(o, Value8(r, "A"), v, CarryIn(r)))), i, m, boundary.pc)
                          = Architecture!Alu(v)
<1> DEFINE x == Compute(o, Value8(r, "A"), v, CarryIn(r))
           S == OperationFlags(o, x)
           q == Assign8(r, Sink(o), x.result)
<1>1. Value8(r, "A") = boundary.r["A"] /\ (CarryIn(r) <=> "C" \in boundary.flags) /\ Value8(r, "A") \in Byte
  BY MachineR, CarrySeen, Value8Type DEF Register8
<1>2. o \in MathOperation /\ (o = "Cp" <=> Architecture!y = 7)
  BY OctalDigits DEF OperationOf, MathOperation
<1>3. x = Compute(o, boundary.r["A"], v, "C" \in boundary.flags)
  BY <1>1 DEF Compute, AddWithCarryIn, SubWithBorrowIn
<1>4. /\ o = "Cp" => Architecture!Alu(v) = [boundary EXCEPT !.flags = FlagNames(S)]
      /\ o # "Cp" => Architecture!Alu(v) = [boundary EXCEPT !.r["A"] = x.result, !.flags = FlagNames(S)]
  <2> HIDE DEF x
  <2> QED
    BY <1>2, <1>3, AluMeans
<1>5. x.result \in Byte /\ S \subseteq FlagPositions
  BY <1>1, <1>2, ComputeType, FlagSets
<1>6. Math(r, o, v, Sink(o)) = AssignFlags(q, S)
  BY DEF Math
<1> HIDE DEF x, S
<1>7. Sink(o) \in Plain8 /\ Sink(o) \in Plain8 /\ Whole(Sink(o)) # "PC" /\ "PC" \in Register16 \ {"AF"}
  BY DEF Sink, Plain8, Plain8, Register8, Register16, Whole
<1>8. q \in CleanFile /\ q["PC"] = r["PC"]
  BY <1>5, <1>7, Assign8Clean, Assign8Views
<1>9. Math(r, o, v, Sink(o)) \in CleanFile /\ Math(r, o, v, Sink(o))["PC"] = r["PC"]
  BY <1>5, <1>6, <1>7, <1>8, AssignFlagsClean, AssignFlagsViews
<1>10. Machine(AssignFlags(q, S), i, m, boundary.pc) = [Machine(q, i, m, boundary.pc) EXCEPT !.flags = FlagNames(S)]
  BY <1>5, <1>8, MachineFlags
<1>11. CASE o = "Cp"
  <2>1. Machine(q, i, m, boundary.pc) = boundary
    BY <1>5, <1>11, MachineInternal DEF Sink
  <2>2. Machine(AssignFlags(r, S), i, m, boundary.pc) = [boundary EXCEPT !.flags = FlagNames(S)]
    BY <1>5, MachineFlags
  <2> QED
    BY <1>4, <1>6, <1>9, <1>10, <1>11, <2>1, <2>2 DEF x, S
<1>12. CASE o # "Cp"
  <2>1. Machine(q, i, m, boundary.pc) = [boundary EXCEPT !.r["A"] = x.result]
    BY <1>5, <1>12, MachineAssign8 DEF Sink, Register8
  <2> QED
    BY <1>4, <1>6, <1>9, <1>10, <1>12, <2>1
<1> QED
  BY <1>11, <1>12

-----------------------------------------------------------------------------
(* The handlers of INC, DEC, the rotations, CPL and CCF change a register  *)
(* and the flags at once.                                                  *)

\* A register and the flags written together leave the file clean, and PC.
LEMMA BothClean ==
  ASSUME NEW r \in CleanFile, NEW n \in Register8, NEW v \in Byte, NEW S, S \subseteq FlagPositions
  PROVE  AssignFlags(Assign8(r, n, v), S) \in CleanFile /\ AssignFlags(Assign8(r, n, v), S)["PC"] = r["PC"]
<1> DEFINE q == Assign8(r, n, v)
<1>1. n \in Plain8 /\ n \in Plain8 /\ Whole(n) # "PC" /\ "PC" \in Register16 \ {"AF"}
  BY DEF Plain8, Plain8, Register8, Register16, Whole
<1>2. q \in CleanFile /\ q["PC"] = r["PC"]
  BY <1>1, Assign8Clean, Assign8Views
<1> HIDE DEF q
<1>3. AssignFlags(q, S) \in CleanFile /\ AssignFlags(q, S)["PC"] = r["PC"]
  BY <1>1, <1>2, AssignFlagsClean, AssignFlagsViews
<1> QED
  BY <1>3 DEF q

Updated(s, n, v, F) == [s EXCEPT !.r[n] = v, !.flags = F]

\* A register and the flags written together.
LEMMA MachineBoth ==
  ASSUME NEW r \in CleanFile, NEW i, NEW m, NEW pc, NEW n \in Register8, NEW v \in Byte, NEW S, S \subseteq FlagPositions
  PROVE  Machine(AssignFlags(Assign8(r, n, v), S), i, m, pc)
           = Updated(Machine(r, i, m, pc), n, v, FlagNames(S))
<1> DEFINE q == Assign8(r, n, v)
<1>1. n \in Plain8
  BY DEF Plain8
<1>2. q \in CleanFile
  BY <1>1, Assign8Clean
<1>3. Machine(q, i, m, pc) = [Machine(r, i, m, pc) EXCEPT !.r[n] = v]
  BY MachineAssign8
<1> HIDE DEF q
<1>4. Machine(AssignFlags(q, S), i, m, pc) = [Machine(q, i, m, pc) EXCEPT !.flags = FlagNames(S)]
  BY <1>2, MachineFlags
<1>5. Machine(AssignFlags(q, S), i, m, pc) = [Machine(r, i, m, pc) EXCEPT !.r[n] = v, !.flags = FlagNames(S)]
  BY <1>3, <1>4
<1>6. Machine(AssignFlags(q, S), i, m, pc) = Updated(Machine(r, i, m, pc), n, v, FlagNames(S))
  BY <1>5 DEF Updated
<1> QED
  BY <1>6 DEF q

\* Assigning the flags' byte to F, which masks it, is assigning the flags.
LEMMA MaskedFlags ==
  ASSUME NEW r, NEW S, S \subseteq FlagPositions
  PROVE  Assign8(r, "F", FromBits(S)) = AssignFlags(r, S)
<1>1. S \cap (0 .. 3) = {}
  BY DEF FlagPositions, Zero, Subtract, HalfCarry, Carry
<1>2. FromBits(S) \in Byte /\ FromBits(S) % 16 = 0
  BY <1>1, FromBitsType, FromHighBits
<1>3. Masked(FromBits(S)) = FromBits(S)
  BY <1>2 DEF Masked, Byte
<1> QED
  BY <1>3 DEF Assign8, AssignFlags

\* The flags of INC r and DEC r, from the value v they leave.
CountedFlags(v, z) ==
  (boundary.flags \cap {"C"}) \cup Architecture!When(v = 0, "Z") \cup Architecture!When(z = 5, "N")
     \cup Architecture!When(v % 16 = (IF z = 4 THEN 0 ELSE 15), "H")

\* INC r, with its flags.
LEMMA IncrementIsIsa ==
  ASSUME boundary \in MachineState, NEW r \in CleanFile, NEW i, NEW m, Machine(r, i, m, boundary.pc) = boundary,
         NEW n \in Register8, NEW v, v = (boundary.r[n] + 1) % 256
  PROVE  /\ Machine(Increment(r, n), i, m, boundary.pc) = Updated(boundary, n, v, CountedFlags(v, 4))
         /\ Increment(r, n) \in CleanFile
         /\ Increment(r, n)["PC"] = r["PC"]
<1> DEFINE a == Value8(r, n)
           x == AddWithCarry(a, 1)
           S == (Flags(r) \cap {Carry}) \cup ZeroFlag(x) \cup HalfCarryFlag(x)
<1>1. a \in Byte /\ 1 \in Byte /\ boundary.r[n] = a
  BY Value8Type, MachineR DEF Byte
<1>0. v = (a + 1) % 256
  BY <1>1
<1>2. x.result = v /\ (3 \in x.carryBits <=> (a % 16) + (1 % 16) >= 16)
  <2> HIDE DEF a
  <2> QED
    BY <1>0, <1>1, AddCarry
<1>3. v \in Byte /\ ((a % 16) + (1 % 16) >= 16 <=> v % 16 = 0)
  <2>1. a \in 0 .. 255
    BY <1>1 DEF Byte
  <2> HIDE DEF a
  <2> QED
    BY <1>0, <2>1 DEF Byte
<1>4. Increment(r, n) = AssignFlags(Assign8(r, n, v), S)
  BY <1>2 DEF Increment
<1>5. Flags(r) \subseteq FlagPositions /\ {Carry} \subseteq FlagPositions
  BY DEF Flags, FlagPositions
<1> HIDE DEF a, x
<1>6. S \subseteq FlagPositions
  BY <1>5, FlagSets
<1>7. /\ Zero \in S <=> v = 0
      /\ Subtract \notin S
      /\ HalfCarry \in S <=> v % 16 = 0
      /\ Carry \in S <=> Carry \in Flags(r)
  <2>1. Zero # Subtract /\ Zero # HalfCarry /\ Zero # Carry /\ Subtract # HalfCarry /\ Subtract # Carry /\ HalfCarry # Carry
    BY DEF Zero, Subtract, HalfCarry, Carry
  <2> QED
    BY <1>2, <1>3, <2>1, FlagIfNames
<1> HIDE DEF S
<1>8. FlagNames(S) = CountedFlags(v, 4)
  <2>1. boundary.flags = FlagNames(Flags(r))
    BY MachineRest
  <2>2. /\ FlagNames(S) \subseteq {"Z", "N", "H", "C"}
        /\ "Z" \in FlagNames(S) <=> v = 0
        /\ "N" \notin FlagNames(S)
        /\ "H" \in FlagNames(S) <=> v % 16 = 0
        /\ "C" \in FlagNames(S) <=> "C" \in boundary.flags
    BY <1>5, <1>6, <1>7, <2>1, NamedFlags
  <2>3. /\ CountedFlags(v, 4) \subseteq {"Z", "N", "H", "C"}
        /\ "Z" \in CountedFlags(v, 4) <=> v = 0
        /\ "N" \notin CountedFlags(v, 4)
        /\ "H" \in CountedFlags(v, 4) <=> v % 16 = 0
        /\ "C" \in CountedFlags(v, 4) <=> "C" \in boundary.flags
    BY DEF CountedFlags, Architecture!When
  <2> QED
    BY <2>2, <2>3, SameFlags
<1> DEFINE q == AssignFlags(Assign8(r, n, v), S)
<1>10. Machine(q, i, m, boundary.pc) = Updated(Machine(r, i, m, boundary.pc), n, v, FlagNames(S))
  BY <1>3, <1>6, MachineBoth
<1>12. q \in CleanFile /\ q["PC"] = r["PC"]
  BY <1>3, <1>6, BothClean
<1> HIDE DEF q
<1>11. Increment(r, n) = q
  BY <1>4 DEF q
<1>9. /\ Machine(Increment(r, n), i, m, boundary.pc) = Updated(boundary, n, v, CountedFlags(v, 4))
      /\ Increment(r, n) \in CleanFile
      /\ Increment(r, n)["PC"] = r["PC"]
  BY <1>8, <1>10, <1>11, <1>12
<1> QED
  BY <1>9

\* DEC r, with its flags.
LEMMA DecrementIsIsa ==
  ASSUME boundary \in MachineState, NEW r \in CleanFile, NEW i, NEW m, Machine(r, i, m, boundary.pc) = boundary,
         NEW n \in Register8, NEW v, v = (boundary.r[n] - 1) % 256
  PROVE  /\ Machine(Decrement(r, n), i, m, boundary.pc) = Updated(boundary, n, v, CountedFlags(v, 5))
         /\ Decrement(r, n) \in CleanFile
         /\ Decrement(r, n)["PC"] = r["PC"]
<1> DEFINE a == Value8(r, n)
           x == SubWithBorrow(a, 1)
           S == (Flags(r) \cap {Carry}) \cup {Subtract} \cup ZeroFlag(x) \cup HalfCarryFlag(x)
<1>1. a \in Byte /\ 1 \in Byte /\ boundary.r[n] = a
  BY Value8Type, MachineR DEF Byte
<1>0. v = (a - 1) % 256
  BY <1>1
<1>2. x.result = v /\ (3 \in x.carryBits <=> a % 16 < 1 % 16)
  <2> HIDE DEF a
  <2> QED
    BY <1>0, <1>1, SubBorrow
<1>3. v \in Byte /\ (a % 16 < 1 % 16 <=> v % 16 = 15)
  <2>1. a \in 0 .. 255
    BY <1>1 DEF Byte
  <2> HIDE DEF a
  <2> QED
    BY <1>0, <2>1 DEF Byte
<1>4. Decrement(r, n) = AssignFlags(Assign8(r, n, v), S)
  BY <1>2 DEF Decrement
<1>5. Flags(r) \subseteq FlagPositions /\ {Carry} \subseteq FlagPositions /\ {Subtract} \subseteq FlagPositions
  BY DEF Flags, FlagPositions
<1> HIDE DEF a, x
<1>6. S \subseteq FlagPositions
  BY <1>5, FlagSets
<1>7. /\ Zero \in S <=> v = 0
      /\ Subtract \in S
      /\ HalfCarry \in S <=> v % 16 = 15
      /\ Carry \in S <=> Carry \in Flags(r)
  <2>1. Zero # Subtract /\ Zero # HalfCarry /\ Zero # Carry /\ Subtract # HalfCarry /\ Subtract # Carry /\ HalfCarry # Carry
    BY DEF Zero, Subtract, HalfCarry, Carry
  <2> QED
    BY <1>2, <1>3, <2>1, FlagIfNames
<1> HIDE DEF S
<1>8. FlagNames(S) = CountedFlags(v, 5)
  <2>1. boundary.flags = FlagNames(Flags(r))
    BY MachineRest
  <2>2. /\ FlagNames(S) \subseteq {"Z", "N", "H", "C"}
        /\ "Z" \in FlagNames(S) <=> v = 0
        /\ "N" \in FlagNames(S)
        /\ "H" \in FlagNames(S) <=> v % 16 = 15
        /\ "C" \in FlagNames(S) <=> "C" \in boundary.flags
    BY <1>5, <1>6, <1>7, <2>1, NamedFlags
  <2>3. /\ CountedFlags(v, 5) \subseteq {"Z", "N", "H", "C"}
        /\ "Z" \in CountedFlags(v, 5) <=> v = 0
        /\ "N" \in CountedFlags(v, 5)
        /\ "H" \in CountedFlags(v, 5) <=> v % 16 = 15
        /\ "C" \in CountedFlags(v, 5) <=> "C" \in boundary.flags
    BY DEF CountedFlags, Architecture!When
  <2> QED
    BY <2>2, <2>3, SameFlags
<1> DEFINE q == AssignFlags(Assign8(r, n, v), S)
<1>10. Machine(q, i, m, boundary.pc) = Updated(Machine(r, i, m, boundary.pc), n, v, FlagNames(S))
  BY <1>3, <1>6, MachineBoth
<1>12. q \in CleanFile /\ q["PC"] = r["PC"]
  BY <1>3, <1>6, BothClean
<1> HIDE DEF q
<1>11. Decrement(r, n) = q
  BY <1>4 DEF q
<1>9. /\ Machine(Decrement(r, n), i, m, boundary.pc) = Updated(boundary, n, v, CountedFlags(v, 5))
      /\ Decrement(r, n) \in CleanFile
      /\ Decrement(r, n)["PC"] = r["PC"]
  BY <1>8, <1>10, <1>11, <1>12
<1> QED
  BY <1>9

\* Rotation assigns A and then F, whose mask does not touch the flags.
LEMMA RotationIsIsa ==
  ASSUME reg \in CleanFile, NEW i, NEW m, Machine(reg, i, m, boundary.pc) = boundary,
         NEW e \in BOOLEAN, NEW l \in BOOLEAN, NEW left \in BOOLEAN
  PROVE  /\ Machine(Rotation(e, l, left), i, m, boundary.pc)
              = Updated(boundary, "A", Rotated(e, left), Architecture!When(l, "C"))
         /\ Rotation(e, l, left) \in CleanFile
         /\ Rotation(e, l, left)["PC"] = reg["PC"]
<1> DEFINE S == FlagIf(Carry, l)
           v == Rotated(e, left)
<1>1. R8("A") \in Byte /\ "A" \in Register8
  BY Value8Type DEF R8, Register8
<1>2. v \in Byte
  BY <1>1 DEF Rotated, Byte
<1>3. S \subseteq FlagPositions /\ Zero \notin S /\ Subtract \notin S /\ HalfCarry \notin S /\ (Carry \in S <=> l)
  BY DEF FlagIf, FlagPositions, Zero, Subtract, HalfCarry, Carry
<1>4. FlagNames(S) = Architecture!When(l, "C")
  <2>1. /\ Architecture!When(l, "C") \subseteq {"Z", "N", "H", "C"}
        /\ "Z" \notin Architecture!When(l, "C")
        /\ "N" \notin Architecture!When(l, "C")
        /\ "H" \notin Architecture!When(l, "C")
        /\ "C" \in Architecture!When(l, "C") <=> l
    BY DEF Architecture!When
  <2> HIDE DEF S
  <2> QED
    BY <1>3, <2>1, NamedFlags, SameFlags
<1>5. Rotation(e, l, left) = AssignFlags(Assign8(reg, "A", v), S)
  BY <1>3, MaskedFlags DEF Rotation
<1> HIDE DEF S, v
<1>6. /\ AssignFlags(Assign8(reg, "A", v), S) \in CleanFile
      /\ AssignFlags(Assign8(reg, "A", v), S)["PC"] = reg["PC"]
  BY <1>1, <1>2, <1>3, BothClean
<1>7. Machine(AssignFlags(Assign8(reg, "A", v), S), i, m, boundary.pc)
        = Updated(Machine(reg, i, m, boundary.pc), "A", v, FlagNames(S))
  BY <1>1, <1>2, <1>3, MachineBoth
<1>8. /\ Machine(Rotation(e, l, left), i, m, boundary.pc) = Updated(boundary, "A", v, Architecture!When(l, "C"))
      /\ Rotation(e, l, left) \in CleanFile
      /\ Rotation(e, l, left)["PC"] = reg["PC"]
  BY <1>4, <1>5, <1>6, <1>7
<1> QED
  BY <1>8 DEF v

\* CPL, with its flags.
LEMMA CplIsIsa ==
  ASSUME reg \in CleanFile, NEW i, NEW m, Machine(reg, i, m, boundary.pc) = boundary,
         NEW r, r = AssignFlags(Assign8(reg, "A", Complement(R8("A"))), Flags(reg) \cup {Subtract, HalfCarry})
  PROVE  /\ Machine(r, i, m, boundary.pc)
              = Updated(boundary, "A", 255 - boundary.r["A"], boundary.flags \cup {"N", "H"})
         /\ r \in CleanFile
         /\ r["PC"] = reg["PC"]
<1> DEFINE S == Flags(reg) \cup {Subtract, HalfCarry}
           v == 255 - boundary.r["A"]
<1>1. R8("A") \in Byte /\ "A" \in Register8 /\ boundary.r["A"] = R8("A")
  BY Value8Type, MachineR DEF R8, Register8
<1>2. v \in Byte /\ Complement(R8("A")) = v
  BY <1>1 DEF Complement, Byte
<1>3. Flags(reg) \subseteq FlagPositions /\ S \subseteq FlagPositions
  BY DEF Flags, FlagPositions
<1>4. FlagNames(S) = boundary.flags \cup {"N", "H"}
  <2>1. boundary.flags = FlagNames(Flags(reg))
    BY MachineRest
  <2>2. Zero # Subtract /\ Zero # HalfCarry /\ Carry # Subtract /\ Carry # HalfCarry
    BY DEF Zero, Subtract, HalfCarry, Carry
  <2>3. /\ FlagNames(S) \subseteq {"Z", "N", "H", "C"}
        /\ "Z" \in FlagNames(S) <=> Zero \in Flags(reg)
        /\ "N" \in FlagNames(S)
        /\ "H" \in FlagNames(S)
        /\ "C" \in FlagNames(S) <=> Carry \in Flags(reg)
    BY <1>3, <2>2, NamedFlags
  <2>4. /\ boundary.flags \subseteq {"Z", "N", "H", "C"}
        /\ "Z" \in boundary.flags <=> Zero \in Flags(reg)
        /\ "C" \in boundary.flags <=> Carry \in Flags(reg)
    BY <1>3, <2>1, NamedFlags
  <2> HIDE DEF S
  <2> DEFINE T == boundary.flags \cup {"N", "H"}
  <2>5. /\ T \subseteq {"Z", "N", "H", "C"}
        /\ "Z" \in T <=> Zero \in Flags(reg)
        /\ "N" \in T /\ "H" \in T
        /\ "C" \in T <=> Carry \in Flags(reg)
    BY <2>4
  <2> HIDE DEF T
  <2>6. FlagNames(S) = T
    BY <2>3, <2>5, SameFlags
  <2> QED
    BY <2>6 DEF T
<1>5. r = AssignFlags(Assign8(reg, "A", v), S)
  BY <1>2
<1> HIDE DEF S, v
<1>6. /\ AssignFlags(Assign8(reg, "A", v), S) \in CleanFile
      /\ AssignFlags(Assign8(reg, "A", v), S)["PC"] = reg["PC"]
  BY <1>1, <1>2, <1>3, BothClean
<1>7. Machine(AssignFlags(Assign8(reg, "A", v), S), i, m, boundary.pc)
        = Updated(Machine(reg, i, m, boundary.pc), "A", v, FlagNames(S))
  BY <1>1, <1>2, <1>3, MachineBoth
<1>8. /\ Machine(r, i, m, boundary.pc) = Updated(boundary, "A", v, boundary.flags \cup {"N", "H"})
      /\ r \in CleanFile
      /\ r["PC"] = reg["PC"]
  BY <1>4, <1>5, <1>6, <1>7
<1> QED
  BY <1>8 DEF v

Flagged(s, F) == [s EXCEPT !.flags = F]

\* Writing the flags, as an update of the machine.
LEMMA MachineFlagged ==
  ASSUME NEW r \in CleanFile, NEW i, NEW m, NEW pc, NEW S, S \subseteq FlagPositions
  PROVE  Machine(AssignFlags(r, S), i, m, pc) = Flagged(Machine(r, i, m, pc), FlagNames(S))
  BY MachineFlags DEF Flagged

\* CCF, which leaves Z.
LEMMA CcfIsIsa ==
  ASSUME reg \in CleanFile, NEW i, NEW m, Machine(reg, i, m, boundary.pc) = boundary,
         NEW S, S = ((Flags(reg) \cap {Carry, Zero}) \ {Carry}) \cup ({Carry} \ (Flags(reg) \cap {Carry, Zero}))
  PROVE  /\ Machine(AssignFlags(reg, S), i, m, boundary.pc)
              = Flagged(boundary, (boundary.flags \cap {"Z"}) \cup ({"C"} \ boundary.flags))
         /\ AssignFlags(reg, S) \in CleanFile
         /\ AssignFlags(reg, S)["PC"] = reg["PC"]
<1>1. Zero # Carry /\ Subtract \notin {Zero, Carry} /\ HalfCarry \notin {Zero, Carry}
  BY DEF Zero, Subtract, HalfCarry, Carry
<1>2. Flags(reg) \subseteq FlagPositions /\ S \subseteq FlagPositions
  BY DEF Flags, FlagPositions
<1> DEFINE T == (boundary.flags \cap {"Z"}) \cup ({"C"} \ boundary.flags)
<1>3. boundary.flags = FlagNames(Flags(reg))
  BY MachineRest
<1>4. /\ "Z" \in boundary.flags <=> Zero \in Flags(reg)
      /\ "C" \in boundary.flags <=> Carry \in Flags(reg)
  BY <1>2, <1>3, NamedFlags
<1>5. /\ FlagNames(S) \subseteq {"Z", "N", "H", "C"}
      /\ "Z" \in FlagNames(S) <=> Zero \in Flags(reg)
      /\ "N" \notin FlagNames(S) /\ "H" \notin FlagNames(S)
      /\ "C" \in FlagNames(S) <=> Carry \notin Flags(reg)
  BY <1>1, <1>2, NamedFlags
<1>6. /\ T \subseteq {"Z", "N", "H", "C"}
      /\ "Z" \in T <=> Zero \in Flags(reg)
      /\ "N" \notin T /\ "H" \notin T
      /\ "C" \in T <=> Carry \notin Flags(reg)
  BY <1>4
<1> HIDE DEF T
<1>7. FlagNames(S) = T
  BY <1>5, <1>6, SameFlags
<1>8. AssignFlags(reg, S) \in CleanFile /\ AssignFlags(reg, S)["PC"] = reg["PC"]
  BY <1>2, AssignFlagsClean, AssignFlagsViews DEF Register16
<1>9. Machine(AssignFlags(reg, S), i, m, boundary.pc) = Flagged(Machine(reg, i, m, boundary.pc), FlagNames(S))
  BY <1>2, MachineFlagged
<1>10. Machine(AssignFlags(reg, S), i, m, boundary.pc) = Flagged(boundary, T)
  BY <1>7, <1>9
<1> QED
  BY <1>8, <1>10 DEF T

-----------------------------------------------------------------------------
(* Conditions and displacements *)

CondOf == <<"NonZero", "Zero", "NonCarry", "Carry">>

\* The predicates of the code are the conditions of the instruction set.
LEMMA ConditionsAgree ==
  ASSUME NEW r, NEW i, NEW m, NEW pc, NEW k \in 0 .. 3, boundary.flags = FlagNames(Flags(r))
  PROVE  Holds(CondOf[k + 1], r) <=> Architecture!Taken(k)
<1>1. Flags(r) \subseteq FlagPositions
  BY DEF Flags, FlagPositions
<1>2. /\ "Z" \in boundary.flags <=> Zero \in Flags(r)
      /\ "C" \in boundary.flags <=> Carry \in Flags(r)
  BY <1>1, NamedFlags
<1>3. CASE k = 0
  BY <1>2, <1>3 DEF Holds, CondOf, Architecture!Taken
<1>4. CASE k = 1
  BY <1>2, <1>4 DEF Holds, CondOf, Architecture!Taken
<1>5. CASE k = 2
  BY <1>2, <1>5 DEF Holds, CondOf, Architecture!Taken
<1>6. CASE k = 3
  BY <1>2, <1>6 DEF Holds, CondOf, Architecture!Taken
<1> QED
  BY <1>3, <1>4, <1>5, <1>6

\* A byte that overflows at most once.
LEMMA Wrap256 ==
  ASSUME NEW n \in Int
  PROVE  /\ n \in 0 .. 255 => n % 256 = n
         /\ n \in 256 .. 511 => n % 256 = n - 256
  OBVIOUS

\* A word that overflows or underflows at most once.
LEMMA Wrap65536 ==
  ASSUME NEW n \in Int
  PROVE  /\ 0 <= n /\ n < 65536 => n % 65536 = n
         /\ 65536 <= n /\ n < 131072 => n % 65536 = n - 65536
         /\ -65536 <= n /\ n < 0 => n % 65536 = n + 65536
  OBVIOUS

\* A displacement added byte by byte: to the low byte as it is, to the high
\* byte the carry and the sign.
ByteSum(h, c, k, l, b) == 256 * ((h + c + k) % 256) + ((l + b) % 256)
WordSum(h, l, d)       == (256 * h + l + d) % 65536

\* A signed displacement added byte by byte is added to the word.
LEMMA BytewiseSum ==
  ASSUME NEW h \in Byte, NEW l \in Byte, NEW b \in Byte, NEW c, NEW k, NEW d,
         c = IF b >= 128 THEN 255 ELSE 0, k = IF l + b > 255 THEN 1 ELSE 0, d = IF b < 128 THEN b ELSE b - 256
  PROVE  ByteSum(h, c, k, l, b) = WordSum(h, l, d)
<1>6. h \in 0 .. 255 /\ l \in 0 .. 255 /\ b \in 0 .. 255
  BY DEF Byte
<1>0. /\ h \in 0 .. 255 /\ l \in 0 .. 255 /\ b \in 0 .. 255
      /\ c \in 0 .. 255 /\ k \in 0 .. 1 /\ d \in Int
  BY <1>6
<1> DEFINE n == 256 * h + l + d
           u == (h + c + k) % 256
           v == (l + b) % 256
<1> SUFFICES 256 * u + v = n % 65536
  BY DEF ByteSum, WordSum
<1>1. v = IF l + b > 255 THEN l + b - 256 ELSE l + b
  BY <1>0, Wrap256
<1>2. CASE b < 128 /\ l + b <= 255
  <2>1. u = h
    BY <1>0, <1>2
  <2>2. n % 65536 = n
    BY <1>0, <1>2, Wrap65536
  <2> HIDE DEF u, v
  <2> QED
    BY <1>0, <1>1, <1>2, <2>1, <2>2 DEF u, v
<1>3. CASE b < 128 /\ l + b > 255
  <2>1. CASE h = 255
    <3>1. u = 0
      BY <1>0, <1>3, <2>1
    <3>2. n % 65536 = n - 65536
      BY <1>0, <1>3, <2>1, Wrap65536
    <3> HIDE DEF u, v
    <3> QED
      BY <1>0, <1>1, <1>3, <2>1, <3>1, <3>2 DEF u, v
  <2>2. CASE h < 255
    <3>1. u = h + 1
      BY <1>0, <1>3, <2>2, Wrap256
    <3>2. n % 65536 = n
      BY <1>0, <1>3, <2>2, Wrap65536
    <3> HIDE DEF u, v
    <3> QED
      BY <1>0, <1>1, <1>3, <2>2, <3>1, <3>2 DEF u, v
  <2> QED
    BY <1>0, <2>1, <2>2
<1>4. CASE b >= 128 /\ l + b <= 255
  <2>1. CASE h = 0
    <3>1. u = 255
      BY <1>0, <1>4, <2>1
    <3>2. n % 65536 = n + 65536
      BY <1>0, <1>4, <2>1, Wrap65536
    <3> HIDE DEF u, v
    <3> QED
      BY <1>0, <1>1, <1>4, <2>1, <3>1, <3>2 DEF u, v
  <2>2. CASE h > 0
    <3>1. u = h - 1
      BY <1>0, <1>4, <2>2, Wrap256
    <3>2. n % 65536 = n
      BY <1>0, <1>4, <2>2, Wrap65536
    <3> HIDE DEF u, v
    <3> QED
      BY <1>0, <1>1, <1>4, <2>2, <3>1, <3>2 DEF u, v
  <2> QED
    BY <1>0, <2>1, <2>2
<1>5. CASE b >= 128 /\ l + b > 255
  <2>1. u = h
    BY <1>0, <1>5, Wrap256
  <2>2. n % 65536 = n
    BY <1>0, <1>5, Wrap65536
  <2> HIDE DEF u, v
  <2> QED
    BY <1>0, <1>1, <1>5, <2>1, <2>2 DEF u, v
<1> QED
  BY <1>0, <1>2, <1>3, <1>4, <1>5

\* A carry does not change the low byte.
LEMMA SameLowByte ==
  ASSUME NEW n \in Int
  PROVE  (n - 256) % 256 = n % 256 /\ (n + 256) % 256 = n % 256
  OBVIOUS

(***************************************************************************)
(* The target that JR computes byte by byte is PC plus the signed          *)
(* displacement, at every address (jump_a16.h:59).                         *)
(***************************************************************************)
THEOREM TargetIsSum ==
  ASSUME reg \in CleanFile
  PROVE  JumpTarget \in Word /\ JumpTarget = (reg["PC"] + Architecture!Signed(R8("Z"))) % 65536
<1> DEFINE b == R8("Z")
           p == reg["PC"]
           h == High(p)
           l == Low(p)
           sum == AddWithCarry(b, l)
           a == IF 7 \in sum.carryBits /\ ~(7 \in Bits(b)) THEN 1
                ELSE IF ~(7 \in sum.carryBits) /\ 7 \in Bits(b) THEN 255 ELSE 0
           c == IF b >= 128 THEN 255 ELSE 0
           k == IF l + b > 255 THEN 1 ELSE 0
           d == IF b < 128 THEN b ELSE b - 256
<1>1. JumpTarget = Pair((h + a) % 256, sum.result)
  BY DEF JumpTarget
<1>2. b \in Byte /\ p \in Word
  BY Value8Type DEF R8, CleanFile, RegisterFile, Register16
<1>3. h \in 0 .. 255 /\ l \in 0 .. 255 /\ p = 256 * h + l
  <2> HIDE DEF p
  <2> QED
    BY <1>2 DEF Word, High, Low
<1>4. b \in 0 .. 255
  BY <1>2 DEF Byte
<1>5. d = Architecture!Signed(b)
  BY DEF Architecture!Signed
<1> HIDE DEF b, h, l, p
<1>6. b \in Byte /\ l \in Byte /\ h \in Byte
  BY <1>3, <1>4 DEF Byte
<1>7. /\ sum.result = (b + l) % 256
      /\ 7 \in sum.carryBits <=> b + l >= 256
      /\ 7 \in Bits(b) <=> b >= 128
  BY <1>6, AddCarry, BitsOf
<1> HIDE DEF sum
<1>8. a = IF b + l >= 256 /\ b < 128 THEN 1 ELSE IF b + l < 256 /\ b >= 128 THEN 255 ELSE 0
  BY <1>3, <1>4, <1>7
<1> HIDE DEF a
<1>10. /\ c \in 0 .. 255 /\ c = IF b >= 128 THEN 255 ELSE 0
       /\ k \in 0 .. 1 /\ k = IF l + b > 255 THEN 1 ELSE 0
       /\ d \in Int /\ d = IF b < 128 THEN b ELSE b - 256
  BY <1>3, <1>4
<1> HIDE DEF c, k, d
<1>9. (h + a) % 256 = (h + c + k) % 256
  <2>1. CASE b >= 128 /\ b + l >= 256
    <3>1. a = 0 /\ h + c + k = h + 256
      BY <1>3, <1>4, <1>8, <1>10, <2>1
    <3>2. h + a = h /\ (h + 256) % 256 = h % 256
      BY <1>3, <3>1, SameLowByte
    <3> QED
      BY <3>1, <3>2
  <2>2. CASE ~(b >= 128 /\ b + l >= 256)
    <3>1. h + a = h + c + k
      BY <1>3, <1>4, <1>8, <1>10, <2>2
    <3> QED
      BY <3>1
  <2> QED
    BY <2>1, <2>2
<1>11. ByteSum(h, c, k, l, b) = WordSum(h, l, d)
  BY <1>6, <1>10, BytewiseSum
<1> DEFINE u == (h + c + k) % 256
           v == (l + b) % 256
<1>12. u \in 0 .. 255 /\ v \in 0 .. 255 /\ v = (b + l) % 256
  BY <1>3, <1>4, <1>10
<1>13. JumpTarget = 256 * u + v
  BY <1>1, <1>7, <1>9, <1>12 DEF Pair
<1>14. 256 * u + v = (p + d) % 65536
  BY <1>3, <1>5, <1>10, <1>11 DEF ByteSum, WordSum
<1> HIDE DEF u, v
<1>15. JumpTarget \in Word /\ JumpTarget = (p + d) % 65536
  <2>1. JumpTarget \in Word
    BY <1>12, <1>13 DEF Word
  <2> QED
    BY <1>13, <1>14, <2>1
<1> QED
  BY <1>5, <1>15 DEF p, b

\* The high and the low byte of SP plus a displacement, as LD HL, SP+e8
\* computes them: the low one without the sign.
LEMMA DisplacedBytes ==
  ASSUME NEW p \in Word, NEW e \in Byte, NEW s, s = p + Architecture!Signed(e)
  PROVE  /\ s \in Int /\ s % 256 = (p + e) % 256
         /\ (s % 65536) \div 256
              = (High(p) + (IF e >= 128 THEN 255 ELSE 0) + (IF (p % 256) + e > 255 THEN 1 ELSE 0)) % 256
<1> DEFINE h == High(p)
           l == Low(p)
           c == IF e >= 128 THEN 255 ELSE 0
           k == IF l + e > 255 THEN 1 ELSE 0
           d == IF e < 128 THEN e ELSE e - 256
           u == (h + c + k) % 256
           v == (l + e) % 256
<1>1. h \in 0 .. 255 /\ l \in 0 .. 255 /\ p = 256 * h + l /\ p % 256 = l
  BY DEF Word, High, Low
<1>2. e \in 0 .. 255
  BY DEF Byte
<1>3. d = Architecture!Signed(e)
  BY DEF Architecture!Signed
<1> HIDE DEF h, l
<1>4. /\ c \in 0 .. 255 /\ c = IF e >= 128 THEN 255 ELSE 0
      /\ k \in 0 .. 1 /\ k = IF l + e > 255 THEN 1 ELSE 0
      /\ d \in Int /\ d = IF e < 128 THEN e ELSE e - 256
  BY <1>1, <1>2
<1> HIDE DEF c, k, d
<1>5. s = p + d /\ s \in Int
  <2>1. p \in Int
    BY DEF Word
  <2> QED
    BY <1>3, <1>4, <2>1
<1>6. s % 256 = (p + e) % 256
  <2>1. p \in Int /\ p + e \in Int
    BY <1>2 DEF Word
  <2>3. s = p + e \/ s = (p + e) - 256
    BY <1>2, <1>4, <1>5, <2>1
  <2> QED
    BY <2>1, <2>3, SameLowByte
<1>11. ByteSum(h, c, k, l, e) = WordSum(h, l, d)
  <2>1. h \in Byte /\ l \in Byte
    BY <1>1 DEF Byte
  <2> QED
    BY <1>4, <2>1, BytewiseSum
<1>7. 256 * u + v = (256 * h + l + d) % 65536
  BY <1>1, <1>3, <1>4, <1>11 DEF ByteSum, WordSum
<1>8. u \in 0 .. 255 /\ v \in 0 .. 255
  BY <1>1, <1>2, <1>4
<1>9. s % 65536 = 256 * u + v
  BY <1>1, <1>5, <1>7
<1> HIDE DEF u, v
<1>10. (s % 65536) \div 256 = u
  <2>1. (256 * u + v) \div 256 = u
    BY <1>8
  <2> QED
    BY <1>9, <2>1
<1> QED
  BY <1>1, <1>5, <1>6, <1>10 DEF u, c, k, h

\* The sign of a displacement is its bit 7.
LEMMA SignBit ==
  ASSUME NEW e \in Byte
  PROVE  And(\h80, e) > 0 <=> e >= 128
<1>1. /\ BitMask(0) = 1 /\ BitMask(1) = 2 /\ BitMask(2) = 4 /\ BitMask(3) = 8
      /\ BitMask(4) = 16 /\ BitMask(5) = 32 /\ BitMask(6) = 64 /\ BitMask(7) = 128
  BY DEF BitMask
<1>2. Bits(128) = {7}
  <2>1. ASSUME NEW i \in BitIndex
        PROVE  (128 \div BitMask(i)) % 2 = 1 <=> i = 7
    BY <1>1 DEF BitIndex
  <2> QED
    BY <2>1 DEF Bits, BitIndex
<1>3. 7 \in Bits(e) <=> e >= 128
  BY BitsOf
<1>4. CASE e >= 128
  <2>1. Bits(128) \cap Bits(e) = {7}
    BY <1>2, <1>3, <1>4
  <2> QED
    BY <1>1, <1>4, <2>1 DEF And, FromBits
<1>5. CASE ~(e >= 128)
  <2>1. Bits(128) \cap Bits(e) = {}
    BY <1>2, <1>3, <1>5
  <2> QED
    BY <1>1, <1>5, <2>1 DEF And, FromBits
<1> QED
  BY <1>4, <1>5


\* The F that PUSH AF stores as it is holds the flags and nothing else.
LEMMA FlagsByte ==
  ASSUME NEW r \in CleanFile
  PROVE  Value8(r, "F") = (IF Zero \in Flags(r) THEN 128 ELSE 0) + (IF Subtract \in Flags(r) THEN 64 ELSE 0)
                          + (IF HalfCarry \in Flags(r) THEN 32 ELSE 0) + (IF Carry \in Flags(r) THEN 16 ELSE 0)
<1> DEFINE b == Value8(r, "F")
<1>1. b \in Byte /\ b % 16 = 0
  <2>1. r["AF"] \in Word /\ r["AF"] % 16 = 0
    BY DEF CleanFile, RegisterFile, Register16
  <2>2. b = r["AF"] % 256
    BY DEF Value8, Whole, UpperByte, Low
  <2> HIDE DEF b
  <2> QED
    BY <2>1, <2>2 DEF Byte, Word
<1>2. /\ BitMask(0) = 1 /\ BitMask(1) = 2 /\ BitMask(2) = 4 /\ BitMask(3) = 8
      /\ BitMask(4) = 16 /\ BitMask(5) = 32 /\ BitMask(6) = 64 /\ BitMask(7) = 128
  BY DEF BitMask
<1>3. Flags(r) = Bits(b) \cap FlagPositions
  BY DEF Flags
<1> HIDE DEF b
<1>4. 0 \notin Bits(b) /\ 1 \notin Bits(b) /\ 2 \notin Bits(b) /\ 3 \notin Bits(b)
  <2>1. PICK k \in 0 .. 15 : b = 16 * k
    BY <1>1 DEF Byte
  <2>2. (b \div 1) % 2 = 0 /\ (b \div 2) % 2 = 0 /\ (b \div 4) % 2 = 0 /\ (b \div 8) % 2 = 0
    BY <2>1
  <2> QED
    BY <1>2, <2>2 DEF Bits
<1>5. /\ Zero \in Flags(r) <=> 7 \in Bits(b)
      /\ Subtract \in Flags(r) <=> 6 \in Bits(b)
      /\ HalfCarry \in Flags(r) <=> 5 \in Bits(b)
      /\ Carry \in Flags(r) <=> 4 \in Bits(b)
  BY <1>3 DEF FlagPositions, Zero, Subtract, HalfCarry, Carry
<1>6. b = FromBits(Bits(b))
  BY <1>1, FromItsBits
<1>7. b = (IF Zero \in Flags(r) THEN 128 ELSE 0) + (IF Subtract \in Flags(r) THEN 64 ELSE 0)
          + (IF HalfCarry \in Flags(r) THEN 32 ELSE 0) + (IF Carry \in Flags(r) THEN 16 ELSE 0)
  BY <1>2, <1>4, <1>5, <1>6 DEF FromBits
<1> QED
  BY <1>7 DEF b

\* The word that PUSH AF stores.
LEMMA PushedAF ==
  ASSUME NEW r \in CleanFile, boundary.r["A"] = Value8(r, "A"), boundary.flags = FlagNames(Flags(r))
  PROVE  r["AF"] = Architecture!AF
<1>1. Flags(r) \subseteq FlagPositions
  BY DEF Flags, FlagPositions
<1>2. /\ "Z" \in boundary.flags <=> Zero \in Flags(r)
      /\ "N" \in boundary.flags <=> Subtract \in Flags(r)
      /\ "H" \in boundary.flags <=> HalfCarry \in Flags(r)
      /\ "C" \in boundary.flags <=> Carry \in Flags(r)
  BY <1>1, NamedFlags
<1>3. r["AF"] = 256 * Value8(r, "A") + Value8(r, "F")
  BY PairWhole
<1>4. Value8(r, "A") \in Byte
  BY Value8Type
<1> QED
  BY <1>2, <1>3, <1>4, FlagsByte DEF Architecture!AF, Architecture!CarryValue, Byte

\* An even number added changes no parity.
LEMMA Parity ==
  ASSUME NEW n \in Int, NEW t \in Int
  PROVE  (2 * n + t) % 2 = t % 2
  OBVIOUS

\* The bits of a word's low byte are bits of the word.
LEMMA BitsOfLowByte ==
  ASSUME NEW q \in Byte, NEW l \in Byte, NEW w, w = 256 * q + l
  PROVE  /\ (l \div 128) % 2 = (w \div 128) % 2
         /\ (l \div 64) % 2 = (w \div 64) % 2
         /\ (l \div 32) % 2 = (w \div 32) % 2
         /\ (l \div 16) % 2 = (w \div 16) % 2
<1>0. q \in 0 .. 255 /\ l \in 0 .. 255
  BY DEF Byte
<1>1. w \div 128 = 2 * q + (l \div 128)
  BY <1>0
<1>2. w \div 64 = 2 * (2 * q) + (l \div 64)
  BY <1>0
<1>3. w \div 32 = 2 * (4 * q) + (l \div 32)
  BY <1>0
<1>4. w \div 16 = 2 * (8 * q) + (l \div 16)
  BY <1>0
<1>5. l \div 128 \in Int /\ l \div 64 \in Int /\ l \div 32 \in Int /\ l \div 16 \in Int /\ q \in Int
  BY <1>0
<1>6. (l \div 128) % 2 = (w \div 128) % 2
  BY <1>1, <1>5, Parity
<1>7. (l \div 64) % 2 = (w \div 64) % 2
  BY <1>2, <1>5, Parity
<1>8. (l \div 32) % 2 = (w \div 32) % 2
  BY <1>3, <1>5, Parity
<1>9. (l \div 16) % 2 = (w \div 16) % 2
  BY <1>4, <1>5, Parity
<1> QED
  BY <1>6, <1>7, <1>8, <1>9

\* What the mask of AF leaves of each byte.
LEMMA MaskedParts ==
  ASSUME NEW q \in Byte, NEW l \in Byte, NEW w, w = 256 * q + l
  PROVE  /\ High(w - (w % 16)) = q
         /\ Low(w - (w % 16)) = l - (l % 16)
<1>0. q \in 0 .. 255 /\ l \in 0 .. 255
  BY DEF Byte
<1>1. w % 16 = l % 16
  BY <1>0
<1> DEFINE d == l - (l % 16)
<1>2. d \in 0 .. 255
  BY <1>0
<1>3. w - (w % 16) = 256 * q + d
  BY <1>0, <1>1
<1> HIDE DEF d
<1>4. (256 * q + d) \div 256 = q /\ (256 * q + d) % 256 = d
  BY <1>0, <1>2
<1> QED
  BY <1>3, <1>4 DEF d, High, Low

\* A word is made of its two bytes.
LEMMA WordSplit ==
  ASSUME NEW w \in Word
  PROVE  w = 256 * High(w) + Low(w) /\ High(w) \in Byte /\ Low(w) \in Byte
  BY DEF Word, Byte, High, Low
\* POP AF keeps of the word what A and the four flags hold.
LEMMA PoppedAF ==
  ASSUME NEW r \in CleanFile, NEW w \in Word, NEW i, NEW m, NEW pc
  PROVE  Machine(Assign16(r, "AF", w), i, m, pc)
           = Updated(Machine(r, i, m, pc), "A", w \div 256,
                     {f \in DOMAIN Architecture!FlagBits : (w \div Architecture!FlagBits[f]) % 2 = 1})
<1> DEFINE q == Assign16(r, "AF", w)
           h == High(w)
           l == Low(w)
           S == Bits(l) \cap FlagPositions
           a == Assign8(r, "A", h)
           T == {f \in DOMAIN Architecture!FlagBits : (w \div Architecture!FlagBits[f]) % 2 = 1}
<1>0. w = 256 * h + l
  BY WordSplit
<1>1. h \in Byte /\ l \in Byte
  BY WordSplit
<1>2. S \subseteq FlagPositions
  OBVIOUS
<1>3. FlagNames(S) = T
  <2>1. /\ BitMask(4) = 16 /\ BitMask(5) = 32 /\ BitMask(6) = 64 /\ BitMask(7) = 128
    BY DEF BitMask
  <2>2. /\ 7 \in Bits(l) <=> (w \div 128) % 2 = 1
        /\ 6 \in Bits(l) <=> (w \div 64) % 2 = 1
        /\ 5 \in Bits(l) <=> (w \div 32) % 2 = 1
        /\ 4 \in Bits(l) <=> (w \div 16) % 2 = 1
    <3> HIDE DEF h, l
    <3>1. /\ (l \div 128) % 2 = (w \div 128) % 2
          /\ (l \div 64) % 2 = (w \div 64) % 2
          /\ (l \div 32) % 2 = (w \div 32) % 2
          /\ (l \div 16) % 2 = (w \div 16) % 2
      BY <1>0, <1>1, BitsOfLowByte
    <3> QED
      BY <2>1, <3>1 DEF Bits, BitIndex
  <2>3. /\ Zero \in S <=> (w \div 128) % 2 = 1
        /\ Subtract \in S <=> (w \div 64) % 2 = 1
        /\ HalfCarry \in S <=> (w \div 32) % 2 = 1
        /\ Carry \in S <=> (w \div 16) % 2 = 1
    BY <2>2 DEF FlagPositions, Zero, Subtract, HalfCarry, Carry
  <2>4. /\ T \subseteq {"Z", "N", "H", "C"}
        /\ "Z" \in T <=> (w \div 128) % 2 = 1
        /\ "N" \in T <=> (w \div 64) % 2 = 1
        /\ "H" \in T <=> (w \div 32) % 2 = 1
        /\ "C" \in T <=> (w \div 16) % 2 = 1
    BY DEF Architecture!FlagBits
  <2> HIDE DEF S, T
  <2>5. /\ FlagNames(S) \subseteq {"Z", "N", "H", "C"}
        /\ "Z" \in FlagNames(S) <=> Zero \in S
        /\ "N" \in FlagNames(S) <=> Subtract \in S
        /\ "H" \in FlagNames(S) <=> HalfCarry \in S
        /\ "C" \in FlagNames(S) <=> Carry \in S
    BY <1>2, NamedFlags
  <2>6. /\ "Z" \in FlagNames(S) <=> "Z" \in T
        /\ "N" \in FlagNames(S) <=> "N" \in T
        /\ "H" \in FlagNames(S) <=> "H" \in T
        /\ "C" \in FlagNames(S) <=> "C" \in T
    BY <2>3, <2>4, <2>5
  <2> QED
    BY <2>4, <2>5, <2>6, SameFlags
<1> HIDE DEF h, l
<1>4. "A" \in Register8 /\ a \in CleanFile
  <2>1. "A" \in Register8 /\ "A" \in Plain8
    BY DEF Register8, Plain8
  <2> QED
    BY <1>1, <2>1, Assign8Clean
<1>5. /\ \A n \in Register8 : Value8(q, n) = Value8(AssignFlags(a, S), n)
      /\ Flags(q) = Flags(AssignFlags(a, S))
      /\ q["SP"] = AssignFlags(a, S)["SP"]
  <2>1. /\ q["AF"] = w - (w % 16)
        /\ \A p \in Register16 : p # "AF" => q[p] = r[p]
    BY DEF Assign16, Masked, CleanFile, RegisterFile, Register16
  <2>2. High(q["AF"]) = h /\ Low(q["AF"]) = l - (l % 16)
    BY <1>0, <1>1, <2>1, MaskedParts
  <2>3. Flags(q) = S
    <3>1. Flags(q) = Bits(Low(q["AF"])) \cap FlagPositions
      BY DEF Flags, Value8, Whole, UpperByte
    <3> DEFINE b == l
               c == Low(q["AF"])
    <3>2. b \in 0 .. 255 /\ c = b - (b % 16)
      BY <1>1, <2>2 DEF Byte
    <3>3. BitMask(4) = 16 /\ BitMask(5) = 32 /\ BitMask(6) = 64 /\ BitMask(7) = 128
      BY DEF BitMask
    <3> HIDE DEF b, c
    <3>4. /\ 7 \in Bits(c) <=> 7 \in Bits(b)
          /\ 6 \in Bits(c) <=> 6 \in Bits(b)
          /\ 5 \in Bits(c) <=> 5 \in Bits(b)
          /\ 4 \in Bits(c) <=> 4 \in Bits(b)
      BY <3>2, <3>3 DEF Bits, BitIndex
    <3>5. Bits(c) \cap FlagPositions = Bits(b) \cap FlagPositions
      BY <3>4 DEF FlagPositions, Zero, Subtract, HalfCarry, Carry
    <3> QED
      BY <3>1, <3>5 DEF b, c
  <2>4. /\ \A n \in Plain8 : Value8(AssignFlags(a, S), n) = Value8(a, n)
        /\ Flags(AssignFlags(a, S)) = S
        /\ AssignFlags(a, S)["SP"] = a["SP"]
    BY <1>2, <1>4, AssignFlagsViews DEF Register16
  <2>5. /\ \A n \in Plain8 : Value8(a, n) = IF n = "A" THEN h ELSE Value8(r, n)
        /\ a["SP"] = r["SP"]
    <3>1. "A" \in Plain8 /\ "SP" \in Register16 /\ "SP" # Whole("A")
      BY DEF Plain8, Register8, Register16, Whole
    <3> QED
      BY <1>1, <3>1, Assign8Views
  <2>6. \A n \in Register8 : Value8(q, n) = IF n = "A" THEN h ELSE Value8(r, n)
    BY <2>1, <2>2 DEF Value8, Register8, Register16, Whole, UpperByte
  <2> HIDE DEF q, a, S
  <2> QED
    BY <2>1, <2>3, <2>4, <2>5, <2>6 DEF Plain8, Register16
<1> HIDE DEF q, S, a, T
<1>6. Machine(q, i, m, pc) = Machine(AssignFlags(a, S), i, m, pc)
  BY <1>5, SameMachine
<1>7. Machine(AssignFlags(a, S), i, m, pc) = Updated(Machine(r, i, m, pc), "A", h, FlagNames(S))
  BY <1>1, <1>2, <1>4, MachineBoth DEF a
<1>8. Machine(q, i, m, pc) = Updated(Machine(r, i, m, pc), "A", h, T)
  BY <1>3, <1>6, <1>7
<1> QED
  BY <1>8 DEF q, T, h, High


\* The flags of LD HL, SP+e8.
DisplacedFlags(sp, e) == Architecture!When((sp % 16) + (e % 16) > 15, "H")
                         \cup Architecture!When((sp % 256) + e > 255, "C")

\* The first half of LD HL, SP+e8: L, and the carries that the second half
\* needs.
LEMMA LowByteStep ==
  ASSUME reg \in CleanFile, NEW i, NEW m, Machine(reg, i, m, boundary.pc) = boundary,
         R8("Z") = Architecture!imm8, NEW sum, sum = AddWithCarry(Low(reg["SP"]), R8("Z")),
         NEW r, r = Assign8(Assign8(reg, "L", sum.result), "F", FromBits(HalfCarryFlag(sum) \cup CarryFlag(sum)))
  PROVE  Machine(r, i, m, boundary.pc) = LowByteAdded /\ r \in CleanFile /\ r["PC"] = reg["PC"]
<1> DEFINE sp == reg["SP"]
           e  == R8("Z")
           S  == HalfCarryFlag(sum) \cup CarryFlag(sum)
           F  == DisplacedFlags(sp, e)
           l  == (sp + e) % 256
<1>1. sp \in Word /\ e \in Byte /\ Low(sp) \in Byte
  BY Value8Type, WordParts DEF R8, CleanFile, RegisterFile, Register16
<1>2. sp = boundary.sp
  BY MachineRest
<1>3. /\ sum.result = (Low(sp) + e) % 256
      /\ 3 \in sum.carryBits <=> (Low(sp) % 16) + (e % 16) >= 16
      /\ 7 \in sum.carryBits <=> Low(sp) + e >= 256
  <2> HIDE DEF sp, e
  <2>1. sum = AddWithCarry(Low(sp), e)
    BY DEF sp, e
  <2> QED
    BY <1>1, <2>1, AddCarry
<1> HIDE DEF sp, e
<1>4. /\ sum.result = l /\ l \in Byte
      /\ 3 \in sum.carryBits <=> (sp % 16) + (e % 16) > 15
      /\ 7 \in sum.carryBits <=> (sp % 256) + e > 255
  <2>1. sp \in Nat /\ e \in 0 .. 255
    BY <1>1 DEF Word, Byte
  <2>2. (sp % 256) % 16 = sp % 16 /\ ((sp % 256) + e) % 256 = (sp + e) % 256 /\ l \in 0 .. 255
    BY <2>1
  <2> QED
    BY <1>3, <2>1, <2>2 DEF Low, Byte
<1>5. /\ Zero \notin S /\ Subtract \notin S
      /\ HalfCarry \in S <=> 3 \in sum.carryBits
      /\ Carry \in S <=> 7 \in sum.carryBits
      /\ S \subseteq FlagPositions
  <2>1. Zero # HalfCarry /\ Zero # Carry /\ Subtract # HalfCarry /\ Subtract # Carry /\ HalfCarry # Carry
    BY DEF Zero, Subtract, HalfCarry, Carry
  <2>2. HalfCarry \in FlagPositions /\ Carry \in FlagPositions
    BY DEF FlagPositions
  <2> QED
    BY <2>1, <2>2, FlagIfNames
<1>6. FlagNames(S) = F
  <2>1. /\ F \subseteq {"Z", "N", "H", "C"}
        /\ "Z" \notin F /\ "N" \notin F
        /\ "H" \in F <=> (sp % 16) + (e % 16) > 15
        /\ "C" \in F <=> (sp % 256) + e > 255
    BY DEF DisplacedFlags, Architecture!When
  <2> HIDE DEF S, F
  <2>2. /\ FlagNames(S) \subseteq {"Z", "N", "H", "C"}
        /\ "Z" \in FlagNames(S) <=> Zero \in S
        /\ "N" \in FlagNames(S) <=> Subtract \in S
        /\ "H" \in FlagNames(S) <=> HalfCarry \in S
        /\ "C" \in FlagNames(S) <=> Carry \in S
    BY <1>5, NamedFlags
  <2>3. /\ "Z" \in FlagNames(S) <=> "Z" \in F
        /\ "N" \in FlagNames(S) <=> "N" \in F
        /\ "H" \in FlagNames(S) <=> "H" \in F
        /\ "C" \in FlagNames(S) <=> "C" \in F
    BY <1>4, <1>5, <2>1, <2>2
  <2> QED
    BY <2>1, <2>2, <2>3, SameFlags
<1>7. r = AssignFlags(Assign8(reg, "L", l), S)
  BY <1>4, <1>5, MaskedFlags
<1>8. LowByteAdded = Updated(boundary, "L", l, F)
  BY <1>2 DEF LowByteAdded, Updated, DisplacedFlags, e
<1>9. "L" \in Register8
  BY DEF Register8
<1> HIDE DEF S, F, l
<1>10. /\ Machine(r, i, m, boundary.pc) = Updated(Machine(reg, i, m, boundary.pc), "L", l, FlagNames(S))
       /\ r \in CleanFile /\ r["PC"] = reg["PC"]
  BY <1>4, <1>5, <1>7, <1>9, MachineBoth, BothClean
<1> QED
  BY <1>6, <1>8, <1>10

Paired(s, h, l) == [s EXCEPT !.r["H"] = h, !.r["L"] = l]

\* The second half of LD HL, SP+e8: H from the carry and the sign kept
\* across the M-cycle.
LEMMA HighByteStep ==
  ASSUME reg \in CleanFile, boundary \in MachineState, Architecture!imm8 \in Byte, NEW i, NEW m,
         Machine(reg, i, m, boundary.pc) = LowByteAdded,
         NEW local, local > 0 <=> Architecture!imm8 >= 128,
         NEW r, r = Assign8(reg, "H", (High(reg["SP"]) + (IF local > 0 THEN \hFF ELSE 0)
                                         + (IF CarryIn(reg) THEN 1 ELSE 0)) % 256)
  PROVE  /\ Machine(r, i, m, boundary.pc)
              = Flagged(Architecture!Set16(boundary, 2, boundary.sp + Architecture!Signed(Architecture!imm8)),
                        DisplacedFlags(boundary.sp, Architecture!imm8))
         /\ r \in CleanFile /\ r["PC"] = reg["PC"]
<1> DEFINE sp == boundary.sp
           e  == Architecture!imm8
           F  == DisplacedFlags(sp, e)
           l  == (sp + e) % 256
           s  == sp + Architecture!Signed(e)
           h  == (s % 65536) \div 256
           v  == (High(reg["SP"]) + (IF local > 0 THEN \hFF ELSE 0) + (IF CarryIn(reg) THEN 1 ELSE 0)) % 256
<1>1. sp \in Word /\ e \in Byte
  BY DEF MachineState
<1>2. LowByteAdded = [boundary EXCEPT !.r["L"] = l, !.flags = F]
  BY DEF LowByteAdded, DisplacedFlags
<1>3. LowByteAdded.sp = sp /\ LowByteAdded.flags = F
  <2> HIDE DEF F, l
  <2> QED
    BY <1>2 DEF MachineState
<1>4. reg["SP"] = sp
  BY <1>3, MachineRest
<1>5. CarryIn(reg) <=> (sp % 256) + e > 255
  <2>1. CarryIn(reg) <=> "C" \in F
    BY <1>3, CarrySeen
  <2>2. "C" \in F <=> (sp % 256) + e > 255
    BY DEF DisplacedFlags, Architecture!When
  <2> QED
    BY <2>1, <2>2
<1> HIDE DEF sp, e, F
<1>6. /\ s \in Int /\ s % 256 = l
      /\ h = (High(sp) + (IF e >= 128 THEN 255 ELSE 0) + (IF (sp % 256) + e > 255 THEN 1 ELSE 0)) % 256
  BY <1>1, DisplacedBytes
<1>7. (IF CarryIn(reg) THEN 1 ELSE 0) = (IF (sp % 256) + e > 255 THEN 1 ELSE 0)
  BY <1>5
<1>8. (IF local > 0 THEN \hFF ELSE 0) = (IF e >= 128 THEN 255 ELSE 0)
  BY DEF e
<1>9. v = h
  BY <1>4, <1>6, <1>7, <1>8
<1>10. h \in Byte
  <2> HIDE DEF s
  <2> QED
    BY <1>6 DEF Byte
<1>11. r = Assign8(reg, "H", h)
  BY <1>9
<1> HIDE DEF l, s, h, v
<1>12. "H" \in Register8 /\ "H" \in Plain8 /\ "H" \in Plain8 /\ Whole("H") # "PC" /\ "PC" \in Register16
  BY DEF Register8, Plain8, Plain8, Whole, Register16
<1>13. r \in CleanFile /\ r["PC"] = reg["PC"]
  BY <1>10, <1>11, <1>12, Assign8Clean, Assign8Views
<1>14. Machine(r, i, m, boundary.pc) = [LowByteAdded EXCEPT !.r["H"] = h]
  <2>1. Machine(r, i, m, boundary.pc) = Stored8(LowByteAdded, "H", h)
    BY <1>10, <1>11, <1>12, MachineStored8
  <2> QED
    BY <2>1 DEF Stored8
<1>15. [LowByteAdded EXCEPT !.r["H"] = h] = Flagged(Architecture!Set16(boundary, 2, s), F)
  <2>1. Architecture!Set16(boundary, 2, s) = [boundary EXCEPT !.r["H"] = h, !.r["L"] = l]
    <3>1. Architecture!Set16(boundary, 2, s) = Paired(boundary, (s % 65536) \div 256, s % 256)
      BY DEF Architecture!Set16, Architecture!Name16, Paired
    <3>2. (s % 65536) \div 256 = h
      BY DEF h
    <3>3. s % 256 = l
      BY <1>6
    <3>4. Architecture!Set16(boundary, 2, s) = Paired(boundary, h, l)
      BY <3>1, <3>2, <3>3
    <3> QED
      BY <3>4 DEF Paired
  <2> DEFINE a == boundary.r
             f == [a EXCEPT !["H"] = h]
             g == [a EXCEPT !["L"] = l]
  <2>2. [boundary EXCEPT !.r["H"] = h, !.r["L"] = l] = [boundary EXCEPT !.r = [f EXCEPT !["L"] = l]]
    BY DEF MachineState
  <2>3. [[boundary EXCEPT !.r["L"] = l, !.flags = F] EXCEPT !.r["H"] = h]
          = [boundary EXCEPT !.r = [g EXCEPT !["H"] = h], !.flags = F]
    BY DEF MachineState
  <2>4. [f EXCEPT !["L"] = l] = [g EXCEPT !["H"] = h]
    BY DEF MachineState
  <2> HIDE DEF f, g
  <2>5. Flagged(Architecture!Set16(boundary, 2, s), F) = [boundary EXCEPT !.r = [f EXCEPT !["L"] = l], !.flags = F]
    BY <2>1, <2>2 DEF Flagged, MachineState
  <2> QED
    BY <1>2, <2>3, <2>4, <2>5
<1> QED
  BY <1>13, <1>14, <1>15 DEF s, F, sp, e


-----------------------------------------------------------------------------
(* The opcode table follows the octal pattern of the opcodes: opcode xyz   *)
(* selects the handler h.                                                  *)

\* (BC), (DE), (HL+) and (HL-).
PointerOf == <<"BC", "DE", "HL", "HL">>
StepOf    == <<0, 0, 1, -1>>
StackedOf == <<"BC", "DE", "HL", "AF">>

N8(k)     == Architecture!Name8[k + 1]
Half(y)   == 1 + (y \div 2)
Even(y)   == y % 2 = 0

Block0(y, z, h) ==
  \/ z = 0 /\ y = 0 /\ h = <<"Noop">>
  \/ z = 0 /\ y = 1 /\ h = <<"LoadA16SP">>
  \/ z = 0 /\ y = 3 /\ h = <<"JumpRelative", "Always">>
  \/ z = 0 /\ y > 3 /\ h = <<"JumpRelative", CondOf[y - 3]>>
  \/ z = 1 /\ Even(y) /\ h = <<"LoadRegN16", PairOf[Half(y)]>>
  \/ z = 2 /\ Even(y) /\ h = <<"LoadIndirectFrom", PointerOf[Half(y)], "A", StepOf[Half(y)]>>
  \/ z = 2 /\ ~Even(y) /\ h = <<"LoadRIndirectRr", "A", PointerOf[Half(y)], StepOf[Half(y)]>>
  \/ z = 3 /\ Even(y) /\ h = <<"IncRR", PairOf[Half(y)]>>
  \/ z = 3 /\ ~Even(y) /\ h = <<"DecRR", PairOf[Half(y)]>>
  \/ z = 4 /\ y # 6 /\ h = <<"IncR", N8(y)>>
  \/ z = 5 /\ y # 6 /\ h = <<"DecR", N8(y)>>
  \/ z = 6 /\ y # 6 /\ h = <<"LoadRegN8", N8(y)>>
  \/ z = 6 /\ y = 6 /\ h = <<"LoadIndirectHlN8">>
  \/ z = 7 /\ y = 0 /\ h = <<"Rlca">>
  \/ z = 7 /\ y = 1 /\ h = <<"Rrca">>
  \/ z = 7 /\ y = 2 /\ h = <<"Rla">>
  \/ z = 7 /\ y = 3 /\ h = <<"Rra">>
  \/ z = 7 /\ y = 5 /\ h = <<"Cpl">>
  \/ z = 7 /\ y = 7 /\ h = <<"Ccf">>

Block1(y, z, h) ==
  \/ y # 6 /\ z # 6 /\ h = <<"LoadRegReg", N8(y), N8(z)>>
  \/ y # 6 /\ z = 6 /\ h = <<"LoadRIndirectRr", N8(y), "HL", 0>>
  \/ y = 6 /\ z # 6 /\ h = <<"LoadIndirectFrom", "HL", N8(z), 0>>

Block2(y, z, h) ==
  \/ z # 6 /\ h = <<"MathOperandR", OperationOf[y + 1], N8(z)>>
  \/ z = 6 /\ h = <<"MathIndirectHL", OperationOf[y + 1]>>

Block3(y, z, h) ==
  \/ z = 0 /\ y < 4 /\ h = <<"RetConditional", CondOf[y + 1]>>
  \/ z = 0 /\ y = 4 /\ h = <<"LoadIndirectA8FromA">>
  \/ z = 0 /\ y = 6 /\ h = <<"LoadAFromIndirectA8">>
  \/ z = 0 /\ y = 7 /\ h = <<"LoadSPFromHlPlusE8">>
  \/ z = 1 /\ Even(y) /\ h = <<"PopRr", StackedOf[Half(y)]>>
  \/ z = 1 /\ y = 1 /\ h = <<"Ret">>
  \/ z = 1 /\ y = 3 /\ h = <<"RetI">>
  \/ z = 1 /\ y = 5 /\ h = <<"JumpHl">>
  \/ z = 1 /\ y = 7 /\ h = <<"LoadReg16Reg16", "SP", "HL">>
  \/ z = 2 /\ y < 4 /\ h = <<"Jump", CondOf[y + 1]>>
  \/ z = 2 /\ y = 4 /\ h = <<"LoadIndirectCFromA">>
  \/ z = 2 /\ y = 5 /\ h = <<"LoadIndirectA16FromA">>
  \/ z = 2 /\ y = 6 /\ h = <<"LoadAFromIndirectC">>
  \/ z = 2 /\ y = 7 /\ h = <<"LoadAFromIndirectA16">>
  \/ z = 3 /\ y = 0 /\ h = <<"Jump", "Always">>
  \/ z = 3 /\ y = 6 /\ h = <<"Di">>
  \/ z = 3 /\ y = 7 /\ h = <<"Ei">>
  \/ z = 4 /\ y < 4 /\ h = <<"Call", CondOf[y + 1]>>
  \/ z = 5 /\ Even(y) /\ h = <<"PushRr", StackedOf[Half(y)]>>
  \/ z = 5 /\ y = 1 /\ h = <<"Call", "Always">>
  \/ z = 6 /\ h = <<"MathN8", OperationOf[y + 1]>>
  \/ z = 7 /\ h = <<"Rst", 8 * y>>

Decodes(x, y, z, h) ==
  \/ x = 0 /\ Block0(y, z, h)
  \/ x = 1 /\ Block1(y, z, h)
  \/ x = 2 /\ Block2(y, z, h)
  \/ x = 3 /\ Block3(y, z, h)

(***************************************************************************)
(* Every entry of the opcode table that does not throw is the handler, on  *)
(* the registers, conditions and operations, that the octal digits of its  *)
(* opcode select (opcode_handler_map.h).                                   *)
(***************************************************************************)
THEOREM Decoding ==
  ASSUME NEW x \in 0 .. 3, NEW y \in 0 .. 7, NEW z \in 0 .. 7, NEW op \in Byte, op = 64 * x + 8 * y + z,
         NEW h, h = OpcodeHandlers[op], h \notin Throwing
  PROVE  Decodes(x, y, z, h)
<1>1. h = Octets[8 * x + y + 1][z + 1]
  <2>1. op \div 8 = 8 * x + y /\ op % 8 = z
    OBVIOUS
  <2> QED
    BY <2>1 DEF OpcodeHandlers
<1>2. h # Unimplemented /\ h # Illegal
  BY DEF Throwing
<1>3. CASE x = 0
  <2>1. CASE y = 0
    <3>1. h = Octets[1][z + 1]
      BY <1>1, <1>3, <2>1
    <3>2. Block0(0, z, h)
      BY <1>2, <3>1 DEF Octets, Unimplemented, Noop, Block0, CondOf, PairOf, PointerOf, StepOf, N8, Half, Even, Architecture!Name8
    <3> QED
      BY <1>3, <2>1, <3>2 DEF Decodes
  <2>2. CASE y = 1
    <3>1. h = Octets[2][z + 1]
      BY <1>1, <1>3, <2>2
    <3>2. Block0(1, z, h)
      BY <1>2, <3>1 DEF Octets, Unimplemented, Noop, Block0, CondOf, PairOf, PointerOf, StepOf, N8, Half, Even, Architecture!Name8
    <3> QED
      BY <1>3, <2>2, <3>2 DEF Decodes
  <2>3. CASE y = 2
    <3>1. h = Octets[3][z + 1]
      BY <1>1, <1>3, <2>3
    <3>2. Block0(2, z, h)
      BY <1>2, <3>1 DEF Octets, Unimplemented, Noop, Block0, CondOf, PairOf, PointerOf, StepOf, N8, Half, Even, Architecture!Name8
    <3> QED
      BY <1>3, <2>3, <3>2 DEF Decodes
  <2>4. CASE y = 3
    <3>1. h = Octets[4][z + 1]
      BY <1>1, <1>3, <2>4
    <3>2. Block0(3, z, h)
      BY <1>2, <3>1 DEF Octets, Unimplemented, Noop, Block0, CondOf, PairOf, PointerOf, StepOf, N8, Half, Even, Architecture!Name8
    <3> QED
      BY <1>3, <2>4, <3>2 DEF Decodes
  <2>5. CASE y = 4
    <3>1. h = Octets[5][z + 1]
      BY <1>1, <1>3, <2>5
    <3>2. Block0(4, z, h)
      BY <1>2, <3>1 DEF Octets, Unimplemented, Noop, Block0, CondOf, PairOf, PointerOf, StepOf, N8, Half, Even, Architecture!Name8
    <3> QED
      BY <1>3, <2>5, <3>2 DEF Decodes
  <2>6. CASE y = 5
    <3>1. h = Octets[6][z + 1]
      BY <1>1, <1>3, <2>6
    <3>2. Block0(5, z, h)
      BY <1>2, <3>1 DEF Octets, Unimplemented, Noop, Block0, CondOf, PairOf, PointerOf, StepOf, N8, Half, Even, Architecture!Name8
    <3> QED
      BY <1>3, <2>6, <3>2 DEF Decodes
  <2>7. CASE y = 6
    <3>1. h = Octets[7][z + 1]
      BY <1>1, <1>3, <2>7
    <3>2. Block0(6, z, h)
      BY <1>2, <3>1 DEF Octets, Unimplemented, Noop, Block0, CondOf, PairOf, PointerOf, StepOf, N8, Half, Even, Architecture!Name8
    <3> QED
      BY <1>3, <2>7, <3>2 DEF Decodes
  <2>8. CASE y = 7
    <3>1. h = Octets[8][z + 1]
      BY <1>1, <1>3, <2>8
    <3>2. Block0(7, z, h)
      BY <1>2, <3>1 DEF Octets, Unimplemented, Noop, Block0, CondOf, PairOf, PointerOf, StepOf, N8, Half, Even, Architecture!Name8
    <3> QED
      BY <1>3, <2>8, <3>2 DEF Decodes
  <2> QED
    BY <2>1, <2>2, <2>3, <2>4, <2>5, <2>6, <2>7, <2>8
<1>4. CASE x = 1
  <2>1. CASE y = 0
    <3>1. h = Octets[9][z + 1]
      BY <1>1, <1>4, <2>1
    <3>2. Block1(0, z, h)
      BY <1>2, <3>1 DEF Octets, LoadOctet, StoreOctet, Operands, Unimplemented, Block1, N8, Architecture!Name8
    <3> QED
      BY <1>4, <2>1, <3>2 DEF Decodes
  <2>2. CASE y = 1
    <3>1. h = Octets[10][z + 1]
      BY <1>1, <1>4, <2>2
    <3>2. Block1(1, z, h)
      BY <1>2, <3>1 DEF Octets, LoadOctet, StoreOctet, Operands, Unimplemented, Block1, N8, Architecture!Name8
    <3> QED
      BY <1>4, <2>2, <3>2 DEF Decodes
  <2>3. CASE y = 2
    <3>1. h = Octets[11][z + 1]
      BY <1>1, <1>4, <2>3
    <3>2. Block1(2, z, h)
      BY <1>2, <3>1 DEF Octets, LoadOctet, StoreOctet, Operands, Unimplemented, Block1, N8, Architecture!Name8
    <3> QED
      BY <1>4, <2>3, <3>2 DEF Decodes
  <2>4. CASE y = 3
    <3>1. h = Octets[12][z + 1]
      BY <1>1, <1>4, <2>4
    <3>2. Block1(3, z, h)
      BY <1>2, <3>1 DEF Octets, LoadOctet, StoreOctet, Operands, Unimplemented, Block1, N8, Architecture!Name8
    <3> QED
      BY <1>4, <2>4, <3>2 DEF Decodes
  <2>5. CASE y = 4
    <3>1. h = Octets[13][z + 1]
      BY <1>1, <1>4, <2>5
    <3>2. Block1(4, z, h)
      BY <1>2, <3>1 DEF Octets, LoadOctet, StoreOctet, Operands, Unimplemented, Block1, N8, Architecture!Name8
    <3> QED
      BY <1>4, <2>5, <3>2 DEF Decodes
  <2>6. CASE y = 5
    <3>1. h = Octets[14][z + 1]
      BY <1>1, <1>4, <2>6
    <3>2. Block1(5, z, h)
      BY <1>2, <3>1 DEF Octets, LoadOctet, StoreOctet, Operands, Unimplemented, Block1, N8, Architecture!Name8
    <3> QED
      BY <1>4, <2>6, <3>2 DEF Decodes
  <2>7. CASE y = 6
    <3>1. h = Octets[15][z + 1]
      BY <1>1, <1>4, <2>7
    <3>2. Block1(6, z, h)
      BY <1>2, <3>1 DEF Octets, LoadOctet, StoreOctet, Operands, Unimplemented, Block1, N8, Architecture!Name8
    <3> QED
      BY <1>4, <2>7, <3>2 DEF Decodes
  <2>8. CASE y = 7
    <3>1. h = Octets[16][z + 1]
      BY <1>1, <1>4, <2>8
    <3>2. Block1(7, z, h)
      BY <1>2, <3>1 DEF Octets, LoadOctet, StoreOctet, Operands, Unimplemented, Block1, N8, Architecture!Name8
    <3> QED
      BY <1>4, <2>8, <3>2 DEF Decodes
  <2> QED
    BY <2>1, <2>2, <2>3, <2>4, <2>5, <2>6, <2>7, <2>8
<1>5. CASE x = 2
  <2>1. CASE y = 0
    <3>1. h = Octets[17][z + 1]
      BY <1>1, <1>5, <2>1
    <3>2. Block2(0, z, h)
      BY <1>2, <3>1 DEF Octets, MathOctet, Operands, Block2, N8, OperationOf, Architecture!Name8
    <3> QED
      BY <1>5, <2>1, <3>2 DEF Decodes
  <2>2. CASE y = 1
    <3>1. h = Octets[18][z + 1]
      BY <1>1, <1>5, <2>2
    <3>2. Block2(1, z, h)
      BY <1>2, <3>1 DEF Octets, MathOctet, Operands, Block2, N8, OperationOf, Architecture!Name8
    <3> QED
      BY <1>5, <2>2, <3>2 DEF Decodes
  <2>3. CASE y = 2
    <3>1. h = Octets[19][z + 1]
      BY <1>1, <1>5, <2>3
    <3>2. Block2(2, z, h)
      BY <1>2, <3>1 DEF Octets, MathOctet, Operands, Block2, N8, OperationOf, Architecture!Name8
    <3> QED
      BY <1>5, <2>3, <3>2 DEF Decodes
  <2>4. CASE y = 3
    <3>1. h = Octets[20][z + 1]
      BY <1>1, <1>5, <2>4
    <3>2. Block2(3, z, h)
      BY <1>2, <3>1 DEF Octets, MathOctet, Operands, Block2, N8, OperationOf, Architecture!Name8
    <3> QED
      BY <1>5, <2>4, <3>2 DEF Decodes
  <2>5. CASE y = 4
    <3>1. h = Octets[21][z + 1]
      BY <1>1, <1>5, <2>5
    <3>2. Block2(4, z, h)
      BY <1>2, <3>1 DEF Octets, MathOctet, Operands, Block2, N8, OperationOf, Architecture!Name8
    <3> QED
      BY <1>5, <2>5, <3>2 DEF Decodes
  <2>6. CASE y = 5
    <3>1. h = Octets[22][z + 1]
      BY <1>1, <1>5, <2>6
    <3>2. Block2(5, z, h)
      BY <1>2, <3>1 DEF Octets, MathOctet, Operands, Block2, N8, OperationOf, Architecture!Name8
    <3> QED
      BY <1>5, <2>6, <3>2 DEF Decodes
  <2>7. CASE y = 6
    <3>1. h = Octets[23][z + 1]
      BY <1>1, <1>5, <2>7
    <3>2. Block2(6, z, h)
      BY <1>2, <3>1 DEF Octets, MathOctet, Operands, Block2, N8, OperationOf, Architecture!Name8
    <3> QED
      BY <1>5, <2>7, <3>2 DEF Decodes
  <2>8. CASE y = 7
    <3>1. h = Octets[24][z + 1]
      BY <1>1, <1>5, <2>8
    <3>2. Block2(7, z, h)
      BY <1>2, <3>1 DEF Octets, MathOctet, Operands, Block2, N8, OperationOf, Architecture!Name8
    <3> QED
      BY <1>5, <2>8, <3>2 DEF Decodes
  <2> QED
    BY <2>1, <2>2, <2>3, <2>4, <2>5, <2>6, <2>7, <2>8
<1>6. CASE x = 3
  <2>1. CASE y = 0
    <3>1. h = Octets[25][z + 1]
      BY <1>1, <1>6, <2>1
    <3>2. Block3(0, z, h)
      BY <1>2, <3>1 DEF Octets, Unimplemented, Illegal, Block3, CondOf, StackedOf, OperationOf, Half, Even
    <3> QED
      BY <1>6, <2>1, <3>2 DEF Decodes
  <2>2. CASE y = 1
    <3>1. h = Octets[26][z + 1]
      BY <1>1, <1>6, <2>2
    <3>2. Block3(1, z, h)
      BY <1>2, <3>1 DEF Octets, Unimplemented, Illegal, Block3, CondOf, StackedOf, OperationOf, Half, Even
    <3> QED
      BY <1>6, <2>2, <3>2 DEF Decodes
  <2>3. CASE y = 2
    <3>1. h = Octets[27][z + 1]
      BY <1>1, <1>6, <2>3
    <3>2. Block3(2, z, h)
      BY <1>2, <3>1 DEF Octets, Unimplemented, Illegal, Block3, CondOf, StackedOf, OperationOf, Half, Even
    <3> QED
      BY <1>6, <2>3, <3>2 DEF Decodes
  <2>4. CASE y = 3
    <3>1. h = Octets[28][z + 1]
      BY <1>1, <1>6, <2>4
    <3>2. Block3(3, z, h)
      BY <1>2, <3>1 DEF Octets, Unimplemented, Illegal, Block3, CondOf, StackedOf, OperationOf, Half, Even
    <3> QED
      BY <1>6, <2>4, <3>2 DEF Decodes
  <2>5. CASE y = 4
    <3>1. h = Octets[29][z + 1]
      BY <1>1, <1>6, <2>5
    <3>2. Block3(4, z, h)
      BY <1>2, <3>1 DEF Octets, Unimplemented, Illegal, Block3, CondOf, StackedOf, OperationOf, Half, Even
    <3> QED
      BY <1>6, <2>5, <3>2 DEF Decodes
  <2>6. CASE y = 5
    <3>1. h = Octets[30][z + 1]
      BY <1>1, <1>6, <2>6
    <3>2. Block3(5, z, h)
      BY <1>2, <3>1 DEF Octets, Unimplemented, Illegal, Block3, CondOf, StackedOf, OperationOf, Half, Even
    <3> QED
      BY <1>6, <2>6, <3>2 DEF Decodes
  <2>7. CASE y = 6
    <3>1. h = Octets[31][z + 1]
      BY <1>1, <1>6, <2>7
    <3>2. Block3(6, z, h)
      BY <1>2, <3>1 DEF Octets, Unimplemented, Illegal, Block3, CondOf, StackedOf, OperationOf, Half, Even
    <3> QED
      BY <1>6, <2>7, <3>2 DEF Decodes
  <2>8. CASE y = 7
    <3>1. h = Octets[32][z + 1]
      BY <1>1, <1>6, <2>8
    <3>2. Block3(7, z, h)
      BY <1>2, <3>1 DEF Octets, Unimplemented, Illegal, Block3, CondOf, StackedOf, OperationOf, Half, Even
    <3> QED
      BY <1>6, <2>8, <3>2 DEF Decodes
  <2> QED
    BY <2>1, <2>2, <2>3, <2>4, <2>5, <2>6, <2>7, <2>8
<1> QED
  BY <1>3, <1>4, <1>5, <1>6
=============================================================================
