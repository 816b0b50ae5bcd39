----------------------- MODULE CartridgeLoadingProofs -----------------------
(***************************************************************************)
(* For every set of files, and whatever is written to the file while it is *)
(* loaded: a cartridge that was constructed is read inside its data, has   *)
(* the size its header says, and no ROM is turned away.                    *)
(*                                                                         *)
(* The invariant says what is known before each statement of LoadRomData() *)
(* and, as long as nobody disturbs the loading, that it is known of the    *)
(* file as well.                                                           *)
(***************************************************************************)
EXTENDS CartridgeLoading, NaturalsInduction, WellFoundedInduction, TLAPS

RomSized(n) == n \in Nat /\ n >= \h8000 /\ n <= \h800000

Stages == {"open", "measure", "read", "shift", "compare", "loaded", "failed"}

Opened    == {"measure", "read", "shift", "compare", "loaded"}
Measured  == {"read", "shift", "compare", "loaded"}
Complete  == {"shift", "compare", "loaded"}
ShiftOK   == {"compare", "loaded"}

Known ==
  /\ stage \in Opened => file \in Files
  /\ stage \in Measured => diskRomSize \in Nat /\ HeaderSize <= diskRomSize /\ diskRomSize <= MaxRomSize
  /\ stage \in Complete =>
       romData.size = diskRomSize /\ ByteAt(romData, SizeCode) \in Byte
  /\ stage \in ShiftOK => ByteAt(romData, SizeCode) <= MaxSizeShift
  /\ stage = "loaded" => RomSize(romData) = romData.size

\* What an undisturbed loading knows of the file.
SameAsFile ==
  /\ stage \in Measured => diskRomSize = file.size
  /\ stage \in Complete => ByteAt(romData, SizeCode) = ByteAt(file, SizeCode)
  /\ stage = "failed" => file = Absent \/ ~IsRom(file)

CInv ==
  /\ stage \in Stages
  /\ file \in Files \cup {Absent}
  /\ Known
  /\ ~disturbed => SameAsFile

USE DEF SizeCode, MaxSizeShift, HeaderSize, Stages, Opened, Measured, Complete, ShiftOK
-----------------------------------------------------------------------------
\* A constant of its own: spelled out it overwhelms the provers.
LEMMA LargestRom == MaxRomSize = \h800000 /\ MaxRomSize \in Nat
  BY DEF MaxRomSize

LEMMA ByteInFile ==
  ASSUME NEW f \in Files, NEW a
  PROVE  ByteAt(f, a) \in Byte /\ f.size \in Nat
  BY FilesAssumption DEF FilesAssumption, ByteAt

\* The size computed from a code is the documented one.
LEMMA ShiftedIsDocumented ==
  ASSUME NEW k \in 0 .. 8
  PROVE  Shifted(k) = DocumentedSizes[k + 1] /\ RomSized(Shifted(k))
<1>1. /\ Shifted(0) = 32768 /\ Shifted(1) = 65536 /\ Shifted(2) = 131072
      /\ Shifted(3) = 262144 /\ Shifted(4) = 524288 /\ Shifted(5) = 1048576
      /\ Shifted(6) = 2097152 /\ Shifted(7) = 4194304 /\ Shifted(8) = 8388608
  BY DEF Shifted
<1>2. /\ DocumentedSizes[1] = 32768 /\ DocumentedSizes[2] = 65536 /\ DocumentedSizes[3] = 131072
      /\ DocumentedSizes[4] = 262144 /\ DocumentedSizes[5] = 524288 /\ DocumentedSizes[6] = 1048576
      /\ DocumentedSizes[7] = 2097152 /\ DocumentedSizes[8] = 4194304 /\ DocumentedSizes[9] = 8388608
  BY DEF DocumentedSizes
<1>3. k = 0 \/ k = 1 \/ k = 2 \/ k = 3 \/ k = 4 \/ k = 5 \/ k = 6 \/ k = 7 \/ k = 8
  OBVIOUS
<1> QED
  BY <1>1, <1>2, <1>3 DEF RomSized

LEMMA RomHasItsSize ==
  ASSUME NEW f, IsRom(f)
  PROVE  /\ ByteAt(f, SizeCode) \in 0 .. 8
         /\ f.size = RomSize(f)
         /\ RomSized(f.size)
<1>1. PICK k \in 0 .. 8 : f.size = DocumentedSizes[k + 1] /\ ByteAt(f, SizeCode) = k
  BY DEF IsRom
<1>2. Shifted(k) = DocumentedSizes[k + 1] /\ RomSized(Shifted(k))
  BY ShiftedIsDocumented
<1>3. RomSize(f) = Shifted(k)
  BY <1>1 DEF RomSize
<1> QED
  BY <1>1, <1>2, <1>3

LEMMA SizedIsRom ==
  ASSUME NEW f, ByteAt(f, SizeCode) \in 0 .. 8, f.size = RomSize(f)
  PROVE  IsRom(f)
<1> DEFINE k == ByteAt(f, SizeCode)
<1>1. k \in 0 .. 8 /\ f.size = Shifted(k)
  BY DEF RomSize
<1>2. Shifted(k) = DocumentedSizes[k + 1]
  BY <1>1, ShiftedIsDocumented
<1> QED
  BY <1>1, <1>2 DEF IsRom

-----------------------------------------------------------------------------
LEMMA OpenInv == CInv /\ Open => CInv'
<1> SUFFICES ASSUME CInv, Open PROVE CInv'
  OBVIOUS
<1>1. CASE file = Absent
  BY <1>1 DEF CInv, Open, At, GoTo, Throw, Known, SameAsFile
<1>2. CASE file # Absent
  BY <1>2 DEF CInv, Open, At, GoTo, Known, SameAsFile
<1> QED
  BY <1>1, <1>2

LEMMA MeasureInv == CInv /\ Measure => CInv'
<1> SUFFICES ASSUME CInv, Measure PROVE CInv'
  OBVIOUS
<1>1. file \in Files /\ file.size \in Nat /\ file' = file /\ romData' = romData
  BY ByteInFile DEF CInv, Known, Measure, At
<1>2. diskRomSize' \in Int /\ (~disturbed' => ~disturbed /\ diskRomSize' = file.size)
  BY <1>1 DEF Measure
<1>3. CASE diskRomSize' < HeaderSize \/ diskRomSize' > MaxRomSize
  <2>1. stage' = "failed"
    BY <1>3 DEF Measure, Throw
  <2>2. ~disturbed' => ~IsRom(file)
    BY <1>1, <1>2, <1>3, RomHasItsSize, LargestRom DEF RomSized
  <2> QED
    BY <1>1, <2>1, <2>2 DEF CInv, Known, SameAsFile, IsRom, ByteAt
<1>4. CASE ~(diskRomSize' < HeaderSize \/ diskRomSize' > MaxRomSize)
  BY <1>1, <1>2, <1>4, LargestRom DEF CInv, Measure, GoTo, Known, SameAsFile
<1> QED
  BY <1>3, <1>4

LEMMA ReadInv == CInv /\ Read => CInv'
<1> SUFFICES ASSUME CInv, Read PROVE CInv'
  OBVIOUS
<1>1. /\ file \in Files /\ file' = file /\ diskRomSize' = diskRomSize
      /\ diskRomSize \in Nat /\ HeaderSize <= diskRomSize /\ diskRomSize <= MaxRomSize
      /\ romData' = [size |-> diskRomSize, bytes |-> file.bytes]
  BY DEF CInv, Known, Read, At
<1>2. romData'.size = diskRomSize /\ ByteAt(romData', SizeCode) = ByteAt(file, SizeCode)
  BY <1>1 DEF ByteAt
<1>3. CASE GoTo("shift") /\ UNCHANGED disturbed
  BY <1>1, <1>2, <1>3, ByteInFile DEF CInv, Known, SameAsFile, Read, At, GoTo
<1>4. CASE Throw("FailedToRead") /\ disturbed' = TRUE
  BY <1>1, <1>4 DEF CInv, Known, Throw
<1> QED
  BY <1>3, <1>4 DEF Read, GoTo, Throw

LEMMA CheckShiftInv == CInv /\ CheckShift => CInv'
<1> SUFFICES ASSUME CInv, CheckShift PROVE CInv'
  OBVIOUS
<1>1. /\ file \in Files /\ UNCHANGED <<file, diskRomSize, romData, disturbed>>
      /\ stage = "shift" /\ ByteAt(romData, SizeCode) \in Byte
  BY DEF CInv, Known, CheckShift, At
<1>2. CASE ByteAt(romData, SizeCode) > MaxSizeShift
  <2>1. stage' = "failed"
    BY <1>2 DEF CheckShift, Throw
  <2>2. ~disturbed => ~IsRom(file)
    BY <1>1, <1>2, RomHasItsSize DEF CInv, SameAsFile
  <2> QED
    BY <1>1, <2>1, <2>2 DEF CInv, Known, SameAsFile, IsRom, ByteAt
<1>3. CASE ~(ByteAt(romData, SizeCode) > MaxSizeShift)
  BY <1>1, <1>3 DEF CInv, Known, SameAsFile, CheckShift, GoTo, ByteAt, Byte
<1> QED
  BY <1>2, <1>3

LEMMA CompareSizesInv == CInv /\ CompareSizes => CInv'
<1> SUFFICES ASSUME CInv, CompareSizes PROVE CInv'
  OBVIOUS
<1>1. /\ file \in Files /\ UNCHANGED <<file, diskRomSize, romData, disturbed>>
      /\ stage = "compare" /\ romData.size = diskRomSize
  BY DEF CInv, Known, CompareSizes, At
<1>2. CASE RomSize(romData) # romData.size
  <2>1. stage' = "failed"
    BY <1>2 DEF CompareSizes, Throw
  <2>2. ~disturbed => ~IsRom(file)
    BY <1>1, <1>2, RomHasItsSize DEF CInv, SameAsFile, RomSize
  <2> QED
    BY <1>1, <2>1, <2>2 DEF CInv, Known, SameAsFile, IsRom, ByteAt
<1>3. CASE RomSize(romData) = romData.size
  BY <1>1, <1>3 DEF CInv, Known, SameAsFile, CompareSizes, GoTo, ByteAt, RomSize
<1> QED
  BY <1>2, <1>3

LEMMA RewriteInv == CInv /\ Rewrite => CInv'
  BY DEF CInv, Known, Rewrite, RomSize, ByteAt

(* The invariant holds of every loading. *)
THEOREM LoadingInvariance == Spec => []CInv
<1>1. Init => CInv
  BY DEF Init, CInv, Known, SameAsFile
<1>2. CInv /\ [Next]_vars => CInv'
  <2>1. ASSUME CInv, UNCHANGED vars PROVE CInv'
    BY <2>1 DEF vars, CInv, Known, SameAsFile, IsRom, RomSize, ByteAt
  <2> QED
    BY <2>1, OpenInv, MeasureInv, ReadInv, CheckShiftInv, CompareSizesInv, RewriteInv
       DEF Next, LoadRomData, Finished
<1> QED
  BY <1>1, <1>2, PTL DEF Spec

(* Whatever is written to the file between its measurement and its        *)
(* reading: the size code, the header and the 8000 bytes that the bus     *)
(* reaches are inside the vector (cartridge.cpp:62, 86-122, 136-144).     *)
THEOREM InBounds == Spec => []AccessesInBounds
<1>1. CInv => AccessesInBounds
  <2> SUFFICES ASSUME CInv PROVE AccessesInBounds
    OBVIOUS
  <2>1. stage \in {"shift", "compare"} => SizeCode < romData.size
    BY DEF CInv, Known
  <2>2. ASSUME stage = "loaded", NEW a \in BusReads \cup HeaderReads
        PROVE  a < romData.size
    <3>1. ByteAt(romData, SizeCode) \in 0 .. 8 /\ romData.size = Shifted(ByteAt(romData, SizeCode))
      BY <2>2 DEF CInv, Known, RomSize, Byte
    <3>2. RomSized(romData.size)
      BY <3>1, ShiftedIsDocumented
    <3>3. a \in Nat /\ a < \h8000
      BY <2>2 DEF BusReads, HeaderReads, LogoBytes, TitleBytes, TypeCode, ChecksumBytes, Checksum
    <3> QED
      BY <3>2, <3>3 DEF RomSized
  <2> QED
    BY <2>1, <2>2 DEF AccessesInBounds
<1> QED
  BY <1>1, LoadingInvariance, PTL

(* Loading accepts a file that nobody disturbs if and only if it is a ROM *)
(* of one of the documented sizes, and never keeps anything but a ROM     *)
(* (cartridge.cpp:47-73).                                                 *)
THEOREM RightVerdict == Spec => []VerdictIsRight
<1>1. CInv => VerdictIsRight
  <2> SUFFICES ASSUME CInv PROVE VerdictIsRight
    OBVIOUS
  <2>1. stage = "loaded" => IsRom(romData)
    BY SizedIsRom DEF CInv, Known, Byte
  <2> QED
    BY <2>1 DEF CInv, SameAsFile, VerdictIsRight
<1> QED
  BY <1>1, LoadingInvariance, PTL

-----------------------------------------------------------------------------
(***************************************************************************)
(* The header checksum.  What a recursive function computes takes          *)
(* induction, here in the form of a set that holds 0 and is closed.        *)
(***************************************************************************)
LEMMA SetInduction ==
  ASSUME NEW S, 0 \in S, \A n \in Nat : n \in S => n + 1 \in S
  PROVE  Nat \subseteq S
<1> SUFFICES ASSUME Nat \ S # {}
             PROVE  FALSE
  OBVIOUS
<1>1. PICK x \in Nat \ S : \A y \in Nat \ S : <<y, x>> \notin OpToRel(<, Nat)
  <2>1. IsWellFoundedOn(OpToRel(<, Nat), Nat)
    BY NatLessThanWellFounded
  <2> QED
    BY <2>1, WFMin
<1>2. \A y \in Nat \ S : ~(y < x)
  BY <1>1 DEF OpToRel
<1>3. x - 1 \in Nat /\ x - 1 < x
  OBVIOUS
<1> QED
  BY <1>2, <1>3

\* The loop of ValidHeaderChecksum over the addresses D: its partial sums.
Sums(f, data, D) ==
  f = [a \in D |-> IF a = \h134 THEN 0 ELSE (f[a - 1] - ByteAt(data, a - 1) - 1) % 256]

LEMMA SumsExist ==
  ASSUME NEW data
  PROVE  \E f : Sums(f, data, \h134 .. \h14D)
<1> DEFINE S == {k \in Nat : \E f : Sums(f, data, \h134 .. \h134 + k)}
<1>1. 0 \in S
  <2> DEFINE f == [a \in \h134 .. \h134 |-> 0]
  <2>1. Sums(f, data, \h134 .. \h134)
    BY DEF Sums
  <2> QED
    BY <2>1
<1>2. ASSUME NEW k \in Nat, k \in S
      PROVE  k + 1 \in S
  <2> DEFINE n == \h134 + k
  <2>1. PICK f : Sums(f, data, \h134 .. n)
    BY <1>2
  <2> DEFINE g == [a \in \h134 .. n + 1 |-> IF a = n + 1 THEN (f[n] - ByteAt(data, n) - 1) % 256 ELSE f[a]]
  <2>2. ASSUME NEW a \in \h134 .. n + 1
        PROVE  g[a] = IF a = \h134 THEN 0 ELSE (g[a - 1] - ByteAt(data, a - 1) - 1) % 256
    <3>1. CASE a = n + 1
      BY <3>1
    <3>2. CASE a # n + 1
      <4>1. a \in \h134 .. n /\ (a # \h134 => a - 1 \in \h134 .. n)
        BY <3>2
      <4>2. f[a] = IF a = \h134 THEN 0 ELSE (f[a - 1] - ByteAt(data, a - 1) - 1) % 256
        BY <2>1, <4>1 DEF Sums
      <4>3. g[a] = f[a] /\ (a # \h134 => g[a - 1] = f[a - 1])
        BY <3>2, <4>1
      <4> QED
        BY <4>2, <4>3
    <3> QED
      BY <3>1, <3>2
  <2>3. g = [a \in \h134 .. n + 1 |-> g[a]]
    OBVIOUS
  <2> HIDE DEF g
  <2>4. Sums(g, data, \h134 .. n + 1)
    <3> HIDE DEF n
    <3>1. [a \in \h134 .. n + 1 |-> g[a]]
            = [a \in \h134 .. n + 1 |-> IF a = \h134 THEN 0 ELSE (g[a - 1] - ByteAt(data, a - 1) - 1) % 256]
      BY <2>2
    <3> QED
      BY <2>3, <3>1 DEF Sums
  <2> QED
    BY <2>4
<1> HIDE DEF S
<1>3. 25 \in S
  BY <1>1, <1>2, SetInduction
<1> QED
  BY <1>3 DEF S

\* What the code compares with the header's byte.
LEMMA ChecksumIsSum ==
  ASSUME NEW data
  PROVE  \E f : Sums(f, data, \h134 .. \h14D) /\ (ValidHeaderChecksum(data) <=> f[Checksum] = ByteAt(data, Checksum))
<1> DEFINE c == CHOOSE f : Sums(f, data, ChecksumBytes \cup {Checksum})
<1>1. ValidHeaderChecksum(data) <=> c[Checksum] = ByteAt(data, Checksum)
  BY DEF ValidHeaderChecksum, Sums
<1>2. ChecksumBytes \cup {Checksum} = \h134 .. \h14D
  BY DEF ChecksumBytes, Checksum
<1>3. \E f : Sums(f, data, ChecksumBytes \cup {Checksum})
  BY <1>2, SumsExist
<1>4. Sums(c, data, ChecksumBytes \cup {Checksum})
  BY <1>3
<1> HIDE DEF c
<1> QED
  BY <1>1, <1>2, <1>4

\* Subtracting modulo 256 keeps different sums apart, and different bytes
\* drive equal sums apart.
LEMMA SumsApart ==
  ASSUME NEW x \in Byte, NEW y \in Byte, NEW v \in Byte, NEW w \in Byte
  PROVE  /\ x # y => (x - v - 1) % 256 # (y - v - 1) % 256
         /\ v # w => (x - v - 1) % 256 # (x - w - 1) % 256
<1>1. \A p \in -256 .. 254 : p % 256 = IF p >= 0 THEN p ELSE p + 256
  OBVIOUS
<1>2. {x - v - 1, y - v - 1, x - w - 1} \subseteq -256 .. 254
  BY DEF Byte
<1> QED
  BY <1>1, <1>2 DEF Byte

LEMMA OneChangeShows ==
  ASSUME NEW data, \A c : ByteAt(data, c) \in Byte, ValidHeaderChecksum(data),
         NEW a \in ChecksumBytes, NEW b \in Byte, b # ByteAt(data, a)
  PROVE  ~ ValidHeaderChecksum(Changed(data, a, b))
<1> DEFINE other == Changed(data, a, b)
<1>1. a \in \h134 .. \h14C /\ Checksum = \h14D
  BY DEF ChecksumBytes, Checksum
<1>2. \A c : ByteAt(other, c) = IF c = a THEN b ELSE ByteAt(data, c)
  BY DEF Changed, ByteAt
<1> HIDE DEF other
<1>3. PICK f : Sums(f, data, \h134 .. \h14D) /\ f[Checksum] = ByteAt(data, Checksum)
  BY ChecksumIsSum
<1>4. PICK g : Sums(g, other, \h134 .. \h14D) /\ (ValidHeaderChecksum(other) <=> g[Checksum] = ByteAt(other, Checksum))
  BY ChecksumIsSum
<1> DEFINE S == {k \in Nat : \h134 + k <= \h14D =>
                   /\ f[\h134 + k] \in Byte /\ g[\h134 + k] \in Byte
                   /\ f[\h134 + k] = g[\h134 + k] <=> \h134 + k <= a}
<1>5. 0 \in S
  BY <1>1, <1>3, <1>4 DEF Sums, Byte
<1>6. ASSUME NEW k \in Nat, k \in S
      PROVE  k + 1 \in S
  <2> DEFINE n == \h134 + k
  <2> SUFFICES ASSUME n + 1 <= \h14D
               PROVE  f[n + 1] \in Byte /\ g[n + 1] \in Byte /\ (f[n + 1] = g[n + 1] <=> n + 1 <= a)
    OBVIOUS
  <2>1. n \in Nat /\ n >= \h134 /\ n + 1 \in \h134 .. \h14D /\ n + 1 # \h134 /\ n + 1 - 1 = n
    OBVIOUS
  <2>2. f[n] \in Byte /\ g[n] \in Byte /\ (f[n] = g[n] <=> n <= a)
    BY <1>6, <2>1
  <2> HIDE DEF n
  <2>3. f[n + 1] = (f[n] - ByteAt(data, n) - 1) % 256 /\ g[n + 1] = (g[n] - ByteAt(other, n) - 1) % 256
    BY <1>3, <1>4, <2>1 DEF Sums
  <2>4. ByteAt(data, n) \in Byte /\ ByteAt(other, n) \in Byte /\ (ByteAt(data, n) = ByteAt(other, n) <=> n # a)
    BY <1>2
  <2>5. f[n + 1] \in Byte /\ g[n + 1] \in Byte
    <3>1. \A x, v \in Byte : (x - v - 1) % 256 \in Byte
      BY DEF Byte
    <3> QED
      BY <2>2, <2>3, <2>4, <3>1
  <2>6. CASE n < a
    BY <1>1, <2>1, <2>2, <2>3, <2>4, <2>5, <2>6
  <2>7. CASE n = a
    BY <1>1, <2>1, <2>2, <2>3, <2>4, <2>5, <2>7, SumsApart
  <2>8. CASE n > a
    BY <1>1, <2>1, <2>2, <2>3, <2>4, <2>5, <2>8, SumsApart
  <2> QED
    BY <1>1, <2>1, <2>5, <2>6, <2>7, <2>8
<1> HIDE DEF S
<1>7. 25 \in S
  BY <1>5, <1>6, SetInduction
<1>8. f[\h14D] # g[\h14D]
  BY <1>1, <1>7 DEF S
<1>9. ByteAt(other, Checksum) = ByteAt(data, Checksum)
  BY <1>1, <1>2
<1> QED
  BY <1>1, <1>3, <1>4, <1>8, <1>9 DEF other

\* One turn of the loop.
LEMMA NextSum ==
  ASSUME NEW f, NEW data, Sums(f, data, \h134 .. \h14D), NEW n \in Nat, n >= \h134, n + 1 <= \h14D
  PROVE  f[n + 1] = (f[n] - ByteAt(data, n) - 1) % 256
<1> DEFINE m == n + 1
<1>1. m \in \h134 .. \h14D /\ m # \h134 /\ m - 1 = n
  OBVIOUS
<1> HIDE DEF m
<1>2. f[m] = (f[m - 1] - ByteAt(data, m - 1) - 1) % 256
  BY <1>1 DEF Sums
<1>3. f[m] = (f[n] - ByteAt(data, n) - 1) % 256
  BY <1>1, <1>2
<1> QED
  BY <1>3 DEF m

\* Two sums over the same bytes are the same.
LEMMA SameSum ==
  ASSUME NEW data, NEW other, \A c \in ChecksumBytes : ByteAt(other, c) = ByteAt(data, c),
         NEW f, Sums(f, data, \h134 .. \h14D), NEW g, Sums(g, other, \h134 .. \h14D)
  PROVE  f[Checksum] = g[Checksum]
<1> DEFINE S == {k \in Nat : \h134 + k <= \h14D => f[\h134 + k] = g[\h134 + k]}
<1>1. 0 \in S
  BY DEF Sums
<1>2. ASSUME NEW k \in Nat, k \in S
      PROVE  k + 1 \in S
  <2> DEFINE n == \h134 + k
  <2> SUFFICES ASSUME n + 1 <= \h14D
               PROVE  f[n + 1] = g[n + 1]
    OBVIOUS
  <2>1. n \in Nat /\ n >= \h134 /\ n \in ChecksumBytes
    BY DEF ChecksumBytes
  <2>2. f[n] = g[n]
    BY <1>2
  <2> HIDE DEF n
  <2>3. f[n + 1] = (f[n] - ByteAt(data, n) - 1) % 256 /\ g[n + 1] = (g[n] - ByteAt(other, n) - 1) % 256
    BY <2>1, NextSum
  <2> QED
    BY <2>1, <2>2, <2>3
<1> HIDE DEF S
<1>3. 25 \in S
  BY <1>1, <1>2, SetInduction
<1> QED
  BY <1>3 DEF S, Checksum

\* Of the other bytes, only the checksum itself matters.
LEMMA OtherChange ==
  ASSUME NEW data, ValidHeaderChecksum(data),
         NEW a, a \notin ChecksumBytes, NEW b, b # ByteAt(data, a)
  PROVE  ValidHeaderChecksum(Changed(data, a, b)) <=> a # Checksum
<1> DEFINE other == Changed(data, a, b)
<1>1. \A c : ByteAt(other, c) = IF c = a THEN b ELSE ByteAt(data, c)
  BY DEF Changed, ByteAt
<1> HIDE DEF other
<1>2. PICK f : Sums(f, data, \h134 .. \h14D) /\ f[Checksum] = ByteAt(data, Checksum)
  BY ChecksumIsSum
<1>3. PICK g : Sums(g, other, \h134 .. \h14D) /\ (ValidHeaderChecksum(other) <=> g[Checksum] = ByteAt(other, Checksum))
  BY ChecksumIsSum
<1>4. f[Checksum] = g[Checksum]
  BY <1>1, <1>2, <1>3, SameSum
<1>5. ValidHeaderChecksum(other) <=> ByteAt(data, Checksum) = ByteAt(other, Checksum)
  BY <1>2, <1>3, <1>4
<1> QED
  BY <1>1, <1>5 DEF other

\* Whatever happens to the file, what is read of it is bytes.
DataAreBytes == stage \in Complete => \A a : ByteAt(romData, a) \in Byte

LEMMA BytesRead == CInv /\ DataAreBytes /\ [Next]_vars => DataAreBytes'
<1> SUFFICES ASSUME CInv, DataAreBytes, [Next]_vars
             PROVE  DataAreBytes'
  OBVIOUS
<1>1. CASE Read
  <2>1. file \in Files /\ romData'.bytes = file.bytes
    BY <1>1 DEF CInv, Known, Read, At
  <2>2. \A a : ByteAt(romData', a) = ByteAt(file, a)
    BY <2>1 DEF ByteAt
  <2> QED
    BY <2>1, <2>2, ByteInFile DEF DataAreBytes, ByteAt
<1>2. CASE Open \/ Measure \/ Rewrite
  BY <1>2 DEF DataAreBytes, Open, Measure, Rewrite, GoTo, Throw
<1>3. CASE CheckShift \/ CompareSizes
  BY <1>3 DEF DataAreBytes, CheckShift, CompareSizes, GoTo, Throw, At, ByteAt
<1>4. CASE UNCHANGED vars
  BY <1>4 DEF DataAreBytes, vars, ByteAt
<1> QED
  BY <1>1, <1>2, <1>3, <1>4 DEF Next, LoadRomData, Finished

(* Of a ROM that was loaded with a valid checksum, every change of one of  *)
(* the bytes it sums up or of the checksum itself is noticed, and none of  *)
(* the bytes next to them, for every ROM and every value: the loop covers  *)
(* exactly its bytes and nothing cancels (cartridge.cpp:113).              *)
THEOREM ChecksumNotices == Spec => []ChecksumSeesOneChange
<1>1. Init => DataAreBytes
  BY DEF Init, DataAreBytes
<1>2. DataAreBytes => ChecksumSeesOneChange
  <2> SUFFICES ASSUME DataAreBytes, stage = "loaded", ValidHeaderChecksum(romData),
                      NEW a \in AroundChecksum, NEW b \in Byte, b # ByteAt(romData, a)
               PROVE  ValidHeaderChecksum(Changed(romData, a, b)) <=> a \notin ChecksumBytes \cup {Checksum}
    BY DEF ChecksumSeesOneChange
  <2>1. \A c : ByteAt(romData, c) \in Byte
    BY DEF DataAreBytes, Complete
  <2>2. CASE a \in ChecksumBytes
    BY <2>1, <2>2, OneChangeShows
  <2>3. CASE a \notin ChecksumBytes
    BY <2>3, OtherChange
  <2> QED
    BY <2>2, <2>3
<1> QED
  BY <1>1, <1>2, BytesRead, LoadingInvariance, PTL DEF Spec
=============================================================================
