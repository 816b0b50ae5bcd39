-------------------------- MODULE CartridgeLoading --------------------------
(***************************************************************************)
(* Cartridge::Cartridge: reading a ROM file and deciding whether it is a   *)
(* cartridge, statement by statement, and what the header accessors read   *)
(* of the result.                                                          *)
(*                                                                         *)
(* The file belongs to somebody else.  While it is being loaded it may be  *)
(* rewritten in place, also with another size, between any two statements, *)
(* and reading it may fail: the code measures the file first and reads it  *)
(* later.                                                                  *)
(***************************************************************************)
EXTENDS Bytes

CONSTANTS
  Files,   \* what a file may contain: its size, and its bytes by address
  Fill,    \* the byte at the addresses that the bytes of a file leave out
  Absent   \* a path that cannot be opened

ASSUME FilesAssumption ==
  /\ \A f \in Files : /\ f.size \in Nat
                      /\ f.bytes \in [DOMAIN f.bytes -> Byte]
  /\ Fill \in Byte
  /\ Absent \notin Files

VARIABLES
  file,         \* what the path names
  stage,        \* the statement of LoadRomData() that comes next, or its end
  diskRomSize,  \* what tellg() has said
  romData,      \* the vector: its size and what was read into it
  error,        \* the exception that was thrown
  disturbed     \* the file was rewritten meanwhile, or could not be read

vars == <<file, stage, diskRomSize, romData, error, disturbed>>

ByteAt(data, a) == IF a \in DOMAIN data.bytes THEN data.bytes[a] ELSE Fill

HeaderSize   == \h150      \* the smallest file that has a header
MaxRomSize   == \h800000
MaxSizeShift == \h08
SizeCode     == \h148      \* where the header says how large the ROM is

NoData == [size |-> 0, bytes |-> <<>>]

Init ==
  /\ file \in Files \cup {Absent}
  /\ stage = "open"
  /\ diskRomSize = 0
  /\ romData = NoData
  /\ error = "none"
  /\ disturbed = FALSE

-----------------------------------------------------------------------------
(* What the accessors make of the data *)

\* 8000 shifted left by k.
Shifted(k) == \h8000 * <<1, 2, 4, 8, 16, 32, 64, 128, 256>>[k + 1]

RomSize(data) == Shifted(ByteAt(data, SizeCode))

\* The addresses read by HasValidNintendoLogo(), Title(), CartridgeType()
\* and RomSize(), and by ValidHeaderChecksum().
LogoBytes     == \h104 .. (\h104 + 4 * 12 - 1)
TitleBytes    == \h134 .. (\h134 + 15)
TypeCode      == \h147
ChecksumBytes == \h134 .. \h14C
Checksum      == \h14D

HeaderReads ==
  LogoBytes \cup TitleBytes \cup {TypeCode, SizeCode} \cup ChecksumBytes \cup {Checksum}

\* What ReadFromAddress() reads of the vector: its guard is the address's.
BusReads == 0 .. \h7FFF

\* Faulty: the sum goes on to the checksum itself.
ValidHeaderChecksumLong(data) ==
  LET calculated[a \in ChecksumBytes \cup {Checksum, Checksum + 1}] ==
        IF a = \h134 THEN 0 ELSE (calculated[a - 1] - ByteAt(data, a - 1) - 1) % 256
  IN  calculated[Checksum + 1] = ByteAt(data, Checksum)

\* calculated[a] is the sum before the loop comes to a.
ValidHeaderChecksum(data) ==
  LET calculated[a \in ChecksumBytes \cup {Checksum}] ==
        IF a = \h134 THEN 0 ELSE (calculated[a - 1] - ByteAt(data, a - 1) - 1) % 256
  IN  calculated[Checksum] = ByteAt(data, Checksum)

-----------------------------------------------------------------------------
(* LoadRomData() *)

At(s) == stage = s

GoTo(s) == stage' = s /\ UNCHANGED error

Throw(e) == stage' = "failed" /\ error' = e

Open ==
  /\ At("open")
  /\ IF file = Absent THEN Throw("FailedToOpen") ELSE GoTo("measure")
  /\ UNCHANGED <<file, diskRomSize, romData, disturbed>>

\* Faulty: only a file that is too large is turned away.
MeasureUpperBound ==
  /\ At("measure")
  /\ diskRomSize' = file.size /\ UNCHANGED disturbed
  /\ IF diskRomSize' > MaxRomSize THEN Throw("InvalidRom") ELSE GoTo("read")
  /\ UNCHANGED <<file, romData>>

\* tellg() returns -1 when it fails.
Measure ==
  /\ At("measure")
  /\ \/ diskRomSize' = file.size /\ UNCHANGED disturbed
     \/ diskRomSize' = -1 /\ disturbed' = TRUE
  /\ IF diskRomSize' < HeaderSize \/ diskRomSize' > MaxRomSize
     THEN Throw("InvalidRom") ELSE GoTo("read")
  /\ UNCHANGED <<file, romData>>

\* resize(), seekg() and read(): all bytes are there, or fewer are.
Read ==
  /\ At("read")
  /\ romData' = [size |-> diskRomSize, bytes |-> file.bytes]
  /\ \/ file.size >= diskRomSize /\ GoTo("shift") /\ UNCHANGED disturbed
     \/ Throw("FailedToRead") /\ disturbed' = TRUE
  /\ UNCHANGED <<file, diskRomSize>>

CheckShift ==
  /\ At("shift")
  /\ IF ByteAt(romData, SizeCode) > MaxSizeShift THEN Throw("InvalidRom") ELSE GoTo("compare")
  /\ UNCHANGED <<file, diskRomSize, romData, disturbed>>

\* Faulty: a file larger than its header says is accepted.
CompareSizesAtMost ==
  /\ At("compare")
  /\ IF RomSize(romData) > romData.size THEN Throw("MismatchedRomSize") ELSE GoTo("loaded")
  /\ UNCHANGED <<file, diskRomSize, romData, disturbed>>

CompareSizes ==
  /\ At("compare")
  /\ IF RomSize(romData) # romData.size THEN Throw("MismatchedRomSize") ELSE GoTo("loaded")
  /\ UNCHANGED <<file, diskRomSize, romData, disturbed>>

LoadRomData == Open \/ Measure \/ Read \/ CheckShift \/ CompareSizes

\* Somebody rewrites the open file.
Rewrite ==
  /\ stage \in {"measure", "read"}
  /\ file' \in Files
  /\ disturbed' = TRUE
  /\ UNCHANGED <<stage, diskRomSize, romData, error>>

Finished == stage \in {"loaded", "failed"} /\ UNCHANGED vars

Next == LoadRomData \/ Rewrite \/ Finished

\* Loading goes on; nobody has to rewrite the file.
Spec == Init /\ [][Next]_vars /\ WF_vars(LoadRomData)

-----------------------------------------------------------------------------
(* No access leaves the vector.  The size code is read at 148 once the    *)
(* data is there; a cartridge that was constructed is read at all         *)
(* addresses up to 7FFF, and at those of its header, without a check      *)
(* (cartridge.cpp:62, 86-122, 136-144): also when the file was rewritten  *)
(* between its measurement and its reading.                                *)
AccessesInBounds ==
  /\ stage \in {"shift", "compare"} => SizeCode < romData.size
  /\ stage = "loaded" => \A a \in BusReads \cup HeaderReads : a < romData.size

\* The sizes that a cartridge can have, in the order of their codes: 32 KiB
\* to 8 MiB (docs/03-address-bus.md:36-37).
DocumentedSizes ==
  <<32768, 65536, 131072, 262144, 524288, 1048576, 2097152, 4194304, 8388608>>

IsRom(f) ==
  \E k \in 0 .. 8 : f.size = DocumentedSizes[k + 1] /\ ByteAt(f, SizeCode) = k

(* What is loaded has one of the sizes of a cartridge, and its own header *)
(* says which, even if the file was rewritten while it was loaded; and a  *)
(* file that was left alone is loaded if and only if it is such a file:   *)
(* the tests of its size, of the size code and of the two against each    *)
(* other, in the code's order (cartridge.cpp:47-73), turn away no ROM and *)
(* accept nothing else.                                                    *)
VerdictIsRight ==
  /\ stage = "loaded" => IsRom(romData)
  /\ stage = "failed" /\ ~disturbed => file = Absent \/ ~IsRom(file)

\* The data with byte b at address a.
Changed(data, a, b) ==
  [data EXCEPT !.bytes = [c \in DOMAIN @ \cup {a} |-> IF c = a THEN b ELSE ByteAt(data, c)]]

\* The checksum, the bytes it sums up, and one byte on either side.
AroundChecksum == (\h134 - 1) .. (\h14D + 1)

(* The checksum of a loaded header tells when one of the bytes it sums up, *)
(* or the checksum itself, has changed, and nothing else                   *)
(* (cartridge.cpp:113-122): the loop takes no byte too few or too many at  *)
(* either end.  Had it gone on to the checksum, a change of that byte by   *)
(* 128 would change both sides alike.                                      *)
ChecksumSeesOneChange ==
  stage = "loaded" /\ ValidHeaderChecksum(romData) =>
    \A a \in AroundChecksum : \A b \in Byte \ {ByteAt(romData, a)} :
      ValidHeaderChecksum(Changed(romData, a, b)) <=> a \notin ChecksumBytes \cup {Checksum}
=============================================================================
