--------------------------- MODULE EmulatorProofs ---------------------------
(***************************************************************************)
(* The whole program, for every set of files, every program in them and    *)
(* every interference with the file: what the loading has validated is     *)
(* what the CPU reads, and each way out of main() has its own cause.       *)
(*                                                                         *)
(* The invariant composes the CPU's (IInv, which each Step() preserves by  *)
(* the lemmas of CpuProofs) with what the loading has to establish for it: *)
(* the data is made of bytes, and is a ROM once it is loaded.              *)
(***************************************************************************)
EXTENDS Emulator, CpuProofs

\* What a cartridge answers with.
RomContents(p) == DOMAIN p \subseteq 0 .. RomEnd /\ p \in [DOMAIN p -> Byte]

\* Of the header: which size the ROM has.
SizeByte(data) == Loading!ByteAt(data, Loading!SizeCode)

\* What is known of the data before each statement of LoadRomData().
DataInv ==
  /\ stage \in {"open", "measure", "read", "shift", "compare", "loaded", "failed"}
  /\ file \in Files \cup {Absent}
  /\ stage \in {"measure", "read"} => file \in Files
  /\ RomContents(Image(romData))
  /\ stage \in {"shift", "compare", "loaded"} => SizeByte(romData) \in Byte
  /\ stage \in {"compare", "loaded"} => SizeByte(romData) <= 8
  /\ stage = "loaded" => romData.size = Loading!RomSize(romData)
  /\ stage = "failed" <=> error # "none"

\* What is known of main().
MainInv ==
  /\ phase \in {"arguments", "loading", "stepping"}
  /\ phase = "arguments" => stage = "open"
  /\ phase = "loading" => argc = 2
  /\ phase = "stepping" => argc = 2 /\ stage = "loaded" /\ rom = Image(romData)
  /\ phase # "stepping" => handler = Created(Noop) /\ rom = <<>> /\ status = "running"
  /\ outcome \in {"none", "usage", "terminated", "exit"}
  /\ outcome = "usage" => phase = "arguments" /\ argc # 2
  /\ outcome = "terminated" => phase = "loading" /\ stage = "failed"
  /\ outcome = "exit" => phase = "stepping" /\ status = "threw"

EInv == IInv /\ DataInv /\ MainInv

USE DEF Loading!SizeCode, SizeByte
-----------------------------------------------------------------------------
(* The loading *)

LEMMA FileContents ==
  ASSUME NEW f \in Files
  PROVE  /\ RomContents(Image(f))
         /\ \A a : Loading!ByteAt(f, a) \in Byte
<1>1. /\ Image(f) \in Programs
      /\ f.bytes \in [DOMAIN f.bytes -> Byte]
  BY EmulatorAssumption DEF EmulatorAssumption
<1>2. RomContents(Image(f)) /\ RomFill \in Byte
  BY <1>1, BusAssumption DEF BusAssumption, RomContents
<1>3. \A a : Loading!ByteAt(f, a) \in Byte
  BY <1>1, <1>2 DEF Loading!ByteAt
<1> QED
  BY <1>2, <1>3

LEMMA NoContents == Image(Loading!NoData) = <<>> /\ RomContents(<<>>)
<1>1. Loading!NoData.bytes = <<>>
  BY DEF Loading!NoData
<1>2. DOMAIN <<>> = {}
  OBVIOUS
<1>3. Image(Loading!NoData) = [a \in {} |-> <<>>[a]]
  BY <1>1, <1>2 DEF Image
<1>4. RomContents(<<>>)
  BY <1>2 DEF RomContents
<1>5. [a \in {} |-> <<>>[a]] = <<>>
  OBVIOUS
<1> QED
  BY <1>3, <1>4, <1>5

LEMMA OpenData == DataInv /\ Loading!Open => DataInv'
  BY DEF DataInv, Image, RomContents, Loading!Open, Loading!At, Loading!GoTo, Loading!Throw

LEMMA MeasureData == DataInv /\ Loading!Measure => DataInv'
<1> SUFFICES ASSUME DataInv, Loading!Measure PROVE DataInv'
  OBVIOUS
<1>1. /\ stage = "measure" /\ error = "none" /\ file' = file /\ romData' = romData
      /\ \/ stage' = "failed" /\ error' = "InvalidRom"
         \/ stage' = "read" /\ error' = error
  BY DEF DataInv, Loading!Measure, Loading!At, Loading!GoTo, Loading!Throw
<1> QED
  BY <1>1 DEF DataInv, Image, RomContents

LEMMA ReadData == DataInv /\ Loading!Read => DataInv'
<1> SUFFICES ASSUME DataInv, Loading!Read PROVE DataInv'
  OBVIOUS
<1>1. /\ stage = "read" /\ error = "none" /\ file \in Files /\ file' = file
      /\ romData' = [size |-> diskRomSize, bytes |-> file.bytes]
      /\ \/ stage' = "failed" /\ error' = "FailedToRead"
         \/ stage' = "shift" /\ error' = error
  BY DEF DataInv, Loading!Read, Loading!At, Loading!GoTo, Loading!Throw
<1>2. romData'.bytes = file.bytes
  BY <1>1
<1>3. Image(romData)' = Image(file) /\ SizeByte(romData)' = SizeByte(file)
  BY <1>2 DEF Image, Loading!ByteAt
<1>4. RomContents(Image(romData))' /\ SizeByte(romData)' \in Byte
  BY <1>1, <1>3, FileContents DEF RomContents
<1> QED
  BY <1>1, <1>4 DEF DataInv

LEMMA CheckShiftData == DataInv /\ Loading!CheckShift => DataInv'
<1> SUFFICES ASSUME DataInv, Loading!CheckShift PROVE DataInv'
  OBVIOUS
<1>1. /\ stage = "shift" /\ error = "none" /\ file' = file /\ romData' = romData
      /\ \/ stage' = "failed" /\ error' = "InvalidRom"
         \/ ~(SizeByte(romData) > 8) /\ stage' = "compare" /\ error' = error
  BY DEF DataInv, Loading!CheckShift, Loading!At, Loading!GoTo, Loading!Throw, Loading!MaxSizeShift
<1> QED
  BY <1>1 DEF DataInv, Image, RomContents, Loading!ByteAt, Byte

LEMMA CompareData == DataInv /\ Loading!CompareSizes => DataInv'
<1> SUFFICES ASSUME DataInv, Loading!CompareSizes PROVE DataInv'
  OBVIOUS
<1>1. /\ stage = "compare" /\ error = "none" /\ file' = file /\ romData' = romData
      /\ \/ stage' = "failed" /\ error' = "MismatchedRomSize"
         \/ romData.size = Loading!RomSize(romData) /\ stage' = "loaded" /\ error' = error
  BY DEF DataInv, Loading!CompareSizes, Loading!At, Loading!GoTo, Loading!Throw
<1> QED
  BY <1>1 DEF DataInv, Image, RomContents, Loading!RomSize, Loading!ByteAt

LEMMA LoadData == DataInv /\ Loading!LoadRomData => DataInv'
  BY OpenData, MeasureData, ReadData, CheckShiftData, CompareData DEF Loading!LoadRomData

LEMMA RewriteData == DataInv /\ Loading!Rewrite => DataInv'
  BY DEF DataInv, Image, RomContents, Loading!Rewrite, Loading!RomSize, Loading!ByteAt

\* What has passed the three tests is a ROM.
LEMMA LoadedIsRom ==
  ASSUME DataInv, stage = "loaded"
  PROVE  Loading!IsRom(romData)
<1> DEFINE k == SizeByte(romData)
<1>1. k \in 0 .. 8 /\ romData.size = Loading!Shifted(k)
  BY DEF DataInv, Byte, Loading!RomSize
<1> HIDE DEF k
<1>2. k = 0 \/ k = 1 \/ k = 2 \/ k = 3 \/ k = 4 \/ k = 5 \/ k = 6 \/ k = 7 \/ k = 8
  BY <1>1
<1>3. Loading!Shifted(k) = Loading!DocumentedSizes[k + 1]
  BY <1>2 DEF Loading!Shifted, Loading!DocumentedSizes
<1> QED
  BY <1>1, <1>3 DEF k, Loading!IsRom

-----------------------------------------------------------------------------
(* The CPU *)

LEMMA StepInv == IInv /\ Step => IInv' /\ rom' = rom
  BY StepCases, LoadStepInv, MathStepInv, ControlStepInv, StepKeepsRom DEF Step

\* Nothing of the CPU's invariant depends on the loading.
LEMMA CpuUnchanged == IInv /\ UNCHANGED vars => IInv'
  BY DEF IInv, BusTypeOK, ReportedOpcode, BusRead, CartridgeRead, RamRead, vars

LEMMA PoweredUp ==
  ASSUME RomContents(rom), ram = [a \in RamAddress |-> 0], PowerUp
  PROVE  IInv
<1>1. BusTypeOK
  BY DEF RomContents, BusTypeOK, Byte
<1> QED
  BY <1>1, PowerUpInv

-----------------------------------------------------------------------------
(* The program *)

LEMMA EInit == EmulatorInit => EInv
<1> SUFFICES ASSUME EmulatorInit PROVE EInv
  OBVIOUS
<1>1. romData = Loading!NoData /\ stage = "open" /\ error = "none" /\ file \in Files \cup {Absent}
  BY DEF EmulatorInit, Loading!Init
<1>2. Image(romData) = <<>> /\ RomContents(<<>>)
  BY <1>1, NoContents
<1>3. IInv
  BY <1>2, PoweredUp DEF EmulatorInit
<1>4. DataInv
  BY <1>1, <1>2 DEF DataInv
<1>5. MainInv
  BY <1>1, <1>2 DEF EmulatorInit, MainInv, PowerUp
<1> QED
  BY <1>3, <1>4, <1>5 DEF EInv

LEMMA DataUnchanged == DataInv /\ UNCHANGED loadVars => DataInv'
  BY DEF DataInv, loadVars, Image, RomContents, Loading!RomSize, Loading!ByteAt

LEMMA CheckArgumentsInv == EInv /\ CheckArguments => EInv'
<1> SUFFICES ASSUME EInv, CheckArguments PROVE EInv'
  OBVIOUS
<1>1. MainInv'
  BY DEF EInv, MainInv, CheckArguments, Running, End, vars, loadVars
<1> QED
  BY <1>1, CpuUnchanged, DataUnchanged DEF EInv, CheckArguments

LEMMA LoadInv == EInv /\ Load => EInv'
<1> SUFFICES ASSUME EInv, Load PROVE EInv'
  OBVIOUS
<1>1. MainInv'
  BY DEF EInv, MainInv, Load, Running, vars
<1> QED
  BY <1>1, CpuUnchanged, LoadData DEF EInv, Load

LEMMA TerminateInv == EInv /\ Terminate => EInv'
<1> SUFFICES ASSUME EInv, Terminate PROVE EInv'
  OBVIOUS
<1>1. MainInv'
  BY DEF EInv, MainInv, Terminate, Running, End, vars, loadVars
<1> QED
  BY <1>1, CpuUnchanged, DataUnchanged DEF EInv, Terminate

LEMMA ConstructInv == EInv /\ Construct => EInv'
<1> SUFFICES ASSUME EInv, Construct PROVE EInv'
  OBVIOUS
<1>1. /\ rom' = Image(romData) /\ phase' = "stepping" /\ status = "running" /\ stage = "loaded"
      /\ UNCHANGED <<ram, reg, ime, ir, handler, status, loadVars, argc, outcome>>
  BY DEF EInv, MainInv, Construct, Running
<1>2. BusTypeOK'
  BY <1>1 DEF EInv, IInv, DataInv, BusTypeOK, RomContents
<1>3. IInv'
  BY <1>1, <1>2 DEF EInv, IInv, ReportedOpcode
<1>4. MainInv'
  BY <1>1 DEF EInv, MainInv, Construct, Running, Image, loadVars
<1> QED
  BY <1>1, <1>3, <1>4, DataUnchanged DEF EInv

LEMMA StepCpuInv == EInv /\ StepCpu => EInv'
<1> SUFFICES ASSUME EInv, StepCpu PROVE EInv'
  OBVIOUS
<1>1. IInv' /\ rom' = rom
  BY StepInv DEF EInv, StepCpu
<1>2. MainInv'
  BY <1>1 DEF EInv, MainInv, StepCpu, Running, loadVars, Image
<1> QED
  BY <1>1, <1>2, DataUnchanged DEF EInv, StepCpu

LEMMA CatchInv == EInv /\ Catch => EInv'
<1> SUFFICES ASSUME EInv, Catch PROVE EInv'
  OBVIOUS
<1>1. MainInv'
  BY DEF EInv, MainInv, Catch, Running, End, vars, loadVars, Image
<1> QED
  BY <1>1, CpuUnchanged, DataUnchanged DEF EInv, Catch

LEMMA RewriteFileInv == EInv /\ RewriteFile => EInv'
<1> SUFFICES ASSUME EInv, RewriteFile PROVE EInv'
  OBVIOUS
<1>1. UNCHANGED <<stage, romData>>
  BY DEF RewriteFile, Loading!Rewrite
<1>2. MainInv'
  BY <1>1 DEF EInv, MainInv, RewriteFile, vars, Image
<1> QED
  BY <1>2, CpuUnchanged, RewriteData DEF EInv, RewriteFile

LEMMA UnchangedInv == EInv /\ UNCHANGED emulatorVars => EInv'
<1> SUFFICES ASSUME EInv, UNCHANGED emulatorVars PROVE EInv'
  OBVIOUS
<1>1. MainInv'
  BY DEF EInv, MainInv, emulatorVars, vars, loadVars, Image
<1> QED
  BY <1>1, CpuUnchanged, DataUnchanged DEF EInv, emulatorVars

(* The invariant holds of every run of the program. *)
THEOREM EmulatorInvariance == EmulatorSpec => []EInv
<1>1. EInv /\ [EmulatorNext]_emulatorVars => EInv'
  BY CheckArgumentsInv, LoadInv, TerminateInv, ConstructInv, StepCpuInv, CatchInv,
     RewriteFileInv, UnchangedInv
     DEF EmulatorNext, Main, Ended
<1> QED
  BY EInit, <1>1, PTL DEF EmulatorSpec

(* Each way out of main() has its own cause: the usage is printed before a *)
(* file is opened, the loading terminates the program before the CPU has   *)
(* run, and an exception ends the loop only for an opcode without a        *)
(* handler in a ROM that was valid (main.cpp:35-62).                       *)
THEOREM OwnCauses == EmulatorSpec => []WaysOut
<1>1. EInv => WaysOut
  <2> SUFFICES ASSUME EInv PROVE WaysOut
    OBVIOUS
  <2>1. outcome = "usage" => argc # 2 /\ stage = "open"
    BY DEF EInv, MainInv
  <2>2. outcome = "terminated" => error # "none" /\ handler = Created(Noop) /\ rom = <<>>
    BY DEF EInv, MainInv, DataInv
  <2>3. outcome = "exit" => Loading!IsRom(romData) /\ OpcodeHandlers[ir] \in Throwing
    BY LoadedIsRom DEF EInv, MainInv, IInv, ReportedOpcode
  <2> QED
    BY <2>1, <2>2, <2>3 DEF WaysOut
<1> QED
  BY <1>1, EmulatorInvariance, PTL

(* Whatever the program writes and whoever rewrites the file, the CPU      *)
(* reads at 0000-7FFF the bytes of the ROM that was validated, for every   *)
(* set of files and every size of the RAM (address_bus.cpp:20-36).         *)
THEOREM ReadsTheLoadedRom == EmulatorSpec => []CpuReadsTheLoadedRom
<1>1. EInv => CpuReadsTheLoadedRom
  <2> SUFFICES ASSUME EInv, phase = "stepping" PROVE CpuReadsTheLoadedRom
    BY DEF CpuReadsTheLoadedRom
  <2>1. Loading!IsRom(romData) /\ rom = Image(romData)
    BY LoadedIsRom DEF EInv, MainInv
  <2>2. ASSUME NEW a \in DOMAIN romData.bytes \cap (0 .. RomEnd)
        PROVE  BusRead(a) = romData.bytes[a]
    <3>1. a \in DOMAIN rom /\ rom[a] = romData.bytes[a]
      BY <2>1 DEF Image
    <3>2. rom[a] \in Byte
      BY <3>1 DEF EInv, IInv, BusTypeOK
    <3>3. a \notin RamAddress /\ ~(a > RomEnd)
      <4>1. RomEnd \in Nat /\ RamStart \in Nat /\ RomEnd < RamStart
        BY DEF RomEnd, RamStart
      <4>2. a \in 0 .. RomEnd
        OBVIOUS
      <4> QED
        BY <4>1, <4>2 DEF RamAddress
    <3>4. BusRead(a) = Or(rom[a], 0)
      BY <3>1, <3>3 DEF BusRead, CartridgeRead, RamRead
    <3> QED
      BY <3>1, <3>2, <3>4, OrNothing
  <2> QED
    BY <2>1, <2>2 DEF CpuReadsTheLoadedRom
<1> QED
  BY <1>1, EmulatorInvariance, PTL
=============================================================================
