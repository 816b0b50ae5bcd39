-------------------------- MODULE RefinementProofs --------------------------
(***************************************************************************)
(* The micro-coded CPU implements the instruction set: from one boundary   *)
(* to the next it has executed one instruction of Isa, for every program,  *)
(* every size of the RAM and every run, programs that write over their own *)
(* code included.  The invariant is that of Cpu, with what Microcode says  *)
(* of the middle of each instruction.                                      *)
(***************************************************************************)
EXTENDS IsaProofs

\* The interrupt state has been that of the boundary since the boundary,
\* except inside RETI.
EnableKept ==
  handler.body # <<"RetI">> => (boundary.enabled <=> On(ime)) /\ (boundary.armed <=> Pending(ime))

Base == IInv /\ Selected /\ boundary \in MachineState /\ EnableKept

RInv == Base /\ InstructionUnderway

\* A handler is running, other than the first one.
Underway ==
  /\ Base
  /\ status = "running"
  /\ ir = Architecture!opcode
  /\ OnCourse(handler, reg, ime, ram, elapsed)

\* What a Step() makes of it: the handler is further on its course, or the
\* instruction has been executed, and the opcode after it fetched.
Onward == ~Completes /\ OnCourse(handler', reg', ime', ram', elapsed')

Ended == Completes /\ ir' = BusRead(boundary'.pc) /\ UNCHANGED <<rom, ram>>

Outcome == Onward \/ (Ended /\ Architecture!Execute)

Seen == Machine(reg, ime, ram, boundary.pc)

-----------------------------------------------------------------------------
(* The end of an instruction *)

\* The types that every proof about a running handler uses.
LEMMA Basics ==
  ASSUME Underway
  PROVE  /\ reg \in CleanFile /\ ime \in ImeState /\ ram \in RamImage /\ BusTypeOK
         /\ handler \in Coroutine /\ boundary \in MachineState /\ boundary.pc \in Word
         /\ \A n : R8(n) \in Byte
         /\ \A p \in Register16 : reg[p] \in Word
<1>1. IInv /\ boundary \in MachineState
  BY DEF Underway, Base
<1> QED
  BY <1>1, RegisterTypes DEF IInv, BusTypeOK, RamImage, MachineState

\* The boundary that a co_return leaves, whatever the interrupt state.
LEMMA ReturnBoundary ==
  ASSUME NEW k, NEW r \in CleanFile, NEW i \in ImeState, Return(k, r, i), Record
  PROVE  /\ boundary' = Machine(r, Promote(i), ram, r["PC"])
         /\ cycles' = elapsed + 1
         /\ Ended
<1>1. r["PC"] \in Word /\ "PC" \in Register16
  BY DEF CleanFile, RegisterFile, Register16
<1>2. /\ handler.at = k /\ ime' = Promote(i) /\ ir' = BusRead(r["PC"]) /\ reg' = Bump(r, "PC", 1)
      /\ Dispatch(OpcodeHandlers[BusRead(r["PC"])]) /\ rom' = rom /\ ram' = ram
  BY DEF Return
<1>3. Completes
  BY <1>2 DEF Completes, Dispatch, Created
<1>4. boundary' = Machine(reg', ime', ram', (reg'["PC"] - 1) % 65536) /\ cycles' = elapsed + 1
  BY <1>3 DEF Record
<1>5. reg'["PC"] = (r["PC"] + 1) % 65536
  BY <1>1, <1>2 DEF Bump, CleanFile, RegisterFile
<1>6. (reg'["PC"] - 1) % 65536 = r["PC"]
  BY <1>1, <1>5 DEF Word
<1>7. Machine(reg', ime', ram', (reg'["PC"] - 1) % 65536) = Machine(reg', Promote(i), ram, r["PC"])
  BY <1>2, <1>6
<1>8. Machine(reg', Promote(i), ram, r["PC"]) = Machine(r, Promote(i), ram, r["PC"])
  <2>1. 1 \in Int /\ "PC" \in {"PC", "WZ"}
    OBVIOUS
  <2> QED
    BY <1>2, <2>1, MachineInternal
<1>9. boundary' = Machine(r, Promote(i), ram, r["PC"])
  BY <1>4, <1>7, <1>8
<1>10. boundary'.pc = r["PC"]
  BY <1>9, MachineRest
<1> QED
  BY <1>2, <1>3, <1>4, <1>9, <1>10 DEF Ended

\* The interrupt state and PC of a machine changed.
LEMMA MachineInterrupts ==
  ASSUME NEW r, NEW i, NEW j, NEW m, NEW pc, NEW w, NEW on \in BOOLEAN, On(j) <=> on, ~Pending(j)
  PROVE  [Architecture!Interrupts(Machine(r, i, m, pc), on) EXCEPT !.pc = w] = Machine(r, j, m, w)
<1> DEFINE a == Seen8(r)
           b == FlagNames(Flags(r))
           c == r["SP"]
           e == On(i)
           f == Pending(i)
<1>1. Machine(r, i, m, pc) = Image(a, b, c, pc, e, f, m)
  BY MachineIsImage
<1>2. Machine(r, j, m, w) = Image(a, b, c, w, On(j), Pending(j), m)
  BY MachineIsImage
<1>3. On(j) = on /\ Pending(j) = FALSE
  BY DEF On, Pending
<1> DEFINE g == On(j)
           h == Pending(j)
           o == on
           k == FALSE
<1>4. g = o /\ h = k
  BY <1>3 DEF g, h
<1> HIDE DEF a, b, c, e, f, g, h, o, k
<1>5. [Image(a, b, c, pc, e, f, m) EXCEPT !.enabled = o, !.armed = k] = Image(a, b, c, pc, o, k, m)
  <2>1. [Image(a, b, c, pc, e, f, m) EXCEPT !.enabled = o] = Image(a, b, c, pc, o, f, m)
    BY DEF Image
  <2>2. [Image(a, b, c, pc, o, f, m) EXCEPT !.armed = k] = Image(a, b, c, pc, o, k, m)
    BY DEF Image
  <2> QED
    BY <2>1, <2>2
<1>6. [Image(a, b, c, pc, o, k, m) EXCEPT !.pc = w] = Image(a, b, c, w, o, k, m)
  BY DEF Image
<1>7. Machine(r, j, m, w) = Image(a, b, c, w, g, h, m)
  BY <1>2 DEF g, h
<1>8. Machine(r, j, m, w) = Image(a, b, c, w, o, k, m)
  BY <1>4, <1>7, Zenon
<1>9. Architecture!Interrupts(Machine(r, i, m, pc), o) = [Image(a, b, c, pc, e, f, m) EXCEPT !.enabled = o, !.armed = k]
  BY <1>1, Zenon DEF Architecture!Interrupts, k
<1>10. [Architecture!Interrupts(Machine(r, i, m, pc), o) EXCEPT !.pc = w] = Machine(r, j, m, w)
  BY <1>5, <1>6, <1>8, <1>9
<1> QED
  BY <1>10 DEF o

\* A handler that ends has ended its instruction, in the M-cycle it is in.
LEMMA Continues ==
  ASSUME Underway, handler.body # <<"RetI">>, NEW k, NEW r \in CleanFile, Return(k, r, ime), Record,
         NEW s, Machine(r, ime, ram, boundary.pc) = s, NEW pc, r["PC"] = pc % 65536, NEW d, d = elapsed + 1
  PROVE  Ended /\ Architecture!Continue(s, pc, d)
<1>1. ime \in ImeState /\ boundary \in MachineState
  BY Basics
<1>2. boundary' = Machine(r, Promote(ime), ram, r["PC"]) /\ cycles' = d /\ Ended
  BY <1>1, ReturnBoundary
<1> DEFINE on == boundary.enabled \/ boundary.armed
           j  == Promote(ime)
<1>3. (On(j) <=> on) /\ ~Pending(j)
  <2>1. (boundary.enabled <=> On(ime)) /\ (boundary.armed <=> Pending(ime))
    BY DEF Underway, Base, EnableKept
  <2>2. (On(j) <=> On(ime) \/ Pending(ime)) /\ ~Pending(j)
    BY <1>1 DEF Promote, On, Pending, ImeState
  <2> HIDE DEF j
  <2> QED
    BY <2>1, <2>2
<1> HIDE DEF on, j
<1>4. on \in BOOLEAN
  BY DEF on
<1>5. [Architecture!Interrupts(s, on) EXCEPT !.pc = r["PC"]] = Machine(r, j, ram, r["PC"])
  BY <1>3, <1>4, MachineInterrupts
<1>6. boundary' = [Architecture!Interrupts(s, on) EXCEPT !.pc = pc % 65536]
  BY <1>2, <1>5 DEF j
<1>7. rom' = rom
  BY <1>2 DEF Ended
<1> QED
  BY <1>2, <1>6, <1>7 DEF on, Architecture!Continue, Architecture!Finish, Architecture!Armed

\* The same where PC is past the instruction and its operands.
LEMMA Proceeds ==
  ASSUME Underway, handler.body # <<"RetI">>, NEW k, NEW r \in CleanFile, Return(k, r, ime), Record,
         NEW s, Machine(r, ime, ram, boundary.pc) = s, NEW n, PcPast(r, n), NEW d, d = elapsed + 1
  PROVE  Ended /\ Architecture!Proceed(s, n, d)
<1>1. r["PC"] = (boundary.pc + n) % 65536
  BY DEF PcPast
<1> HIDE DEF PcPast
<1>2. Ended /\ Architecture!Continue(s, boundary.pc + n, d)
  BY <1>1, Continues
<1> QED
  BY <1>2 DEF Architecture!Proceed

-----------------------------------------------------------------------------
(* The middle of an instruction *)

\* A handler that yields has not, and leaves the boundary where it was.
LEMMA Suspends ==
  ASSUME Underway, NEW k, NEW next \in 2 .. 6, NEW r, NEW i, NEW m, NEW local,
         Suspend(k, next, r, i, m, local), Record
  PROVE  /\ ~Completes /\ elapsed' = elapsed + 1 /\ UNCHANGED <<boundary, cycles, rom, ir, status>>
         /\ handler'.body = handler.body /\ handler'.at = next /\ handler'.local = local
         /\ reg' = r /\ ime' = i /\ ram' = m
<1>1. handler \in Coroutine
  BY Basics
<1>2. handler'.body = handler.body /\ handler'.at = next /\ handler'.local = local
  BY <1>1 DEF Suspend, Coroutine
<1>3. ~Completes
  BY <1>2 DEF Completes, Suspend, Underway
<1> QED
  BY <1>2, <1>3 DEF Record, Suspend

\* Where a handler is on its course, from the resumption it awaits.
LEMMA Course ==
  ASSUME Underway
  PROVE  \/ /\ elapsed = handler.at - 1
            /\ \/ Fetching(handler, reg, Seen) \/ Loading(handler, reg, Seen) \/ Pushing(handler, reg, Seen)
               \/ Popping(handler, reg, Seen) \/ Jumping(handler, reg, Seen)
         \/ elapsed = 1 /\ Skipping(handler, reg, Seen)
BY DEF Underway, OnCourse, Seen

\* What the course says of a handler at its first resumption.
LEMMA AtFirst ==
  ASSUME Underway, handler.at = 1
  PROVE  elapsed = 0 /\ Seen = boundary /\ PcPast(reg, 1)
BY Course DEF Fetching, Loading, Pushing, Popping, Jumping, Skipping, MakesRoom, TakesOff

\* The same after one operand.
LEMMA AtSecond ==
  ASSUME Underway, handler.at = 2, Name(handler) \in ReadByte
  PROVE  elapsed = 1 /\ Seen = boundary /\ PcPast(reg, 2) /\ R8("Z") = Architecture!imm8
BY Course DEF Fetching, Loading, Pushing, Popping, Jumping, Skipping, MakesRoom, TakesOff, ReadByte, ReadWord, R8

\* The same after two operands.
LEMMA AtThird ==
  ASSUME Underway, handler.at = 3, Name(handler) \in ReadWord
  PROVE  elapsed = 2 /\ Seen = boundary /\ PcPast(reg, 3) /\ reg["WZ"] = Architecture!imm16
BY Course DEF Fetching, Loading, Pushing, Popping, Jumping, Skipping, MakesRoom, TakesOff, ReadByte, ReadWord

\* What is seen of the registers.
LEMMA SeenParts ==
  ASSUME NEW s, Seen = s
  PROVE  /\ s.flags = FlagNames(Flags(reg)) /\ s.sp = reg["SP"] /\ s.ram = ram
         /\ \A n \in Register8 : s.r[n] = R8(n)
BY MachineR, MachineRest DEF Seen, R8

\* The byte at PC is the operand the instruction set reads, and PC moves on.
LEMMA NextByte ==
  ASSUME Underway, NEW n \in {1, 2}, PcPast(reg, n), Seen = boundary
  PROVE  /\ reg["PC"] = (boundary.pc + n) % 65536
         /\ BusRead(reg["PC"]) = Architecture!Peek((boundary.pc + n) % 65536)
         /\ Bump(reg, "PC", 1)["PC"] = (boundary.pc + n + 1) % 65536
<1>1. boundary.ram = ram
  BY SeenParts
<1>2. reg["PC"] = (boundary.pc + n) % 65536 /\ reg["PC"] \in Word
  BY Basics DEF PcPast, Register16
<1>3. BusRead(reg["PC"]) = Architecture!Peek(reg["PC"])
  BY <1>1, <1>2, Basics, ReadIsPeek
<1>4. reg \in [Register16 -> Word] /\ boundary.pc \in Word
  BY Basics DEF CleanFile, RegisterFile
<1>5. Bump(reg, "PC", 1)["PC"] = (reg["PC"] + 1) % 65536
  BY <1>4 DEF Bump, Register16
<1>6. boundary.pc \in Int
  BY <1>4 DEF Word
<1>7. (reg["PC"] + 1) % 65536 = (boundary.pc + n + 1) % 65536
  BY <1>2, <1>6
<1> QED
  BY <1>2, <1>3, <1>5, <1>7

\* Reading into W or Z does not disturb the word that is post-incremented.
LEMMA BumpedBeside ==
  ASSUME Underway, NEW n \in {"W", "Z"}, NEW b \in Byte, NEW p \in {"PC", "SP"}
  PROVE  /\ Bump(Assign8(reg, n, b), p, 1)["PC"] = Bump(reg, p, 1)["PC"]
         /\ Bump(Assign8(reg, n, b), p, 1)["SP"] = Bump(reg, p, 1)["SP"]
         /\ n = "Z" => Value8(Bump(Assign8(reg, n, b), p, 1), "Z") = b
         /\ n = "W" => Bump(Assign8(reg, n, b), p, 1)["WZ"] = 256 * b + R8("Z")
<1>1. reg \in [Register16 -> Word]
  BY Basics DEF CleanFile, RegisterFile
<1>2. Assign8(reg, n, b) = [reg EXCEPT !["WZ"] = IF n = "W" THEN Pair(b, Low(reg["WZ"])) ELSE Pair(High(reg["WZ"]), b)]
  BY <1>1 DEF Assign8, AssignValue8, Whole, UpperByte, Register16
<1>3. reg["WZ"] \in Word
  BY <1>1 DEF Register16
<1>4. R8("Z") = Low(reg["WZ"])
  BY DEF R8, Value8, Whole, UpperByte
<1> DEFINE w == IF n = "W" THEN Pair(b, Low(reg["WZ"])) ELSE Pair(High(reg["WZ"]), b)
           q == Bump(Assign8(reg, n, b), p, 1)
<1>5. q["WZ"] = w /\ q["PC"] = Bump(reg, p, 1)["PC"] /\ q["SP"] = Bump(reg, p, 1)["SP"]
  BY <1>1, <1>2 DEF Bump, Register16
<1>6. Value8(q, "Z") = Low(w)
  BY <1>5 DEF Value8, Whole, UpperByte
<1>7. n = "Z" => Low(w) = b
  <2>1. High(reg["WZ"]) \in Byte
    BY <1>3, WordSplit
  <2> QED
    BY <2>1 DEF Low, Pair, Byte
<1>8. n = "W" => w = 256 * b + R8("Z")
  BY <1>4 DEF Pair
<1> HIDE DEF w
<1> QED
  BY <1>5, <1>6, <1>7, <1>8

\* The machine seen after a byte has been read into W or Z.
LEMMA SeenBumped ==
  ASSUME Underway, NEW n \in {"W", "Z"}, NEW b \in Byte
  PROVE  /\ Machine(Bump(Assign8(reg, n, b), "PC", 1), ime, ram, boundary.pc) = Seen
         /\ Assign8(reg, n, b) \in CleanFile
<1>1. reg \in CleanFile
  BY Basics
<1>2. Assign8(reg, n, b) \in CleanFile
  <2>1. n \in Plain8
    BY DEF Plain8
  <2> QED
    BY <1>1, <2>1, Assign8Clean
<1>3. Machine(Assign8(reg, n, b), ime, ram, boundary.pc) = Seen
  BY <1>1, MachineInternal DEF Seen
<1>4. 1 \in Int
  OBVIOUS
<1>5. Machine(Bump(Assign8(reg, n, b), "PC", 1), ime, ram, boundary.pc) = Machine(Assign8(reg, n, b), ime, ram, boundary.pc)
  BY <1>2, <1>4, MachineInternal
<1> QED
  BY <1>2, <1>3, <1>5

\* A handler that reads its first operand is further on its course.
LEMMA OperandZ ==
  ASSUME Underway, Name(handler) \in ReadByte, Operand(1, "Z"), Record
  PROVE  Outcome
<1> DEFINE b == BusRead(reg["PC"])
           q == Bump(Assign8(reg, "Z", b), "PC", 1)
<1>1. Suspend(1, 2, q, ime, ram, handler.local)
  BY DEF Operand, Yield
<1>2. handler.at = 1
  BY <1>1 DEF Suspend
<1>3. elapsed = 0 /\ Seen = boundary /\ PcPast(reg, 1)
  BY <1>2, AtFirst
<1>4. b = Architecture!imm8 /\ Bump(reg, "PC", 1)["PC"] = (boundary.pc + 2) % 65536
  <2>1. boundary.pc \in Int
    BY Basics DEF Word
  <2>2. boundary.pc + 1 + 1 = boundary.pc + 2
    BY <2>1
  <2>3. b = Architecture!Peek((boundary.pc + 1) % 65536) /\ Bump(reg, "PC", 1)["PC"] = (boundary.pc + 1 + 1) % 65536
    BY <1>3, NextByte
  <2> QED
    BY <2>2, <2>3 DEF Architecture!imm8
<1>5. b \in Byte
  BY <1>4, Basics, OperandTypes
<1>6. ~Completes /\ elapsed' = 1 /\ handler'.body = handler.body /\ handler'.at = 2 /\ reg' = q /\ ime' = ime /\ ram' = ram
  <2> HIDE DEF q
  <2> QED
    BY <1>1, <1>3, Suspends
<1> HIDE DEF b
<1>7. q["PC"] = (boundary.pc + 2) % 65536 /\ Value8(q, "Z") = Architecture!imm8
  BY <1>4, <1>5, BumpedBeside
<1>8. Machine(q, ime, ram, boundary.pc) = boundary
  BY <1>3, <1>5, SeenBumped
<1> HIDE DEF q
<1>9. Fetching(handler', reg', Machine(reg', ime', ram', boundary.pc))
  BY <1>6, <1>7, <1>8 DEF Fetching, Name, PcPast
<1> QED
  BY <1>6, <1>9 DEF Outcome, Onward, OnCourse

\* So is one that reads its second.
LEMMA OperandW ==
  ASSUME Underway, Name(handler) \in ReadWord, Operand(2, "W"), Record
  PROVE  Outcome
<1> DEFINE b == BusRead(reg["PC"])
           q == Bump(Assign8(reg, "W", b), "PC", 1)
<1>1. Suspend(2, 3, q, ime, ram, handler.local)
  BY DEF Operand, Yield
<1>2. handler.at = 2 /\ Name(handler) \in ReadByte
  BY <1>1 DEF Suspend, ReadByte
<1>3. elapsed = 1 /\ Seen = boundary /\ PcPast(reg, 2) /\ R8("Z") = Architecture!imm8
  BY <1>2, AtSecond
<1>4. b = Architecture!Peek((boundary.pc + 2) % 65536) /\ Bump(reg, "PC", 1)["PC"] = (boundary.pc + 3) % 65536
  <2>1. boundary.pc \in Int
    BY Basics DEF Word
  <2>2. boundary.pc + 2 + 1 = boundary.pc + 3
    BY <2>1
  <2>3. b = Architecture!Peek((boundary.pc + 2) % 65536) /\ Bump(reg, "PC", 1)["PC"] = (boundary.pc + 2 + 1) % 65536
    BY <1>3, NextByte
  <2> QED
    BY <2>2, <2>3
<1>5. b \in Byte
  BY <1>4, Basics, PeekType
<1>6. ~Completes /\ elapsed' = 2 /\ handler'.body = handler.body /\ handler'.at = 3 /\ reg' = q /\ ime' = ime /\ ram' = ram
  <2> HIDE DEF q
  <2> QED
    BY <1>1, <1>3, Suspends
<1> HIDE DEF b
<1>7. q["PC"] = (boundary.pc + 3) % 65536 /\ q["WZ"] = 256 * b + R8("Z")
  BY <1>4, <1>5, BumpedBeside
<1>8. Machine(q, ime, ram, boundary.pc) = boundary
  BY <1>3, <1>5, SeenBumped
<1>9. 256 * b + R8("Z") = Architecture!imm16
  <2>1. boundary.pc \in Int
    BY Basics DEF Word
  <2>2. (((boundary.pc + 1) % 65536) + 1) % 65536 = (boundary.pc + 2) % 65536
    BY <2>1
  <2> QED
    BY <1>3, <1>4, <2>2 DEF Architecture!imm16, Architecture!imm8, Architecture!Peek16
<1> HIDE DEF q
<1>10. Fetching(handler', reg', Machine(reg', ime', ram', boundary.pc))
  BY <1>6, <1>7, <1>8, <1>9 DEF Fetching, Name, PcPast
<1> QED
  BY <1>6, <1>10 DEF Outcome, Onward, OnCourse

-----------------------------------------------------------------------------
(* Loads *)

\* The running handler is the one that the octal digits select.
LEMMA DecodedUnderway ==
  ASSUME Underway
  PROVE  /\ Decodes(Architecture!x, Architecture!y, Architecture!z, handler.body)
         /\ Architecture!x \in 0 .. 3 /\ Architecture!y \in 0 .. 7 /\ Architecture!z \in 0 .. 7
         /\ Architecture!opcode = 64 * Architecture!x + 8 * Architecture!y + Architecture!z
<1>1. /\ Architecture!x \in 0 .. 3 /\ Architecture!y \in 0 .. 7 /\ Architecture!z \in 0 .. 7
      /\ Architecture!opcode \in Byte
  BY Basics, OctalDigits, OperandTypes
<1>2. Architecture!opcode = 64 * Architecture!x + 8 * Architecture!y + Architecture!z
  BY <1>1 DEF Architecture!x, Architecture!y, Architecture!z, Byte
<1>3. handler.body = OpcodeHandlers[Architecture!opcode]
  BY DEF Underway, Base, Selected
<1>4. handler.body \notin Throwing
  BY Basics DEF Coroutine, Handlers
<1> QED
  BY <1>1, <1>2, <1>3, <1>4, Decoding

\* NOP.
LEMMA NoopExecutes ==
  ASSUME Underway, NoopStep, Record
  PROVE  Outcome
<1>1. handler.body = <<"Noop">> /\ Return(1, reg, ime) /\ handler.at = 1
  BY DEF NoopStep, Executing, Noop, Return
<1>2. elapsed = 0 /\ Seen = boundary /\ PcPast(reg, 1)
  BY <1>1, AtFirst
<1>3. Architecture!opcode = 0
  BY <1>1, DecodedUnderway DEF Decodes, Block0, Block1, Block2, Block3
<1>4. Ended /\ Architecture!Proceed(boundary, 1, 1)
  BY <1>1, <1>2, Basics, Proceeds DEF Seen
<1> QED
  BY <1>3, <1>4 DEF Outcome, Architecture!Execute, Architecture!NOP

\* The operands of an instruction, as the opcode numbers them.
LEMMA Registers8 ==
  ASSUME NEW k \in 0 .. 7, k # 6
  PROVE  /\ N8(k) \in Register8
         /\ Architecture!Get8(k) = boundary.r[N8(k)]
         /\ \A s, v : Architecture!Set8(s, k, v) = Stored8(s, N8(k), v)
BY RegisterNames DEF N8, Architecture!Get8, Architecture!Set8, Stored8

\* A register written in the middle of an instruction.
LEMMA ByteAssigned ==
  ASSUME Underway, NEW d \in Register8, NEW v \in Byte
  PROVE  /\ Machine(Assign8(reg, d, v), ime, ram, boundary.pc) = Stored8(Seen, d, v)
         /\ Assign8(reg, d, v) \in CleanFile
         /\ Assign8(reg, d, v)["PC"] = reg["PC"]
<1>1. reg \in CleanFile
  BY Basics
<1>2. d \in Plain8
  BY DEF Plain8, Register8
<1>3. Assign8(reg, d, v) \in CleanFile
  BY <1>1, <1>2, Assign8Clean
<1>4. Assign8(reg, d, v)["PC"] = reg["PC"]
  <2>1. "PC" \in Register16 /\ "PC" # Whole(d)
    BY DEF Register16, Whole
  <2> QED
    BY <1>1, <1>2, <2>1, Assign8Views
<1> QED
  BY <1>1, <1>3, <1>4, MachineStored8 DEF Seen

\* The end of an instruction that leaves PC alone.
LEMMA ProceedsFrom ==
  ASSUME Underway, handler.body # <<"RetI">>, NEW k, NEW r \in CleanFile, Return(k, r, ime), Record,
         r["PC"] = reg["PC"], NEW n, PcPast(reg, n), NEW s, Machine(r, ime, ram, boundary.pc) = s,
         NEW d, d = elapsed + 1
  PROVE  Ended /\ Architecture!Proceed(s, n, d)
<1>1. PcPast(r, n)
  BY DEF PcPast
<1> QED
  BY <1>1, Proceeds

\* Pairs are numbered by the upper two bits of the middle digit.
LEMMA Halves ==
  ASSUME NEW k \in 0 .. 7
  PROVE  k \div 2 \in 0 .. 3 /\ Half(k) = (k \div 2) + 1
BY DEF Half

\* The word that the instruction set reads is the one of the file.
LEMMA PairRead ==
  ASSUME Underway, Seen = boundary, NEW p \in 0 .. 3
  PROVE  Architecture!Get16(p) = reg[PairOf[p + 1]]
<1>1. /\ boundary.sp = reg["SP"]
      /\ boundary.r["B"] = R8("B") /\ boundary.r["C"] = R8("C") /\ boundary.r["D"] = R8("D")
      /\ boundary.r["E"] = R8("E") /\ boundary.r["H"] = R8("H") /\ boundary.r["L"] = R8("L")
  BY SeenParts DEF Register8
<1>2. /\ reg["BC"] = 256 * R8("B") + R8("C") /\ reg["DE"] = 256 * R8("D") + R8("E")
      /\ reg["HL"] = 256 * R8("H") + R8("L")
  BY Basics, PairWhole DEF R8
<1>3. CASE p = 0
  BY <1>1, <1>2, <1>3 DEF Architecture!Get16, Architecture!Name16, PairOf
<1>4. CASE p = 1
  BY <1>1, <1>2, <1>4 DEF Architecture!Get16, Architecture!Name16, PairOf
<1>5. CASE p = 2
  BY <1>1, <1>2, <1>5 DEF Architecture!Get16, Architecture!Name16, PairOf
<1>6. CASE p = 3
  BY <1>1, <1>6 DEF Architecture!Get16, PairOf
<1> QED
  BY <1>3, <1>4, <1>5, <1>6

\* The same for HL, in any machine seen.
LEMMA HLRead ==
  ASSUME Underway, NEW s, Seen = s
  PROVE  Architecture!HL(s) = reg["HL"]
<1>1. s.r["H"] = R8("H") /\ s.r["L"] = R8("L")
  BY SeenParts DEF Register8
<1> QED
  BY <1>1, Basics, PairWhole DEF R8, Architecture!HL

\* A word written in the middle of an instruction.
LEMMA PairAssigned ==
  ASSUME Underway, NEW m, NEW p \in 0 .. 3, NEW v \in Int
  PROVE  /\ Machine(Assign16(reg, PairOf[p + 1], v % 65536), ime, m, boundary.pc)
              = Architecture!Set16(Machine(reg, ime, m, boundary.pc), p, v)
         /\ Assign16(reg, PairOf[p + 1], v % 65536) \in CleanFile
         /\ Assign16(reg, PairOf[p + 1], v % 65536)["PC"] = reg["PC"]
<1> DEFINE w == v % 65536
           q == PairOf[p + 1]
<1>1. reg \in CleanFile
  BY Basics
<1>2. /\ w \in Word
      /\ Machine(Assign16(reg, q, w), ime, m, boundary.pc) = Architecture!Set16(Machine(reg, ime, m, boundary.pc), p, v)
  BY <1>1, MachinePair
<1>3. q \in Register16 /\ "PC" \in Register16 /\ "PC" # q
  BY DEF PairOf, Register16
<1> HIDE DEF w, q
<1>4. Assign16(reg, q, w) \in CleanFile /\ Assign16(reg, q, w)["PC"] = reg["PC"]
  BY <1>1, <1>2, <1>3, Assign16Clean, Assign16Kept
<1> QED
  BY <1>2, <1>4 DEF w, q

\* A pair is incremented or decremented.
LEMMA PairBumped ==
  ASSUME Underway, Seen = boundary, NEW m, NEW p \in 0 .. 3, NEW by \in Int
  PROVE  /\ Machine(Bump(reg, PairOf[p + 1], by), ime, m, boundary.pc)
              = Architecture!Set16(Machine(reg, ime, m, boundary.pc), p, Architecture!Get16(p) + by)
         /\ Bump(reg, PairOf[p + 1], by) \in CleanFile
         /\ Bump(reg, PairOf[p + 1], by)["PC"] = reg["PC"]
<1> DEFINE q == PairOf[p + 1]
           v == reg[q] + by
           n == Machine(reg, ime, m, boundary.pc)
<1>1. reg \in CleanFile
  BY Basics
<1>2. q \in Register16 \ {"AF"}
  BY DEF PairOf, Register16
<1>3. reg[q] \in Int
  BY <1>2, Basics DEF Word
<1>4. Bump(reg, q, by) = Assign16(reg, q, v % 65536)
  BY <1>1, <1>2, BumpIsAssign
<1>5. v \in Int
  BY <1>3
<1>6. Architecture!Get16(p) = reg[q]
  BY PairRead
<1> HIDE DEF v
<1>7. /\ Machine(Assign16(reg, q, v % 65536), ime, m, boundary.pc) = Architecture!Set16(n, p, v)
      /\ Assign16(reg, q, v % 65536) \in CleanFile
      /\ Assign16(reg, q, v % 65536)["PC"] = reg["PC"]
  BY <1>5, PairAssigned
<1> HIDE DEF n
<1>8. /\ Machine(Bump(reg, q, by), ime, m, boundary.pc) = Architecture!Set16(n, p, Architecture!Get16(p) + by)
      /\ Bump(reg, q, by) \in CleanFile
      /\ Bump(reg, q, by)["PC"] = reg["PC"]
  BY <1>4, <1>6, <1>7 DEF v
<1> QED
  BY <1>8 DEF n

\* LD r, r.
LEMMA LoadRegRegExecutes ==
  ASSUME Underway, LoadRegReg, Record
  PROVE  Outcome
<1>1. PICK d, s \in Register8 : handler.body = <<"LoadRegReg", d, s>> /\ Return(1, Assign8(reg, d, R8(s)), ime)
  BY DEF LoadRegReg, Executing
<1>2. handler.at = 1 /\ R8(s) \in Byte
  BY <1>1, Basics DEF Return
<1>3. elapsed = 0 /\ Seen = boundary /\ PcPast(reg, 1)
  BY <1>2, AtFirst
<1> DEFINE y == Architecture!y
           z == Architecture!z
<1>4. Architecture!x = 1 /\ y \in 0 .. 7 /\ z \in 0 .. 7 /\ y # 6 /\ z # 6 /\ d = N8(y) /\ s = N8(z)
  BY <1>1, DecodedUnderway DEF Decodes, Block0, Block1, Block2, Block3
<1>5. R8(s) = Architecture!Get8(z)
  BY <1>3, <1>4, SeenParts, Registers8
<1>6. Machine(Assign8(reg, d, R8(s)), ime, ram, boundary.pc) = Architecture!Set8(boundary, y, Architecture!Get8(z))
  BY <1>2, <1>3, <1>4, <1>5, ByteAssigned, Registers8
<1>7. Ended /\ Architecture!Proceed(Architecture!Set8(boundary, y, Architecture!Get8(z)), 1, 1)
  BY <1>1, <1>2, <1>3, <1>6, ByteAssigned, ProceedsFrom
<1> QED
  BY <1>4, <1>7 DEF Outcome, Architecture!Execute, Architecture!LD_r_r

\* LD r, n: one operand, then the register.
LEMMA LoadRegN8Executes ==
  ASSUME Underway, LoadRegN8, Record
  PROVE  Outcome
<1>1. PICK d \in Register8 : /\ handler.body = <<"LoadRegN8", d>>
                             /\ Operand(1, "Z") \/ Return(2, Assign8(reg, d, R8("Z")), ime)
  BY DEF LoadRegN8, Executing
<1>2. Name(handler) \in ReadByte
  BY <1>1 DEF Name, ReadByte
<1>3. CASE Operand(1, "Z")
  BY <1>2, <1>3, OperandZ
<1>4. CASE Return(2, Assign8(reg, d, R8("Z")), ime)
  <2>1. handler.at = 2 /\ R8("Z") \in Byte
    BY <1>4, Basics DEF Return
  <2>2. elapsed = 1 /\ Seen = boundary /\ PcPast(reg, 2) /\ R8("Z") = Architecture!imm8
    BY <1>2, <2>1, AtSecond
  <2> DEFINE y == Architecture!y
  <2>3. Architecture!x = 0 /\ Architecture!z = 6 /\ y \in 0 .. 7 /\ y # 6 /\ d = N8(y)
    BY <1>1, DecodedUnderway DEF Decodes, Block0, Block1, Block2, Block3
  <2>4. Machine(Assign8(reg, d, R8("Z")), ime, ram, boundary.pc) = Architecture!Set8(boundary, y, Architecture!imm8)
    BY <2>1, <2>2, <2>3, ByteAssigned, Registers8
  <2>5. Ended /\ Architecture!Proceed(Architecture!Set8(boundary, y, Architecture!imm8), 2, 2)
    BY <1>1, <1>4, <2>1, <2>2, <2>4, ByteAssigned, ProceedsFrom
  <2> QED
    BY <2>3, <2>5 DEF Outcome, Architecture!Execute, Architecture!LD_r_n
<1> QED
  BY <1>1, <1>3, <1>4

\* LD rr, nn: two operands, then the word.
LEMMA LoadRegN16Executes ==
  ASSUME Underway, LoadRegN16, Record
  PROVE  Outcome
<1>1. PICK d \in Pair16 : /\ handler.body = <<"LoadRegN16", d>>
                          /\ Operand(1, "Z") \/ Operand(2, "W") \/ Return(3, Assign16(reg, d, reg["WZ"]), ime)
  BY DEF LoadRegN16, Executing
<1>2. Name(handler) \in ReadByte /\ Name(handler) \in ReadWord
  BY <1>1 DEF Name, ReadByte, ReadWord
<1>3. CASE Operand(1, "Z")
  BY <1>2, <1>3, OperandZ
<1>4. CASE Operand(2, "W")
  BY <1>2, <1>4, OperandW
<1>5. CASE Return(3, Assign16(reg, d, reg["WZ"]), ime)
  <2>1. handler.at = 3
    BY <1>5 DEF Return
  <2>2. elapsed = 2 /\ Seen = boundary /\ PcPast(reg, 3) /\ reg["WZ"] = Architecture!imm16
    BY <1>2, <2>1, AtThird
  <2> DEFINE y == Architecture!y
             w == Architecture!imm16
  <2>3. Architecture!x = 0 /\ Architecture!z = 1 /\ y \in 0 .. 7 /\ y % 2 = 0 /\ d = PairOf[Half(y)]
    BY <1>1, DecodedUnderway DEF Decodes, Block0, Block1, Block2, Block3, Even
  <2>4. d = PairOf[(y \div 2) + 1] /\ y \div 2 \in 0 .. 3 /\ w \in Int /\ w % 65536 = w
    BY <2>3, Halves, Basics, OperandTypes DEF Word
  <2> HIDE DEF y, w
  <2>5. /\ Machine(Assign16(reg, d, w), ime, ram, boundary.pc) = Architecture!Set16(boundary, y \div 2, w)
        /\ Assign16(reg, d, w) \in CleanFile
        /\ Assign16(reg, d, w)["PC"] = reg["PC"]
    BY <2>2, <2>4, PairAssigned DEF Seen
  <2>6. Ended /\ Architecture!Proceed(Architecture!Set16(boundary, y \div 2, w), 3, 3)
    BY <1>1, <1>5, <2>2, <2>5, ProceedsFrom DEF w
  <2> QED
    BY <2>3, <2>6 DEF Outcome, Architecture!Execute, Architecture!LD_rr_nn, y, w
<1> QED
  BY <1>1, <1>3, <1>4, <1>5

\* A handler that goes on is at its next resumption, with a new local.
At(next, local) == [body |-> handler.body, at |-> next, local |-> local]

\* A handler that yields on its course has the outcome claimed.
LEMMA GoesOn ==
  ASSUME Underway, NEW k, NEW next \in 2 .. 6, NEW r, NEW i, NEW m, NEW local, Suspend(k, next, r, i, m, local), Record,
         OnCourse(At(next, local), r, i, m, elapsed + 1)
  PROVE  Outcome
<1>1. handler' = At(next, local)
  BY Basics DEF Suspend, Coroutine, At
<1>2. ~Completes /\ elapsed' = elapsed + 1 /\ reg' = r /\ ime' = i /\ ram' = m
  BY Suspends
<1> QED
  BY <1>1, <1>2 DEF Outcome, Onward

\* The same for the handlers that load and store.
LEMMA LoadsOn ==
  ASSUME Underway, NEW k \in 1 .. 5, elapsed = k - 1, NEW r, NEW m, NEW local, Suspend(k, k + 1, r, ime, m, local), Record,
         NEW s, Machine(r, ime, m, boundary.pc) = s, Loading(At(k + 1, local), r, s)
  PROVE  Outcome
<1> DEFINE next == k + 1
<1>1. next \in 2 .. 6 /\ elapsed + 1 = next - 1
  OBVIOUS
<1> HIDE DEF next
<1>2. Suspend(k, next, r, ime, m, local) /\ Loading(At(next, local), r, s)
  BY DEF next
<1>3. OnCourse(At(next, local), r, ime, m, elapsed + 1)
  <2>1. At(next, local).at = next
    BY DEF At
  <2> QED
    BY <1>1, <1>2, <2>1 DEF OnCourse
<1> QED
  BY <1>1, <1>2, <1>3, GoesOn

\* Adding nothing to a pair.
LEMMA BumpedByNothing ==
  ASSUME Underway, NEW a \in Register16
  PROVE  Bump(reg, a, 0) = reg
<1>1. reg \in [Register16 -> Word] /\ reg[a] \in Word
  BY Basics DEF CleanFile, RegisterFile
<1>2. (reg[a] + 0) % 65536 = reg[a]
  BY <1>1 DEF Word
<1> QED
  BY <1>1, <1>2 DEF Bump

\* A store to A commutes with a store to HL.
Put(a, n, v)     == [a EXCEPT ![n] = v]
PutPair(a, h, l) == Put(Put(a, "H", h), "L", l)

\* A register written, component by component.
LEMMA ImageStored ==
  ASSUME NEW a, NEW b, NEW c, NEW d, NEW e, NEW f, NEW g, NEW n, NEW v
  PROVE  Stored8(Image(a, b, c, d, e, f, g), n, v) = Image(Put(a, n, v), b, c, d, e, f, g)
BY DEF Stored8, Image, Put

\* A pair written, component by component.
LEMMA ImagePaired ==
  ASSUME NEW a, NEW b, NEW c, NEW d, NEW e, NEW f, NEW g, NEW h, NEW l
  PROVE  Paired(Image(a, b, c, d, e, f, g), h, l) = Image(PutPair(a, h, l), b, c, d, e, f, g)
<1> DEFINE one == Put(a, "H", h)
<1>1. [Image(a, b, c, d, e, f, g) EXCEPT !.r["H"] = h] = Image(one, b, c, d, e, f, g)
  BY DEF Image, Put
<1> HIDE DEF one
<1>2. [Image(one, b, c, d, e, f, g) EXCEPT !.r["L"] = l] = Image(Put(one, "L", l), b, c, d, e, f, g)
  BY DEF Image, Put
<1>3. Paired(Image(a, b, c, d, e, f, g), h, l) = Image(Put(one, "L", l), b, c, d, e, f, g)
  BY <1>1, <1>2 DEF Paired
<1> QED
  BY <1>3 DEF PutPair, one

\* HL written by its halves.
LEMMA SetHL ==
  ASSUME NEW s, NEW w
  PROVE  Architecture!Set16(s, 2, w) = Paired(s, (w % 65536) \div 256, w % 256)
BY DEF Architecture!Set16, Architecture!Name16, Paired

\* A is written before or after HL moves, with the same effect.
LEMMA StoreThenMove ==
  ASSUME NEW s \in MachineState, NEW v, NEW w
  PROVE  Architecture!Set16(Stored8(s, "A", v), 2, w) = Stored8(Architecture!Set16(s, 2, w), "A", v)
<1> DEFINE a == s.r
           b == s.flags
           c == s.sp
           d == s.pc
           e == s.enabled
           f == s.armed
           g == s.ram
           h == (w % 65536) \div 256
           l == w % 256
<1>1. s = Image(a, b, c, d, e, f, g)
  BY DEF MachineState, Image
<1>2. a \in [Register8 -> Byte]
  BY DEF MachineState
<1> HIDE DEF a, b, c, d, e, f, g, h, l
<1>3. PutPair(Put(a, "A", v), h, l) = Put(PutPair(a, h, l), "A", v)
  BY <1>2 DEF PutPair, Put, Register8
<1>4. Stored8(s, "A", v) = Image(Put(a, "A", v), b, c, d, e, f, g)
  BY <1>1, ImageStored
<1>5. Paired(Stored8(s, "A", v), h, l) = Image(PutPair(Put(a, "A", v), h, l), b, c, d, e, f, g)
  BY <1>4, ImagePaired
<1>6. Paired(s, h, l) = Image(PutPair(a, h, l), b, c, d, e, f, g)
  BY <1>1, ImagePaired
<1>7. Stored8(Paired(s, h, l), "A", v) = Image(Put(PutPair(a, h, l), "A", v), b, c, d, e, f, g)
  BY <1>6, ImageStored
<1>8. Paired(Stored8(s, "A", v), h, l) = Stored8(Paired(s, h, l), "A", v)
  BY <1>3, <1>5, <1>7
<1> QED
  BY <1>8, SetHL DEF h, l

\* (BC), (DE), (HL+) and (HL-): the address, and the pair after it.
LEMMA Pointers ==
  ASSUME Underway, Seen = boundary, NEW m, NEW n, n = Machine(reg, ime, m, boundary.pc), Architecture!y \in 0 .. 7,
         NEW a, a = PointerOf[Half(Architecture!y)], NEW by, by = StepOf[Half(Architecture!y)]
  PROVE  /\ reg[a] = Architecture!Pointer
         /\ Machine(Bump(reg, a, by), ime, m, boundary.pc) = Architecture!Moved(n)
         /\ Bump(reg, a, by) \in CleanFile
         /\ Bump(reg, a, by)["PC"] = reg["PC"]
         /\ Value8(Bump(reg, a, by), "A") = R8("A")
<1> DEFINE p == Architecture!y \div 2
<1>1. p \in 0 .. 3 /\ Half(Architecture!y) = p + 1
  BY Halves
<1>2. reg \in CleanFile /\ reg["HL"] \in Word /\ Architecture!HL(boundary) = reg["HL"]
  BY HLRead, Basics DEF Register16
<1>3. Value8(Bump(reg, a, by), "A") = R8("A")
  <2>1. a # "AF"
    BY <1>1 DEF PointerOf
  <2>2. reg \in [Register16 -> Word] /\ "AF" \in Register16
    BY <1>2 DEF CleanFile, RegisterFile, Register16
  <2> QED
    BY <2>1, <2>2 DEF Bump, R8, Value8, Whole, UpperByte
<1>4. CASE p < 2
  <2>1. a = PairOf[p + 1] /\ by = 0 /\ a \in Register16
    BY <1>1, <1>4 DEF PointerOf, StepOf, PairOf, Register16
  <2>2. reg[a] = Architecture!Pointer
    BY <1>1, <1>4, <2>1, PairRead DEF Architecture!Pointer
  <2>3. Bump(reg, a, by) = reg
    BY <2>1, BumpedByNothing
  <2>4. Architecture!Moved(n) = n
    BY <1>1, <1>4 DEF Architecture!Moved
  <2> QED
    BY <1>2, <1>3, <2>2, <2>3, <2>4
<1>5. CASE p >= 2
  <2>1. a = "HL" /\ by = (IF p = 2 THEN 1 ELSE -1) /\ by \in Int
    BY <1>1, <1>5 DEF PointerOf, StepOf
  <2>2. reg[a] = Architecture!Pointer
    BY <1>1, <1>2, <1>5, <2>1 DEF Architecture!Pointer
  <2>3. PairOf[2 + 1] = "HL" /\ 2 \in 0 .. 3 /\ Architecture!Get16(2) = reg["HL"]
    <3>1. PairOf[2 + 1] = "HL" /\ 2 \in 0 .. 3
      BY DEF PairOf
    <3> QED
      BY <3>1, PairRead
  <2>4. /\ Machine(Bump(reg, a, by), ime, m, boundary.pc) = Architecture!Set16(n, 2, reg["HL"] + by)
        /\ Bump(reg, a, by) \in CleanFile
        /\ Bump(reg, a, by)["PC"] = reg["PC"]
    BY <2>1, <2>3, PairBumped
  <2>5. Architecture!Moved(n) = Architecture!Set16(n, 2, reg["HL"] + by)
    <3>1. reg["HL"] \in Int
      BY <1>2 DEF Word
    <3>2. reg["HL"] + (-1) = reg["HL"] - 1
      BY <3>1
    <3>3. p = 2 \/ p = 3
      BY <1>1, <1>5
    <3>4. CASE p = 2
      BY <1>2, <2>1, <3>4 DEF Architecture!Moved
    <3>5. CASE p = 3
      BY <1>2, <2>1, <3>2, <3>5 DEF Architecture!Moved
    <3> QED
      BY <3>3, <3>4, <3>5
  <2> QED
    BY <1>3, <2>2, <2>4, <2>5
<1> QED
  BY <1>1, <1>4, <1>5

\* A resumption that writes a byte.
LEMMA WriteSeen ==
  ASSUME NEW r, NEW a, NEW v
  PROVE  Machine(r, ime, BusWrite(a, v), boundary.pc) = Architecture!Poke(Machine(r, ime, ram, boundary.pc), a, v)
BY MachineRam

\* After the first resumption of the handlers of two resumptions.
LEMMA AtLoaded ==
  ASSUME Underway, handler.at = 2,
         Name(handler) \in {"LoadIndirectFrom", "LoadRIndirectRr", "LoadIndirectCFromA", "LoadAFromIndirectC", "LoadReg16Reg16",
                            "IncRR", "DecRR", "MathIndirectHL"}
  PROVE  elapsed = 1 /\ PcPast(reg, 1) /\ Loading(handler, reg, Seen)
BY Course DEF Fetching, Loading, Pushing, Popping, Jumping, Skipping, MakesRoom, TakesOff, ReadByte, ReadWord

\* The end of an instruction that changes no register any more.
LEMMA ProceedsUnchanged ==
  ASSUME Underway, handler.body # <<"RetI">>, NEW k, Return(k, reg, ime), Record,
         NEW n, PcPast(reg, n), NEW d, d = elapsed + 1
  PROVE  Ended /\ Architecture!Proceed(Seen, n, d)
<1>1. reg \in CleanFile
  BY Basics
<1> QED
  BY <1>1, Proceeds DEF Seen

\* LD (rr), A and LD (HL), r: the store, and the move of HL, in the first
\* M-cycle.
LEMMA LoadIndirectFromExecutes ==
  ASSUME Underway, LoadIndirectFrom, Record
  PROVE  Outcome
<1> DEFINE y == Architecture!y
           z == Architecture!z
<1>1. PICK a \in Pair16, s \in Register8, by \in {-1, 0, 1} :
        /\ handler.body = <<"LoadIndirectFrom", a, s, by>>
        /\ \/ YieldWriting(1, reg[a], Value8(Bump(reg, a, by), s), Bump(reg, a, by))
           \/ Return(2, reg, ime)
  BY DEF LoadIndirectFrom, Executing
<1>2. \/ /\ Architecture!x = 0 /\ z = 2 /\ y % 2 = 0 /\ a = PointerOf[Half(y)] /\ s = "A" /\ by = StepOf[Half(y)]
      \/ Architecture!x = 1 /\ y = 6 /\ z # 6 /\ a = "HL" /\ s = N8(z) /\ by = 0
  BY <1>1, DecodedUnderway DEF Decodes, Block0, Block1, Block2, Block3, Even
<1>3. y \in 0 .. 7 /\ z \in 0 .. 7
  BY DecodedUnderway
<1>4. Name(handler) = "LoadIndirectFrom" /\ handler.body # <<"RetI">>
  BY <1>1 DEF Name
<1>5. ASSUME YieldWriting(1, reg[a], Value8(Bump(reg, a, by), s), Bump(reg, a, by))
      PROVE  Outcome
  <2> DEFINE q == Bump(reg, a, by)
             v == Value8(q, s)
             m == BusWrite(reg[a], v)
  <2>1. Suspend(1, 1 + 1, q, ime, m, handler.local) /\ handler.at = 1
    BY <1>5 DEF YieldWriting, Suspend
  <2>2. elapsed = 0 /\ Seen = boundary /\ PcPast(reg, 1)
    BY <2>1, AtFirst
  <2>3. CASE Architecture!x = 0
    <3>1. a = PointerOf[Half(y)] /\ s = "A" /\ by = StepOf[Half(y)]
      BY <1>2, <2>3
    <3>2. boundary.r["A"] = R8("A")
      BY <2>2, SeenParts DEF Register8
    <3> DEFINE n == Machine(reg, ime, m, boundary.pc)
    <3>3. /\ reg[a] = Architecture!Pointer /\ v = boundary.r["A"] /\ q["PC"] = reg["PC"]
          /\ Machine(q, ime, m, boundary.pc) = Architecture!Moved(n)
      <4> HIDE DEF m, y
      <4> QED
        BY <1>3, <2>2, <3>1, <3>2, Pointers DEF y
    <3>4. n = Architecture!Poke(Seen, reg[a], v)
      BY WriteSeen DEF Seen
    <3>5. n = StoreByte(Architecture!Pointer, boundary.r["A"])
      BY <2>2, <3>3, <3>4 DEF StoreByte
    <3> HIDE DEF n, q, m
    <3>6. Machine(q, ime, m, boundary.pc) = StoredIndirect
      BY <2>3, <3>3, <3>5 DEF StoredIndirect
    <3>7. PcPast(q, 1)
      BY <2>2, <3>3 DEF PcPast
    <3>8. Loading(At(1 + 1, handler.local), q, StoredIndirect)
      BY <1>4, <3>7 DEF Loading, At, Name
    <3> QED
      BY <2>1, <2>2, <3>6, <3>8, LoadsOn
  <2>4. CASE Architecture!x # 0
    <3>1. z # 6 /\ a = "HL" /\ s = N8(z) /\ by = 0
      BY <1>2, <2>4
    <3>2. q = reg
      BY <3>1, BumpedByNothing DEF Register16
    <3>3. v = Architecture!Get8(z) /\ reg["HL"] = Architecture!HL(boundary)
      <4>1. N8(z) \in Register8 /\ Architecture!Get8(z) = boundary.r[N8(z)]
        BY <1>3, <3>1, Registers8
      <4>2. boundary.r[N8(z)] = R8(N8(z))
        BY <2>2, <4>1, SeenParts
      <4>3. v = R8(N8(z))
        BY <3>1, <3>2 DEF R8
      <4> QED
        BY <2>2, <4>1, <4>2, <4>3, HLRead
    <3>4. Machine(q, ime, m, boundary.pc) = Architecture!Poke(Seen, reg["HL"], v)
      BY <3>1, <3>2, WriteSeen DEF Seen
    <3> HIDE DEF v, q, m
    <3>5. Machine(q, ime, m, boundary.pc) = StoredIndirect
      BY <2>2, <2>4, <3>3, <3>4 DEF StoredIndirect, StoreByte
    <3>6. Loading(At(1 + 1, handler.local), q, StoredIndirect)
      BY <1>4, <2>2, <3>2 DEF Loading, At, Name
    <3> QED
      BY <2>1, <2>2, <3>5, <3>6, LoadsOn
  <2> QED
    BY <2>3, <2>4
<1>6. ASSUME Return(2, reg, ime)
      PROVE  Outcome
  <2>1. handler.at = 2
    BY <1>6 DEF Return
  <2>2. elapsed = 1 /\ PcPast(reg, 1) /\ Loading(handler, reg, Seen)
    BY <1>4, <2>1, AtLoaded
  <2>3. Seen = StoredIndirect
    BY <1>4, <2>1, <2>2 DEF Loading
  <2>4. Ended /\ Architecture!Proceed(StoredIndirect, 1, 2)
    BY <1>4, <1>6, <2>2, <2>3, ProceedsUnchanged
  <2>5. CASE Architecture!x = 0
    BY <1>2, <2>4, <2>5 DEF Outcome, Architecture!Execute, Architecture!LD_A_indirect, StoredIndirect, StoreByte
  <2>6. CASE Architecture!x # 0
    <3>1. Architecture!Set8(boundary, y, Architecture!Get8(z)) = StoredIndirect
      BY <1>2, <2>6 DEF StoredIndirect, StoreByte, Architecture!Set8
    <3> QED
      BY <1>2, <2>4, <2>6, <3>1 DEF Outcome, Architecture!Execute, Architecture!LD_r_r
  <2> QED
    BY <2>5, <2>6
<1> QED
  BY <1>1, <1>5, <1>6

\* LD A, (rr) and LD r, (HL): the byte is kept across the M-cycle in which
\* HL moves.
LEMMA LoadRIndirectRrExecutes ==
  ASSUME Underway, LoadRIndirectRr, Record
  PROVE  Outcome
<1> DEFINE y == Architecture!y
           z == Architecture!z
<1>1. PICK d \in Register8, a \in Pair16, by \in {-1, 0, 1} :
        /\ handler.body = <<"LoadRIndirectRr", d, a, by>>
        /\ \/ Suspend(1, 2, Bump(reg, a, by), ime, ram, BusRead(reg[a]))
           \/ Return(2, Assign8(reg, d, handler.local), ime)
  BY DEF LoadRIndirectRr, Executing
<1>2. \/ /\ Architecture!x = 0 /\ z = 2 /\ y % 2 # 0 /\ a = PointerOf[Half(y)] /\ d = "A" /\ by = StepOf[Half(y)]
      \/ Architecture!x = 1 /\ y # 6 /\ z = 6 /\ a = "HL" /\ d = N8(y) /\ by = 0
  BY <1>1, DecodedUnderway DEF Decodes, Block0, Block1, Block2, Block3, Even
<1>3. y \in 0 .. 7 /\ z \in 0 .. 7
  BY DecodedUnderway
<1>4. Name(handler) = "LoadRIndirectRr" /\ handler.body # <<"RetI">>
  BY <1>1 DEF Name
<1>5. ASSUME Suspend(1, 2, Bump(reg, a, by), ime, ram, BusRead(reg[a]))
      PROVE  Outcome
  <2> DEFINE q == Bump(reg, a, by)
             v == BusRead(reg[a])
  <2>1. Suspend(1, 1 + 1, q, ime, ram, v) /\ handler.at = 1
    BY <1>5 DEF Suspend
  <2>2. elapsed = 0 /\ Seen = boundary /\ PcPast(reg, 1) /\ boundary.ram = ram
    BY <2>1, AtFirst, SeenParts
  <2>3. a \in Register16
    BY DEF Pair16, Register16
  <2>4. v = Architecture!Peek(reg[a])
    BY <2>2, <2>3, Basics, ReadIsPeek
  <2>5. CASE Architecture!x = 0
    <3>1. a = PointerOf[Half(y)] /\ by = StepOf[Half(y)]
      BY <1>2, <2>5
    <3>2. /\ reg[a] = Architecture!Pointer /\ q["PC"] = reg["PC"]
          /\ Machine(q, ime, ram, boundary.pc) = Architecture!Moved(boundary)
      <4>1. boundary = Machine(reg, ime, ram, boundary.pc)
        BY <2>2 DEF Seen
      <4> QED
        BY <1>3, <2>2, <3>1, <4>1, Pointers
    <3> HIDE DEF v, q
    <3>3. v = LoadedIndirect /\ PcPast(q, 1)
      BY <2>2, <2>4, <2>5, <3>2 DEF LoadedIndirect, PcPast
    <3>4. Loading(At(1 + 1, v), q, Architecture!Moved(boundary))
      BY <1>4, <2>5, <3>3 DEF Loading, At, Name
    <3> QED
      BY <2>1, <2>2, <3>2, <3>4, LoadsOn
  <2>6. CASE Architecture!x # 0
    <3>1. a = "HL" /\ by = 0
      BY <1>2, <2>6
    <3>2. q = reg
      BY <2>3, <3>1, BumpedByNothing
    <3>3. v = LoadedIndirect
      BY <2>2, <2>4, <2>6, <3>1, HLRead DEF LoadedIndirect
    <3>4. Machine(q, ime, ram, boundary.pc) = boundary
      BY <2>2, <3>2 DEF Seen
    <3> HIDE DEF v, q
    <3>5. Loading(At(1 + 1, v), q, boundary)
      BY <1>4, <2>2, <2>6, <3>2, <3>3 DEF Loading, At, Name
    <3> QED
      BY <2>1, <2>2, <3>4, <3>5, LoadsOn
  <2> QED
    BY <2>5, <2>6
<1>6. ASSUME Return(2, Assign8(reg, d, handler.local), ime)
      PROVE  Outcome
  <2>1. handler.at = 2 /\ handler.local \in Byte
    BY <1>6, Basics DEF Return, Coroutine
  <2>2. elapsed = 1 /\ PcPast(reg, 1) /\ Loading(handler, reg, Seen)
    BY <1>4, <2>1, AtLoaded
  <2>3. /\ Seen = IF Architecture!x = 0 THEN Architecture!Moved(boundary) ELSE boundary
        /\ handler.local = LoadedIndirect
    BY <1>4, <2>1, <2>2 DEF Loading
  <2>4. Machine(Assign8(reg, d, handler.local), ime, ram, boundary.pc) = Stored8(Seen, d, LoadedIndirect)
    BY <2>1, <2>3, ByteAssigned
  <2>5. Ended /\ Architecture!Proceed(Stored8(Seen, d, LoadedIndirect), 1, 2)
    BY <1>4, <1>6, <2>1, <2>2, <2>4, ByteAssigned, ProceedsFrom
  <2>6. CASE Architecture!x = 0
    <3>1. Stored8(Seen, d, LoadedIndirect) = Architecture!Moved(Stored8(boundary, "A", LoadedIndirect))
      <4>1. Seen = Architecture!Moved(boundary) /\ d = "A"
        BY <1>2, <2>3, <2>6
      <4>2. boundary \in MachineState
        BY Basics
      <4> QED
        BY <4>1, <4>2, StoreThenMove DEF Architecture!Moved
    <3>2. Architecture!Set8(boundary, 7, LoadedIndirect) = Stored8(boundary, "A", LoadedIndirect)
      BY RegisterNames DEF Architecture!Set8, Stored8
    <3>3. LoadedIndirect = Architecture!Peek(Architecture!Pointer)
      BY <2>6 DEF LoadedIndirect
    <3> QED
      BY <1>2, <2>5, <2>6, <3>1, <3>2, <3>3 DEF Outcome, Architecture!Execute, Architecture!LD_A_indirect
  <2>7. CASE Architecture!x # 0
    <3>1. d = N8(y) /\ y # 6 /\ z = 6 /\ Architecture!x = 1
      BY <1>2, <2>7
    <3>2. Architecture!Get8(z) = LoadedIndirect
      BY <2>7, <3>1 DEF LoadedIndirect, Architecture!Get8
    <3>3. Architecture!Set8(boundary, y, Architecture!Get8(z)) = Stored8(Seen, d, LoadedIndirect)
      BY <1>3, <2>3, <2>7, <3>1, <3>2, Registers8
    <3> QED
      BY <2>5, <3>1, <3>3 DEF Outcome, Architecture!Execute, Architecture!LD_r_r
  <2> QED
    BY <2>6, <2>7
<1> QED
  BY <1>1, <1>5, <1>6

\* A handler that writes a byte and yields.
LEMMA WritesOn ==
  ASSUME Underway, NEW k \in 1 .. 5, elapsed = k - 1, NEW a, NEW v, NEW r, YieldWriting(k, a, v, r), Record,
         NEW s, Machine(r, ime, ram, boundary.pc) = s,
         Loading(At(k + 1, handler.local), r, Architecture!Poke(s, a, v))
  PROVE  Outcome
<1>1. Suspend(k, k + 1, r, ime, BusWrite(a, v), handler.local)
  BY DEF YieldWriting
<1>2. Machine(r, ime, BusWrite(a, v), boundary.pc) = Architecture!Poke(s, a, v)
  BY WriteSeen
<1> QED
  BY <1>1, <1>2, LoadsOn

\* After the resumption that follows the operands.
LEMMA AtLoadedByte ==
  ASSUME Underway, handler.at = 3,
         Name(handler) \in {"LoadIndirectHlN8", "LoadIndirectA8FromA", "LoadAFromIndirectA8", "LoadSPFromHlPlusE8"}
  PROVE  elapsed = 2 /\ PcPast(reg, 2) /\ Loading(handler, reg, Seen)
BY Course DEF Fetching, Loading, Pushing, Popping, Jumping, Skipping, MakesRoom, TakesOff, ReadByte, ReadWord

\* What the course says after the access of LD (a16), A and its kin.
LEMMA AtLoadedWord ==
  ASSUME Underway, \/ handler.at = 4 /\ Name(handler) \in {"LoadIndirectA16FromA", "LoadAFromIndirectA16", "LoadA16SP"}
                   \/ handler.at = 5 /\ Name(handler) = "LoadA16SP"
  PROVE  elapsed = handler.at - 1 /\ PcPast(reg, 3) /\ Loading(handler, reg, Seen)
<1>1. handler.at \in {4, 5} /\ Name(handler) \in {"LoadIndirectA16FromA", "LoadAFromIndirectA16", "LoadA16SP"}
  OBVIOUS
<1>2. ~Fetching(handler, reg, Seen)
  BY <1>1 DEF Fetching
<1>3. ~Pushing(handler, reg, Seen)
  BY <1>1 DEF Pushing
<1>4. ~Popping(handler, reg, Seen)
  BY <1>1 DEF Popping
<1>5. ~Jumping(handler, reg, Seen)
  BY <1>1 DEF Jumping
<1>6. ~Skipping(handler, reg, Seen)
  BY <1>1 DEF Skipping
<1>7. elapsed = handler.at - 1 /\ Loading(handler, reg, Seen)
  BY <1>2, <1>3, <1>4, <1>5, <1>6, Course
<1>8. PcPast(reg, 3)
  BY <1>1, <1>7 DEF Loading
<1> QED
  BY <1>7, <1>8

\* Z holds a byte on its way, which programs do not see.
LEMMA ZAssigned ==
  ASSUME Underway, NEW v \in Byte
  PROVE  /\ Machine(Assign8(reg, "Z", v), ime, ram, boundary.pc) = Seen
         /\ Assign8(reg, "Z", v) \in CleanFile
         /\ Assign8(reg, "Z", v)["PC"] = reg["PC"]
         /\ Value8(Assign8(reg, "Z", v), "Z") = v
<1>1. reg \in CleanFile
  BY Basics
<1>2. "Z" \in Plain8 /\ "PC" \in Register16 /\ "PC" # Whole("Z")
  BY DEF Plain8, Register16, Whole
<1> QED
  BY <1>1, <1>2, Assign8Clean, Assign8Views, MachineInternal DEF Seen

\* Reading a byte into Z.
LEMMA ReadsOn ==
  ASSUME Underway, NEW k \in 1 .. 5, elapsed = k - 1, NEW a \in Word, Yield(k, Assign8(reg, "Z", BusRead(a))), Record,
         Seen = boundary,
         \A r : r["PC"] = reg["PC"] /\ Value8(r, "Z") = Architecture!Peek(a) => Loading(At(k + 1, handler.local), r, boundary)
  PROVE  Outcome
<1> DEFINE v == BusRead(a)
           q == Assign8(reg, "Z", v)
<1>1. boundary.ram = ram
  BY SeenParts
<1>2. v = Architecture!Peek(a) /\ v \in Byte
  BY <1>1, Basics, ReadIsPeek, PeekType
<1>3. Suspend(k, k + 1, q, ime, ram, handler.local)
  BY DEF Yield
<1> HIDE DEF v
<1>4. Machine(q, ime, ram, boundary.pc) = boundary /\ q["PC"] = reg["PC"] /\ Value8(q, "Z") = v
  BY <1>2, ZAssigned
<1> HIDE DEF q
<1>5. Loading(At(k + 1, handler.local), q, boundary)
  BY <1>2, <1>4
<1> QED
  BY <1>3, <1>4, <1>5, LoadsOn

\* LD (HL), n.
LEMMA LoadIndirectHlN8Executes ==
  ASSUME Underway, LoadIndirectHlN8, Record
  PROVE  Outcome
<1> DEFINE n == Architecture!imm8
<1>1. /\ handler.body = <<"LoadIndirectHlN8">>
      /\ \/ Operand(1, "Z")
         \/ YieldWriting(2, reg["HL"], R8("Z"), reg)
         \/ Return(3, reg, ime)
  BY DEF LoadIndirectHlN8, Executing
<1>2. Name(handler) = "LoadIndirectHlN8" /\ Name(handler) \in ReadByte /\ handler.body # <<"RetI">>
  BY <1>1 DEF Name, ReadByte
<1>3. Architecture!x = 0 /\ Architecture!y = 6 /\ Architecture!z = 6
  BY <1>1, DecodedUnderway DEF Decodes, Block0, Block1, Block2, Block3
<1>4. CASE Operand(1, "Z")
  BY <1>2, <1>4, OperandZ
<1>5. CASE YieldWriting(2, reg["HL"], R8("Z"), reg)
  <2>1. handler.at = 2
    BY <1>5 DEF YieldWriting, Suspend
  <2>2. elapsed = 1 /\ Seen = boundary /\ PcPast(reg, 2) /\ R8("Z") = n
    BY <1>2, <2>1, AtSecond
  <2>3. reg["HL"] = Architecture!HL(boundary)
    BY <2>2, HLRead
  <2>4. Loading(At(2 + 1, handler.local), reg, Architecture!Poke(boundary, reg["HL"], R8("Z")))
    BY <1>2, <2>2, <2>3 DEF Loading, At, Name, StoreByte
  <2> QED
    BY <1>5, <2>2, <2>4, WritesOn DEF Seen
<1>6. CASE Return(3, reg, ime)
  <2>1. handler.at = 3
    BY <1>6 DEF Return
  <2>2. elapsed = 2 /\ PcPast(reg, 2) /\ Loading(handler, reg, Seen)
    BY <1>2, <2>1, AtLoadedByte
  <2>3. Seen = Architecture!Poke(boundary, Architecture!HL(boundary), n)
    BY <1>2, <2>1, <2>2 DEF Loading, StoreByte
  <2>4. Ended /\ Architecture!Proceed(Seen, 2, 3)
    BY <1>2, <1>6, <2>2, ProceedsUnchanged
  <2>5. Architecture!Set8(boundary, Architecture!y, n) = Seen
    BY <1>3, <2>3 DEF Architecture!Set8
  <2> QED
    BY <1>3, <2>4, <2>5 DEF Outcome, Architecture!Execute, Architecture!LD_r_n
<1> QED
  BY <1>1, <1>4, <1>5, <1>6

\* The addresses FF00 + n are words.
LEMMA HighPageType ==
  ASSUME NEW n \in Byte
  PROVE  HighPage(n) \in Word /\ HighPage(n) = \hFF00 + n
BY DEF HighPage, Word, Byte

\* LDH (a8), A.
LEMMA LoadIndirectA8FromAExecutes ==
  ASSUME Underway, LoadIndirectA8FromA, Record
  PROVE  Outcome
<1> DEFINE n == Architecture!imm8
           v == boundary.r["A"]
<1>1. /\ handler.body = <<"LoadIndirectA8FromA">>
      /\ \/ Operand(1, "Z")
         \/ YieldWriting(2, HighPage(R8("Z")), R8("A"), reg)
         \/ Return(3, reg, ime)
  BY DEF LoadIndirectA8FromA, Executing
<1>2. Name(handler) = "LoadIndirectA8FromA" /\ Name(handler) \in ReadByte /\ handler.body # <<"RetI">>
  BY <1>1 DEF Name, ReadByte
<1>3. Architecture!opcode = \hE0
  BY <1>1, DecodedUnderway DEF Decodes, Block0, Block1, Block2, Block3
<1>4. CASE Operand(1, "Z")
  BY <1>2, <1>4, OperandZ
<1>5. CASE YieldWriting(2, HighPage(R8("Z")), R8("A"), reg)
  <2>1. handler.at = 2
    BY <1>5 DEF YieldWriting, Suspend
  <2>2. elapsed = 1 /\ Seen = boundary /\ PcPast(reg, 2) /\ R8("Z") = n
    BY <1>2, <2>1, AtSecond
  <2>3. R8("A") = v
    BY <2>2, SeenParts DEF Register8
  <2>4. Loading(At(2 + 1, handler.local), reg, Architecture!Poke(boundary, HighPage(R8("Z")), R8("A")))
    BY <1>2, <2>2, <2>3 DEF Loading, At, Name, StoreByte
  <2> QED
    BY <1>5, <2>2, <2>4, WritesOn DEF Seen
<1>6. CASE Return(3, reg, ime)
  <2>1. handler.at = 3
    BY <1>6 DEF Return
  <2>2. elapsed = 2 /\ PcPast(reg, 2) /\ Loading(handler, reg, Seen)
    BY <1>2, <2>1, AtLoadedByte
  <2>3. Seen = Architecture!Poke(boundary, \hFF00 + n, v)
    BY <1>2, <2>1, <2>2, Basics, OperandTypes, HighPageType DEF Loading, StoreByte
  <2>4. Ended /\ Architecture!Proceed(Seen, 2, 3)
    BY <1>2, <1>6, <2>2, ProceedsUnchanged
  <2> QED
    BY <1>3, <2>3, <2>4 DEF Outcome, Architecture!Execute, Architecture!LD_A_direct, Architecture!StoreA
<1> QED
  BY <1>1, <1>4, <1>5, <1>6

\* LD (a16), A.
LEMMA LoadIndirectA16FromAExecutes ==
  ASSUME Underway, LoadIndirectA16FromA, Record
  PROVE  Outcome
<1> DEFINE w == Architecture!imm16
           v == boundary.r["A"]
<1>1. /\ handler.body = <<"LoadIndirectA16FromA">>
      /\ \/ Operand(1, "Z")
         \/ Operand(2, "W")
         \/ YieldWriting(3, reg["WZ"], R8("A"), reg)
         \/ Return(4, reg, ime)
  BY DEF LoadIndirectA16FromA, Executing
<1>2. Name(handler) = "LoadIndirectA16FromA" /\ Name(handler) \in ReadByte /\ Name(handler) \in ReadWord /\ handler.body # <<"RetI">>
  BY <1>1 DEF Name, ReadByte, ReadWord
<1>3. Architecture!opcode = \hEA
  BY <1>1, DecodedUnderway DEF Decodes, Block0, Block1, Block2, Block3
<1>4. CASE Operand(1, "Z")
  BY <1>2, <1>4, OperandZ
<1>5. CASE Operand(2, "W")
  BY <1>2, <1>5, OperandW
<1>6. CASE YieldWriting(3, reg["WZ"], R8("A"), reg)
  <2>1. handler.at = 3
    BY <1>6 DEF YieldWriting, Suspend
  <2>2. elapsed = 2 /\ Seen = boundary /\ PcPast(reg, 3) /\ reg["WZ"] = w
    BY <1>2, <2>1, AtThird
  <2>3. R8("A") = v
    BY <2>2, SeenParts DEF Register8
  <2>4. Loading(At(3 + 1, handler.local), reg, Architecture!Poke(boundary, reg["WZ"], R8("A")))
    BY <1>2, <2>2, <2>3 DEF Loading, At, Name, StoreByte
  <2> QED
    BY <1>6, <2>2, <2>4, WritesOn DEF Seen
<1>7. CASE Return(4, reg, ime)
  <2>1. handler.at = 4
    BY <1>7 DEF Return
  <2>2. elapsed = 3 /\ PcPast(reg, 3) /\ Loading(handler, reg, Seen)
    BY <1>2, <2>1, AtLoadedWord
  <2>3. Seen = Architecture!Poke(boundary, w, v)
    BY <1>2, <2>1, <2>2 DEF Loading, StoreByte
  <2>4. Ended /\ Architecture!Proceed(Seen, 3, 4)
    BY <1>2, <1>7, <2>2, ProceedsUnchanged
  <2> QED
    BY <1>3, <2>3, <2>4 DEF Outcome, Architecture!Execute, Architecture!LD_A_direct, Architecture!StoreA
<1> QED
  BY <1>1, <1>4, <1>5, <1>6, <1>7

\* LD (C), A.
LEMMA LoadIndirectCFromAExecutes ==
  ASSUME Underway, LoadIndirectCFromA, Record
  PROVE  Outcome
<1> DEFINE n == boundary.r["C"]
           v == boundary.r["A"]
<1>1. /\ handler.body = <<"LoadIndirectCFromA">>
      /\ \/ YieldWriting(1, HighPage(R8("C")), R8("A"), reg)
         \/ Return(2, reg, ime)
  BY DEF LoadIndirectCFromA, Executing
<1>2. Name(handler) = "LoadIndirectCFromA" /\ handler.body # <<"RetI">>
  BY <1>1 DEF Name
<1>3. Architecture!opcode = \hE2
  BY <1>1, DecodedUnderway DEF Decodes, Block0, Block1, Block2, Block3
<1>4. CASE YieldWriting(1, HighPage(R8("C")), R8("A"), reg)
  <2>1. handler.at = 1
    BY <1>4 DEF YieldWriting, Suspend
  <2>2. elapsed = 0 /\ Seen = boundary /\ PcPast(reg, 1)
    BY <2>1, AtFirst
  <2>3. R8("A") = v /\ R8("C") = n
    BY <2>2, SeenParts DEF Register8
  <2>4. Loading(At(1 + 1, handler.local), reg, Architecture!Poke(boundary, HighPage(R8("C")), R8("A")))
    BY <1>2, <2>2, <2>3 DEF Loading, At, Name, StoreByte
  <2> QED
    BY <1>4, <2>2, <2>4, WritesOn DEF Seen
<1>5. CASE Return(2, reg, ime)
  <2>1. handler.at = 2
    BY <1>5 DEF Return
  <2>2. elapsed = 1 /\ PcPast(reg, 1) /\ Loading(handler, reg, Seen)
    BY <1>2, <2>1, AtLoaded
  <2>3. n \in Byte
    BY Basics DEF MachineState, Register8
  <2>4. Seen = Architecture!Poke(boundary, \hFF00 + n, v)
    BY <1>2, <2>1, <2>2, <2>3, HighPageType DEF Loading, StoreByte
  <2>5. Ended /\ Architecture!Proceed(Seen, 1, 2)
    BY <1>2, <1>5, <2>2, ProceedsUnchanged
  <2> QED
    BY <1>3, <2>4, <2>5 DEF Outcome, Architecture!Execute, Architecture!LD_A_direct, Architecture!StoreA
<1> QED
  BY <1>1, <1>4, <1>5

\* A is register number 7.
LEMMA StoredInA ==
  ASSUME NEW s, NEW v
  PROVE  Architecture!Set8(s, 7, v) = Stored8(s, "A", v)
BY RegisterNames DEF Architecture!Set8, Stored8

\* LDH A, (a8).
LEMMA LoadAFromIndirectA8Executes ==
  ASSUME Underway, LoadAFromIndirectA8, Record
  PROVE  Outcome
<1> DEFINE n == Architecture!imm8
           v == Architecture!Peek(HighPage(n))
<1>1. /\ handler.body = <<"LoadAFromIndirectA8">>
      /\ \/ Operand(1, "Z")
         \/ Yield(2, Assign8(reg, "Z", BusRead(HighPage(R8("Z")))))
         \/ Return(3, Assign8(reg, "A", R8("Z")), ime)
  BY DEF LoadAFromIndirectA8, Executing
<1>2. Name(handler) = "LoadAFromIndirectA8" /\ Name(handler) \in ReadByte /\ handler.body # <<"RetI">>
  BY <1>1 DEF Name, ReadByte
<1>3. Architecture!opcode = \hF0
  BY <1>1, DecodedUnderway DEF Decodes, Block0, Block1, Block2, Block3
<1>4. n \in Byte /\ HighPage(n) \in Word /\ HighPage(n) = \hFF00 + n
  BY Basics, OperandTypes, HighPageType
<1>5. CASE Operand(1, "Z")
  BY <1>2, <1>5, OperandZ
<1>6. CASE Yield(2, Assign8(reg, "Z", BusRead(HighPage(R8("Z")))))
  <2>1. handler.at = 2
    BY <1>6 DEF Yield, Suspend
  <2>2. elapsed = 1 /\ Seen = boundary /\ PcPast(reg, 2) /\ R8("Z") = n
    BY <1>2, <2>1, AtSecond
  <2>3. ASSUME NEW r, r["PC"] = reg["PC"], Value8(r, "Z") = v
        PROVE  Loading(At(2 + 1, handler.local), r, boundary)
    BY <1>2, <2>2, <2>3 DEF Loading, At, Name, PcPast
  <2> HIDE DEF n
  <2> QED
    BY <1>4, <1>6, <2>2, <2>3, ReadsOn
<1>7. CASE Return(3, Assign8(reg, "A", R8("Z")), ime)
  <2>1. handler.at = 3
    BY <1>7 DEF Return
  <2>2. elapsed = 2 /\ PcPast(reg, 2) /\ Loading(handler, reg, Seen)
    BY <1>2, <2>1, AtLoadedByte
  <2>3. Seen = boundary /\ R8("Z") = v
    BY <1>2, <2>1, <2>2 DEF Loading, R8
  <2> HIDE DEF v
  <2>4. /\ Machine(Assign8(reg, "A", R8("Z")), ime, ram, boundary.pc) = Stored8(boundary, "A", v)
        /\ Assign8(reg, "A", R8("Z")) \in CleanFile /\ Assign8(reg, "A", R8("Z"))["PC"] = reg["PC"]
    BY <2>3, Basics, ByteAssigned DEF Register8
  <2>5. Ended /\ Architecture!Proceed(Architecture!Set8(boundary, 7, v), 2, 3)
    BY <1>2, <1>7, <2>2, <2>4, StoredInA, ProceedsFrom
  <2> QED
    BY <1>3, <1>4, <2>5 DEF Outcome, Architecture!Execute, Architecture!LD_A_direct, Architecture!LoadA, v
<1> QED
  BY <1>1, <1>5, <1>6, <1>7

\* LD A, (a16).
LEMMA LoadAFromIndirectA16Executes ==
  ASSUME Underway, LoadAFromIndirectA16, Record
  PROVE  Outcome
<1> DEFINE w == Architecture!imm16
           v == Architecture!Peek(w)
<1>1. /\ handler.body = <<"LoadAFromIndirectA16">>
      /\ \/ Operand(1, "Z")
         \/ Operand(2, "W")
         \/ Yield(3, Assign8(reg, "Z", BusRead(reg["WZ"])))
         \/ Return(4, Assign8(reg, "A", R8("Z")), ime)
  BY DEF LoadAFromIndirectA16, Executing
<1>2. Name(handler) = "LoadAFromIndirectA16" /\ Name(handler) \in ReadByte /\ Name(handler) \in ReadWord /\ handler.body # <<"RetI">>
  BY <1>1 DEF Name, ReadByte, ReadWord
<1>3. Architecture!opcode = \hFA
  BY <1>1, DecodedUnderway DEF Decodes, Block0, Block1, Block2, Block3
<1>4. w \in Word
  BY Basics, OperandTypes
<1>5. CASE Operand(1, "Z")
  BY <1>2, <1>5, OperandZ
<1>6. CASE Operand(2, "W")
  BY <1>2, <1>6, OperandW
<1>7. CASE Yield(3, Assign8(reg, "Z", BusRead(reg["WZ"])))
  <2>1. handler.at = 3
    BY <1>7 DEF Yield, Suspend
  <2>2. elapsed = 2 /\ Seen = boundary /\ PcPast(reg, 3) /\ reg["WZ"] = w
    BY <1>2, <2>1, AtThird
  <2>3. ASSUME NEW r, r["PC"] = reg["PC"], Value8(r, "Z") = v
        PROVE  Loading(At(3 + 1, handler.local), r, boundary)
    BY <1>2, <2>2, <2>3 DEF Loading, At, Name, PcPast
  <2> HIDE DEF w
  <2> QED
    BY <1>4, <1>7, <2>2, <2>3, ReadsOn
<1>8. CASE Return(4, Assign8(reg, "A", R8("Z")), ime)
  <2>1. handler.at = 4
    BY <1>8 DEF Return
  <2>2. elapsed = 3 /\ PcPast(reg, 3) /\ Loading(handler, reg, Seen)
    BY <1>2, <2>1, AtLoadedWord
  <2>3. Seen = boundary /\ R8("Z") = v
    BY <1>2, <2>1, <2>2 DEF Loading, R8
  <2> HIDE DEF v
  <2>4. /\ Machine(Assign8(reg, "A", R8("Z")), ime, ram, boundary.pc) = Stored8(boundary, "A", v)
        /\ Assign8(reg, "A", R8("Z")) \in CleanFile /\ Assign8(reg, "A", R8("Z"))["PC"] = reg["PC"]
    BY <2>3, Basics, ByteAssigned DEF Register8
  <2>5. Ended /\ Architecture!Proceed(Architecture!Set8(boundary, 7, v), 3, 4)
    BY <1>2, <1>8, <2>2, <2>4, StoredInA, ProceedsFrom
  <2> QED
    BY <1>3, <2>5 DEF Outcome, Architecture!Execute, Architecture!LD_A_direct, Architecture!LoadA, v
<1> QED
  BY <1>1, <1>5, <1>6, <1>7, <1>8

\* LD A, (C).
LEMMA LoadAFromIndirectCExecutes ==
  ASSUME Underway, LoadAFromIndirectC, Record
  PROVE  Outcome
<1> DEFINE n == boundary.r["C"]
           v == Architecture!Peek(HighPage(n))
<1>1. /\ handler.body = <<"LoadAFromIndirectC">>
      /\ \/ Yield(1, Assign8(reg, "A", BusRead(HighPage(R8("C")))))
         \/ Return(2, reg, ime)
  BY DEF LoadAFromIndirectC, Executing
<1>2. Name(handler) = "LoadAFromIndirectC" /\ handler.body # <<"RetI">>
  BY <1>1 DEF Name
<1>3. Architecture!opcode = \hF2
  BY <1>1, DecodedUnderway DEF Decodes, Block0, Block1, Block2, Block3
<1>4. n \in Byte /\ HighPage(n) \in Word /\ HighPage(n) = \hFF00 + n
  BY Basics, HighPageType DEF MachineState, Register8
<1>5. CASE Yield(1, Assign8(reg, "A", BusRead(HighPage(R8("C")))))
  <2> DEFINE q == Assign8(reg, "A", BusRead(HighPage(R8("C"))))
  <2>1. Suspend(1, 1 + 1, q, ime, ram, handler.local) /\ handler.at = 1
    BY <1>5 DEF Yield, Suspend
  <2>2. elapsed = 0 /\ Seen = boundary /\ PcPast(reg, 1)
    BY <2>1, AtFirst
  <2>3. R8("C") = n /\ boundary.ram = ram
    BY <2>2, SeenParts DEF Register8
  <2>4. BusRead(HighPage(R8("C"))) = v
    <3> HIDE DEF n
    <3> QED
      BY <1>4, <2>3, Basics, ReadIsPeek
  <2>5. v \in Byte
    BY Basics, PeekType
  <2> HIDE DEF v
  <2>6. Machine(q, ime, ram, boundary.pc) = Stored8(boundary, "A", v) /\ q["PC"] = reg["PC"]
    BY <2>2, <2>4, <2>5, ByteAssigned DEF Register8
  <2> HIDE DEF q
  <2>7. Loading(At(1 + 1, handler.local), q, Stored8(boundary, "A", v))
    BY <1>2, <2>2, <2>6 DEF Loading, At, Name, PcPast, Stored8, v
  <2> QED
    BY <2>1, <2>2, <2>6, <2>7, LoadsOn
<1>6. CASE Return(2, reg, ime)
  <2>1. handler.at = 2
    BY <1>6 DEF Return
  <2>2. elapsed = 1 /\ PcPast(reg, 1) /\ Loading(handler, reg, Seen)
    BY <1>2, <2>1, AtLoaded
  <2>3. Seen = Stored8(boundary, "A", v)
    BY <1>2, <2>1, <2>2 DEF Loading, Stored8
  <2>4. Ended /\ Architecture!Proceed(Architecture!Set8(boundary, 7, v), 1, 2)
    <3> HIDE DEF v
    <3> QED
      BY <1>2, <1>6, <2>2, <2>3, StoredInA, ProceedsUnchanged
  <2> QED
    BY <1>3, <1>4, <2>4 DEF Outcome, Architecture!Execute, Architecture!LD_A_direct, Architecture!LoadA
<1> QED
  BY <1>1, <1>5, <1>6

\* LD SP, HL.
LEMMA LoadReg16Reg16Executes ==
  ASSUME Underway, LoadReg16Reg16, Record
  PROVE  Outcome
<1> DEFINE w == Architecture!HL(boundary)
           t == [boundary EXCEPT !.sp = w]
<1>1. PICK d, s \in Pair16 :
        /\ handler.body = <<"LoadReg16Reg16", d, s>>
        /\ \/ Yield(1, Assign16(reg, d, reg[s]))
           \/ Return(2, reg, ime)
  BY DEF LoadReg16Reg16, Executing
<1>2. Name(handler) = "LoadReg16Reg16" /\ handler.body # <<"RetI">>
  BY <1>1 DEF Name
<1>3. Architecture!opcode = \hF9 /\ d = "SP" /\ s = "HL"
  BY <1>1, DecodedUnderway DEF Decodes, Block0, Block1, Block2, Block3
<1>4. CASE Yield(1, Assign16(reg, d, reg[s]))
  <2> DEFINE q == Assign16(reg, "SP", w)
  <2>1. handler.at = 1
    BY <1>4 DEF Yield, Suspend
  <2>2. elapsed = 0 /\ Seen = boundary /\ PcPast(reg, 1)
    BY <2>1, AtFirst
  <2>3. reg \in CleanFile /\ w \in Word /\ reg["HL"] = w
    BY <2>2, Basics, HLRead DEF Register16
  <2>4. Suspend(1, 1 + 1, q, ime, ram, handler.local)
    BY <1>3, <1>4, <2>3 DEF Yield
  <2> HIDE DEF w
  <2>5. Machine(q, ime, ram, boundary.pc) = t
    BY <2>2, <2>3, MachineSP DEF Seen
  <2>6. q["PC"] = reg["PC"]
    BY <2>3, Assign16Kept DEF Register16
  <2> HIDE DEF q
  <2>7. Loading(At(1 + 1, handler.local), q, t)
    BY <1>2, <2>2, <2>6 DEF Loading, At, Name, PcPast, w
  <2> HIDE DEF t
  <2> QED
    BY <2>2, <2>4, <2>5, <2>7, LoadsOn
<1>5. CASE Return(2, reg, ime)
  <2>1. handler.at = 2
    BY <1>5 DEF Return
  <2>2. elapsed = 1 /\ PcPast(reg, 1) /\ Loading(handler, reg, Seen)
    BY <1>2, <2>1, AtLoaded
  <2>3. Seen = t
    BY <1>2, <2>1, <2>2 DEF Loading
  <2>4. Ended /\ Architecture!Proceed(t, 1, 2)
    BY <1>2, <1>5, <2>2, <2>3, ProceedsUnchanged
  <2> QED
    BY <1>3, <2>4 DEF Outcome, Architecture!Execute, Architecture!LD_SP_HL
<1> QED
  BY <1>1, <1>4, <1>5

\* LD HL, SP+e8, in its two halves.
LEMMA LoadSPFromHlPlusE8Executes ==
  ASSUME Underway, LoadSPFromHlPlusE8, Record
  PROVE  Outcome
<1> DEFINE n == Architecture!imm8
           sum  == AddWithCarry(Low(reg["SP"]), R8("Z"))
           sign == And(\h80, R8("Z"))
           low  == Assign8(Assign8(reg, "L", sum.result), "F", FromBits(HalfCarryFlag(sum) \cup CarryFlag(sum)))
           high == Assign8(reg, "H", (High(reg["SP"]) + (IF handler.local > 0 THEN \hFF ELSE 0)
                                        + (IF CarryIn(reg) THEN 1 ELSE 0)) % 256)
<1>1. /\ handler.body = <<"LoadSPFromHlPlusE8">>
      /\ \/ Operand(1, "Z")
         \/ Suspend(2, 3, low, ime, ram, sign)
         \/ Return(3, high, ime)
  BY DEF LoadSPFromHlPlusE8, Executing
<1>2. Name(handler) = "LoadSPFromHlPlusE8" /\ Name(handler) \in ReadByte /\ handler.body # <<"RetI">>
  BY <1>1 DEF Name, ReadByte
<1>3. Architecture!opcode = \hF8
  BY <1>1, DecodedUnderway DEF Decodes, Block0, Block1, Block2, Block3
<1>4. reg \in CleanFile /\ n \in Byte /\ boundary \in MachineState
  BY Basics, OperandTypes
<1>5. CASE Operand(1, "Z")
  BY <1>2, <1>5, OperandZ
<1>6. CASE Suspend(2, 3, low, ime, ram, sign)
  <2>1. handler.at = 2
    BY <1>6 DEF Suspend
  <2>2. elapsed = 1 /\ Seen = boundary /\ PcPast(reg, 2) /\ R8("Z") = n
    BY <1>2, <2>1, AtSecond
  <2> HIDE DEF sum
  <2>3. Machine(low, ime, ram, boundary.pc) = LowByteAdded /\ low["PC"] = reg["PC"]
    BY <1>4, <2>2, LowByteStep DEF Seen, sum
  <2>4. sign > 0 <=> n >= 128
    BY <1>4, <2>2, SignBit
  <2> HIDE DEF low, sign
  <2>5. Loading(At(2 + 1, sign), low, LowByteAdded)
    BY <1>2, <2>2, <2>3, <2>4 DEF Loading, At, Name, PcPast
  <2>6. Suspend(2, 2 + 1, low, ime, ram, sign)
    BY <1>6
  <2> QED
    BY <2>2, <2>3, <2>5, <2>6, LoadsOn
<1>7. CASE Return(3, high, ime)
  <2>1. handler.at = 3
    BY <1>7 DEF Return
  <2>2. elapsed = 2 /\ PcPast(reg, 2) /\ Loading(handler, reg, Seen)
    BY <1>2, <2>1, AtLoadedByte
  <2>3. Seen = LowByteAdded /\ (handler.local > 0 <=> n >= 128)
    BY <1>2, <2>1, <2>2 DEF Loading
  <2> DEFINE s == Flagged(Architecture!Set16(boundary, 2, boundary.sp + Architecture!Signed(n)), DisplacedFlags(boundary.sp, n))
  <2>4. Machine(high, ime, ram, boundary.pc) = s /\ high \in CleanFile /\ high["PC"] = reg["PC"]
    BY <1>4, <2>3, HighByteStep DEF Seen
  <2> HIDE DEF high, s
  <2>5. Ended /\ Architecture!Proceed(s, 2, 3)
    BY <1>2, <1>7, <2>2, <2>4, ProceedsFrom
  <2> QED
    BY <1>3, <2>5 DEF Outcome, Architecture!Execute, Architecture!LD_HL_SP_e, s, Flagged, DisplacedFlags
<1> QED
  BY <1>1, <1>5, <1>6, <1>7

\* A write to memory changes memory alone.
LEMMA PokeRest ==
  ASSUME NEW s \in MachineState, NEW a, NEW v
  PROVE  /\ Architecture!Poke(s, a, v).sp = s.sp /\ Architecture!Poke(s, a, v).pc = s.pc
         /\ Architecture!Poke(s, a, v).r = s.r /\ Architecture!Poke(s, a, v).flags = s.flags
BY DEF Architecture!Poke, MachineState

\* LD (a16), SP: two stores, with WZ counting up between them.
LEMMA LoadA16SPExecutes ==
  ASSUME Underway, LoadA16SP, Record
  PROVE  Outcome
<1> DEFINE a == Architecture!imm16
           b == (a + 1) % 65536
           first == StoreByte(a, Low(boundary.sp))
           both  == Architecture!Poke16(boundary, a, boundary.sp)
<1>1. /\ handler.body = <<"LoadA16SP">>
      /\ \/ Operand(1, "Z")
         \/ Operand(2, "W")
         \/ YieldWriting(3, reg["WZ"], Low(reg["SP"]), Bump(reg, "WZ", 1))
         \/ YieldWriting(4, reg["WZ"], High(reg["SP"]), reg)
         \/ Return(5, reg, ime)
  BY DEF LoadA16SP, Executing
<1>2. Name(handler) = "LoadA16SP" /\ Name(handler) \in ReadByte /\ Name(handler) \in ReadWord /\ handler.body # <<"RetI">>
  BY <1>1 DEF Name, ReadByte, ReadWord
<1>3. Architecture!opcode = \h08
  BY <1>1, DecodedUnderway DEF Decodes, Block0, Block1, Block2, Block3
<1>4. boundary \in MachineState /\ a \in Word /\ reg \in CleanFile
  BY Basics, OperandTypes
<1>5. CASE Operand(1, "Z")
  BY <1>2, <1>5, OperandZ
<1>6. CASE Operand(2, "W")
  BY <1>2, <1>6, OperandW
<1>7. CASE YieldWriting(3, reg["WZ"], Low(reg["SP"]), Bump(reg, "WZ", 1))
  <2> DEFINE q == Bump(reg, "WZ", 1)
  <2>1. handler.at = 3
    BY <1>7 DEF YieldWriting, Suspend
  <2>2. elapsed = 2 /\ Seen = boundary /\ PcPast(reg, 3) /\ reg["WZ"] = a
    BY <1>2, <2>1, AtThird
  <2>3. reg["SP"] = boundary.sp
    BY <2>2, SeenParts
  <2>4. q["PC"] = reg["PC"] /\ q["WZ"] = b
    <3>1. reg \in [Register16 -> Word]
      BY <1>4 DEF CleanFile, RegisterFile
    <3> QED
      BY <2>2, <3>1 DEF Bump, Register16
  <2>5. Machine(q, ime, ram, boundary.pc) = boundary
    BY <1>4, <2>2, MachineInternal DEF Seen
  <2> HIDE DEF q
  <2>6. Loading(At(3 + 1, handler.local), q, Architecture!Poke(boundary, reg["WZ"], Low(reg["SP"])))
    BY <1>2, <2>2, <2>3, <2>4 DEF Loading, At, Name, PcPast, StoreByte
  <2> QED
    BY <1>7, <2>2, <2>5, <2>6, WritesOn DEF q
<1>8. CASE YieldWriting(4, reg["WZ"], High(reg["SP"]), reg)
  <2>1. handler.at = 4
    BY <1>8 DEF YieldWriting, Suspend
  <2>2. elapsed = 3 /\ PcPast(reg, 3) /\ Loading(handler, reg, Seen)
    BY <1>2, <2>1, AtLoadedWord
  <2>3. Seen = first /\ reg["WZ"] = b
    BY <1>2, <2>1, <2>2 DEF Loading
  <2>4. reg["SP"] = boundary.sp
    BY <1>4, <2>3, SeenParts, PokeRest DEF StoreByte
  <2>5. Architecture!Poke(first, reg["WZ"], High(reg["SP"])) = both
    <3>1. a # b
      BY <1>4 DEF Word
    <3> HIDE DEF a, b
    <3> QED
      BY <1>4, <2>3, <2>4, <3>1, PokesCommute DEF Architecture!Poke16, StoreByte, Low, High, b
  <2> HIDE DEF first, both
  <2>6. Loading(At(4 + 1, handler.local), reg, both)
    BY <1>2, <2>2 DEF Loading, At, Name, both
  <2>7. Machine(reg, ime, ram, boundary.pc) = first
    BY <2>3 DEF Seen
  <2> QED
    BY <1>8, <2>2, <2>5, <2>6, <2>7, WritesOn
<1>9. CASE Return(5, reg, ime)
  <2>1. handler.at = 5
    BY <1>9 DEF Return
  <2>2. elapsed = 4 /\ PcPast(reg, 3) /\ Loading(handler, reg, Seen)
    BY <1>2, <2>1, AtLoadedWord
  <2>3. Seen = both
    BY <1>2, <2>1, <2>2 DEF Loading
  <2>4. Ended /\ Architecture!Proceed(both, 3, 5)
    BY <1>2, <1>9, <2>2, <2>3, ProceedsUnchanged
  <2> QED
    BY <1>3, <2>4 DEF Outcome, Architecture!Execute, Architecture!LD_nn_SP
<1> QED
  BY <1>1, <1>5, <1>6, <1>7, <1>8, <1>9

-----------------------------------------------------------------------------
(* Arithmetic and logic *)

\* The eight operations on a register.
LEMMA MathOperandRExecutes ==
  ASSUME Underway, MathOperandR, Record
  PROVE  Outcome
<1> DEFINE y == Architecture!y
           z == Architecture!z
<1>1. PICK o \in MathOperation, s \in Register8 :
        handler.body = <<"MathOperandR", o, s>> /\ Return(1, Math(reg, o, R8(s), Sink(o)), ime)
  BY DEF MathOperandR, Executing
<1>2. handler.at = 1 /\ handler.body # <<"RetI">> /\ R8(s) \in Byte
  BY <1>1, Basics DEF Return
<1>3. elapsed = 0 /\ Seen = boundary /\ PcPast(reg, 1)
  BY <1>2, AtFirst
<1>4. Architecture!x = 2 /\ z # 6 /\ o = OperationOf[y + 1] /\ s = N8(z) /\ z \in 0 .. 7
  BY <1>1, DecodedUnderway DEF Decodes, Block0, Block1, Block2, Block3
<1>5. R8(s) = Architecture!Get8(z)
  BY <1>3, <1>4, SeenParts, Registers8
<1> DEFINE v == R8(s)
           q == Math(reg, o, v, Sink(o))
<1>6. Machine(q, ime, ram, boundary.pc) = Architecture!Alu(v) /\ q \in CleanFile /\ q["PC"] = reg["PC"]
  <2> HIDE DEF v, y
  <2> QED
    BY <1>2, <1>3, <1>4, Basics, MathIsAlu DEF Seen, v, y
<1> HIDE DEF q
<1>7. Ended /\ Architecture!Proceed(Architecture!Alu(v), 1, 1)
  BY <1>1, <1>2, <1>3, <1>6, ProceedsFrom DEF q
<1> QED
  BY <1>4, <1>5, <1>7 DEF Outcome, Architecture!Execute, Architecture!ALU_r

\* The eight operations on an operand.
LEMMA MathN8Executes ==
  ASSUME Underway, MathN8, Record
  PROVE  Outcome
<1> DEFINE y == Architecture!y
           v == R8("Z")
<1>1. PICK o \in MathOperation : /\ handler.body = <<"MathN8", o>>
                                 /\ Operand(1, "Z") \/ Return(2, Math(reg, o, R8("Z"), Sink(o)), ime)
  BY DEF MathN8, Executing
<1>2. Name(handler) \in ReadByte /\ handler.body # <<"RetI">>
  BY <1>1 DEF Name, ReadByte
<1>3. Architecture!x = 3 /\ Architecture!z = 6 /\ o = OperationOf[y + 1]
  BY <1>1, DecodedUnderway DEF Decodes, Block0, Block1, Block2, Block3
<1>4. CASE Operand(1, "Z")
  BY <1>2, <1>4, OperandZ
<1>5. CASE Return(2, Math(reg, o, R8("Z"), Sink(o)), ime)
  <2> DEFINE q == Math(reg, o, v, Sink(o))
  <2>1. handler.at = 2 /\ v \in Byte
    BY <1>5, Basics DEF Return
  <2>2. elapsed = 1 /\ Seen = boundary /\ PcPast(reg, 2) /\ v = Architecture!imm8
    BY <1>2, <2>1, AtSecond
  <2>3. Machine(q, ime, ram, boundary.pc) = Architecture!Alu(v) /\ q \in CleanFile /\ q["PC"] = reg["PC"]
    <3> HIDE DEF v, y
    <3> QED
      BY <1>3, <2>1, <2>2, Basics, MathIsAlu DEF Seen, v, y
  <2> HIDE DEF q
  <2>4. Ended /\ Architecture!Proceed(Architecture!Alu(v), 2, 2)
    BY <1>2, <1>5, <2>2, <2>3, ProceedsFrom DEF q
  <2> QED
    BY <1>3, <2>2, <2>4 DEF Outcome, Architecture!Execute, Architecture!ALU_n
<1> QED
  BY <1>1, <1>4, <1>5

\* The eight operations on the byte at HL.
LEMMA MathIndirectHLExecutes ==
  ASSUME Underway, MathIndirectHL, Record
  PROVE  Outcome
<1> DEFINE y == Architecture!y
           v == R8("Z")
<1>1. PICK o \in MathOperation :
        /\ handler.body = <<"MathIndirectHL", o>>
        /\ \/ Yield(1, Assign8(reg, "Z", BusRead(reg["HL"])))
           \/ o # "Cp" /\ Return(2, Math(reg, o, v, "A"), ime)
           \/ o = "Cp" /\ Return(2, AssignFlags(reg, OperationFlags(o, Compute(o, R8("A"), v, CarryIn(reg)))), ime)
  BY DEF MathIndirectHL, Executing
<1>2. Name(handler) = "MathIndirectHL" /\ handler.body # <<"RetI">>
  BY <1>1 DEF Name
<1>3. Architecture!x = 2 /\ Architecture!z = 6 /\ o = OperationOf[y + 1]
  BY <1>1, DecodedUnderway DEF Decodes, Block0, Block1, Block2, Block3
<1>4. reg \in CleanFile /\ reg["HL"] \in Word /\ v \in Byte
  BY Basics DEF Register16
<1>5. CASE Yield(1, Assign8(reg, "Z", BusRead(reg["HL"])))
  <2>1. handler.at = 1
    BY <1>5 DEF Yield, Suspend
  <2>2. elapsed = 0 /\ Seen = boundary /\ PcPast(reg, 1)
    BY <2>1, AtFirst
  <2>3. reg["HL"] = Architecture!HL(boundary)
    BY <2>2, HLRead
  <2>4. ASSUME NEW r, r["PC"] = reg["PC"], Value8(r, "Z") = Architecture!Peek(reg["HL"])
        PROVE  Loading(At(1 + 1, handler.local), r, boundary)
    BY <1>2, <2>2, <2>3, <2>4 DEF Loading, At, Name, PcPast
  <2> QED
    BY <1>4, <1>5, <2>2, <2>4, ReadsOn
<1>6. ASSUME NEW q, Return(2, q, ime),
             Seen = boundary => /\ Machine(q, ime, ram, boundary.pc) = Architecture!Alu(v)
                                /\ q \in CleanFile /\ q["PC"] = reg["PC"]
      PROVE  Outcome
  <2>1. handler.at = 2
    BY <1>6 DEF Return
  <2>2. elapsed = 1 /\ PcPast(reg, 1) /\ Loading(handler, reg, Seen)
    BY <1>2, <2>1, AtLoaded
  <2>3. Seen = boundary /\ v = Architecture!Peek(Architecture!HL(boundary))
    BY <1>2, <2>1, <2>2 DEF Loading, R8
  <2>4. v = Architecture!Get8(Architecture!z)
    BY <1>3, <2>3 DEF Architecture!Get8
  <2>5. Ended /\ Architecture!Proceed(Architecture!Alu(v), 1, 2)
    BY <1>2, <1>6, <2>2, <2>3, ProceedsFrom
  <2> QED
    BY <1>3, <2>4, <2>5 DEF Outcome, Architecture!Execute, Architecture!ALU_r
<1>7. ASSUME o # "Cp", Return(2, Math(reg, o, v, "A"), ime)
      PROVE  Outcome
  <2> DEFINE q == Math(reg, o, v, Sink(o))
  <2>1. Math(reg, o, v, "A") = q
    BY <1>7 DEF Sink
  <2>2. Seen = boundary => /\ Machine(q, ime, ram, boundary.pc) = Architecture!Alu(v)
                           /\ q \in CleanFile /\ q["PC"] = reg["PC"]
    <3> HIDE DEF v, y
    <3> QED
      BY <1>3, <1>4, Basics, MathIsAlu DEF Seen, v, y
  <2> HIDE DEF q
  <2> QED
    BY <1>6, <1>7, <2>1, <2>2
<1>8. ASSUME o = "Cp", Return(2, AssignFlags(reg, OperationFlags(o, Compute(o, R8("A"), v, CarryIn(reg)))), ime)
      PROVE  Outcome
  <2> DEFINE S == OperationFlags(o, Compute(o, R8("A"), v, CarryIn(reg)))
             q == AssignFlags(reg, S)
  <2>1. q \in CleanFile /\ q["PC"] = reg["PC"]
    <3>1. S \subseteq FlagPositions
      BY FlagSets
    <3> HIDE DEF S
    <3> QED
      BY <1>4, <3>1, AssignFlagsClean, AssignFlagsViews DEF Register16
  <2>2. Seen = boundary => Machine(q, ime, ram, boundary.pc) = Architecture!Alu(v)
    <3> HIDE DEF v, y
    <3> QED
      BY <1>3, <1>4, <1>8, Basics, MathIsAlu DEF Seen, v, y, R8
  <2>3. Return(2, q, ime)
    BY <1>8
  <2> HIDE DEF q
  <2> QED
    BY <1>6, <2>1, <2>2, <2>3
<1> QED
  BY <1>1, <1>5, <1>7, <1>8

\* What INC r and DEC r leave, as Isa says it.
CountedIn(k, v, z) ==
  [Architecture!Set8(boundary, k, v) EXCEPT !.flags =
     (@ \cap {"C"}) \cup Architecture!When(v = 0, "Z") \cup Architecture!When(z = 5, "N")
       \cup Architecture!When(v % 16 = (IF z = 4 THEN 0 ELSE 15), "H")]

Count(k, z) == (Architecture!Get8(k) + (IF z = 4 THEN 1 ELSE -1)) % 256

\* INC r and DEC r as the instruction set has them.
LEMMA CountedIsIsa ==
  ASSUME boundary \in MachineState, NEW k \in 0 .. 7, k # 6, NEW v, NEW z
  PROVE  CountedIn(k, v, z) = Updated(boundary, N8(k), v, CountedFlags(v, z))
<1> DEFINE n == N8(k)
           s == Stored8(boundary, n, v)
<1>1. Architecture!Set8(boundary, k, v) = s
  BY Registers8
<1>2. s.flags = boundary.flags
  BY DEF Stored8, MachineState
<1>3. Updated(boundary, n, v, CountedFlags(v, z)) = [s EXCEPT !.flags = CountedFlags(v, z)]
  BY DEF Updated, Stored8
<1> HIDE DEF s, n
<1>4. [s EXCEPT !.flags = (@ \cap {"C"}) \cup Architecture!When(v = 0, "Z") \cup Architecture!When(z = 5, "N")
                            \cup Architecture!When(v % 16 = (IF z = 4 THEN 0 ELSE 15), "H")]
        = [s EXCEPT !.flags = CountedFlags(v, z)]
  BY <1>2 DEF CountedFlags
<1> QED
  BY <1>1, <1>3, <1>4 DEF n, CountedIn

\* An INC or DEC of a register executed.
LEMMA CountedExecutes ==
  ASSUME Architecture!x = 0, Architecture!z \in {4, 5}, Architecture!y # 6,
         Architecture!Proceed(CountedIn(Architecture!y, Count(Architecture!y, Architecture!z), Architecture!z), 1, 1)
  PROVE  Architecture!Execute
<1>1. Architecture!INC_DEC_r
  BY DEF Architecture!INC_DEC_r, CountedIn, Count
<1> QED
  BY <1>1 DEF Architecture!Execute

\* INC r.
LEMMA IncRExecutes ==
  ASSUME Underway, IncR, Record
  PROVE  Outcome
<1> DEFINE y == Architecture!y
<1>1. PICK n \in Register8 : handler.body = <<"IncR", n>> /\ Return(1, Increment(reg, n), ime)
  BY DEF IncR, Executing
<1>2. handler.at = 1 /\ handler.body # <<"RetI">>
  BY <1>1 DEF Return
<1>3. elapsed = 0 /\ Seen = boundary /\ PcPast(reg, 1)
  BY <1>2, AtFirst
<1>4. Architecture!x = 0 /\ Architecture!z = 4 /\ y # 6 /\ n = N8(y) /\ y \in 0 .. 7
  BY <1>1, DecodedUnderway DEF Decodes, Block0, Block1, Block2, Block3
<1> DEFINE v == (boundary.r[n] + 1) % 256
           q == Increment(reg, n)
           s == Updated(boundary, n, v, CountedFlags(v, 4))
<1>5. Machine(q, ime, ram, boundary.pc) = s /\ q \in CleanFile /\ q["PC"] = reg["PC"]
  <2> HIDE DEF v
  <2> QED
    BY <1>3, Basics, IncrementIsIsa DEF Seen, v
<1> HIDE DEF q, s
<1>6. Ended /\ Architecture!Proceed(s, 1, 1)
  BY <1>1, <1>2, <1>3, <1>5, ProceedsFrom DEF q
<1>7. Count(y, Architecture!z) = v
  <2>1. Architecture!Get8(y) = boundary.r[n] /\ n \in Register8
    BY <1>4, Registers8
  <2>2. boundary.r[n] \in Int
    BY <2>1, Basics DEF MachineState, Byte
  <2> QED
    BY <1>4, <2>1, <2>2 DEF Count
<1> HIDE DEF v
<1>8. CountedIn(y, v, Architecture!z) = s
  <2>1. CountedIn(y, v, 4) = s
    <3> HIDE DEF y
    <3> QED
      BY <1>4, Basics, CountedIsIsa DEF s
  <2> QED
    BY <1>4, <2>1
<1>9. Architecture!Proceed(CountedIn(y, Count(y, Architecture!z), Architecture!z), 1, 1)
  BY <1>6, <1>7, <1>8
<1>10. Architecture!z \in {4, 5}
  BY <1>4
<1> QED
  BY <1>4, <1>6, <1>9, <1>10, CountedExecutes DEF Outcome

\* DEC r.
LEMMA DecRExecutes ==
  ASSUME Underway, DecR, Record
  PROVE  Outcome
<1> DEFINE y == Architecture!y
<1>1. PICK n \in Register8 : handler.body = <<"DecR", n>> /\ Return(1, Decrement(reg, n), ime)
  BY DEF DecR, Executing
<1>2. handler.at = 1 /\ handler.body # <<"RetI">>
  BY <1>1 DEF Return
<1>3. elapsed = 0 /\ Seen = boundary /\ PcPast(reg, 1)
  BY <1>2, AtFirst
<1>4. Architecture!x = 0 /\ Architecture!z = 5 /\ y # 6 /\ n = N8(y) /\ y \in 0 .. 7
  BY <1>1, DecodedUnderway DEF Decodes, Block0, Block1, Block2, Block3
<1> DEFINE v == (boundary.r[n] - 1) % 256
           q == Decrement(reg, n)
           s == Updated(boundary, n, v, CountedFlags(v, 5))
<1>5. Machine(q, ime, ram, boundary.pc) = s /\ q \in CleanFile /\ q["PC"] = reg["PC"]
  <2> HIDE DEF v
  <2> QED
    BY <1>3, Basics, DecrementIsIsa DEF Seen, v
<1> HIDE DEF q, s
<1>6. Ended /\ Architecture!Proceed(s, 1, 1)
  BY <1>1, <1>2, <1>3, <1>5, ProceedsFrom DEF q
<1>7. Count(y, Architecture!z) = v
  <2>1. Architecture!Get8(y) = boundary.r[n] /\ n \in Register8
    BY <1>4, Registers8
  <2>2. boundary.r[n] \in Int
    BY <2>1, Basics DEF MachineState, Byte
  <2> QED
    BY <1>4, <2>1, <2>2 DEF Count
<1> HIDE DEF v
<1>8. CountedIn(y, v, Architecture!z) = s
  <2>1. CountedIn(y, v, 5) = s
    <3> HIDE DEF y
    <3> QED
      BY <1>4, Basics, CountedIsIsa DEF s
  <2> QED
    BY <1>4, <2>1
<1>9. Architecture!Proceed(CountedIn(y, Count(y, Architecture!z), Architecture!z), 1, 1)
  BY <1>6, <1>7, <1>8
<1>10. Architecture!z \in {4, 5}
  BY <1>4
<1> QED
  BY <1>4, <1>6, <1>9, <1>10, CountedExecutes DEF Outcome

\* INC rr, which leaves the flags.
LEMMA IncRRExecutes ==
  ASSUME Underway, IncRR, Record
  PROVE  Outcome
<1> DEFINE y == Architecture!y
           p == y \div 2
<1>1. PICK n \in Pair16 : handler.body = <<"IncRR", n>> /\ (Yield(1, Bump(reg, n, 1)) \/ Return(2, reg, ime))
  BY DEF IncRR, Executing
<1>2. Name(handler) = "IncRR" /\ handler.body # <<"RetI">>
  BY <1>1 DEF Name
<1>3. Architecture!x = 0 /\ Architecture!z = 3 /\ y % 2 = 0 /\ n = PairOf[Half(y)] /\ y \in 0 .. 7
  BY <1>1, DecodedUnderway DEF Decodes, Block0, Block1, Block2, Block3, Even
<1>4. p \in 0 .. 3 /\ n = PairOf[p + 1]
  BY <1>3, Halves
<1>5. CASE Yield(1, Bump(reg, n, 1))
  <2> DEFINE q == Bump(reg, n, 1)
  <2>1. Suspend(1, 1 + 1, q, ime, ram, handler.local) /\ handler.at = 1
    BY <1>5 DEF Yield, Suspend
  <2>2. elapsed = 0 /\ Seen = boundary /\ PcPast(reg, 1)
    BY <2>1, AtFirst
  <2>3. Machine(q, ime, ram, boundary.pc) = Architecture!Set16(boundary, p, Architecture!Get16(p) + 1) /\ q["PC"] = reg["PC"]
    <3>1. 1 \in Int
      OBVIOUS
    <3> HIDE DEF p
    <3> QED
      BY <1>4, <2>2, <3>1, PairBumped DEF Seen
  <2> HIDE DEF q
  <2>4. Machine(q, ime, ram, boundary.pc) = Stepped(1)
    BY <2>3 DEF Stepped
  <2>5. Loading(At(1 + 1, handler.local), q, Stepped(1))
    BY <1>2, <2>2, <2>3 DEF Loading, At, Name, PcPast
  <2> QED
    BY <2>1, <2>2, <2>4, <2>5, LoadsOn
<1>6. CASE Return(2, reg, ime)
  <2>1. handler.at = 2
    BY <1>6 DEF Return
  <2>2. elapsed = 1 /\ PcPast(reg, 1) /\ Loading(handler, reg, Seen)
    BY <1>2, <2>1, AtLoaded
  <2>3. Seen = Stepped(1)
    BY <1>2, <2>1, <2>2 DEF Loading
  <2>4. Ended /\ Architecture!Proceed(Stepped(1), 1, 2)
    BY <1>2, <1>6, <2>2, <2>3, ProceedsUnchanged
  <2> QED
    BY <1>3, <2>4 DEF Outcome, Architecture!Execute, Architecture!INC_DEC_rr, Stepped
<1> QED
  BY <1>1, <1>5, <1>6

\* DEC rr, which leaves the flags.
LEMMA DecRRExecutes ==
  ASSUME Underway, DecRR, Record
  PROVE  Outcome
<1> DEFINE y == Architecture!y
           p == y \div 2
<1>1. PICK n \in Pair16 : handler.body = <<"DecRR", n>> /\ (Yield(1, Bump(reg, n, -1)) \/ Return(2, reg, ime))
  BY DEF DecRR, Executing
<1>2. Name(handler) = "DecRR" /\ handler.body # <<"RetI">>
  BY <1>1 DEF Name
<1>3. Architecture!x = 0 /\ Architecture!z = 3 /\ y % 2 # 0 /\ n = PairOf[Half(y)] /\ y \in 0 .. 7
  BY <1>1, DecodedUnderway DEF Decodes, Block0, Block1, Block2, Block3, Even
<1>4. p \in 0 .. 3 /\ n = PairOf[p + 1]
  BY <1>3, Halves
<1>5. CASE Yield(1, Bump(reg, n, -1))
  <2> DEFINE q == Bump(reg, n, -1)
  <2>1. Suspend(1, 1 + 1, q, ime, ram, handler.local) /\ handler.at = 1
    BY <1>5 DEF Yield, Suspend
  <2>2. elapsed = 0 /\ Seen = boundary /\ PcPast(reg, 1)
    BY <2>1, AtFirst
  <2>3. Machine(q, ime, ram, boundary.pc) = Architecture!Set16(boundary, p, Architecture!Get16(p) + -1) /\ q["PC"] = reg["PC"]
    <3>1. -1 \in Int
      OBVIOUS
    <3> HIDE DEF p
    <3> QED
      BY <1>4, <2>2, <3>1, PairBumped DEF Seen
  <2> HIDE DEF q
  <2>4. Machine(q, ime, ram, boundary.pc) = Stepped(-1)
    BY <2>3 DEF Stepped
  <2>5. Loading(At(1 + 1, handler.local), q, Stepped(-1))
    BY <1>2, <2>2, <2>3 DEF Loading, At, Name, PcPast
  <2> QED
    BY <2>1, <2>2, <2>4, <2>5, LoadsOn
<1>6. CASE Return(2, reg, ime)
  <2>1. handler.at = 2
    BY <1>6 DEF Return
  <2>2. elapsed = 1 /\ PcPast(reg, 1) /\ Loading(handler, reg, Seen)
    BY <1>2, <2>1, AtLoaded
  <2>3. Seen = Stepped(-1)
    BY <1>2, <2>1, <2>2 DEF Loading
  <2>4. Ended /\ Architecture!Proceed(Stepped(-1), 1, 2)
    BY <1>2, <1>6, <2>2, <2>3, ProceedsUnchanged
  <2> QED
    BY <1>3, <2>4 DEF Outcome, Architecture!Execute, Architecture!INC_DEC_rr, Stepped
<1> QED
  BY <1>1, <1>5, <1>6

\* The bit that a rotation moves out of A, the one it moves in, and A then.
Leaving  == IF Architecture!y % 2 = 0 THEN Architecture!A \div 128 ELSE Architecture!A % 2
Entering == IF Architecture!y < 2 THEN Leaving ELSE Architecture!CarryValue
Turned   == IF Architecture!y % 2 = 0 THEN ((2 * Architecture!A) % 256) + Entering
                                      ELSE (Architecture!A \div 2) + 128 * Entering

\* A rotation executed.
LEMMA TurnedExecutes ==
  ASSUME Architecture!x = 0, Architecture!z = 7, Architecture!y < 4,
         Architecture!Proceed(Updated(boundary, "A", Turned, Architecture!When(Leaving = 1, "C")), 1, 1)
  PROVE  Architecture!Execute
<1>1. Architecture!Rotate
  BY DEF Architecture!Rotate, Updated, Turned, Entering, Leaving
<1> QED
  BY <1>1 DEF Architecture!Execute

\* What the four rotations have in common.
LEMMA RotationExecutes ==
  ASSUME Underway, handler.body # <<"RetI">>, NEW e \in BOOLEAN, NEW l \in BOOLEAN, NEW left \in BOOLEAN,
         Return(1, Rotation(e, l, left), ime), Record,
         Architecture!x = 0, Architecture!z = 7, Architecture!y < 4, Architecture!y % 2 = 0 <=> left,
         Leaving = 1 <=> l, Entering = IF e THEN 1 ELSE 0
  PROVE  Outcome
<1>1. handler.at = 1
  BY DEF Return
<1>2. elapsed = 0 /\ Seen = boundary /\ PcPast(reg, 1)
  BY <1>1, AtFirst
<1> DEFINE q == Rotation(e, l, left)
           v == Rotated(e, left)
           F == Architecture!When(l, "C")
           s == Updated(boundary, "A", v, F)
<1>3. Machine(q, ime, ram, boundary.pc) = s /\ q \in CleanFile /\ q["PC"] = reg["PC"]
  BY <1>2, Basics, RotationIsIsa DEF Seen
<1>4. R8("A") = Architecture!A /\ R8("A") \in Byte
  BY <1>2, SeenParts, Basics DEF Register8, Architecture!A
<1>5. v = Turned
  BY <1>4 DEF Rotated, Turned
<1>6. F = Architecture!When(Leaving = 1, "C")
  BY DEF Architecture!When
<1> HIDE DEF q, s, v, F
<1>7. Ended /\ Architecture!Proceed(s, 1, 1)
  BY <1>2, <1>3, ProceedsFrom DEF q
<1>8. s = Updated(boundary, "A", Turned, Architecture!When(Leaving = 1, "C"))
  BY <1>5, <1>6 DEF s
<1>9. Architecture!Proceed(Updated(boundary, "A", Turned, Architecture!When(Leaving = 1, "C")), 1, 1)
  BY <1>7, <1>8
<1> QED
  BY <1>7, <1>9, TurnedExecutes DEF Outcome

\* RLCA, RRCA, RLA and RRA.
LEMMA RotationsExecute ==
  ASSUME Underway, Rlca \/ Rrca \/ Rla \/ Rra, Record
  PROVE  Outcome
<1> DEFINE y == Architecture!y
<1>1. ASSUME handler.at = 1
      PROVE  /\ R8("A") = Architecture!A /\ R8("A") \in 0 .. 255
             /\ CarryIn(reg) <=> "C" \in boundary.flags
  <2>1. Seen = boundary
    BY <1>1, AtFirst
  <2> QED
    BY <2>1, CarrySeen, SeenParts, Basics DEF Register8, Architecture!A, Byte, Seen
<1>2. CASE Rlca
  <2>1. handler.body = <<"Rlca">> /\ Return(1, Rotation(Bit7OfA, Bit7OfA, TRUE), ime)
    BY <1>2 DEF Rlca, Executing
  <2>2. handler.at = 1 /\ handler.body # <<"RetI">>
    BY <2>1 DEF Return
  <2>3. Architecture!x = 0 /\ Architecture!z = 7 /\ Architecture!y = 0
    BY <2>1, DecodedUnderway DEF Decodes, Block0, Block1, Block2, Block3
  <2>4. Leaving = Architecture!A \div 128 /\ Entering = Leaving
    BY <2>3 DEF Leaving, Entering
  <2>5. /\ Leaving = 1 <=> Bit7OfA
        /\ Entering = IF Bit7OfA THEN 1 ELSE 0
    BY <1>1, <2>2, <2>4 DEF Bit7OfA, Architecture!CarryValue
  <2>6. Bit7OfA \in BOOLEAN /\ Bit7OfA \in BOOLEAN
    BY DEF Bit7OfA, CarryIn
  <2>7. Architecture!y < 4 /\ (Architecture!y % 2 = 0 <=> TRUE)
    BY <2>3
  <2> DEFINE e == Bit7OfA
             l == Bit7OfA
             left == TRUE
  <2>8. /\ e \in BOOLEAN /\ l \in BOOLEAN /\ left \in BOOLEAN
        /\ Return(1, Rotation(e, l, left), ime)
        /\ Leaving = 1 <=> l
        /\ Entering = IF e THEN 1 ELSE 0
        /\ Architecture!y % 2 = 0 <=> left
    BY <2>1, <2>5, <2>6, <2>7
  <2> HIDE DEF e, l, left
  <2> QED
    BY <2>2, <2>3, <2>7, <2>8, RotationExecutes
<1>3. CASE Rrca
  <2>1. handler.body = <<"Rrca">> /\ Return(1, Rotation(Bit0OfA, Bit0OfA, FALSE), ime)
    BY <1>3 DEF Rrca, Executing
  <2>2. handler.at = 1 /\ handler.body # <<"RetI">>
    BY <2>1 DEF Return
  <2>3. Architecture!x = 0 /\ Architecture!z = 7 /\ Architecture!y = 1
    BY <2>1, DecodedUnderway DEF Decodes, Block0, Block1, Block2, Block3
  <2>4. Leaving = Architecture!A % 2 /\ Entering = Leaving
    BY <2>3 DEF Leaving, Entering
  <2>5. /\ Leaving = 1 <=> Bit0OfA
        /\ Entering = IF Bit0OfA THEN 1 ELSE 0
    BY <1>1, <2>2, <2>4 DEF Bit0OfA, Architecture!CarryValue
  <2>6. Bit0OfA \in BOOLEAN /\ Bit0OfA \in BOOLEAN
    BY DEF Bit0OfA, CarryIn
  <2>7. Architecture!y < 4 /\ (Architecture!y % 2 = 0 <=> FALSE)
    BY <2>3
  <2> DEFINE e == Bit0OfA
             l == Bit0OfA
             left == FALSE
  <2>8. /\ e \in BOOLEAN /\ l \in BOOLEAN /\ left \in BOOLEAN
        /\ Return(1, Rotation(e, l, left), ime)
        /\ Leaving = 1 <=> l
        /\ Entering = IF e THEN 1 ELSE 0
        /\ Architecture!y % 2 = 0 <=> left
    BY <2>1, <2>5, <2>6, <2>7
  <2> HIDE DEF e, l, left
  <2> QED
    BY <2>2, <2>3, <2>7, <2>8, RotationExecutes
<1>4. CASE Rla
  <2>1. handler.body = <<"Rla">> /\ Return(1, Rotation(CarryIn(reg), Bit7OfA, TRUE), ime)
    BY <1>4 DEF Rla, Executing
  <2>2. handler.at = 1 /\ handler.body # <<"RetI">>
    BY <2>1 DEF Return
  <2>3. Architecture!x = 0 /\ Architecture!z = 7 /\ Architecture!y = 2
    BY <2>1, DecodedUnderway DEF Decodes, Block0, Block1, Block2, Block3
  <2>4. Leaving = Architecture!A \div 128 /\ Entering = Architecture!CarryValue
    BY <2>3 DEF Leaving, Entering
  <2>5. /\ Leaving = 1 <=> Bit7OfA
        /\ Entering = IF CarryIn(reg) THEN 1 ELSE 0
    BY <1>1, <2>2, <2>4 DEF Bit7OfA, Architecture!CarryValue
  <2>6. Bit7OfA \in BOOLEAN /\ CarryIn(reg) \in BOOLEAN
    BY DEF Bit7OfA, CarryIn
  <2>7. Architecture!y < 4 /\ (Architecture!y % 2 = 0 <=> TRUE)
    BY <2>3
  <2> DEFINE e == CarryIn(reg)
             l == Bit7OfA
             left == TRUE
  <2>8. /\ e \in BOOLEAN /\ l \in BOOLEAN /\ left \in BOOLEAN
        /\ Return(1, Rotation(e, l, left), ime)
        /\ Leaving = 1 <=> l
        /\ Entering = IF e THEN 1 ELSE 0
        /\ Architecture!y % 2 = 0 <=> left
    BY <2>1, <2>5, <2>6, <2>7
  <2> HIDE DEF e, l, left
  <2> QED
    BY <2>2, <2>3, <2>7, <2>8, RotationExecutes
<1>5. CASE Rra
  <2>1. handler.body = <<"Rra">> /\ Return(1, Rotation(CarryIn(reg), Bit0OfA, FALSE), ime)
    BY <1>5 DEF Rra, Executing
  <2>2. handler.at = 1 /\ handler.body # <<"RetI">>
    BY <2>1 DEF Return
  <2>3. Architecture!x = 0 /\ Architecture!z = 7 /\ Architecture!y = 3
    BY <2>1, DecodedUnderway DEF Decodes, Block0, Block1, Block2, Block3
  <2>4. Leaving = Architecture!A % 2 /\ Entering = Architecture!CarryValue
    BY <2>3 DEF Leaving, Entering
  <2>5. /\ Leaving = 1 <=> Bit0OfA
        /\ Entering = IF CarryIn(reg) THEN 1 ELSE 0
    BY <1>1, <2>2, <2>4 DEF Bit0OfA, Architecture!CarryValue
  <2>6. Bit0OfA \in BOOLEAN /\ CarryIn(reg) \in BOOLEAN
    BY DEF Bit0OfA, CarryIn
  <2>7. Architecture!y < 4 /\ (Architecture!y % 2 = 0 <=> FALSE)
    BY <2>3
  <2> DEFINE e == CarryIn(reg)
             l == Bit0OfA
             left == FALSE
  <2>8. /\ e \in BOOLEAN /\ l \in BOOLEAN /\ left \in BOOLEAN
        /\ Return(1, Rotation(e, l, left), ime)
        /\ Leaving = 1 <=> l
        /\ Entering = IF e THEN 1 ELSE 0
        /\ Architecture!y % 2 = 0 <=> left
    BY <2>1, <2>5, <2>6, <2>7
  <2> HIDE DEF e, l, left
  <2> QED
    BY <2>2, <2>3, <2>7, <2>8, RotationExecutes
<1> QED
  BY <1>2, <1>3, <1>4, <1>5

\* CPL.
LEMMA CplExecutes ==
  ASSUME Underway, Cpl, Record
  PROVE  Outcome
<1> DEFINE q == AssignFlags(Assign8(reg, "A", Complement(R8("A"))), Flags(reg) \cup {Subtract, HalfCarry})
           s == Updated(boundary, "A", 255 - boundary.r["A"], boundary.flags \cup {"N", "H"})
<1>1. handler.body = <<"Cpl">> /\ Return(1, q, ime)
  BY DEF Cpl, Executing
<1>2. handler.at = 1 /\ handler.body # <<"RetI">>
  BY <1>1 DEF Return
<1>3. elapsed = 0 /\ Seen = boundary /\ PcPast(reg, 1)
  BY <1>2, AtFirst
<1>4. Architecture!opcode = \h2F
  BY <1>1, DecodedUnderway DEF Decodes, Block0, Block1, Block2, Block3
<1>5. Machine(q, ime, ram, boundary.pc) = s /\ q \in CleanFile /\ q["PC"] = reg["PC"]
  BY <1>3, Basics, CplIsIsa DEF Seen
<1> HIDE DEF q, s
<1>6. Ended /\ Architecture!Proceed(s, 1, 1)
  BY <1>1, <1>2, <1>3, <1>5, ProceedsFrom
<1>7. s = [boundary EXCEPT !.r["A"] = 255 - @, !.flags = @ \cup {"N", "H"}]
  BY Basics DEF s, Updated, MachineState
<1> QED
  BY <1>4, <1>6, <1>7 DEF Outcome, Architecture!Execute, Architecture!CPL

\* CCF.
LEMMA CcfExecutes ==
  ASSUME Underway, Ccf, Record
  PROVE  Outcome
<1> DEFINE kept == Flags(reg) \cap {Carry, Zero}
           S == (kept \ {Carry}) \cup ({Carry} \ kept)
           q == AssignFlags(reg, S)
           s == Flagged(boundary, (boundary.flags \cap {"Z"}) \cup ({"C"} \ boundary.flags))
<1>1. handler.body = <<"Ccf">> /\ Return(1, q, ime)
  BY DEF Ccf, Executing
<1>2. handler.at = 1 /\ handler.body # <<"RetI">>
  BY <1>1 DEF Return
<1>3. elapsed = 0 /\ Seen = boundary /\ PcPast(reg, 1)
  BY <1>2, AtFirst
<1>4. Architecture!opcode = \h3F
  BY <1>1, DecodedUnderway DEF Decodes, Block0, Block1, Block2, Block3
<1>5. Machine(q, ime, ram, boundary.pc) = s /\ q \in CleanFile /\ q["PC"] = reg["PC"]
  <2>1. S = ((Flags(reg) \cap {Carry, Zero}) \ {Carry}) \cup ({Carry} \ (Flags(reg) \cap {Carry, Zero}))
    OBVIOUS
  <2> HIDE DEF S
  <2> QED
    BY <1>3, <2>1, Basics, CcfIsIsa DEF Seen
<1> HIDE DEF q, s
<1>6. Ended /\ Architecture!Proceed(s, 1, 1)
  BY <1>1, <1>2, <1>3, <1>5, ProceedsFrom
<1>7. s = [boundary EXCEPT !.flags = (@ \cap {"Z"}) \cup ({"C"} \ @)]
  BY Basics DEF s, Flagged, MachineState
<1> QED
  BY <1>4, <1>6, <1>7 DEF Outcome, Architecture!Execute, Architecture!CCF

-----------------------------------------------------------------------------
(* The stack *)

\* A handler that is on its course with the stack or with a jump.
LEMMA Advances ==
  ASSUME Underway, NEW k \in 1 .. 5, elapsed = k - 1, NEW r, NEW i, NEW m, NEW local, Suspend(k, k + 1, r, i, m, local), Record,
         NEW s, Machine(r, i, m, boundary.pc) = s,
         \/ Pushing(At(k + 1, local), r, s) \/ Popping(At(k + 1, local), r, s) \/ Jumping(At(k + 1, local), r, s)
  PROVE  Outcome
<1> DEFINE next == k + 1
<1>1. next \in 2 .. 6 /\ elapsed + 1 = next - 1
  OBVIOUS
<1> HIDE DEF next
<1>2. /\ Suspend(k, next, r, i, m, local)
      /\ Pushing(At(next, local), r, s) \/ Popping(At(next, local), r, s) \/ Jumping(At(next, local), r, s)
  BY DEF next
<1>3. OnCourse(At(next, local), r, i, m, elapsed + 1)
  <2>1. At(next, local).at = next
    BY DEF At
  <2> QED
    BY <1>1, <1>2, <2>1 DEF OnCourse
<1> QED
  BY <1>1, <1>2, <1>3, GoesOn

\* What does not change when a handler goes on.
LEMMA SameHandler ==
  ASSUME NEW n, NEW local
  PROVE  /\ Name(At(n, local)) = Name(handler) /\ At(n, local).body = handler.body
         /\ At(n, local).at = n /\ At(n, local).local = local
         /\ MakesRoom(At(n, local)) = MakesRoom(handler) /\ TakesOff(At(n, local)) = TakesOff(handler)
         /\ Pushed(At(n, local)) = Pushed(handler)
BY DEF At, Name, MakesRoom, TakesOff, Pushed

\* A condition depends on the flags alone.
LEMMA HoldsSame ==
  ASSUME NEW r, NEW q, NEW c, Flags(q) = Flags(r)
  PROVE  Holds(c, q) <=> Holds(c, r)
BY DEF Holds

\* What is seen is a machine state.
LEMMA SeenType ==
  ASSUME Underway
  PROVE  Seen \in MachineState
BY Basics, MachineType DEF Seen

WithSP(s, v) == [s EXCEPT !.sp = v]

\* SP moved from where it was at the boundary.
LEMMA MovesSP ==
  ASSUME Underway, NEW n, NEW v, boundary.sp + n = v
  PROVE  MovedSP(n) = WithSP(boundary, v % 65536)
BY Basics DEF MovedSP, WithSP, MachineState

\* A machine whose SP is written.
LEMMA WithSPParts ==
  ASSUME NEW s \in MachineState, NEW v, NEW w
  PROVE  /\ WithSP(WithSP(s, v), w) = WithSP(s, w)
         /\ WithSP(s, v).sp = v /\ WithSP(s, v).r = s.r /\ WithSP(s, v).flags = s.flags /\ WithSP(s, v).ram = s.ram
         /\ v \in Word => WithSP(s, v) \in MachineState
<1>1. PICK p1, p2, p3, p4, p5, p6, p7 : s = Image(p1, p2, p3, p4, p5, p6, p7)
  BY DEF MachineState, Image
<1>2. WithSP(s, v) = Image(p1, p2, v, p4, p5, p6, p7) /\ WithSP(s, w) = Image(p1, p2, w, p4, p5, p6, p7)
  BY <1>1 DEF WithSP, Image
<1>3. WithSP(WithSP(s, v), w) = Image(p1, p2, w, p4, p5, p6, p7)
  BY <1>2 DEF WithSP, Image
<1>4. /\ WithSP(s, v).sp = v /\ WithSP(s, v).r = p1 /\ WithSP(s, v).flags = p2 /\ WithSP(s, v).ram = p7
      /\ s.r = p1 /\ s.flags = p2 /\ s.ram = p7
  BY <1>1, <1>2 DEF Image
<1>5. v \in Word => WithSP(s, v) \in MachineState
  BY DEF WithSP, MachineState
<1> QED
  BY <1>2, <1>3, <1>4, <1>5

\* A handler moves SP, and sees the machine with that SP.
LEMMA SPBumped ==
  ASSUME NEW r \in CleanFile, NEW m, NEW by \in Int
  PROVE  /\ Machine(Bump(r, "SP", by), ime, m, boundary.pc) = WithSP(Machine(r, ime, m, boundary.pc), (r["SP"] + by) % 65536)
         /\ Bump(r, "SP", by) \in CleanFile
         /\ Bump(r, "SP", by)["PC"] = r["PC"] /\ Bump(r, "SP", by)["WZ"] = r["WZ"]
         /\ Flags(Bump(r, "SP", by)) = Flags(r)
<1> DEFINE w == (r["SP"] + by) % 65536
<1>1. "SP" \in Register16 \ {"AF"} /\ {"PC", "WZ"} \subseteq Register16
  BY DEF Register16
<1>2. w \in Word /\ Bump(r, "SP", by) = Assign16(r, "SP", w)
  BY <1>1, BumpIsAssign
<1> HIDE DEF w
<1>3. /\ Assign16(r, "SP", w) \in CleanFile
      /\ Assign16(r, "SP", w)["PC"] = r["PC"] /\ Assign16(r, "SP", w)["WZ"] = r["WZ"]
      /\ Flags(Assign16(r, "SP", w)) = Flags(r)
  BY <1>1, <1>2, Assign16Clean, Assign16Kept, Assign16Others
<1>4. Machine(Assign16(r, "SP", w), ime, m, boundary.pc) = WithSP(Machine(r, ime, m, boundary.pc), w)
  BY <1>2, MachineSP DEF WithSP
<1> QED
  BY <1>2, <1>3, <1>4 DEF w

\* What the course says of a handler that pushes.
LEMMA AtPushing ==
  ASSUME Underway, Name(handler) \in {"PushRr", "Call", "Rst"}, NEW n \in 1 .. 3, handler.at = MakesRoom(handler) + n
  PROVE  elapsed = handler.at - 1 /\ Pushing(handler, reg, Seen)
<1>1. IF Name(handler) = "Call" THEN handler.at = 3 + n ELSE handler.at = 1 + n /\ Name(handler) \in {"PushRr", "Rst"}
  BY DEF MakesRoom
<1>2. ~Fetching(handler, reg, Seen)
  BY <1>1 DEF Fetching, ReadByte, ReadWord
<1>3. ~Loading(handler, reg, Seen)
  BY <1>1 DEF Loading
<1>4. ~Popping(handler, reg, Seen)
  BY <1>1 DEF Popping
<1>5. ~Jumping(handler, reg, Seen)
  BY <1>1 DEF Jumping
<1>6. ~Skipping(handler, reg, Seen)
  BY <1>1 DEF Skipping
<1> QED
  BY <1>2, <1>3, <1>4, <1>5, <1>6, Course

\* What the course says of a handler that pops.
LEMMA AtPopping ==
  ASSUME Underway, Name(handler) \in {"PopRr", "Ret", "RetI", "RetConditional"}, handler.at \in 2 .. 4
  PROVE  elapsed = handler.at - 1 /\ Popping(handler, reg, Seen)
<1>1. Name(handler) \notin ReadByte
  BY DEF ReadByte, ReadWord
<1>2. ~Fetching(handler, reg, Seen)
  BY <1>1 DEF Fetching, ReadByte
<1>3. ~Loading(handler, reg, Seen)
  BY <1>1 DEF Loading
<1>4. ~Pushing(handler, reg, Seen)
  BY <1>1 DEF Pushing
<1>5. ~Jumping(handler, reg, Seen)
  BY <1>1 DEF Jumping
<1>6. ~Skipping(handler, reg, Seen)
  BY <1>1 DEF Skipping
<1> QED
  BY <1>2, <1>3, <1>4, <1>5, <1>6, Course

\* A word is pushed high byte first.
LEMMA PushedOn ==
  ASSUME boundary \in MachineState, NEW v, NEW s, s = MovedSP(-2)
  PROVE  Architecture!PushOn(boundary, v)
           = Architecture!Poke(Architecture!Poke(s, (boundary.sp - 1) % 65536, High(v)), (boundary.sp - 2) % 65536, Low(v))
<1> DEFINE a == boundary.sp - 2
<1>1. boundary.sp \in Int
  BY DEF MachineState, Word
<1>2. boundary.sp + (-2) = a /\ ((a % 65536) + 1) % 65536 = (boundary.sp - 1) % 65536
  BY <1>1
<1>3. s = [boundary EXCEPT !.sp = (@ - 2) % 65536]
  BY <1>2 DEF MovedSP
<1> QED
  BY <1>2, <1>3 DEF Architecture!PushOn, Architecture!Poke16, High, Low

\* The resumption that makes room for the word.
LEMMA PushesRoom ==
  ASSUME Underway, Name(handler) \in {"PushRr", "Call", "Rst"}, NEW k \in 1 .. 5, k = MakesRoom(handler),
         Yield(k, Bump(reg, "SP", -1)), Record, elapsed = k - 1, Seen = boundary, PcPast(reg, k),
         Name(handler) = "Call" => Holds(handler.body[2], reg) /\ reg["WZ"] = Architecture!imm16
  PROVE  Outcome
<1> DEFINE q == Bump(reg, "SP", -1)
           h == At(k + 1, handler.local)
           s == MovedSP(-1)
<1>1. Suspend(k, k + 1, q, ime, ram, handler.local)
  BY DEF Yield
<1>2. -1 \in Int /\ reg \in CleanFile /\ reg["SP"] = boundary.sp
  BY Basics, SeenParts
<1>3. /\ Machine(q, ime, ram, boundary.pc) = WithSP(boundary, (reg["SP"] + -1) % 65536)
      /\ q["PC"] = reg["PC"] /\ q["WZ"] = reg["WZ"] /\ Flags(q) = Flags(reg)
  BY <1>2, SPBumped DEF Seen
<1>4. Machine(q, ime, ram, boundary.pc) = s
  BY <1>2, <1>3, MovesSP
<1>5. Name(h) = Name(handler) /\ h.body = handler.body /\ h.at = k + 1 /\ MakesRoom(h) = k
  BY SameHandler
<1> HIDE DEF q, h, s
<1>6. Pushing(h, q, s)
  <2>1. Name(h) = "Call" => Holds(h.body[2], q)
    BY <1>3, <1>5, HoldsSame
  <2> QED
    BY <1>3, <1>5, <2>1 DEF Pushing, PcPast, s
<1> QED
  BY <1>1, <1>4, <1>6, Advances DEF h

\* The resumption that stores its high byte.
LEMMA PushesHigh ==
  ASSUME Underway, Name(handler) \in {"PushRr", "Call", "Rst"}, NEW k \in 1 .. 3, k = MakesRoom(handler),
         NEW j \in 2 .. 4, j = k + 1, NEW v, YieldWriting(j, reg["SP"], High(v), Bump(reg, "SP", -1)), Record,
         Seen.r = boundary.r /\ Seen.flags = boundary.flags /\ PcPast(reg, k) => v = Pushed(handler)
  PROVE  Outcome
<1> DEFINE q == Bump(reg, "SP", -1)
           h == At(j + 1, handler.local)
           a == (boundary.sp - 1) % 65536
           s == Architecture!Poke(MovedSP(-2), a, High(Pushed(handler)))
<1>1. Suspend(j, j + 1, q, ime, BusWrite(reg["SP"], High(v)), handler.local) /\ handler.at = j
  BY DEF YieldWriting, Suspend
<1>2. elapsed = j - 1 /\ Pushing(handler, reg, Seen)
  <2>1. 1 \in 1 .. 3
    OBVIOUS
  <2> QED
    BY <1>1, <2>1, AtPushing
<1>3. /\ Seen = MovedSP(-1) /\ PcPast(reg, k)
      /\ Name(handler) = "Call" => Holds(handler.body[2], reg) /\ reg["WZ"] = Architecture!imm16
  BY <1>1, <1>2 DEF Pushing
<1>4. boundary \in MachineState /\ reg \in CleanFile /\ boundary.sp \in Int
  BY Basics DEF MachineState, Word
<1>5. Seen = WithSP(boundary, a) /\ MovedSP(-2) = WithSP(boundary, (boundary.sp - 2) % 65536)
  <2>1. boundary.sp + -1 = boundary.sp - 1 /\ boundary.sp + -2 = boundary.sp - 2
    BY <1>4
  <2> QED
    BY <1>3, <2>1, MovesSP
<1>6. Seen.r = boundary.r /\ Seen.flags = boundary.flags /\ reg["SP"] = a
  BY <1>4, <1>5, WithSPParts, SeenParts
<1>7. v = Pushed(handler)
  BY <1>3, <1>6
<1>8. (a + -1) % 65536 = (boundary.sp - 2) % 65536
  BY <1>4
<1>9. /\ Machine(q, ime, ram, boundary.pc) = WithSP(Seen, (a + -1) % 65536)
      /\ q["PC"] = reg["PC"] /\ q["WZ"] = reg["WZ"] /\ Flags(q) = Flags(reg)
  <2>1. -1 \in Int
    OBVIOUS
  <2> QED
    BY <1>4, <1>6, <2>1, SPBumped DEF Seen
<1>10. Machine(q, ime, ram, boundary.pc) = MovedSP(-2)
  BY <1>4, <1>5, <1>8, <1>9, WithSPParts
<1>11. Machine(q, ime, BusWrite(reg["SP"], High(v)), boundary.pc) = s
  BY <1>6, <1>7, <1>10, WriteSeen
<1>12. Name(h) = Name(handler) /\ h.body = handler.body /\ h.at = j + 1 /\ MakesRoom(h) = k /\ Pushed(h) = Pushed(handler)
  BY SameHandler
<1> HIDE DEF q, h, s
<1>13. Pushing(h, q, s)
  <2>1. Name(h) = "Call" => Holds(h.body[2], q)
    BY <1>3, <1>9, <1>12, HoldsSame
  <2>2. h.at = MakesRoom(h) + 2 /\ h.at # MakesRoom(h) + 1
    BY <1>12
  <2> QED
    BY <1>3, <1>9, <1>12, <2>1, <2>2 DEF Pushing, PcPast, s
<1>14. j \in 1 .. 5
  OBVIOUS
<1> QED
  BY <1>1, <1>2, <1>11, <1>13, <1>14, Advances DEF h

\* The resumption that stores its low byte, and ends the push.
LEMMA PushesLow ==
  ASSUME Underway, Name(handler) \in {"PushRr", "Call", "Rst"}, NEW k \in 1 .. 3, k = MakesRoom(handler),
         NEW j \in 3 .. 5, j = k + 2, NEW v, NEW r, YieldWriting(j, reg["SP"], Low(v), r), Record,
         Seen.r = boundary.r /\ Seen.flags = boundary.flags /\ PcPast(reg, k) => v = Pushed(handler),
         Machine(r, ime, ram, boundary.pc) = Seen, Flags(r) = Flags(reg),
         Name(handler) = "PushRr" => r["PC"] = reg["PC"],
         Name(handler) = "Call" => r["PC"] = reg["WZ"],
         Name(handler) = "Rst" => r["PC"] = 8 * Architecture!y
  PROVE  Outcome
<1> DEFINE h == At(j + 1, handler.local)
           a == (boundary.sp - 1) % 65536
           b == (boundary.sp - 2) % 65536
           s == Architecture!PushOn(boundary, Pushed(handler))
           w == High(Pushed(handler))
           p == MovedSP(-2)
<1>1. Suspend(j, j + 1, r, ime, BusWrite(reg["SP"], Low(v)), handler.local) /\ handler.at = j
  BY DEF YieldWriting, Suspend
<1>2. elapsed = j - 1 /\ Pushing(handler, reg, Seen)
  <2>1. 2 \in 1 .. 3
    OBVIOUS
  <2> QED
    BY <1>1, <2>1, AtPushing
<1>3. /\ Seen = Architecture!Poke(p, a, w) /\ PcPast(reg, k)
      /\ Name(handler) = "Call" => Holds(handler.body[2], reg) /\ reg["WZ"] = Architecture!imm16
  <2>1. handler.at = MakesRoom(handler) + 2 /\ handler.at # MakesRoom(handler) + 1
    BY <1>1
  <2> QED
    BY <1>2, <2>1 DEF Pushing
<1>4. boundary \in MachineState /\ boundary.sp \in Int /\ b \in Word
  BY Basics DEF MachineState, Word
<1>5. p = WithSP(boundary, b)
  <2>1. boundary.sp + -2 = boundary.sp - 2
    BY <1>4
  <2> QED
    BY <2>1, MovesSP
<1>6. p \in MachineState /\ p.r = boundary.r /\ p.flags = boundary.flags /\ p.sp = b
  BY <1>4, <1>5, WithSPParts
<1>7. Seen.r = boundary.r /\ Seen.flags = boundary.flags /\ reg["SP"] = b
  <2> HIDE DEF a, b, w, p
  <2>1. Seen.r = p.r /\ Seen.flags = p.flags /\ Seen.sp = p.sp
    BY <1>3, <1>6, PokeRest
  <2> QED
    BY <1>6, <2>1, SeenParts
<1>8. v = Pushed(handler)
  BY <1>3, <1>7
<1>9. Machine(r, ime, BusWrite(reg["SP"], Low(v)), boundary.pc) = s
  <2>1. s = Architecture!Poke(Architecture!Poke(p, a, w), b, Low(v))
    BY <1>4, <1>8, PushedOn
  <2>2. Machine(r, ime, BusWrite(reg["SP"], Low(v)), boundary.pc) = Architecture!Poke(Seen, b, Low(v))
    BY <1>7, WriteSeen
  <2> QED
    BY <1>3, <2>1, <2>2
<1>10. Name(h) = Name(handler) /\ h.body = handler.body /\ h.at = j + 1 /\ MakesRoom(h) = k /\ Pushed(h) = Pushed(handler)
  BY SameHandler
<1> HIDE DEF h, s, a, b, w, p
<1>11. Pushing(h, r, s)
  <2>1. Name(h) = "Call" => Holds(h.body[2], r)
    BY <1>3, <1>10, HoldsSame
  <2>2. h.at = MakesRoom(h) + 3
    BY <1>10
  <2>3. s = Architecture!PushOn(boundary, Pushed(h))
    BY <1>10 DEF s
  <2>4. \/ Name(h) = "PushRr" /\ PcPast(r, 1)
        \/ Name(h) = "Call" /\ r["PC"] = Architecture!imm16
        \/ Name(h) = "Rst" /\ r["PC"] = 8 * Architecture!y
    BY <1>3, <1>10 DEF PcPast, MakesRoom
  <2> QED
    BY <1>10, <2>1, <2>2, <2>3, <2>4 DEF Pushing
<1>12. j \in 1 .. 5
  OBVIOUS
<1> QED
  BY <1>1, <1>2, <1>9, <1>11, <1>12, Advances DEF h

\* The bytes of the return address, or of the pair, are on the stack.
LEMMA AtPushed ==
  ASSUME Underway, Name(handler) \in {"PushRr", "Call", "Rst"}, handler.at = MakesRoom(handler) + 3
  PROVE  /\ elapsed = handler.at - 1
         /\ Seen = Architecture!PushOn(boundary, Pushed(handler))
         /\ Seen.flags = boundary.flags
         /\ \/ Name(handler) = "PushRr" /\ PcPast(reg, 1)
            \/ Name(handler) = "Call" /\ reg["PC"] = Architecture!imm16 /\ Holds(handler.body[2], reg)
            \/ Name(handler) = "Rst" /\ reg["PC"] = 8 * Architecture!y
<1>1. elapsed = handler.at - 1 /\ Pushing(handler, reg, Seen)
  <2>1. 3 \in 1 .. 3
    OBVIOUS
  <2> QED
    BY <2>1, AtPushing
<1>2. /\ Seen = Architecture!PushOn(boundary, Pushed(handler))
      /\ \/ Name(handler) = "PushRr" /\ PcPast(reg, 1)
         \/ Name(handler) = "Call" /\ reg["PC"] = Architecture!imm16 /\ Holds(handler.body[2], reg)
         \/ Name(handler) = "Rst" /\ reg["PC"] = 8 * Architecture!y
  <2>1. MakesRoom(handler) \in Int
    BY DEF MakesRoom
  <2>2. handler.at # MakesRoom(handler) + 1 /\ handler.at # MakesRoom(handler) + 2
    BY <2>1
  <2> QED
    BY <1>1, <2>2 DEF Pushing
<1>3. Seen.flags = boundary.flags
  <2> DEFINE b == (boundary.sp - 2) % 65536
             p == MovedSP(-2)
  <2>1. boundary \in MachineState /\ boundary.sp \in Int /\ b \in Word
    BY Basics DEF MachineState, Word
  <2>2. p = WithSP(boundary, b)
    <3>1. boundary.sp + -2 = boundary.sp - 2
      BY <2>1
    <3> QED
      BY <3>1, MovesSP
  <2>3. p \in MachineState /\ p.flags = boundary.flags
    BY <2>1, <2>2, WithSPParts
  <2> HIDE DEF b
  <2>4. PICK a1, v1, a2, v2 : Seen = Architecture!Poke(Architecture!Poke(p, a1, v1), a2, v2)
    BY <1>2, <2>1, PushedOn
  <2> HIDE DEF p
  <2>5. Architecture!Poke(Architecture!Poke(p, a1, v1), a2, v2).flags = p.flags
    BY <2>3 DEF Architecture!Poke, MachineState
  <2> QED
    BY <2>3, <2>4, <2>5
<1> QED
  BY <1>1, <1>2, <1>3

\* PUSH stores the pair as it was at the boundary.
LEMMA StackedRead ==
  ASSUME Underway, NEW s, handler.body = <<"PushRr", s>>, Seen.r = boundary.r, Seen.flags = boundary.flags
  PROVE  reg[s] = Pushed(handler)
<1> DEFINE y == Architecture!y
<1>1. y \in {0, 2, 4, 6} /\ s = StackedOf[Half(y)]
  BY DecodedUnderway DEF Decodes, Block0, Block1, Block2, Block3, Even
<1>2. Name(handler) = "PushRr" /\ reg \in CleanFile
  BY Basics DEF Name
<1>3. /\ boundary.flags = FlagNames(Flags(reg))
      /\ boundary.r["A"] = R8("A")
      /\ boundary.r["B"] = R8("B") /\ boundary.r["C"] = R8("C") /\ boundary.r["D"] = R8("D")
      /\ boundary.r["E"] = R8("E") /\ boundary.r["H"] = R8("H") /\ boundary.r["L"] = R8("L")
  BY SeenParts DEF Register8
<1>4. /\ reg["BC"] = 256 * R8("B") + R8("C") /\ reg["DE"] = 256 * R8("D") + R8("E")
      /\ reg["HL"] = 256 * R8("H") + R8("L")
  BY <1>2, PairWhole DEF R8
<1>5. reg["AF"] = Architecture!AF
  BY <1>2, <1>3, PushedAF DEF R8
<1>6. CASE y = 0
  BY <1>1, <1>2, <1>3, <1>4, <1>6 DEF Pushed, StackedOf, Half, Architecture!Get16, Architecture!Name16
<1>7. CASE y = 2
  BY <1>1, <1>2, <1>3, <1>4, <1>7 DEF Pushed, StackedOf, Half, Architecture!Get16, Architecture!Name16
<1>8. CASE y = 4
  BY <1>1, <1>2, <1>3, <1>4, <1>8 DEF Pushed, StackedOf, Half, Architecture!Get16, Architecture!Name16
<1>9. CASE y = 6
  BY <1>1, <1>2, <1>5, <1>9 DEF Pushed, StackedOf, Half
<1> QED
  BY <1>1, <1>6, <1>7, <1>8, <1>9

\* PUSH rr, AF included.
LEMMA PushRrExecutes ==
  ASSUME Underway, PushRr, Record
  PROVE  Outcome
<1>1. PICK s \in StackedPair :
        /\ handler.body = <<"PushRr", s>>
        /\ \/ Yield(1, Bump(reg, "SP", -1))
           \/ YieldWriting(2, reg["SP"], High(reg[s]), Bump(reg, "SP", -1))
           \/ YieldWriting(3, reg["SP"], Low(reg[s]), reg)
           \/ Return(4, reg, ime)
  BY DEF PushRr, Executing
<1>2. Name(handler) = "PushRr" /\ handler.body # <<"RetI">> /\ MakesRoom(handler) = 1
  BY <1>1 DEF Name, MakesRoom
<1>3. Architecture!x = 3 /\ Architecture!z = 5 /\ Architecture!y % 2 = 0
  BY <1>1, DecodedUnderway DEF Decodes, Block0, Block1, Block2, Block3, Even
<1>4. Seen.r = boundary.r /\ Seen.flags = boundary.flags => reg[s] = Pushed(handler)
  BY <1>1, StackedRead
<1>5. CASE Yield(1, Bump(reg, "SP", -1))
  <2>1. handler.at = 1
    BY <1>5 DEF Yield, Suspend
  <2>2. elapsed = 0 /\ Seen = boundary /\ PcPast(reg, 1)
    BY <2>1, AtFirst
  <2> QED
    BY <1>2, <1>5, <2>2, PushesRoom
<1>6. CASE YieldWriting(2, reg["SP"], High(reg[s]), Bump(reg, "SP", -1))
  BY <1>2, <1>4, <1>6, PushesHigh
<1>7. CASE YieldWriting(3, reg["SP"], Low(reg[s]), reg)
  <2>1. Machine(reg, ime, ram, boundary.pc) = Seen
    BY DEF Seen
  <2> QED
    BY <1>2, <1>4, <1>7, <2>1, PushesLow
<1>8. CASE Return(4, reg, ime)
  <2>1. handler.at = 4
    BY <1>8 DEF Return
  <2>2. elapsed = 3 /\ Seen = Architecture!PushOn(boundary, Pushed(handler)) /\ PcPast(reg, 1)
    BY <1>2, <2>1, AtPushed
  <2>3. Ended /\ Architecture!Proceed(Seen, 1, 4)
    BY <1>2, <1>8, <2>2, ProceedsUnchanged
  <2>4. Pushed(handler) = IF Architecture!y = 6 THEN Architecture!AF ELSE Architecture!Get16(Architecture!y \div 2)
    BY <1>2 DEF Pushed
  <2> QED
    BY <1>3, <2>2, <2>3, <2>4 DEF Outcome, Architecture!Execute, Architecture!PUSH
<1> QED
  BY <1>1, <1>5, <1>6, <1>7, <1>8

\* A handler assigns PC.
LEMMA PCAssigned ==
  ASSUME Underway, NEW w \in Word
  PROVE  /\ Machine(Assign16(reg, "PC", w), ime, ram, boundary.pc) = Seen
         /\ Assign16(reg, "PC", w) \in CleanFile
         /\ Assign16(reg, "PC", w)["PC"] = w
         /\ Flags(Assign16(reg, "PC", w)) = Flags(reg)
<1>1. reg \in CleanFile /\ "PC" \in Register16 /\ "PC" # "AF"
  BY Basics DEF Register16
<1> QED
  BY <1>1, Assign16Clean, Assign16Kept, Assign16Others, MachineInternal DEF Seen

\* RST n.
LEMMA RstExecutes ==
  ASSUME Underway, Rst, Record
  PROVE  Outcome
<1> DEFINE y == Architecture!y
           w == (boundary.pc + 1) % 65536
<1>1. PICK t \in {\h00, \h08, \h10, \h18, \h20, \h28, \h30, \h38} :
        /\ handler.body = <<"Rst", t>>
        /\ \/ Yield(1, Bump(reg, "SP", -1))
           \/ YieldWriting(2, reg["SP"], High(reg["PC"]), Bump(reg, "SP", -1))
           \/ YieldWriting(3, reg["SP"], Low(reg["PC"]), Assign16(reg, "PC", t))
           \/ Return(4, reg, ime)
  BY DEF Rst, Executing
<1>2. Name(handler) = "Rst" /\ handler.body # <<"RetI">> /\ MakesRoom(handler) = 1 /\ Pushed(handler) = w
  <2>1. handler.body[1] = "Rst" /\ handler.body # <<"RetI">>
    BY <1>1
  <2> QED
    BY <2>1 DEF Name, MakesRoom, Pushed
<1>3. Architecture!x = 3 /\ Architecture!z = 7 /\ t = 8 * y
  BY <1>1, DecodedUnderway DEF Decodes, Block0, Block1, Block2, Block3
<1>4. PcPast(reg, 1) => reg["PC"] = Pushed(handler)
  BY <1>2 DEF PcPast
<1>5. CASE Yield(1, Bump(reg, "SP", -1))
  <2>1. handler.at = 1
    BY <1>5 DEF Yield, Suspend
  <2>2. elapsed = 0 /\ Seen = boundary /\ PcPast(reg, 1)
    BY <2>1, AtFirst
  <2> QED
    BY <1>2, <1>5, <2>2, PushesRoom
<1>6. CASE YieldWriting(2, reg["SP"], High(reg["PC"]), Bump(reg, "SP", -1))
  BY <1>2, <1>4, <1>6, PushesHigh
<1>7. CASE YieldWriting(3, reg["SP"], Low(reg["PC"]), Assign16(reg, "PC", t))
  <2> DEFINE q == Assign16(reg, "PC", t)
  <2>1. t \in Word
    BY DEF Word
  <2>2. Machine(q, ime, ram, boundary.pc) = Seen /\ q["PC"] = t /\ Flags(q) = Flags(reg)
    BY <2>1, PCAssigned
  <2> HIDE DEF q
  <2> QED
    BY <1>2, <1>3, <1>4, <1>7, <2>2, PushesLow DEF q
<1>8. CASE Return(4, reg, ime)
  <2>1. handler.at = 4
    BY <1>8 DEF Return
  <2>2. elapsed = 3 /\ Seen = Architecture!PushOn(boundary, w) /\ reg["PC"] = 8 * y
    BY <1>2, <2>1, AtPushed
  <2>3. reg \in CleanFile /\ reg["PC"] \in Word
    BY Basics DEF Register16
  <2>4. reg["PC"] = (8 * y) % 65536
    BY <2>2, <2>3 DEF Word
  <2>5. Ended /\ Architecture!Continue(Architecture!PushOn(boundary, w), 8 * y, 4)
    <3> HIDE DEF w
    <3> QED
      BY <1>2, <1>8, <2>2, <2>3, <2>4, Continues DEF Seen
  <2> QED
    BY <1>3, <2>5 DEF Outcome, Architecture!Execute, Architecture!RST, Architecture!CallTo
<1> QED
  BY <1>1, <1>5, <1>6, <1>7, <1>8

-----------------------------------------------------------------------------
(* Conditions *)

\* The condition of a handler is that of the opcode.
LEMMA ConditionSeen ==
  ASSUME Underway, Seen.flags = boundary.flags, NEW k \in 0 .. 3
  PROVE  Holds(CondOf[k + 1], reg) <=> Architecture!Taken(k)
<1>1. boundary.flags = FlagNames(Flags(reg))
  BY SeenParts
<1> QED
  BY <1>1, ConditionsAgree

\* CALL, taken or not: the return address is past the operands, PC changes
\* with its low byte.
LEMMA CallExecutes ==
  ASSUME Underway, Call, Record
  PROVE  Outcome
<1> DEFINE y == Architecture!y
           a == Architecture!imm16
           w == (boundary.pc + 3) % 65536
<1>1. PICK c \in Condition :
        /\ handler.body = <<"Call", c>>
        /\ \/ Operand(1, "Z")
           \/ Operand(2, "W")
           \/ ~Holds(c, reg) /\ Return(3, reg, ime)
           \/ Holds(c, reg) /\ Yield(3, Bump(reg, "SP", -1))
           \/ YieldWriting(4, reg["SP"], High(reg["PC"]), Bump(reg, "SP", -1))
           \/ YieldWriting(5, reg["SP"], Low(reg["PC"]), Assign16(reg, "PC", reg["WZ"]))
           \/ Return(6, reg, ime)
  BY DEF Call, Executing
<1>2. /\ Name(handler) = "Call" /\ handler.body # <<"RetI">> /\ MakesRoom(handler) = 3 /\ Pushed(handler) = w
      /\ Name(handler) \in ReadWord /\ Name(handler) \in ReadByte /\ handler.body[2] = c
  <2>1. handler.body[1] = "Call" /\ handler.body # <<"RetI">> /\ handler.body[2] = c
    BY <1>1
  <2> QED
    BY <2>1 DEF Name, MakesRoom, Pushed, ReadWord, ReadByte
<1>3. \/ Architecture!opcode = \hCD /\ c = "Always"
      \/ Architecture!x = 3 /\ Architecture!z = 4 /\ y < 4 /\ c = CondOf[y + 1]
  BY <1>1, DecodedUnderway DEF Decodes, Block0, Block1, Block2, Block3
<1>4. PcPast(reg, 3) => reg["PC"] = Pushed(handler)
  BY <1>2 DEF PcPast
<1>5. CASE Operand(1, "Z")
  BY <1>2, <1>5, OperandZ
<1>6. CASE Operand(2, "W")
  BY <1>2, <1>6, OperandW
<1>7. ASSUME ~Holds(c, reg), Return(3, reg, ime)
      PROVE  Outcome
  <2>1. handler.at = 3
    BY <1>7 DEF Return
  <2>2. elapsed = 2 /\ Seen = boundary /\ PcPast(reg, 3)
    BY <1>2, <2>1, AtThird
  <2>3. Ended /\ Architecture!Proceed(boundary, 3, 3)
    BY <1>2, <1>7, <2>2, ProceedsUnchanged
  <2>4. c # "Always"
    BY <1>7 DEF Holds
  <2>5. y \in 0 .. 3
    BY <1>3, <2>4, DecodedUnderway
  <2>6. ~Architecture!Taken(y)
    BY <1>3, <1>7, <2>2, <2>4, <2>5, ConditionSeen
  <2> QED
    BY <1>3, <2>3, <2>4, <2>6 DEF Outcome, Architecture!Execute, Architecture!CALL
<1>8. ASSUME Holds(c, reg), Yield(3, Bump(reg, "SP", -1))
      PROVE  Outcome
  <2>1. handler.at = 3
    BY <1>8 DEF Yield, Suspend
  <2>2. elapsed = 2 /\ Seen = boundary /\ PcPast(reg, 3) /\ reg["WZ"] = a
    BY <1>2, <2>1, AtThird
  <2> QED
    BY <1>2, <1>8, <2>2, PushesRoom
<1>9. CASE YieldWriting(4, reg["SP"], High(reg["PC"]), Bump(reg, "SP", -1))
  BY <1>2, <1>4, <1>9, PushesHigh
<1>10. CASE YieldWriting(5, reg["SP"], Low(reg["PC"]), Assign16(reg, "PC", reg["WZ"]))
  <2> DEFINE q == Assign16(reg, "PC", reg["WZ"])
  <2>1. reg["WZ"] \in Word
    BY Basics DEF Register16
  <2>2. Machine(q, ime, ram, boundary.pc) = Seen /\ q["PC"] = reg["WZ"] /\ Flags(q) = Flags(reg)
    BY <2>1, PCAssigned
  <2> HIDE DEF q
  <2> QED
    BY <1>2, <1>4, <1>10, <2>2, PushesLow DEF q
<1>11. CASE Return(6, reg, ime)
  <2>1. handler.at = 6
    BY <1>11 DEF Return
  <2>2. elapsed = 5 /\ Seen = Architecture!PushOn(boundary, w) /\ reg["PC"] = a /\ Holds(c, reg) /\ Seen.flags = boundary.flags
    BY <1>2, <2>1, AtPushed
  <2>3. reg \in CleanFile /\ reg["PC"] \in Word
    BY Basics DEF Register16
  <2>4. reg["PC"] = a % 65536
    BY <2>2, <2>3 DEF Word
  <2>5. Ended /\ Architecture!Continue(Architecture!PushOn(boundary, w), a, 6)
    <3> HIDE DEF w, a
    <3> QED
      BY <1>2, <1>11, <2>2, <2>3, <2>4, Continues DEF Seen
  <2>6. Architecture!CallTo(a, 3, 6)
    BY <2>5 DEF Architecture!CallTo
  <2>7. \/ Architecture!opcode = \hCD
        \/ Architecture!x = 3 /\ Architecture!z = 4 /\ y < 4 /\ Architecture!Taken(y)
    <3>1. CASE Architecture!opcode = \hCD
      BY <3>1
    <3>2. CASE Architecture!x = 3 /\ Architecture!z = 4 /\ y < 4 /\ c = CondOf[y + 1]
      <4>1. y \in 0 .. 3
        BY <3>2, DecodedUnderway
      <4> QED
        BY <2>2, <3>2, <4>1, ConditionSeen
    <3> QED
      BY <1>3, <3>1, <3>2
  <2>8. Architecture!CALL
    BY <2>6, <2>7 DEF Architecture!CALL
  <2> QED
    BY <2>5, <2>8 DEF Outcome, Architecture!Execute
<1> QED
  BY <1>1, <1>5, <1>6, <1>7, <1>8, <1>9, <1>10, <1>11

-----------------------------------------------------------------------------
(* Jumps *)

\* What the course says of a jump that is taken.
LEMMA AtJumping ==
  ASSUME Underway, \/ Name(handler) = "Jump" /\ handler.at = 4
                   \/ Name(handler) = "JumpRelative" /\ handler.at = 3
  PROVE  elapsed = handler.at - 1 /\ Jumping(handler, reg, Seen)
<1>1. Name(handler) \in {"Jump", "JumpRelative"} /\ (handler.at = 3 => Name(handler) \notin ReadWord) /\ handler.at \in {3, 4}
  BY DEF ReadWord
<1>2. ~Fetching(handler, reg, Seen)
  BY <1>1 DEF Fetching
<1>3. ~Loading(handler, reg, Seen)
  BY <1>1 DEF Loading
<1>4. ~Pushing(handler, reg, Seen)
  BY <1>1 DEF Pushing
<1>5. ~Popping(handler, reg, Seen)
  BY <1>1 DEF Popping
<1>6. ~Skipping(handler, reg, Seen)
  BY <1>1 DEF Skipping
<1> QED
  BY <1>2, <1>3, <1>4, <1>5, <1>6, Course

\* JP HL.
LEMMA JumpHlExecutes ==
  ASSUME Underway, JumpHl, Record
  PROVE  Outcome
<1> DEFINE w == reg["HL"]
           q == Assign16(reg, "PC", w)
<1>1. handler.body = <<"JumpHl">> /\ Return(1, q, ime)
  BY DEF JumpHl, Executing
<1>2. handler.at = 1 /\ handler.body # <<"RetI">>
  BY <1>1 DEF Return
<1>3. elapsed = 0 /\ Seen = boundary
  BY <1>2, AtFirst
<1>4. Architecture!opcode = \hE9
  BY <1>1, DecodedUnderway DEF Decodes, Block0, Block1, Block2, Block3
<1>5. w \in Word /\ Architecture!HL(boundary) = w
  BY <1>3, Basics, HLRead DEF Register16
<1>6. w % 65536 = w
  BY <1>5 DEF Word
<1> HIDE DEF w
<1>7. Machine(q, ime, ram, boundary.pc) = boundary /\ q \in CleanFile /\ q["PC"] = w
  BY <1>3, <1>5, PCAssigned
<1> HIDE DEF q
<1>8. Ended /\ Architecture!Continue(boundary, w, 1)
  BY <1>1, <1>2, <1>3, <1>6, <1>7, Continues
<1>9. Architecture!JP
  BY <1>4, <1>5, <1>8 DEF Architecture!JP
<1> QED
  BY <1>8, <1>9 DEF Outcome, Architecture!Execute

\* JP, taken or not.
LEMMA JumpExecutes ==
  ASSUME Underway, Jump, Record
  PROVE  Outcome
<1> DEFINE y == Architecture!y
           a == Architecture!imm16
<1>1. PICK c \in Condition :
        /\ handler.body = <<"Jump", c>>
        /\ \/ Operand(1, "Z")
           \/ Operand(2, "W")
           \/ ~Holds(c, reg) /\ Return(3, reg, ime)
           \/ Holds(c, reg) /\ Yield(3, Assign16(reg, "PC", reg["WZ"]))
           \/ Return(4, reg, ime)
  BY DEF Jump, Executing
<1>2. /\ Name(handler) = "Jump" /\ handler.body # <<"RetI">> /\ handler.body[2] = c
      /\ Name(handler) \in ReadWord /\ Name(handler) \in ReadByte
  BY <1>1 DEF Name, ReadWord, ReadByte
<1>3. \/ Architecture!opcode = \hC3 /\ c = "Always"
      \/ Architecture!x = 3 /\ Architecture!z = 2 /\ y < 4 /\ c = CondOf[y + 1]
  BY <1>1, DecodedUnderway DEF Decodes, Block0, Block1, Block2, Block3
<1>4. CASE Operand(1, "Z")
  BY <1>2, <1>4, OperandZ
<1>5. CASE Operand(2, "W")
  BY <1>2, <1>5, OperandW
<1>6. ASSUME ~Holds(c, reg), Return(3, reg, ime)
      PROVE  Outcome
  <2>1. handler.at = 3
    BY <1>6 DEF Return
  <2>2. elapsed = 2 /\ Seen = boundary /\ PcPast(reg, 3)
    BY <1>2, <2>1, AtThird
  <2>3. Ended /\ Architecture!Proceed(boundary, 3, 3)
    BY <1>2, <1>6, <2>2, ProceedsUnchanged
  <2>4. c # "Always"
    BY <1>6 DEF Holds
  <2>5. y \in 0 .. 3
    BY <1>3, <2>4, DecodedUnderway
  <2>6. ~Architecture!Taken(y)
    BY <1>3, <1>6, <2>2, <2>4, <2>5, ConditionSeen
  <2>7. Architecture!JP
    BY <1>3, <2>3, <2>4, <2>6 DEF Architecture!JP
  <2> QED
    BY <2>3, <2>7 DEF Outcome, Architecture!Execute
<1>7. ASSUME Holds(c, reg), Yield(3, Assign16(reg, "PC", reg["WZ"]))
      PROVE  Outcome
  <2> DEFINE q == Assign16(reg, "PC", reg["WZ"])
             h == At(3 + 1, handler.local)
  <2>1. Suspend(3, 3 + 1, q, ime, ram, handler.local) /\ handler.at = 3
    BY <1>7 DEF Yield, Suspend
  <2>2. elapsed = 2 /\ Seen = boundary /\ reg["WZ"] = a
    BY <1>2, <2>1, AtThird
  <2>3. reg["WZ"] \in Word
    BY Basics DEF Register16
  <2>4. Machine(q, ime, ram, boundary.pc) = boundary /\ q["PC"] = a /\ Flags(q) = Flags(reg)
    BY <2>2, <2>3, PCAssigned
  <2>5. Name(h) = "Jump" /\ h.body[2] = c /\ h.at = 4
    BY <1>2, SameHandler
  <2> HIDE DEF q, h
  <2>6. Jumping(h, q, boundary)
    BY <1>7, <2>4, <2>5, HoldsSame DEF Jumping
  <2> QED
    BY <2>1, <2>2, <2>4, <2>6, Advances DEF h
<1>8. CASE Return(4, reg, ime)
  <2>1. handler.at = 4
    BY <1>8 DEF Return
  <2>2. elapsed = 3 /\ Jumping(handler, reg, Seen)
    BY <1>2, <2>1, AtJumping
  <2>3. Seen = boundary /\ Holds(c, reg) /\ reg["PC"] = a
    BY <1>2, <2>1, <2>2 DEF Jumping
  <2>4. reg \in CleanFile /\ reg["PC"] \in Word
    BY Basics DEF Register16
  <2>5. reg["PC"] = a % 65536
    BY <2>3, <2>4 DEF Word
  <2>6. Ended /\ Architecture!Continue(boundary, a, 4)
    <3> HIDE DEF a
    <3> QED
      BY <1>2, <1>8, <2>2, <2>3, <2>4, <2>5, Continues DEF Seen
  <2>7. \/ Architecture!opcode = \hC3
        \/ Architecture!x = 3 /\ Architecture!z = 2 /\ y < 4 /\ Architecture!Taken(y)
    <3>1. CASE Architecture!opcode = \hC3
      BY <3>1
    <3>2. CASE Architecture!x = 3 /\ Architecture!z = 2 /\ y < 4 /\ c = CondOf[y + 1]
      <4>1. y \in 0 .. 3
        BY <3>2, DecodedUnderway
      <4> QED
        BY <2>3, <3>2, <4>1, ConditionSeen
    <3> QED
      BY <1>3, <3>1, <3>2
  <2>8. Architecture!JP
    BY <2>6, <2>7 DEF Architecture!JP
  <2> QED
    BY <2>6, <2>8 DEF Outcome, Architecture!Execute
<1> QED
  BY <1>1, <1>4, <1>5, <1>6, <1>7, <1>8

\* Where a relative jump goes.
Displaced == boundary.pc + 2 + Architecture!Signed(Architecture!imm8)

RelativelyTaken == Architecture!y = 3 \/ Architecture!Taken(Architecture!y - 4)

\* The target that JR leaves in WZ.
LEMMA DisplacedTarget ==
  ASSUME Underway, PcPast(reg, 2), R8("Z") = Architecture!imm8
  PROVE  JumpTarget \in Word /\ JumpTarget = Displaced % 65536
<1> DEFINE e == Architecture!Signed(Architecture!imm8)
<1>1. JumpTarget \in Word /\ JumpTarget = (reg["PC"] + e) % 65536
  BY Basics, TargetIsSum
<1>2. e \in Int
  BY Basics, OperandTypes DEF Architecture!Signed, Byte
<1>3. boundary.pc \in Int /\ reg["PC"] = (boundary.pc + 2) % 65536
  BY Basics DEF Word, PcPast
<1> HIDE DEF e
<1>4. (((boundary.pc + 2) % 65536) + e) % 65536 = (boundary.pc + 2 + e) % 65536
  BY <1>2, <1>3
<1> QED
  BY <1>1, <1>3, <1>4 DEF Displaced, e

\* A relative jump executed.
LEMMA RelativeExecutes ==
  ASSUME Architecture!x = 0, Architecture!z = 0, Architecture!y > 2,
         \/ RelativelyTaken /\ Architecture!Continue(boundary, Displaced, 3)
         \/ ~RelativelyTaken /\ Architecture!Continue(boundary, boundary.pc + 2 + 0, 2)
  PROVE  Architecture!Execute
<1>1. CASE RelativelyTaken /\ Architecture!Continue(boundary, Displaced, 3)
  BY <1>1 DEF Architecture!JR, Displaced, RelativelyTaken, Architecture!Execute
<1>2. CASE ~RelativelyTaken /\ Architecture!Continue(boundary, boundary.pc + 2 + 0, 2)
  BY <1>2 DEF Architecture!JR, RelativelyTaken, Architecture!Execute
<1> QED
  BY <1>1, <1>2

\* JR, taken or not.
LEMMA JumpRelativeExecutes ==
  ASSUME Underway, JumpRelative, Record
  PROVE  Outcome
<1> DEFINE y == Architecture!y
<1>1. PICK c \in Condition :
        /\ handler.body = <<"JumpRelative", c>>
        /\ \/ Operand(1, "Z")
           \/ ~Holds(c, reg) /\ Return(2, reg, ime)
           \/ Holds(c, reg) /\ Yield(2, Assign16(reg, "WZ", JumpTarget))
           \/ Return(3, Assign16(reg, "PC", reg["WZ"]), ime)
  BY DEF JumpRelative, Executing
<1>2. /\ Name(handler) = "JumpRelative" /\ handler.body # <<"RetI">> /\ handler.body[2] = c
      /\ Name(handler) \in ReadByte
  BY <1>1 DEF Name, ReadByte
<1>3. /\ Architecture!x = 0 /\ Architecture!z = 0 /\ y > 2
      /\ \/ y = 3 /\ c = "Always"
         \/ y > 3 /\ c = CondOf[y - 3]
  BY <1>1, DecodedUnderway DEF Decodes, Block0, Block1, Block2, Block3
<1>4. Seen.flags = boundary.flags => (Holds(c, reg) <=> RelativelyTaken)
  <2>1. CASE y = 3 /\ c = "Always"
    BY <2>1 DEF Holds, RelativelyTaken
  <2>2. CASE y > 3 /\ c = CondOf[y - 3]
    <3> DEFINE k == y - 4
    <3>1. k \in 0 .. 3 /\ k + 1 = y - 3 /\ y # 3
      BY <2>2, DecodedUnderway
    <3> HIDE DEF k
    <3>2. Seen.flags = boundary.flags => (Holds(CondOf[k + 1], reg) <=> Architecture!Taken(k))
      BY <3>1, ConditionSeen
    <3> QED
      BY <2>2, <3>1, <3>2 DEF RelativelyTaken, k
  <2> QED
    BY <1>3, <2>1, <2>2
<1>5. CASE Operand(1, "Z")
  BY <1>2, <1>5, OperandZ
<1>6. ASSUME ~Holds(c, reg), Return(2, reg, ime)
      PROVE  Outcome
  <2>1. handler.at = 2
    BY <1>6 DEF Return
  <2>2. elapsed = 1 /\ Seen = boundary /\ PcPast(reg, 2)
    BY <1>2, <2>1, AtSecond
  <2> DEFINE a == boundary.pc + 2 + 0
  <2>3. reg["PC"] = a % 65536 /\ reg \in CleanFile
    BY <2>2, Basics DEF PcPast, Word
  <2> HIDE DEF a
  <2>4. Ended /\ Architecture!Continue(boundary, a, 2)
    BY <1>2, <1>6, <2>2, <2>3, Continues DEF Seen
  <2>5. ~RelativelyTaken
    BY <1>4, <1>6, <2>2
  <2> QED
    BY <1>3, <2>4, <2>5, RelativeExecutes DEF Outcome, a
<1>7. ASSUME Holds(c, reg), Yield(2, Assign16(reg, "WZ", JumpTarget))
      PROVE  Outcome
  <2> DEFINE w == JumpTarget
             q == Assign16(reg, "WZ", w)
             h == At(2 + 1, handler.local)
  <2>1. Suspend(2, 2 + 1, q, ime, ram, handler.local) /\ handler.at = 2
    BY <1>7 DEF Yield, Suspend
  <2>2. elapsed = 1 /\ Seen = boundary /\ PcPast(reg, 2) /\ R8("Z") = Architecture!imm8
    BY <1>2, <2>1, AtSecond
  <2>3. w \in Word /\ w = Displaced % 65536
    BY <2>2, DisplacedTarget
  <2> HIDE DEF w
  <2>4. Machine(q, ime, ram, boundary.pc) = boundary /\ q["WZ"] = w /\ Flags(q) = Flags(reg)
    <3>1. reg \in CleanFile /\ "WZ" \in Register16 /\ "WZ" # "AF"
      BY Basics DEF Register16
    <3> QED
      BY <2>2, <2>3, <3>1, Assign16Kept, Assign16Others, MachineInternal DEF Seen
  <2>5. Name(h) = "JumpRelative" /\ h.body[2] = c /\ h.at = 3
    BY <1>2, SameHandler
  <2> HIDE DEF q, h
  <2>6. Jumping(h, q, boundary)
    BY <1>7, <2>3, <2>4, <2>5, HoldsSame DEF Jumping, Displaced
  <2> QED
    BY <2>1, <2>2, <2>4, <2>6, Advances DEF h
<1>8. CASE Return(3, Assign16(reg, "PC", reg["WZ"]), ime)
  <2> DEFINE q == Assign16(reg, "PC", reg["WZ"])
  <2>1. handler.at = 3
    BY <1>8 DEF Return
  <2>2. elapsed = 2 /\ Jumping(handler, reg, Seen)
    BY <1>2, <2>1, AtJumping
  <2>3. Seen = boundary /\ Holds(c, reg) /\ reg["WZ"] = Displaced % 65536
    BY <1>2, <2>1, <2>2 DEF Jumping, Displaced
  <2>4. reg["WZ"] \in Word
    BY Basics DEF Register16
  <2>5. Machine(q, ime, ram, boundary.pc) = boundary /\ q["PC"] = Displaced % 65536 /\ q \in CleanFile
    BY <2>3, <2>4, PCAssigned
  <2> HIDE DEF q
  <2>6. Ended /\ Architecture!Continue(boundary, Displaced, 3)
    BY <1>2, <1>8, <2>2, <2>5, Continues DEF q
  <2>7. RelativelyTaken
    BY <1>4, <2>3
  <2> QED
    BY <1>3, <2>6, <2>7, RelativeExecutes DEF Outcome
<1> QED
  BY <1>1, <1>5, <1>6, <1>7, <1>8

-----------------------------------------------------------------------------
(* Taking words off the stack *)

\* A byte taken off the stack into W or Z.
LEMMA TakenOff ==
  ASSUME Underway, NEW n \in {"W", "Z"}, NEW b \in Byte, NEW q, q = Bump(Assign8(reg, n, b), "SP", 1)
  PROVE  /\ Machine(q, ime, ram, boundary.pc) = WithSP(Seen, (reg["SP"] + 1) % 65536)
         /\ Flags(q) = Flags(reg) /\ q["PC"] = reg["PC"]
         /\ n = "Z" => Value8(q, "Z") = b
         /\ n = "W" => q["WZ"] = 256 * b + R8("Z")
<1> DEFINE r == Assign8(reg, n, b)
<1>1. reg \in CleanFile /\ n \in Plain8 /\ {"PC", "SP"} \subseteq Register16 /\ Whole(n) = "WZ" /\ n \notin Register8
  BY Basics DEF Plain8, Register16, Whole, Register8
<1>2. r \in CleanFile /\ r["PC"] = reg["PC"] /\ r["SP"] = reg["SP"]
  BY <1>1, Assign8Clean, Assign8Views
<1>3. Flags(r) = Flags(reg)
  BY <1>1, Assign8Flags
<1>4. Machine(r, ime, ram, boundary.pc) = Seen
  BY <1>1, MachineInternal DEF Seen
<1>5. /\ n = "Z" => Value8(q, "Z") = b
      /\ n = "W" => q["WZ"] = 256 * b + R8("Z")
  BY BumpedBeside
<1> HIDE DEF r
<1>6. q = Bump(r, "SP", 1) /\ 1 \in Int
  BY DEF r
<1>7. /\ Machine(q, ime, ram, boundary.pc) = WithSP(Machine(r, ime, ram, boundary.pc), (r["SP"] + 1) % 65536)
      /\ q["PC"] = r["PC"] /\ Flags(q) = Flags(r)
  BY <1>2, <1>6, SPBumped
<1> QED
  BY <1>2, <1>3, <1>4, <1>5, <1>7

\* The resumption that takes the low byte off the stack.
LEMMA PopsLow ==
  ASSUME Underway, Name(handler) \in {"PopRr", "Ret", "RetI", "RetConditional"}, NEW k \in 1 .. 5, k = TakesOff(handler),
         PopByte(k, "Z"), Record, elapsed = k - 1, Seen = boundary, PcPast(reg, 1),
         Name(handler) = "RetConditional" => Holds(handler.body[2], reg)
  PROVE  Outcome
<1> DEFINE b == BusRead(reg["SP"])
           q == Bump(Assign8(reg, "Z", b), "SP", 1)
           h == At(k + 1, handler.local)
           s == MovedSP(1)
<1>1. Suspend(k, k + 1, q, ime, ram, handler.local)
  BY DEF PopByte, Yield
<1>2. boundary.sp = reg["SP"] /\ boundary.ram = ram /\ reg["SP"] \in Word
  BY SeenParts, Basics DEF Register16
<1>3. b = Architecture!Peek(boundary.sp) /\ b \in Byte
  BY <1>2, Basics, ReadIsPeek, PeekType
<1> HIDE DEF b
<1>4. /\ Machine(q, ime, ram, boundary.pc) = WithSP(Seen, (reg["SP"] + 1) % 65536)
      /\ Flags(q) = Flags(reg) /\ q["PC"] = reg["PC"] /\ Value8(q, "Z") = b
  BY <1>3, TakenOff
<1>5. Machine(q, ime, ram, boundary.pc) = s
  BY <1>2, <1>4, MovesSP
<1>6. Name(h) = Name(handler) /\ h.body = handler.body /\ h.at = k + 1 /\ TakesOff(h) = k
  BY SameHandler
<1> HIDE DEF q, h, s
<1>7. Popping(h, q, s)
  <2>1. Name(h) = "RetConditional" => Holds(h.body[2], q)
    BY <1>4, <1>6, HoldsSame
  <2>2. h.at = TakesOff(h) + 1 /\ PcPast(q, 1) /\ s = MovedSP(1) /\ Value8(q, "Z") = Architecture!Peek(boundary.sp)
    BY <1>3, <1>4, <1>6 DEF PcPast, s
  <2>3. Name(h) \in {"PopRr", "Ret", "RetI", "RetConditional"}
    BY <1>6
  <2> QED
    BY <2>1, <2>2, <2>3 DEF Popping
<1> QED
  BY <1>1, <1>5, <1>7, Advances DEF h

\* The resumption that takes the high byte off the stack.
LEMMA PopsHigh ==
  ASSUME Underway, Name(handler) \in {"PopRr", "Ret", "RetI", "RetConditional"}, NEW k \in 1 .. 2, k = TakesOff(handler),
         NEW j \in 2 .. 3, j = k + 1, PopByte(j, "W"), Record
  PROVE  Outcome
<1> DEFINE b == BusRead(reg["SP"])
           q == Bump(Assign8(reg, "W", b), "SP", 1)
           h == At(j + 1, handler.local)
           a == (boundary.sp + 1) % 65536
           s == MovedSP(2)
<1>1. Suspend(j, j + 1, q, ime, ram, handler.local) /\ handler.at = j
  BY DEF PopByte, Yield, Suspend
<1>2. elapsed = j - 1 /\ Popping(handler, reg, Seen)
  BY <1>1, AtPopping
<1>3. /\ PcPast(reg, 1) /\ Seen = MovedSP(1) /\ R8("Z") = Architecture!Peek(boundary.sp)
      /\ Name(handler) = "RetConditional" => Holds(handler.body[2], reg)
  <2>1. handler.at = TakesOff(handler) + 1 /\ (Name(handler) = "RetConditional" => handler.at = 3)
    BY <1>1 DEF TakesOff
  <2>2. handler.at # TakesOff(handler) + 2 /\ handler.at # TakesOff(handler) + 3 /\ ~(handler.at = 2 /\ Name(handler) = "RetConditional")
    BY <2>1
  <2> QED
    BY <1>2, <2>1, <2>2 DEF Popping, R8
<1>4. boundary \in MachineState /\ boundary.sp \in Int /\ a \in Word
  BY Basics DEF MachineState, Word
<1>5. Seen = WithSP(boundary, a) /\ s = WithSP(boundary, (boundary.sp + 2) % 65536)
  BY <1>3, MovesSP
<1>6. reg["SP"] = a /\ boundary.ram = ram
  BY <1>4, <1>5, WithSPParts, SeenParts
<1>7. b = Architecture!Peek(a) /\ b \in Byte
  BY <1>4, <1>6, Basics, ReadIsPeek, PeekType
<1>8. (a + 1) % 65536 = (boundary.sp + 2) % 65536
  BY <1>4
<1> HIDE DEF b
<1>9. /\ Machine(q, ime, ram, boundary.pc) = WithSP(Seen, (reg["SP"] + 1) % 65536)
      /\ Flags(q) = Flags(reg) /\ q["PC"] = reg["PC"] /\ q["WZ"] = 256 * b + R8("Z")
  BY <1>7, TakenOff
<1>10. Machine(q, ime, ram, boundary.pc) = s
  BY <1>4, <1>5, <1>6, <1>8, <1>9, WithSPParts
<1>11. q["WZ"] = Architecture!Popped
  BY <1>3, <1>7, <1>9 DEF Architecture!Popped, Architecture!Peek16
<1>12. Name(h) = Name(handler) /\ h.body = handler.body /\ h.at = j + 1 /\ TakesOff(h) = k
  BY SameHandler
<1> HIDE DEF q, h, s
<1>13. Popping(h, q, s)
  <2>1. Name(h) = "RetConditional" => Holds(h.body[2], q)
    BY <1>3, <1>9, <1>12, HoldsSame
  <2>2. h.at = TakesOff(h) + 2 /\ PcPast(q, 1) /\ s = MovedSP(2) /\ q["WZ"] = Architecture!Popped
    BY <1>3, <1>9, <1>11, <1>12 DEF PcPast, s
  <2>3. Name(h) \in {"PopRr", "Ret", "RetI", "RetConditional"}
    BY <1>12
  <2> QED
    BY <2>1, <2>2, <2>3 DEF Popping
<1>14. j \in 1 .. 5
  OBVIOUS
<1> QED
  BY <1>1, <1>2, <1>10, <1>13, <1>14, Advances DEF h

\* Both bytes are in WZ.
LEMMA AtPopped ==
  ASSUME Underway, Name(handler) \in {"PopRr", "Ret", "RetI", "RetConditional"}, handler.at = TakesOff(handler) + 2
  PROVE  /\ elapsed = handler.at - 1 /\ PcPast(reg, 1)
         /\ Seen = Architecture!PopOff(boundary) /\ reg["WZ"] = Architecture!Popped
         /\ Name(handler) = "RetConditional" => Holds(handler.body[2], reg)
<1>1. handler.at \in 2 .. 4 /\ (Name(handler) = "RetConditional" => handler.at = 4) /\ TakesOff(handler) \in Int
  BY DEF TakesOff
<1>2. elapsed = handler.at - 1 /\ Popping(handler, reg, Seen)
  BY <1>1, AtPopping
<1>3. handler.at # TakesOff(handler) + 1 /\ handler.at # TakesOff(handler) + 3 /\ ~(handler.at = 2 /\ Name(handler) = "RetConditional")
  BY <1>1
<1>4. Architecture!PopOff(boundary) = MovedSP(2)
  BY DEF Architecture!PopOff, MovedSP
<1> QED
  BY <1>2, <1>3, <1>4 DEF Popping

\* RETI enables interrupts without the delay of EI.
LEMMA MachineEnabled ==
  ASSUME NEW r, NEW i, NEW m, NEW pc
  PROVE  Machine(r, "ENABLED", m, pc) = Architecture!Interrupts(Machine(r, i, m, pc), TRUE)
<1> DEFINE a == Seen8(r)
           b == FlagNames(Flags(r))
           c == r["SP"]
           e == On(i)
           f == Pending(i)
           o == TRUE
           k == FALSE
           j == "ENABLED"
<1>1. Machine(r, i, m, pc) = Image(a, b, c, pc, e, f, m)
  BY MachineIsImage
<1>2. On(j) = o /\ Pending(j) = k
  BY DEF On, Pending
<1>3. Machine(r, j, m, pc) = Image(a, b, c, pc, On(j), Pending(j), m)
  BY MachineIsImage
<1> HIDE DEF a, b, c, e, f, o, j
<1>4. Architecture!Interrupts(Machine(r, i, m, pc), o) = [Image(a, b, c, pc, e, f, m) EXCEPT !.enabled = o, !.armed = k]
  BY <1>1, Zenon DEF Architecture!Interrupts, k
<1> HIDE DEF k
<1>5. [Image(a, b, c, pc, e, f, m) EXCEPT !.enabled = o] = Image(a, b, c, pc, o, f, m)
  BY DEF Image
<1>6. [Image(a, b, c, pc, o, f, m) EXCEPT !.armed = k] = Image(a, b, c, pc, o, k, m)
  BY DEF Image
<1>7. [Image(a, b, c, pc, e, f, m) EXCEPT !.enabled = o, !.armed = k] = Image(a, b, c, pc, o, k, m)
  BY <1>5, <1>6
<1>8. Machine(r, j, m, pc) = Image(a, b, c, pc, o, k, m)
  BY <1>2, <1>3, Zenon
<1>9. Machine(r, j, m, pc) = Architecture!Interrupts(Machine(r, i, m, pc), o)
  BY <1>4, <1>7, <1>8
<1> QED
  BY <1>9, Zenon DEF o, j

\* A return puts WZ into PC; RETI enables the interrupts as well.
LEMMA Returns ==
  ASSUME Underway, Name(handler) \in {"Ret", "RetI", "RetConditional"}, NEW k \in 1 .. 2, k = TakesOff(handler),
         NEW j \in 3 .. 4, j = k + 2, NEW i, i = IF Name(handler) = "RetI" THEN "ENABLED" ELSE ime,
         Suspend(j, j + 1, Assign16(reg, "PC", reg["WZ"]), i, ram, handler.local), Record
  PROVE  Outcome
<1> DEFINE q == Assign16(reg, "PC", reg["WZ"])
           h == At(j + 1, handler.local)
           s == IF Name(handler) = "RetI" THEN Architecture!Interrupts(MovedSP(2), TRUE) ELSE MovedSP(2)
<1>1. handler.at = j
  BY DEF Suspend
<1>2. /\ elapsed = j - 1
      /\ Seen = Architecture!PopOff(boundary) /\ reg["WZ"] = Architecture!Popped
      /\ Name(handler) = "RetConditional" => Holds(handler.body[2], reg)
  BY <1>1, AtPopped
<1>3. Architecture!PopOff(boundary) = MovedSP(2)
  BY DEF Architecture!PopOff, MovedSP
<1>4. reg["WZ"] \in Word
  BY Basics DEF Register16
<1>5. Machine(q, ime, ram, boundary.pc) = MovedSP(2) /\ q["PC"] = Architecture!Popped /\ Flags(q) = Flags(reg)
  BY <1>2, <1>3, <1>4, PCAssigned
<1> HIDE DEF q
<1>6. Machine(q, i, ram, boundary.pc) = s
  <2>1. CASE Name(handler) = "RetI"
    <3>1. Machine(q, "ENABLED", ram, boundary.pc) = Architecture!Interrupts(Machine(q, ime, ram, boundary.pc), TRUE)
      BY MachineEnabled, Zenon
    <3>2. Machine(q, "ENABLED", ram, boundary.pc) = Architecture!Interrupts(MovedSP(2), TRUE)
      BY <1>5, <3>1, Zenon
    <3> QED
      BY <2>1, <3>2
  <2>2. CASE Name(handler) # "RetI"
    BY <1>5, <2>2
  <2> QED
    BY <2>1, <2>2
<1>7. Name(h) = Name(handler) /\ h.body = handler.body /\ h.at = j + 1 /\ TakesOff(h) = k
  BY SameHandler
<1> HIDE DEF h, s
<1>8. Popping(h, q, s)
  <2>1. Name(h) = "RetConditional" => Holds(h.body[2], q)
    BY <1>2, <1>5, <1>7, HoldsSame
  <2>2. h.at = TakesOff(h) + 3 /\ Name(h) # "PopRr"
    BY <1>7
  <2>3. s = IF Name(h) = "RetI" THEN Architecture!Interrupts(MovedSP(2), TRUE) ELSE MovedSP(2)
    BY <1>7 DEF s
  <2> QED
    BY <1>5, <1>7, <2>1, <2>2, <2>3 DEF Popping
<1>9. j \in 1 .. 5
  OBVIOUS
<1> QED
  BY <1>2, <1>6, <1>8, <1>9, Advances DEF h, q

\* POP rr; POP AF through the mask.
LEMMA PopRrExecutes ==
  ASSUME Underway, PopRr, Record
  PROVE  Outcome
<1> DEFINE y == Architecture!y
           w == reg["WZ"]
<1>1. PICK d \in StackedPair :
        /\ handler.body = <<"PopRr", d>>
        /\ PopByte(1, "Z") \/ PopByte(2, "W") \/ Return(3, Assign16(reg, d, w), ime)
  BY DEF PopRr, Executing
<1>2. Name(handler) = "PopRr" /\ handler.body # <<"RetI">> /\ TakesOff(handler) = 1
  BY <1>1 DEF Name, TakesOff
<1>3. Architecture!x = 3 /\ Architecture!z = 1 /\ y \in {0, 2, 4, 6} /\ y % 2 = 0 /\ d = StackedOf[Half(y)]
  BY <1>1, DecodedUnderway DEF Decodes, Block0, Block1, Block2, Block3, Even
<1>4. CASE PopByte(1, "Z")
  <2>1. handler.at = 1
    BY <1>4 DEF PopByte, Yield, Suspend
  <2>2. elapsed = 0 /\ Seen = boundary /\ PcPast(reg, 1)
    BY <2>1, AtFirst
  <2> QED
    BY <1>2, <1>4, <2>2, PopsLow
<1>5. CASE PopByte(2, "W")
  BY <1>2, <1>5, PopsHigh
<1>6. CASE Return(3, Assign16(reg, d, w), ime)
  <2> DEFINE p == y \div 2
             q == Assign16(reg, d, w)
             m == Architecture!PopOff(boundary)
  <2>1. handler.at = 3
    BY <1>6 DEF Return
  <2>2. elapsed = 2 /\ PcPast(reg, 1) /\ Seen = m /\ w = Architecture!Popped
    BY <1>2, <2>1, AtPopped
  <2>3. w \in Word /\ w \in Int /\ w % 65536 = w /\ reg \in CleanFile
    BY Basics DEF Register16, Word
  <2> HIDE DEF m, w
  <2>4. ASSUME y # 6
        PROVE  Outcome
    <3>1. p \in 0 .. 3 /\ d = PairOf[p + 1]
      BY <1>3, <2>4 DEF Half, StackedOf, PairOf
    <3> HIDE DEF p, y
    <3>2. /\ Machine(Assign16(reg, d, w), ime, ram, boundary.pc) = Architecture!Set16(m, p, w)
          /\ Assign16(reg, d, w) \in CleanFile
          /\ Assign16(reg, d, w)["PC"] = reg["PC"]
      BY <2>2, <2>3, <3>1, PairAssigned DEF Seen
    <3>3. Ended /\ Architecture!Proceed(Architecture!Set16(m, p, w), 1, 3)
      BY <1>2, <1>6, <2>2, <3>2, ProceedsFrom
    <3>4. Architecture!POP
      BY <1>3, <2>2, <2>4, <3>3 DEF Architecture!POP, m, p, y
    <3> QED
      BY <3>3, <3>4 DEF Outcome, Architecture!Execute
  <2>5. ASSUME y = 6
        PROVE  Outcome
    <3> DEFINE F == {f \in DOMAIN Architecture!FlagBits : (w \div Architecture!FlagBits[f]) % 2 = 1}
               s == Updated(m, "A", w \div 256, F)
    <3>1. d = "AF"
      BY <1>3, <2>5 DEF Half, StackedOf
    <3>2. Machine(Assign16(reg, "AF", w), ime, ram, boundary.pc) = s
      BY <2>2, <2>3, PoppedAF DEF Seen
    <3>3. Assign16(reg, "AF", w) \in CleanFile /\ Assign16(reg, "AF", w)["PC"] = reg["PC"]
      <4>1. "AF" \in Register16 /\ "PC" \in Register16 /\ "PC" # "AF"
        BY DEF Register16
      <4> QED
        BY <2>3, <4>1, Assign16Clean, Assign16Kept
    <3>4. Ended /\ Architecture!Proceed(s, 1, 3)
      <4> HIDE DEF s
      <4> QED
        BY <1>2, <1>6, <2>2, <3>1, <3>2, <3>3, ProceedsFrom
    <3>5. Architecture!Proceed([m EXCEPT !.r["A"] = w \div 256, !.flags = F], 1, 3)
      BY <3>4 DEF Updated
    <3> HIDE DEF s
    <3>6. Architecture!POP
      BY <1>3, <2>2, <2>5, <3>5, Zenon DEF Architecture!POP, m
    <3> QED
      BY <3>4, <3>6 DEF Outcome, Architecture!Execute
  <2> QED
    BY <2>4, <2>5
<1> QED
  BY <1>1, <1>4, <1>5, <1>6

\* What the course says of RET and RETI once PC has its target.
LEMMA AtReturned ==
  ASSUME Underway, Name(handler) \in {"Ret", "RetI"}, handler.at = 4
  PROVE  /\ elapsed = 3 /\ reg["PC"] = Architecture!Popped
         /\ Seen = IF Name(handler) = "RetI" THEN Architecture!Interrupts(MovedSP(2), TRUE) ELSE MovedSP(2)
<1>1. elapsed = 3 /\ Popping(handler, reg, Seen)
  BY AtPopping
<1>2. Name(handler) # "RetConditional" /\ handler.at # TakesOff(handler) + 1 /\ handler.at # TakesOff(handler) + 2
  BY DEF TakesOff
<1> QED
  BY <1>1, <1>2, Zenon DEF Popping

\* RET.
LEMMA RetExecutes ==
  ASSUME Underway, Ret, Record
  PROVE  Outcome
<1>1. /\ handler.body = <<"Ret">>
      /\ \/ PopByte(1, "Z")
         \/ PopByte(2, "W")
         \/ Yield(3, Assign16(reg, "PC", reg["WZ"]))
         \/ Return(4, reg, ime)
  BY DEF Ret, Executing
<1>2. Name(handler) = "Ret" /\ handler.body # <<"RetI">> /\ TakesOff(handler) = 1
  BY <1>1 DEF Name, TakesOff
<1>3. Architecture!opcode = \hC9
  BY <1>1, DecodedUnderway DEF Decodes, Block0, Block1, Block2, Block3
<1>4. CASE PopByte(1, "Z")
  <2>1. handler.at = 1
    BY <1>4 DEF PopByte, Yield, Suspend
  <2>2. elapsed = 0 /\ Seen = boundary /\ PcPast(reg, 1)
    BY <2>1, AtFirst
  <2> QED
    BY <1>2, <1>4, <2>2, PopsLow
<1>5. CASE PopByte(2, "W")
  BY <1>2, <1>5, PopsHigh
<1>6. CASE Yield(3, Assign16(reg, "PC", reg["WZ"]))
  <2> DEFINE q == Assign16(reg, "PC", reg["WZ"])
             i == ime
  <2>1. Suspend(3, 3 + 1, q, i, ram, handler.local) /\ i = IF Name(handler) = "RetI" THEN "ENABLED" ELSE ime
    BY <1>2, <1>6 DEF Yield
  <2> HIDE DEF i
  <2> QED
    BY <1>2, <2>1, Returns
<1>7. CASE Return(4, reg, ime)
  <2> DEFINE w == Architecture!Popped
             m == Architecture!PopOff(boundary)
  <2>1. handler.at = 4
    BY <1>7 DEF Return
  <2>2. elapsed = 3 /\ reg["PC"] = w /\ Seen = m
    BY <1>2, <2>1, AtReturned DEF Architecture!PopOff, MovedSP
  <2>3. reg \in CleanFile /\ reg["PC"] \in Word
    BY Basics DEF Register16
  <2>4. reg["PC"] = w % 65536
    BY <2>2, <2>3 DEF Word
  <2>5. Ended /\ Architecture!Continue(m, w, 4)
    <3> HIDE DEF w, m
    <3> QED
      BY <1>2, <1>7, <2>2, <2>3, <2>4, Continues DEF Seen
  <2>6. Architecture!RET
    BY <1>3, <2>5 DEF Architecture!RET
  <2> QED
    BY <2>5, <2>6 DEF Outcome, Architecture!Execute
<1> QED
  BY <1>1, <1>4, <1>5, <1>6, <1>7

\* A conditional return ends in its fifth resumption, taken or not.
LEMMA AtLastOfRet ==
  ASSUME Underway, Name(handler) = "RetConditional", handler.at = 5
  PROVE  \/ /\ elapsed = 4 /\ reg["PC"] = Architecture!Popped /\ Seen = MovedSP(2)
            /\ Holds(handler.body[2], reg)
         \/ elapsed = 1 /\ Seen = boundary /\ PcPast(reg, 1) /\ ~Holds(handler.body[2], reg)
<1>1. ~Fetching(handler, reg, Seen)
  BY DEF Fetching
<1>2. ~Loading(handler, reg, Seen)
  BY DEF Loading
<1>3. ~Pushing(handler, reg, Seen)
  BY DEF Pushing
<1>4. ~Jumping(handler, reg, Seen)
  BY DEF Jumping
<1>5. (elapsed = 4 /\ Popping(handler, reg, Seen)) \/ (elapsed = 1 /\ Skipping(handler, reg, Seen))
  BY <1>1, <1>2, <1>3, <1>4, Course
<1>6. TakesOff(handler) = 2
  BY DEF TakesOff
<1>7. Popping(handler, reg, Seen) =>
        reg["PC"] = Architecture!Popped /\ Seen = MovedSP(2) /\ Holds(handler.body[2], reg)
  BY <1>6 DEF Popping
<1>8. Skipping(handler, reg, Seen) => Seen = boundary /\ PcPast(reg, 1) /\ ~Holds(handler.body[2], reg)
  BY DEF Skipping
<1> QED
  BY <1>5, <1>7, <1>8

\* What the course says of a conditional return that is taken, while it
\* waits.
LEMMA AtWaitOfRet ==
  ASSUME Underway, Name(handler) = "RetConditional", handler.at = 2
  PROVE  elapsed = 1 /\ Seen = boundary /\ PcPast(reg, 1) /\ Holds(handler.body[2], reg)
<1>1. elapsed = 1 /\ Popping(handler, reg, Seen)
  BY AtPopping
<1>2. TakesOff(handler) = 2
  BY DEF TakesOff
<1> QED
  BY <1>1, <1>2 DEF Popping

\* RET cc, taken or not.
LEMMA RetConditionalExecutes ==
  ASSUME Underway, RetConditional, Record
  PROVE  Outcome
<1> DEFINE y == Architecture!y
<1>1. PICK c \in Condition :
        /\ handler.body = <<"RetConditional", c>>
        /\ \/ ~Holds(c, reg) /\ Suspend(1, 5, reg, ime, ram, handler.local)
           \/ Holds(c, reg) /\ Yield(1, reg)
           \/ PopByte(2, "Z")
           \/ PopByte(3, "W")
           \/ Yield(4, Assign16(reg, "PC", reg["WZ"]))
           \/ Return(5, reg, ime)
  BY DEF RetConditional, Executing
<1>2. /\ Name(handler) = "RetConditional" /\ handler.body # <<"RetI">> /\ TakesOff(handler) = 2
      /\ handler.body[2] = c
  BY <1>1 DEF Name, TakesOff
<1>3. Architecture!x = 3 /\ Architecture!z = 0 /\ y < 4 /\ y \in 0 .. 3 /\ c = CondOf[y + 1]
  BY <1>1, DecodedUnderway DEF Decodes, Block0, Block1, Block2, Block3
<1>4. Seen.flags = boundary.flags => (Holds(c, reg) <=> Architecture!Taken(y))
  <2> HIDE DEF y
  <2> QED
    BY <1>3, ConditionSeen
<1>5. ASSUME ~Holds(c, reg), Suspend(1, 5, reg, ime, ram, handler.local)
      PROVE  Outcome
  <2> DEFINE h == At(5, handler.local)
  <2>1. handler.at = 1
    BY <1>5 DEF Suspend
  <2>2. elapsed = 0 /\ Seen = boundary /\ PcPast(reg, 1)
    BY <2>1, AtFirst
  <2>3. Name(h) = "RetConditional" /\ h.body[2] = c /\ h.at = 5
    BY <1>2, SameHandler
  <2> HIDE DEF h
  <2>4. Skipping(h, reg, boundary)
    BY <1>5, <2>2, <2>3 DEF Skipping
  <2>5. OnCourse(h, reg, ime, ram, elapsed + 1)
    BY <2>2, <2>4 DEF OnCourse, Seen
  <2>6. 5 \in 2 .. 6
    OBVIOUS
  <2> QED
    BY <1>5, <2>5, <2>6, GoesOn DEF h
<1>6. ASSUME Holds(c, reg), Yield(1, reg)
      PROVE  Outcome
  <2> DEFINE h == At(1 + 1, handler.local)
  <2>1. Suspend(1, 1 + 1, reg, ime, ram, handler.local) /\ handler.at = 1
    BY <1>6 DEF Yield, Suspend
  <2>2. elapsed = 0 /\ Seen = boundary /\ PcPast(reg, 1)
    BY <2>1, AtFirst
  <2>3. Name(h) = "RetConditional" /\ h.body[2] = c /\ h.at = 2
    BY <1>2, SameHandler
  <2> HIDE DEF h
  <2>4. Popping(h, reg, boundary)
    BY <1>6, <2>2, <2>3 DEF Popping
  <2>5. Machine(reg, ime, ram, boundary.pc) = boundary
    BY <2>2 DEF Seen
  <2> QED
    BY <2>1, <2>2, <2>4, <2>5, Advances DEF h
<1>7. CASE PopByte(2, "Z")
  <2>1. handler.at = 2
    BY <1>7 DEF PopByte, Yield, Suspend
  <2>2. elapsed = 1 /\ Seen = boundary /\ PcPast(reg, 1) /\ Holds(handler.body[2], reg)
    BY <1>2, <2>1, AtWaitOfRet
  <2> QED
    BY <1>2, <1>7, <2>2, PopsLow
<1>8. CASE PopByte(3, "W")
  BY <1>2, <1>8, PopsHigh
<1>9. CASE Yield(4, Assign16(reg, "PC", reg["WZ"]))
  <2> DEFINE q == Assign16(reg, "PC", reg["WZ"])
             i == ime
  <2>1. Suspend(4, 4 + 1, q, i, ram, handler.local) /\ i = IF Name(handler) = "RetI" THEN "ENABLED" ELSE ime
    BY <1>2, <1>9 DEF Yield
  <2> HIDE DEF i
  <2> QED
    BY <1>2, <2>1, Returns
<1>10. CASE Return(5, reg, ime)
  <2> DEFINE w == Architecture!Popped
             m == Architecture!PopOff(boundary)
  <2>1. handler.at = 5
    BY <1>10 DEF Return
  <2>2. m = MovedSP(2)
    BY DEF Architecture!PopOff, MovedSP
  <2>3. reg \in CleanFile /\ reg["PC"] \in Word
    BY Basics DEF Register16
  <2>4. ASSUME elapsed = 4, reg["PC"] = w, Seen = MovedSP(2), Holds(c, reg)
        PROVE  Outcome
    <3>1. reg["PC"] = w % 65536
      BY <2>3, <2>4 DEF Word
    <3>2. Seen.flags = boundary.flags
      BY <2>4, Basics DEF MovedSP, MachineState
    <3>3. Architecture!Taken(y)
      BY <1>4, <2>4, <3>2
    <3>4. Ended /\ Architecture!Continue(m, w, 5)
      <4> HIDE DEF w, m
      <4> QED
        BY <1>2, <1>10, <2>2, <2>3, <2>4, <3>1, Continues DEF Seen
    <3>5. Architecture!RET
      BY <1>3, <3>3, <3>4 DEF Architecture!RET
    <3> QED
      BY <3>4, <3>5 DEF Outcome, Architecture!Execute
  <2>5. ASSUME elapsed = 1, Seen = boundary, PcPast(reg, 1), ~Holds(c, reg)
        PROVE  Outcome
    <3>1. ~Architecture!Taken(y)
      BY <1>4, <2>5
    <3>2. Ended /\ Architecture!Proceed(boundary, 1, 2)
      BY <1>2, <1>10, <2>5, ProceedsUnchanged
    <3>3. Architecture!RET
      BY <1>3, <3>1, <3>2 DEF Architecture!RET
    <3> QED
      BY <3>2, <3>3 DEF Outcome, Architecture!Execute
  <2> QED
    BY <1>2, <2>1, <2>4, <2>5, AtLastOfRet
<1> QED
  BY <1>1, <1>5, <1>6, <1>7, <1>8, <1>9, <1>10

\* The machine with another PC.
LEMMA MachinePC ==
  ASSUME NEW r, NEW i, NEW m, NEW pc, NEW w
  PROVE  Machine(r, i, m, w) = [Machine(r, i, m, pc) EXCEPT !.pc = w]
BY MachineIsImage, ImagePC

\* Interrupts that are enabled are.
LEMMA InterruptsEnabled ==
  ASSUME NEW s \in MachineState
  PROVE  Architecture!Interrupts(s, TRUE).enabled
<1>1. PICK p1, p2, p3, p4, p5, p6, p7 : s = Image(p1, p2, p3, p4, p5, p6, p7)
  BY DEF MachineState, Image
<1> DEFINE o == TRUE
           k == FALSE
<1> HIDE DEF o, k
<1>2. [s EXCEPT !.enabled = o, !.armed = k].enabled = o
  BY <1>1 DEF Image
<1>3. Architecture!Interrupts(s, o).enabled = o
  BY <1>2, Zenon DEF Architecture!Interrupts, k
<1> QED
  BY <1>3, Zenon DEF o

\* RETI, which enables interrupts two M-cycles before it ends.
LEMMA RetIExecutes ==
  ASSUME Underway, RetI, Record
  PROVE  Outcome
<1>1. /\ handler.body = <<"RetI">>
      /\ \/ PopByte(1, "Z")
         \/ PopByte(2, "W")
         \/ Suspend(3, 4, Assign16(reg, "PC", reg["WZ"]), "ENABLED", ram, handler.local)
         \/ Return(4, reg, ime)
  BY DEF RetI, Executing
<1>2. Name(handler) = "RetI" /\ TakesOff(handler) = 1
  BY <1>1 DEF Name, TakesOff
<1>3. Architecture!opcode = \hD9
  BY <1>1, DecodedUnderway DEF Decodes, Block0, Block1, Block2, Block3
<1>4. CASE PopByte(1, "Z")
  <2>1. handler.at = 1
    BY <1>4 DEF PopByte, Yield, Suspend
  <2>2. elapsed = 0 /\ Seen = boundary /\ PcPast(reg, 1)
    BY <2>1, AtFirst
  <2> QED
    BY <1>2, <1>4, <2>2, PopsLow
<1>5. CASE PopByte(2, "W")
  BY <1>2, <1>5, PopsHigh
<1>6. CASE Suspend(3, 4, Assign16(reg, "PC", reg["WZ"]), "ENABLED", ram, handler.local)
  <2> DEFINE q == Assign16(reg, "PC", reg["WZ"])
             i == "ENABLED"
  <2>1. Suspend(3, 3 + 1, q, i, ram, handler.local) /\ i = IF Name(handler) = "RetI" THEN "ENABLED" ELSE ime
    BY <1>2, <1>6
  <2> HIDE DEF i
  <2> QED
    BY <1>2, <2>1, Returns
<1>7. CASE Return(4, reg, ime)
  <2> DEFINE w == Architecture!Popped
             m == Architecture!PopOff(boundary)
             on == TRUE
             s == Architecture!Interrupts(m, on)
  <2>1. handler.at = 4
    BY <1>7 DEF Return
  <2>2. elapsed = 3 /\ reg["PC"] = w /\ Seen = IF Name(handler) = "RetI" THEN Architecture!Interrupts(MovedSP(2), TRUE) ELSE MovedSP(2)
    BY <1>2, <2>1, AtReturned
  <2>3. m = MovedSP(2) /\ m \in MachineState
    BY Basics DEF Architecture!PopOff, MovedSP, MachineState, Word
  <2>4. Seen = s
    BY <1>2, <2>2, <2>3, Zenon
  <2>5. s.enabled
    BY <2>3, InterruptsEnabled, Zenon
  <2> HIDE DEF s, m, on, w
  <2>6. ime = "ENABLED"
    BY <2>4, <2>5, MachineRest DEF Seen, On
  <2>7. Promote(ime) = ime
    BY <2>6 DEF Promote
  <2>8. boundary' = Machine(reg, Promote(ime), ram, reg["PC"]) /\ cycles' = elapsed + 1 /\ Ended
    BY <1>7, Basics, ReturnBoundary
  <2>9. boundary' = [s EXCEPT !.pc = w]
    <3>1. Machine(reg, ime, ram, w) = [Machine(reg, ime, ram, boundary.pc) EXCEPT !.pc = w]
      BY MachinePC
    <3> QED
      BY <2>2, <2>4, <2>7, <2>8, <3>1 DEF Seen
  <2>10. cycles' = 4 /\ rom' = rom
    BY <2>2, <2>8 DEF Ended
  <2>11. Architecture!Finish([s EXCEPT !.pc = w], 4)
    BY <2>9, <2>10 DEF Architecture!Finish
  <2>12. Architecture!RET
    BY <1>3, <2>11, Zenon DEF Architecture!RET, s, m, on, w
  <2> QED
    BY <2>8, <2>12 DEF Outcome, Architecture!Execute
<1> QED
  BY <1>1, <1>4, <1>5, <1>6, <1>7

-----------------------------------------------------------------------------
(* DI and EI *)

\* Interrupts leave PC.
LEMMA InterruptsPC ==
  ASSUME NEW s \in MachineState, NEW on
  PROVE  Architecture!Interrupts(s, on).pc = s.pc
<1>1. PICK p1, p2, p3, p4, p5, p6, p7 : s = Image(p1, p2, p3, p4, p5, p6, p7)
  BY DEF MachineState, Image
<1> DEFINE k == FALSE
<1> HIDE DEF k
<1>2. [s EXCEPT !.enabled = on, !.armed = k].pc = s.pc
  BY <1>1 DEF Image
<1> QED
  BY <1>2, Zenon DEF Architecture!Interrupts, k

\* The next opcode is one byte further.
LEMMA OneByteOn ==
  ASSUME Underway, PcPast(reg, 1), NEW on
  PROVE  [Architecture!Interrupts(boundary, on) EXCEPT !.pc = reg["PC"]]
           = [Architecture!Interrupts(boundary, on) EXCEPT !.pc = (@ + 1) % 65536]
<1> DEFINE s == Architecture!Interrupts(boundary, on)
<1>1. s.pc = boundary.pc
  BY Basics, InterruptsPC
<1> HIDE DEF s
<1>2. [s EXCEPT !.pc = reg["PC"]] = [s EXCEPT !.pc = (@ + 1) % 65536]
  BY <1>1 DEF PcPast
<1> QED
  BY <1>2 DEF s

\* DI, also directly after EI.
LEMMA DiExecutes ==
  ASSUME Underway, Di, Record
  PROVE  Outcome
<1> DEFINE i == "DISABLED"
           on == FALSE
           w == reg["PC"]
<1>1. handler.body = <<"Di">> /\ Return(1, reg, i)
  BY DEF Di, Executing
<1>2. handler.at = 1
  BY <1>1 DEF Return
<1>3. elapsed = 0 /\ Seen = boundary /\ PcPast(reg, 1)
  BY <1>2, AtFirst
<1>4. Architecture!opcode = \hF3
  BY <1>1, DecodedUnderway DEF Decodes, Block0, Block1, Block2, Block3
<1>5. i \in ImeState /\ Promote(i) = i /\ (On(i) <=> on) /\ ~Pending(i) /\ on \in BOOLEAN
  BY DEF ImeState, Promote, On, Pending
<1> HIDE DEF i, on
<1>6. boundary' = Machine(reg, i, ram, w) /\ cycles' = 1 /\ Ended
  <2>1. reg \in CleanFile
    BY Basics
  <2>2. boundary' = Machine(reg, Promote(i), ram, reg["PC"]) /\ cycles' = elapsed + 1 /\ Ended
    BY <1>1, <1>5, <2>1, ReturnBoundary
  <2> QED
    BY <1>3, <1>5, <2>2
<1>7. [Architecture!Interrupts(Machine(reg, ime, ram, boundary.pc), on) EXCEPT !.pc = w] = Machine(reg, i, ram, w)
  BY <1>5, MachineInterrupts
<1>8. boundary' = [Architecture!Interrupts(boundary, on) EXCEPT !.pc = (@ + 1) % 65536]
  <2>1. boundary' = [Architecture!Interrupts(boundary, on) EXCEPT !.pc = w]
    BY <1>3, <1>6, <1>7 DEF Seen
  <2> QED
    BY <1>3, <2>1, OneByteOn
<1>9. Architecture!Finish([Architecture!Interrupts(boundary, on) EXCEPT !.pc = (@ + 1) % 65536], 1)
  BY <1>6, <1>8 DEF Architecture!Finish, Ended
<1>10. Architecture!DI
  <2> DEFINE s == Architecture!Interrupts(boundary, FALSE)
  <2>1. Architecture!Interrupts(boundary, on) = s
    BY Zenon DEF on
  <2>2. Architecture!DI <=> Architecture!opcode = \hF3 /\ Architecture!Finish([s EXCEPT !.pc = (@ + 1) % 65536], 1)
    BY DEF Architecture!DI
  <2> HIDE DEF s
  <2>3. Architecture!Finish([s EXCEPT !.pc = (@ + 1) % 65536], 1)
    BY <1>9, <2>1
  <2> QED
    BY <1>4, <2>2, <2>3
<1> QED
  BY <1>6, <1>10 DEF Outcome, Architecture!Execute

\* Interrupts on or off, PC moved, and an enable that waits.
Rearmed(s, on, pc, a) == [Architecture!Interrupts(s, on) EXCEPT !.pc = pc, !.armed = a]

\* What the promotion of a pending enable does to the machine.
LEMMA MachineArmed ==
  ASSUME NEW r, NEW i, NEW j, NEW m, NEW pc, NEW w, NEW on, NEW a,
         On(j) = on, Pending(j) = a
  PROVE  Rearmed(Machine(r, i, m, pc), on, w, a) = Machine(r, j, m, w)
<1> DEFINE p == Seen8(r)
           b == FlagNames(Flags(r))
           c == r["SP"]
           e == On(i)
           f == Pending(i)
           g == On(j)
           h == Pending(j)
           o == on
           k == FALSE
           l == a
<1>1. Machine(r, i, m, pc) = Image(p, b, c, pc, e, f, m)
  BY MachineIsImage
<1>2. Machine(r, j, m, w) = Image(p, b, c, w, g, h, m)
  BY MachineIsImage
<1>3. g = o /\ h = l
  OBVIOUS
<1> HIDE DEF p, b, c, e, f, g, h, o, k, l
<1>4. [Image(p, b, c, pc, e, f, m) EXCEPT !.enabled = o, !.armed = k] = Image(p, b, c, pc, o, k, m)
  <2>1. [Image(p, b, c, pc, e, f, m) EXCEPT !.enabled = o] = Image(p, b, c, pc, o, f, m)
    BY DEF Image
  <2>2. [Image(p, b, c, pc, o, f, m) EXCEPT !.armed = k] = Image(p, b, c, pc, o, k, m)
    BY DEF Image
  <2> QED
    BY <2>1, <2>2
<1>5. [Image(p, b, c, pc, o, k, m) EXCEPT !.pc = w, !.armed = l] = Image(p, b, c, w, o, l, m)
  <2>1. [Image(p, b, c, pc, o, k, m) EXCEPT !.pc = w] = Image(p, b, c, w, o, k, m)
    BY DEF Image
  <2>2. [Image(p, b, c, w, o, k, m) EXCEPT !.armed = l] = Image(p, b, c, w, o, l, m)
    BY DEF Image
  <2> QED
    BY <2>1, <2>2
<1>6. Machine(r, j, m, w) = Image(p, b, c, w, o, l, m)
  BY <1>2, <1>3, Zenon
<1>7. Architecture!Interrupts(Machine(r, i, m, pc), o) = [Image(p, b, c, pc, e, f, m) EXCEPT !.enabled = o, !.armed = k]
  BY <1>1, Zenon DEF Architecture!Interrupts, k
<1>8. [Architecture!Interrupts(Machine(r, i, m, pc), o) EXCEPT !.pc = w, !.armed = l] = Machine(r, j, m, w)
  BY <1>4, <1>5, <1>6, <1>7
<1> QED
  BY <1>8 DEF o, l, Rearmed

\* EI, also directly after EI.
LEMMA EiExecutes ==
  ASSUME Underway, Ei, Record
  PROVE  Outcome
<1> DEFINE i == IF ime = "DISABLED" THEN "PENDING" ELSE ime
           j == Promote(i)
           on == boundary.enabled \/ boundary.armed
           a == ~(boundary.enabled \/ boundary.armed)
           w == reg["PC"]
           s == Architecture!Interrupts(boundary, on)
<1>1. handler.body = <<"Ei">> /\ Return(1, reg, i)
  BY DEF Ei, Executing
<1>2. handler.at = 1 /\ handler.body # <<"RetI">>
  BY <1>1 DEF Return
<1>3. elapsed = 0 /\ Seen = boundary /\ PcPast(reg, 1)
  BY <1>2, AtFirst
<1>4. Architecture!opcode = \hFB
  BY <1>1, DecodedUnderway DEF Decodes, Block0, Block1, Block2, Block3
<1>5. i \in ImeState
  BY Basics DEF ImeState
<1>6. (On(j) <=> on) /\ (Pending(j) <=> a) /\ on \in BOOLEAN /\ a \in BOOLEAN
  <2>1. (boundary.enabled <=> On(ime)) /\ (boundary.armed <=> Pending(ime))
    BY <1>2 DEF Underway, Base, EnableKept
  <2>2. (On(j) <=> On(ime) \/ Pending(ime)) /\ (Pending(j) <=> ~(On(ime) \/ Pending(ime)))
    BY Basics DEF Promote, On, Pending, ImeState
  <2> HIDE DEF j
  <2> QED
    BY <2>1, <2>2
<1> HIDE DEF i
<1>7. boundary' = Machine(reg, j, ram, w) /\ cycles' = 1 /\ Ended
  <2>1. reg \in CleanFile
    BY Basics
  <2>2. boundary' = Machine(reg, Promote(i), ram, reg["PC"]) /\ cycles' = elapsed + 1 /\ Ended
    BY <1>1, <1>5, <2>1, ReturnBoundary
  <2> QED
    BY <1>3, <2>2
<1> HIDE DEF j, on, a
<1>8. [Architecture!Interrupts(Machine(reg, ime, ram, boundary.pc), on) EXCEPT !.pc = w, !.armed = a] = Machine(reg, j, ram, w)
  <2>1. On(j) = on /\ Pending(j) = a
    BY <1>6 DEF On, Pending
  <2> DEFINE r == reg
             h == ime
             m == ram
             pc == boundary.pc
  <2> HIDE DEF r, h, m, pc, w
  <2>2. Rearmed(Machine(r, h, m, pc), on, w, a) = Machine(r, j, m, w)
    BY <2>1, MachineArmed
  <2> QED
    BY <2>2 DEF r, h, m, pc, Rearmed
<1>9. boundary' = [s EXCEPT !.pc = w, !.armed = a]
  BY <1>3, <1>7, <1>8 DEF Seen
<1>10. [s EXCEPT !.pc = w] = [s EXCEPT !.pc = (@ + 1) % 65536]
  BY <1>3, OneByteOn
<1> HIDE DEF s
<1>11. boundary' = [s EXCEPT !.pc = (@ + 1) % 65536, !.armed = a]
  <2> DEFINE u == [s EXCEPT !.pc = w]
             v == [s EXCEPT !.pc = (@ + 1) % 65536]
  <2>1. [s EXCEPT !.pc = w, !.armed = a] = [u EXCEPT !.armed = a]
    OBVIOUS
  <2>2. [s EXCEPT !.pc = (@ + 1) % 65536, !.armed = a] = [v EXCEPT !.armed = a]
    OBVIOUS
  <2>3. u = v
    BY <1>10
  <2> HIDE DEF u, v
  <2> QED
    BY <1>9, <2>1, <2>2, <2>3
<1>12. s = Architecture!Armed(boundary)
  BY DEF s, on, Architecture!Armed
<1>13. Architecture!Finish([Architecture!Armed(boundary) EXCEPT !.pc = (@ + 1) % 65536, !.armed = a], 1)
  BY <1>7, <1>11, <1>12 DEF Architecture!Finish, Ended
<1>14. Architecture!EI
  BY <1>4, <1>13 DEF Architecture!EI, a
<1> QED
  BY <1>7, <1>14 DEF Outcome, Architecture!Execute

-----------------------------------------------------------------------------
(* Every handler, and the end of an instruction *)

\* Whatever the handler, a Step() takes it further on its course or executes
\* its instruction.
LEMMA StepExecutes ==
  ASSUME Underway, Step, Record
  PROVE  Outcome
<1>1. CASE LoadStep
  BY <1>1, NoopExecutes, LoadRegRegExecutes, LoadRegN8Executes, LoadRegN16Executes, LoadIndirectFromExecutes,
     LoadRIndirectRrExecutes, LoadIndirectHlN8Executes, LoadA16SPExecutes, LoadIndirectA8FromAExecutes,
     LoadIndirectA16FromAExecutes, LoadIndirectCFromAExecutes, LoadAFromIndirectA8Executes,
     LoadAFromIndirectA16Executes, LoadAFromIndirectCExecutes, LoadReg16Reg16Executes,
     LoadSPFromHlPlusE8Executes, PushRrExecutes, PopRrExecutes DEF LoadStep
<1>2. CASE MathStep
  BY <1>2, MathOperandRExecutes, MathN8Executes, MathIndirectHLExecutes, IncRExecutes, DecRExecutes,
     IncRRExecutes, DecRRExecutes, RotationsExecute, CplExecutes, CcfExecutes DEF MathStep
<1>3. CASE ControlStep
  BY <1>3, JumpExecutes, JumpRelativeExecutes, JumpHlExecutes, CallExecutes, RstExecutes, RetExecutes,
     RetConditionalExecutes, RetIExecutes, DiExecutes, EiExecutes DEF ControlStep
<1> QED
  BY <1>1, <1>2, <1>3 DEF Step

\* A Step() keeps the invariant of Cpu.
LEMMA StepInv ==
  ASSUME IInv, Step
  PROVE  IInv'
BY StepCases, LoadStepInv, MathStepInv, ControlStepInv DEF Step

\* The opcode fetched is the one the instruction set reads next.
LEMMA Fetched ==
  ASSUME BusTypeOK, boundary.pc \in Word, boundary.ram = ram
  PROVE  BusRead(boundary.pc) = Architecture!opcode
BY ReadIsPeek DEF Architecture!opcode

Starting ==
  /\ handler.at = 1 /\ elapsed = 0
  /\ reg["PC"] = (boundary.pc + 1) % 65536
  /\ Machine(reg, ime, ram, boundary.pc) = boundary

\* A handler just created is at the start of its course.
LEMMA StartsCourse == Starting => OnCourse(handler, reg, ime, ram, elapsed)
<1> SUFFICES ASSUME Starting
             PROVE  OnCourse(handler, reg, ime, ram, elapsed)
  OBVIOUS
<1>1. Fetching(handler, reg, Machine(reg, ime, ram, boundary.pc))
  BY DEF Starting, Fetching, PcPast
<1> QED
  BY <1>1 DEF Starting, OnCourse

\* The first M-cycle of the next instruction is on course.
LEMMA NextUnderway ==
  ASSUME IInv, Step, Record, Ended
  PROVE  boundary' \in MachineState /\ EnableKept' /\ InstructionUnderway'
<1> DEFINE pc == (reg'["PC"] - 1) % 65536
<1>1. IInv'
  BY StepInv
<1>2. reg' \in CleanFile /\ ram' \in RamImage /\ BusTypeOK'
  BY <1>1 DEF IInv, BusTypeOK, RamImage
<1>3. reg'["PC"] \in Word
  BY <1>2 DEF CleanFile, RegisterFile, Register16
<1>4. pc \in Word /\ reg'["PC"] = (pc + 1) % 65536
  BY <1>3 DEF Word
<1>5. boundary' = Machine(reg', ime', ram', pc) /\ elapsed' = 0
  BY DEF Ended, Record
<1> HIDE DEF pc
<1>6. /\ boundary'.pc = pc /\ boundary'.ram = ram'
      /\ (boundary'.enabled <=> On(ime')) /\ (boundary'.armed <=> Pending(ime'))
  BY <1>5, MachineRest
<1>7. boundary' \in MachineState
  BY <1>2, <1>4, <1>5, MachineType
<1>8. EnableKept'
  BY <1>6 DEF EnableKept, On, Pending
<1>9. ir' = Architecture!opcode'
  <2>1. (BusTypeOK /\ boundary.pc \in Word /\ boundary.ram = ram)' => (BusRead(boundary.pc) = Architecture!opcode)'
    BY Fetched, PTL
  <2>2. BusRead(boundary.pc)' = Architecture!opcode'
    BY <1>2, <1>4, <1>6, <2>1 DEF Word
  <2>3. ir' = BusRead(boundary.pc)'
    BY DEF Ended, BusRead, CartridgeRead, RamRead
  <2> QED
    BY <2>2, <2>3
<1>10. ASSUME status' = "running"
       PROVE  OnCourse(handler, reg, ime, ram, elapsed)'
  <2>1. handler'.at = 1
    BY <1>10 DEF Ended, Completes
  <2>2. Starting'
    BY <1>4, <1>5, <1>6, <2>1 DEF Starting
  <2> QED
    BY <2>2, StartsCourse, PTL
<1> QED
  BY <1>7, <1>8, <1>9, <1>10 DEF InstructionUnderway

-----------------------------------------------------------------------------
(* What Microcode says of a handler is said of the machine at the boundary *)
(* and of the ROM, which do not change before the instruction ends.        *)

\* Nothing that the instruction set reads changes while neither ROM nor
\* boundary does.
LEMMA OpcodeKept ==
  ASSUME UNCHANGED <<rom, boundary>>
  PROVE  /\ Architecture!opcode' = Architecture!opcode
         /\ Architecture!imm8' = Architecture!imm8
         /\ Architecture!imm16' = Architecture!imm16
         /\ Architecture!Popped' = Architecture!Popped
BY DEF Architecture!opcode, Architecture!imm8, Architecture!imm16, Architecture!Popped, Architecture!Peek16, Architecture!Peek

\* So for the octal digits.
LEMMA OctalKept ==
  ASSUME UNCHANGED <<rom, boundary>>
  PROVE  Architecture!x' = Architecture!x /\ Architecture!y' = Architecture!y /\ Architecture!z' = Architecture!z
BY OpcodeKept DEF Architecture!x, Architecture!y, Architecture!z

\* So for the courses, one kind of handler at a time.
LEMMA FetchingKept ==
  ASSUME UNCHANGED <<rom, boundary>>, Fetching(handler', reg', Machine(reg', ime', ram', boundary.pc))
  PROVE  Fetching(handler, reg, Machine(reg, ime, ram, boundary.pc))'
BY OpcodeKept DEF Fetching, PcPast, Name

LEMMA JumpingKept ==
  ASSUME UNCHANGED <<rom, boundary>>, Jumping(handler', reg', Machine(reg', ime', ram', boundary.pc))
  PROVE  Jumping(handler, reg, Machine(reg, ime, ram, boundary.pc))'
BY OpcodeKept DEF Jumping, PcPast, Name, Architecture!Signed

LEMMA SkippingKept ==
  ASSUME UNCHANGED <<rom, boundary>>, Skipping(handler', reg', Machine(reg', ime', ram', boundary.pc))
  PROVE  Skipping(handler, reg, Machine(reg, ime, ram, boundary.pc))'
BY OpcodeKept DEF Skipping, PcPast, Name

LEMMA PoppingKept ==
  ASSUME UNCHANGED <<rom, boundary>>, Popping(handler', reg', Machine(reg', ime', ram', boundary.pc))
  PROVE  Popping(handler, reg, Machine(reg, ime, ram, boundary.pc))'
<1>1. Architecture!Peek(boundary.sp)' = Architecture!Peek(boundary.sp)
  BY DEF Architecture!Peek
<1> QED
  BY <1>1, OpcodeKept DEF Popping, PcPast, Name, TakesOff, MovedSP, Architecture!Interrupts

LEMMA PushingKept ==
  ASSUME UNCHANGED <<rom, boundary>>, Pushing(handler', reg', Machine(reg', ime', ram', boundary.pc))
  PROVE  Pushing(handler, reg, Machine(reg, ime, ram, boundary.pc))'
<1>1. Pushed(handler)' = Pushed(handler')
  <2>1. Architecture!AF' = Architecture!AF
    BY DEF Architecture!AF, Architecture!CarryValue
  <2>2. Architecture!Get16(Architecture!y \div 2)' = Architecture!Get16(Architecture!y \div 2)
    BY OctalKept DEF Architecture!Get16
  <2> QED
    BY <2>1, <2>2, OctalKept DEF Pushed, Name
<1> QED
  BY <1>1, OpcodeKept, OctalKept DEF Pushing, PcPast, Name, MakesRoom, MovedSP, Architecture!Poke, Architecture!PushOn, Architecture!Poke16

LEMMA LoadingKept ==
  ASSUME UNCHANGED <<rom, boundary>>, Loading(handler', reg', Machine(reg', ime', ram', boundary.pc))
  PROVE  Loading(handler, reg, Machine(reg, ime, ram, boundary.pc))'
<1>1. Architecture!Pointer' = Architecture!Pointer
  BY OctalKept DEF Architecture!Pointer, Architecture!Get16, Architecture!HL
<1>2. Architecture!HL(boundary)' = Architecture!HL(boundary)
  BY DEF Architecture!HL
<1>3. LoadedIndirect' = LoadedIndirect
  BY <1>1, <1>2, OctalKept DEF LoadedIndirect, Architecture!Peek
<1>4. LowByteAdded' = LowByteAdded
  BY OpcodeKept DEF LowByteAdded, Architecture!When
<1>5. (Architecture!Moved(boundary))' = Architecture!Moved(boundary)
  BY <1>2, OctalKept DEF Architecture!Moved, Architecture!Set16
<1>6. StoredIndirect' = StoredIndirect
  <2>1. StoreByte(Architecture!Pointer, boundary.r["A"])' = StoreByte(Architecture!Pointer, boundary.r["A"])
    BY <1>1 DEF StoreByte, Architecture!Poke
  <2>2. Architecture!Moved(StoreByte(Architecture!Pointer, boundary.r["A"]))' = Architecture!Moved(StoreByte(Architecture!Pointer, boundary.r["A"]))
    BY <1>2, <2>1, OctalKept DEF Architecture!Moved, Architecture!Set16
  <2>3. Architecture!Get8(Architecture!z)' = Architecture!Get8(Architecture!z)
    BY <1>2, OctalKept DEF Architecture!Get8, Architecture!Peek
  <2>4. StoreByte(Architecture!HL(boundary), Architecture!Get8(Architecture!z))' = StoreByte(Architecture!HL(boundary), Architecture!Get8(Architecture!z))
    BY <1>2, <2>3 DEF StoreByte, Architecture!Poke
  <2> QED
    BY <2>2, <2>4, OctalKept DEF StoredIndirect
<1>7. Stepped(1)' = Stepped(1) /\ Stepped(-1)' = Stepped(-1)
  <2> DEFINE p == Architecture!y \div 2
             g == Architecture!Get16(p)
  <2>1. p' = p
    BY OctalKept
  <2>2. g' = g
    BY OctalKept DEF Architecture!Get16
  <2> HIDE DEF p, g
  <2>3. Architecture!Set16(boundary, p, g + 1)' = Architecture!Set16(boundary, p, g + 1)
    BY <2>1, <2>2 DEF Architecture!Set16
  <2>4. Architecture!Set16(boundary, p, g + -1)' = Architecture!Set16(boundary, p, g + -1)
    BY <2>1, <2>2 DEF Architecture!Set16
  <2> QED
    BY <2>3, <2>4, Zenon DEF Stepped, p, g
<1>8. (StoreByte(HighPage(boundary.r["C"]), boundary.r["A"]))' = StoreByte(HighPage(boundary.r["C"]), boundary.r["A"])
  BY DEF StoreByte, HighPage, Architecture!Poke
<1>9. (Architecture!Peek(HighPage(boundary.r["C"])))' = Architecture!Peek(HighPage(boundary.r["C"]))
  BY DEF HighPage, Architecture!Peek
<1>10. (Architecture!Peek(Architecture!HL(boundary)))' = Architecture!Peek(Architecture!HL(boundary))
  BY <1>2 DEF Architecture!Peek
<1>11. (StoreByte(Architecture!HL(boundary), Architecture!imm8))' = StoreByte(Architecture!HL(boundary), Architecture!imm8)
  BY <1>2, OpcodeKept DEF StoreByte, Architecture!Poke
<1>12. (StoreByte(HighPage(Architecture!imm8), boundary.r["A"]))' = StoreByte(HighPage(Architecture!imm8), boundary.r["A"])
  BY OpcodeKept DEF StoreByte, HighPage, Architecture!Poke
<1>13. (Architecture!Peek(HighPage(Architecture!imm8)))' = Architecture!Peek(HighPage(Architecture!imm8))
  BY OpcodeKept DEF HighPage, Architecture!Peek
<1>14. (StoreByte(Architecture!imm16, boundary.r["A"]))' = StoreByte(Architecture!imm16, boundary.r["A"])
  BY OpcodeKept DEF StoreByte, Architecture!Poke
<1>15. (Architecture!Peek(Architecture!imm16))' = Architecture!Peek(Architecture!imm16)
  BY OpcodeKept DEF Architecture!Peek
<1>16. (StoreByte(Architecture!imm16, Low(boundary.sp)))' = StoreByte(Architecture!imm16, Low(boundary.sp))
  BY OpcodeKept DEF StoreByte, Low, Architecture!Poke
<1>17. (Architecture!Poke16(boundary, Architecture!imm16, boundary.sp))' = Architecture!Poke16(boundary, Architecture!imm16, boundary.sp)
  BY OpcodeKept DEF Architecture!Poke16, Architecture!Poke
<1> DEFINE s == Machine(reg', ime', ram', boundary.pc)
<1>18. (Machine(reg, ime, ram, boundary.pc))' = s
  OBVIOUS
<1> HIDE DEF s
<1>19. CASE handler'.at = 2
  <2>1. Loading(handler', reg', s)
    BY DEF s
  <2>2. CASE handler'.body[1] = "LoadIndirectFrom"
    BY <1>6, <1>18, <1>19, <2>1, <2>2 DEF Loading, PcPast, Name
  <2>3. CASE handler'.body[1] = "LoadRIndirectRr"
    BY <1>3, <1>5, OctalKept, <1>18, <1>19, <2>1, <2>3 DEF Loading, PcPast, Name
  <2>4. CASE handler'.body[1] = "LoadIndirectCFromA"
    BY <1>8, <1>18, <1>19, <2>1, <2>4 DEF Loading, PcPast, Name
  <2>5. CASE handler'.body[1] = "LoadAFromIndirectC"
    BY <1>9, <1>18, <1>19, <2>1, <2>5 DEF Loading, PcPast, Name
  <2>6. CASE handler'.body[1] = "LoadReg16Reg16"
    BY <1>2, <1>18, <1>19, <2>1, <2>6 DEF Loading, PcPast, Name
  <2>7. CASE handler'.body[1] = "IncRR"
    BY <1>7, <1>18, <1>19, <2>1, <2>7 DEF Loading, PcPast, Name
  <2>8. CASE handler'.body[1] = "DecRR"
    BY <1>7, <1>18, <1>19, <2>1, <2>8 DEF Loading, PcPast, Name
  <2>9. CASE handler'.body[1] = "MathIndirectHL"
    BY <1>10, <1>18, <1>19, <2>1, <2>9 DEF Loading, PcPast, Name
  <2> QED
    BY <1>19, <2>1, <2>2, <2>3, <2>4, <2>5, <2>6, <2>7, <2>8, <2>9 DEF Loading, Name
<1>20. CASE handler'.at = 3
  <2>1. Loading(handler', reg', s)
    BY DEF s
  <2> QED
    BY <1>4, <1>11, <1>12, <1>13, <1>18, <1>20, <2>1, OpcodeKept DEF Loading, PcPast, Name
<1>21. CASE handler'.at \in {4, 5}
  <2>1. Loading(handler', reg', s)
    BY DEF s
  <2> QED
    BY <1>14, <1>15, <1>16, <1>17, <1>18, <1>21, <2>1, OpcodeKept DEF Loading, PcPast, Name
<1> QED
  BY <1>19, <1>20, <1>21 DEF Loading

\* A handler on its course before the history is recorded is on it after.
LEMMA OnCourseKept ==
  ASSUME UNCHANGED <<rom, boundary>>, OnCourse(handler', reg', ime', ram', elapsed')
  PROVE  OnCourse(handler, reg, ime, ram, elapsed)'
<1> DEFINE s == Machine(reg', ime', ram', boundary.pc)
<1>1. (Machine(reg, ime, ram, boundary.pc))' = s
  OBVIOUS
<1>2. \/ /\ elapsed' = handler'.at - 1
         /\ \/ Fetching(handler', reg', s) \/ Loading(handler', reg', s) \/ Pushing(handler', reg', s)
            \/ Popping(handler', reg', s) \/ Jumping(handler', reg', s)
      \/ elapsed' = 1 /\ Skipping(handler', reg', s)
  BY DEF OnCourse
<1>3. \/ /\ elapsed' = handler'.at - 1
         /\ \/ Fetching(handler, reg, Machine(reg, ime, ram, boundary.pc))'
            \/ Loading(handler, reg, Machine(reg, ime, ram, boundary.pc))'
            \/ Pushing(handler, reg, Machine(reg, ime, ram, boundary.pc))'
            \/ Popping(handler, reg, Machine(reg, ime, ram, boundary.pc))'
            \/ Jumping(handler, reg, Machine(reg, ime, ram, boundary.pc))'
      \/ elapsed' = 1 /\ Skipping(handler, reg, Machine(reg, ime, ram, boundary.pc))'
  BY <1>2, FetchingKept, LoadingKept, PushingKept, PoppingKept, JumpingKept, SkippingKept
<1> QED
  BY <1>3 DEF OnCourse

\* An instruction that has not ended is still under way.
LEMMA StillUnderway ==
  ASSUME Underway, Step, Record, Onward
  PROVE  boundary' \in MachineState /\ EnableKept' /\ InstructionUnderway'
<1>1. IInv /\ boundary \in MachineState /\ EnableKept /\ ir = Architecture!opcode
  BY DEF Underway, Base
<1>2. UNCHANGED boundary
  BY DEF Onward, Record
<1>3. UNCHANGED rom
  BY <1>1, StepKeepsRom
<1>4. ~Ends(ime) /\ ~Ends("DISABLED") /\ ~Ends(IF ime = "DISABLED" THEN "PENDING" ELSE ime)
  <2>1. ASSUME NEW i, Ends(i)
        PROVE  Completes
    BY <2>1 DEF Ends, Dispatch, Created, Completes
  <2> QED
    BY <2>1 DEF Onward
<1>5. UNCHANGED ir /\ (UNCHANGED ime \/ RetI) /\ handler'.body = handler.body
  BY <1>1, <1>4, StepCases, InterruptHandlers DEF Ordinary, Stays
<1>6. EnableKept'
  <2>1. RetI => handler.body = <<"RetI">>
    BY <1>1, InterruptHandlers
  <2> QED
    BY <1>1, <1>2, <1>5, <2>1 DEF EnableKept, On, Pending
<1>7. ir' = Architecture!opcode'
  BY <1>1, <1>2, <1>3, <1>5, OpcodeKept
<1>8. OnCourse(handler, reg, ime, ram, elapsed)'
  BY <1>2, <1>3, OnCourseKept DEF Onward
<1> QED
  BY <1>1, <1>2, <1>6, <1>7, <1>8 DEF InstructionUnderway

-----------------------------------------------------------------------------
(* The handler that m_handler starts with *)

\* The first Step() fetches the first instruction, and executes none.
LEMMA FirstStep ==
  ASSUME Base, PoweringUp, Step, Record
  PROVE  Ended /\ UNCHANGED <<rom, boundary, cycles>>
<1>1. handler.body = <<"Noop">> /\ handler.at = 1 /\ ime = "DISABLED" /\ elapsed = 0 /\ cycles = 1
      /\ boundary = Machine(reg, ime, ram, reg["PC"])
  BY DEF PoweringUp, Created, Noop
<1>2. Return(1, reg, ime)
  <2>1. NoopStep
    <3>1. ~MathStep
      BY <1>1 DEF MathStep, MathOperandR, MathN8, MathIndirectHL, IncR, DecR, IncRR, DecRR,
                  Rlca, Rrca, Rla, Rra, Cpl, Ccf, Executing
    <3>2. ~ControlStep
      BY <1>1 DEF ControlStep, Jump, JumpRelative, JumpHl, Call, Rst, Ret, RetConditional, RetI, Di, Ei, Executing
    <3>3. LoadStep
      BY <3>1, <3>2 DEF Step
    <3> QED
      BY <1>1, <3>3 DEF LoadStep, LoadRegReg, LoadRegN8, LoadRegN16, LoadIndirectFrom, LoadRIndirectRr,
         LoadIndirectHlN8, LoadA16SP, LoadIndirectA8FromA, LoadIndirectA16FromA, LoadIndirectCFromA,
         LoadAFromIndirectA8, LoadAFromIndirectA16, LoadAFromIndirectC, LoadReg16Reg16, LoadSPFromHlPlusE8,
         PushRr, PopRr, Executing
  <2> QED
    BY <2>1 DEF NoopStep
<1>3. reg \in CleanFile /\ ime \in ImeState
  BY DEF Base, IInv
<1>4. boundary' = Machine(reg, Promote(ime), ram, reg["PC"]) /\ cycles' = elapsed + 1 /\ Ended
  BY <1>2, <1>3, ReturnBoundary
<1>5. Promote(ime) = ime
  BY <1>1 DEF Promote
<1> QED
  BY <1>1, <1>4, <1>5 DEF Ended

\* A Step() keeps the invariant, and executes an instruction or none.
LEMMA StepRInv ==
  ASSUME RInv, Step, Record
  PROVE  RInv' /\ (Architecture!Execute \/ UNCHANGED <<rom, boundary, cycles>>)
<1>1. IInv /\ Selected /\ Base /\ InstructionUnderway
  BY DEF RInv, Base
<1>2. IInv' /\ Selected'
  BY <1>1, StepInv, SelectedKept DEF Next
<1>3. status = "running"
  BY <1>1, StepCases
<1>4. CASE PoweringUp
  <2>1. Ended /\ UNCHANGED <<rom, boundary, cycles>>
    BY <1>1, <1>4, FirstStep
  <2> QED
    BY <1>1, <1>2, <2>1, NextUnderway DEF RInv, Base
<1>5. CASE ~PoweringUp
  <2>1. Underway
    BY <1>1, <1>3, <1>5 DEF InstructionUnderway, Underway
  <2>2. CASE Onward
    <3>1. UNCHANGED <<rom, boundary, cycles>>
      BY <1>1, <2>2, StepKeepsRom DEF Onward, Record
    <3> QED
      BY <1>2, <2>1, <2>2, <3>1, StillUnderway DEF RInv, Base
  <2>3. CASE Ended /\ Architecture!Execute
    BY <1>1, <1>2, <2>3, NextUnderway DEF RInv, Base
  <2> QED
    BY <2>1, <2>2, <2>3, StepExecutes DEF Outcome
<1> QED
  BY <1>4, <1>5

\* So does a step of nothing.
LEMMA StutterRInv ==
  ASSUME RInv, UNCHANGED <<vars, historyVars>>
  PROVE  RInv'
<1>1. UNCHANGED <<rom, ram, reg, ime, ir, handler, status, boundary, elapsed, cycles>>
  BY DEF vars, historyVars
<1>2. [Next]_vars /\ IInv /\ Selected
  BY <1>1 DEF vars, RInv, Base
<1>3. IInv'
  BY <1>1, <1>2 DEF IInv, BusTypeOK, ReportedOpcode, BusRead, CartridgeRead, RamRead
<1>4. Selected' /\ EnableKept' /\ boundary' \in MachineState
  BY <1>1, <1>2, SelectedKept DEF RInv, Base, EnableKept, On, Pending
<1>5. PoweringUp => PoweringUp'
  BY <1>1 DEF PoweringUp
<1>6. OnCourse(handler, reg, ime, ram, elapsed) => OnCourse(handler, reg, ime, ram, elapsed)'
  BY <1>1, OnCourseKept
<1>7. InstructionUnderway'
  BY <1>1, <1>5, <1>6, OpcodeKept DEF RInv, InstructionUnderway
<1> QED
  BY <1>3, <1>4, <1>7 DEF RInv, Base

\* The state after construction is where the instruction set starts.
LEMMA PowersUp ==
  ASSUME Init, boundary = Machine(reg, ime, ram, reg["PC"]), cycles = 1
  PROVE  Architecture!IsaInit
<1> DEFINE registers == [A |-> 1, B |-> 0, C |-> \h13, D |-> 0, E |-> \hD8, H |-> 1, L |-> \h4D]
           memory    == [a \in \hC000 .. RamEnd |-> 0]
<1>1. /\ reg["AF"] = \h0180 /\ reg["BC"] = \h0013 /\ reg["DE"] = \h00D8 /\ reg["HL"] = \h014D
      /\ reg["PC"] = \h0100 /\ reg["SP"] = \hFFFE
  BY DEF Init, PowerUp
<1>2. ram = memory
  BY DEF Init, BusInit, RamAddress, RamStart
<1>3. ime = "DISABLED"
  BY DEF Init, PowerUp
<1>4. Seen8(reg) = registers
  <2>1. /\ Value8(reg, "A") = 1 /\ Value8(reg, "B") = 0 /\ Value8(reg, "C") = \h13 /\ Value8(reg, "D") = 0
        /\ Value8(reg, "E") = \hD8 /\ Value8(reg, "H") = 1 /\ Value8(reg, "L") = \h4D
    BY <1>1 DEF Value8, Whole, UpperByte, High, Low
  <2>2. Register8 = {"A", "B", "C", "D", "E", "H", "L"}
    BY DEF Register8
  <2>3. \A n \in Register8 : registers[n] = Value8(reg, n)
    BY <2>1, <2>2
  <2>4. registers = [n \in Register8 |-> registers[n]]
    BY <2>2
  <2> HIDE DEF registers
  <2> QED
    BY <2>3, <2>4 DEF Seen8
<1>5. FlagNames(Flags(reg)) = {"Z"}
  <2>1. /\ BitMask(4) = 16 /\ BitMask(5) = 32 /\ BitMask(6) = 64 /\ BitMask(7) = 128
    BY DEF BitMask
  <2>2. Value8(reg, "F") = 128
    BY <1>1 DEF Value8, Whole, UpperByte, Low
  <2>3. 7 \in Bits(128) /\ 6 \notin Bits(128) /\ 5 \notin Bits(128) /\ 4 \notin Bits(128)
    BY <2>1 DEF Bits, BitIndex
  <2>4. Flags(reg) = {Zero}
    BY <2>2, <2>3 DEF Flags, FlagPositions, Zero, Subtract, HalfCarry, Carry
  <2> QED
    BY <2>4, FlagNameOf DEF FlagNames
<1>6. ~On(ime) /\ ~Pending(ime)
  BY <1>3 DEF On, Pending
<1> HIDE DEF registers, memory
<1> DEFINE off == FALSE
           on  == On(ime)
           arm == Pending(ime)
           set == {"Z"}
           sp  == \hFFFE
           pc  == \h0100
<1>7. on = off /\ arm = off
  BY <1>6 DEF On, Pending
<1>8. reg["SP"] = sp /\ reg["PC"] = pc /\ FlagNames(Flags(reg)) = set
  BY <1>1, <1>5
<1>9. boundary = Image(Seen8(reg), FlagNames(Flags(reg)), reg["SP"], reg["PC"], on, arm, ram)
  BY MachineIsImage, Zenon
<1> HIDE DEF off, on, arm, set, sp, pc
<1>10. boundary = Image(registers, set, sp, pc, off, off, memory)
  BY <1>2, <1>4, <1>7, <1>8, <1>9
<1>11. boundary = [r |-> registers, flags |-> set, sp |-> sp, pc |-> pc,
                   enabled |-> off, armed |-> off, ram |-> memory]
  BY <1>10, Zenon DEF Image
<1>12. boundary = [r |-> registers, flags |-> {"Z"}, sp |-> \hFFFE, pc |-> \h0100,
                   enabled |-> off, armed |-> off, ram |-> memory]
  BY <1>11 DEF set, sp, pc
<1>13. boundary = [r |-> registers, flags |-> {"Z"}, sp |-> \hFFFE, pc |-> \h0100,
                   enabled |-> FALSE, armed |-> FALSE, ram |-> memory]
  BY <1>12 DEF off
<1> QED
  BY <1>13 DEF Architecture!IsaInit, registers, memory

\* The invariant holds at first.
LEMMA InitRInv ==
  ASSUME HInit
  PROVE  RInv /\ Architecture!IsaInit
<1>1. Init /\ boundary = Machine(reg, ime, ram, reg["PC"]) /\ elapsed = 0 /\ cycles = 1
  BY DEF HInit
<1>2. IInv
  BY <1>1, InitInv
<1>3. Selected
  BY <1>1 DEF Init, PowerUp, Created, Selected, OpcodeHandlers, Octets, Byte
<1>4. boundary \in MachineState
  <2>1. reg \in CleanFile /\ ram \in RamImage /\ reg["PC"] \in Word
    BY <1>2 DEF IInv, BusTypeOK, RamImage, CleanFile, RegisterFile, Register16
  <2> QED
    BY <1>1, <2>1, MachineType
<1>5. EnableKept
  BY <1>1, MachineRest DEF EnableKept
<1>6. PoweringUp
  BY <1>1 DEF Init, PowerUp, PoweringUp
<1>7. Architecture!IsaInit
  BY <1>1, PowersUp
<1> QED
  BY <1>2, <1>3, <1>4, <1>5, <1>6, <1>7 DEF RInv, Base, InstructionUnderway

(* In the middle of every instruction, for every program, every size of    *)
(* the RAM and every run, the machine is that of the last boundary but for *)
(* the part of the instruction done; operands and return addresses on      *)
(* their way are those of this instruction (instruction_handler.h:32,      *)
(* cpu.cpp:36, the handlers).                                              *)
THEOREM CourseKept == HSpec => []InstructionUnderway
<1>1. HInit => RInv
  BY InitRInv
<1>2. RInv /\ [HNext]_<<vars, historyVars>> => RInv'
  <2>1. ASSUME RInv, Exited, UNCHANGED historyVars
        PROVE  UNCHANGED <<vars, historyVars>>
    BY <2>1 DEF Exited
  <2> QED
    BY <2>1, StepRInv, StutterRInv DEF HNext
<1>3. RInv => InstructionUnderway
  BY DEF RInv
<1> QED
  BY <1>1, <1>2, <1>3, PTL DEF HSpec

(* The CPU implements the instruction set: whatever the program, and also  *)
(* when it writes over its own code, from one boundary between             *)
(* instructions to the next the machine has executed one instruction, with *)
(* its results, its flags and its duration in M-cycles, and nothing else   *)
(* (Cpu::Step, cpu.cpp:36, the handlers, opcode_handler_map.h).            *)
THEOREM Refinement == HSpec => ImplementsIsa
<1>1. HInit => RInv /\ Architecture!IsaInit
  BY InitRInv
<1>2. RInv /\ [HNext]_<<vars, historyVars>> => RInv' /\ [Architecture!Execute]_<<rom, boundary, cycles>>
  <2>1. ASSUME RInv, Exited, UNCHANGED historyVars
        PROVE  UNCHANGED <<vars, historyVars>>
    BY <2>1 DEF Exited
  <2>2. UNCHANGED <<vars, historyVars>> => UNCHANGED <<rom, boundary, cycles>>
    BY DEF vars, historyVars
  <2> QED
    BY <2>1, <2>2, StepRInv, StutterRInv DEF HNext
<1> QED
  BY <1>1, <1>2, PTL DEF HSpec, ImplementsIsa, Architecture!IsaSpec
=============================================================================
