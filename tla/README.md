# A TLA+ model of gb-emulator

gb-emulator emulates the CPU of a Game Boy M-cycle by M-cycle: every machine
instruction is a C++ coroutine that suspends at each M-cycle boundary, and
`Cpu::Step()` resumes it once per M-cycle. This directory holds TLA+ modules that
model that program, TLC configurations that check them on small instances, and
theorems with proofs for TLAPS. Paths below are relative to the repository.

## Inventory of the system

| Component | State | Operations | Works with |
|---|---|---|---|
| CPU (`emulatorlib/src/cpu.cpp`) | `m_registers`, `m_handler` (the current coroutine), the opcode table | `Cpu()`, `Step()` | resumes a handler, fetches over the bus, asks the table for the next handler |
| Instruction handlers (`instruction_handlers/*.h`) | where a coroutine is suspended, and its locals | one coroutine per kind of instruction | registers and bus, by reference, between two suspensions |
| Opcode table (`opcode_handler_map.h`) | none (256 entries) | the handler of an opcode, or a function that throws | called by `Step()` |
| Registers and flags (`register.h`, `cpu_registers.h`, `cpu_flags.*`, `flag_helpers.h`, `flags_based_predicates.h`) | 16-bit backing words, masks, `masterInterruptState` | masked and unmasked assignment, byte views, flag computation | shared by `Step()` and all handlers |
| `utilitylib` arithmetic | none | addition and subtraction with carry and borrow bits | called by handlers |
| Address bus, RAM (`address_bus.cpp`, `ram.cpp`) | the device list; 8 KiB at C000 | broadcast write, or-ed read | called by handlers and by the fetch |
| Cartridge (`cartridge.cpp`) | ROM contents | load and validate a file, read, ignored write, header accessors | a device of the bus |
| `InstructionHandler` (`instruction_handler.h`) | the coroutine handle, the promise's exception | create, resume, swap on assignment, destroy | owned by the CPU |
| Main (`main.cpp`) | none | wiring, `while (true) cpu.Step()`, exit on an exception | everything |

There is one thread, and nothing is sent; the only other party is whoever owns the
ROM file, which may change while it is being loaded. What is hard here is
**order**: an instruction is spread over up to six `Step()` calls and keeps its
intermediate results in registers (`WZ`, the flags), in memory and in coroutine
locals; the last M-cycle of an instruction overlaps with the fetch of the next
one; the interrupt state is written by handlers and promoted by `Step()` around
them; dispatch may throw when half of the step has happened; a coroutine frame
passes through three objects before the CPU owns it and is destroyed by a fourth
statement. And **numbers**:
carries through two chained additions, signed displacements added byte-wise,
wrap-around of PC and SP, masks that only some assignments apply. The unit tests
execute single instructions from a fixed state and leave sequences alone. The
hazards this leads to are listed in `PROJECT.json`, each with its properties.

What makes each component correct:

- CPU and handlers: between two instruction boundaries exactly one instruction of
  the instruction set has happened, in its number of M-cycles.
- Interrupt state: EI takes effect after the following instruction, always, and
  nothing else enables or disables interrupts.
- Stack: POP and RET give back what the matching PUSH and CALL stored.
- Registers: the widths hold; the low nibble of F does not exist.
- Arithmetic: bits 3 and 7 of the carry bits are the half carry and the carry.
- Masks: no operator but `++` and `--` lets a bit outside the mask of a register be seen,
  and no register that has such bits is counted with those.
- Table: opcodes without a handler throw, all others give a coroutine.
- Coroutines: each frame has one owner, is resumed only when it can be, and is
  destroyed once; one instruction ends before the next takes its place.
- Cartridge: what is constructed is a ROM of the size its header says, and every
  unchecked read is inside its data.
- Main: the CPU reads the ROM that was validated, and each way out has its cause.

## Modules

    Bytes            utilitylib: carry and borrow bits of bytes
      CpuRegisters   register file, masks, flags, conditions, arithmetic handlers' operands
        Opcodes      the opcode table
      AddressBus     bus, cartridge and RAM
          Cpu        Cpu::Step() and the handlers           (the state machine)
            CpuHistory   instruction boundaries, refinement of Isa
              Microcode  what each handler has done after each of its M-cycles
              CallStack  the stack a program believes in
            Emulator     main(): loading, the devices, the loop (INSTANCE CartridgeLoading)
      CartridgeLoading   Cartridge::Cartridge, and what the header accessors read
    Isa                the instruction set                  (abstract specification of the CPU)
    HandlerLifecycle   coroutine frames and handles around Step()
    Stepping           one instruction at a time            (abstract specification of HandlerLifecycle)
    MaskedRegister     the Register template, bit by bit

    CpuProofs            arithmetic, the register file, types, F, the delay of EI
      IsaProofs          the code's operations in the terms of Isa
        RefinementProofs   InstructionUnderway, ImplementsIsa
          CallStackProofs    what is taken off the stack is what was put on
      EmulatorProofs     main()
    HandlerLifecycleProofs, CartridgeLoadingProofs, MaskedRegisterProofs
    MCEveryOpcode, MCRefinement, MCInterrupts, MCCallStack, MCDocs,
    MCHandlerLifecycle, MCCartridgeLoading, MCEmulator      values of the constants for TLC

**Bytes, CpuRegisters, AddressBus.** A byte is a number; where the code uses one as
a bit mask it is the set of its 1 bits. A register file is a function from the
seven 16-bit names to words, and 8-bit registers are views of it, as in the code;
`AssignValue8` is an assignment to `.value`, `Assign8` and `Assign16` are the
masked ones. ROM contents are a constant function that is sparse: `RomFill` is
read where a program says nothing.

**Cpu.** The variables are the registers, `masterInterruptState` (`ime`), the
instruction register, the memory, the handler (which coroutine, at which
resumption, with which local) and whether `Step()` has thrown. A step of `Next` is
one call of `Step()`. There is one action per handler, whose disjuncts are the
stretches of code between co_yields: `Yield(k, ...)` is a k-th resumption that
suspends again, and `Return(k, ...)` is one that reaches `co_return`, after which the
same `Step()` promotes a pending interrupt enable, fetches the next opcode,
increments PC and creates the next handler or throws. `Exited` is main after it
has caught the exception.

**Isa** is what the CPU promises: a machine that executes one whole instruction
per step, without internal registers, M-cycles or prefetch; a duration is just a
number. It decodes opcodes by their octal digits, computes with integers and sees
memory as a partition, so that it shares nothing with the code's way of doing it.
It says nothing of opcodes that throw. **CpuHistory** adds a record of the last
instruction boundary, which gives the refinement mapping: `machine` of Isa is
`boundary`. At a boundary the next opcode has been fetched already, so PC is one
ahead of the machine's.

**Microcode** says of every handler, in the terms of Isa, what it has done of its
instruction after each of its M-cycles: how far the visible machine has moved from the
boundary, what W, Z and the coroutine's local hold, where PC stands. `InstructionUnderway`
is that this is so at every M-cycle. Nobody wrote that table down; it is what a reader
of a handler has to keep in mind, and the invariant without which the refinement cannot
be proved.

**CallStack** adds the stack of words that a program has pushed and not yet
popped, and relates it to what lies in memory. A program may do to its stack what it
likes; `KeepsOffStack` is the discipline of one that does not: the instructions other than PUSH, CALL,
RST, POP, RET and RETI leave the words on the stack alone and do not move SP while there are
any, and there are fewer than 32768 of them, so that the stack does not meet itself.

**HandlerLifecycle** is `Step()` statement by statement, for the coroutines alone:
which frames exist, what each is doing and whether its promise holds an exception,
and which object's handle refers to it. The objects are the CPU's `m_handler`, the
temporary that `Step()` assigns from, and what `get_return_object()` returns. `pc` is
the statement that comes next. What a body does is left open: it yields, returns or
throws. What the table's function does is too: it creates a frame or throws. Resuming
or destroying a coroutine that may not be leads to the state `"undefined"`, which is
the only place where the model knows that C++ says so. With `InMain` the caller is
`main()`; without, it is any caller of the library, as a test is: it may catch the
exception and call `Step()` again, or destroy the `Cpu` between two Steps.
**Stepping** is what that promises: an instruction in progress, the number of its
M-cycles, whether it is finished and whether the CPU has failed; the frame that
`m_handler` owns is the instruction in progress.

**CartridgeLoading** is `LoadRomData()` statement by statement (`stage`). A file is its
size and the bytes that matter; the rest of it is `Fill`. Between any two statements
the file may be rewritten, with another size, and `tellg()` and `read()` may fail: then
`disturbed` is set, which no action of the code reads. Besides loading there are the
addresses that the header accessors read, the size and the checksum.

**Emulator** is `main()`. The CPU's variables and `Step` are those of Cpu, the loading
is an instance of CartridgeLoading over the same data; `Construct` is where the one's
result becomes the other's `rom`. The cartridge is constructed outside the try block,
so that an exception of its constructor is `Terminate` and one of `Step()` is `Catch`.

**MaskedRegister** is the template `Register<T>` with its operators. A register is the
set of its 1 bits; the width of a byte is the constant `Half`. Since "hidden bits are
never seen" is a statement about two registers, the module runs two that differ in
hidden bits only. `++` and `--` count the backing word, whatever the mask
(`register.h:91-99`, `docs/02-cpu.md:116`): under the mask FFF0, 000F and 0000 look the
same, and after `++` they do not. The history variable `counted`, which no guard reads,
says that this may have happened since the word was last assigned. `CountsNoHiddenBit`
is the discipline of the callers: in this code AF alone has hidden bits, and it is not
among the registers that are counted. CpuRegisters, which has the registers and masks
that the CPU really has, uses the arithmetic of these operators as numbers.

In modules that TLC mutates, definitions whose comment begins with "Faulty" are
plausible bugs next to the definition they vary. No specification uses them; the
mutants of `PROJECT.json` put them in place of the original, and the property named
there must then fail.

## Runs

| Run | Checks | What it shows |
|---|---|---|
| `every_opcode` | `TypeOK`, `FlagsLowNibbleZero`, `ReportedOpcode` | all 256 opcodes: widths, wrap-around, masks, and which opcodes throw, at every M-cycle; after a throw, the instruction register and PC name the opcode at fault |
| `refinement` | `ImplementsIsa`, `InstructionUnderway` | the same programs, and programs in RAM that modify themselves: all 256 opcodes, by whatever M-cycles, do what the instruction set says, in its time; and in the middle of each, what has happened is the part of it that should have |
| `interrupts` | `EnableIsDelayed`, `PendingResolves` | the delay of EI in all orders of EI, DI, RETI and others |
| `call_stack` | `LastInFirstOut`, `StackIntact` | nested and unbalanced calls, pushes and pops |
| `lifecycle_main` | `TypeOK`, `FramesOwnedOnce`, `ImplementsStepping` | under `main()`, each frame has one owner at every statement, and `Step()` runs one instruction at a time, to its end |
| `lifecycle_caller` | `DefinedUntilThrown`, `NothingOutlivesCpu` | a caller may do anything but go on after a throw; a destroyed `Cpu` leaves no frame |
| `cartridge_loading` | `AccessesInBounds`, `VerdictIsRight`, `ChecksumSeesOneChange` | files at every bound, also rewritten meanwhile: exactly the ROMs are loaded, and they are read in bounds; the checksum covers the bytes it should and no other |
| `masked_register` | `HiddenBitsStayHidden` | any operators on the word and its bytes, under every mask, until `++` or `--` counts hidden bits |
| `emulator` | `WaysOut`, `CpuReadsTheLoadedRom`, `ExceptionsEndIt` | `main()` from its argument to its end, with a CPU that runs what was loaded |
| `doc_m_cycles` | `ACommentedCountIsRight` | three comments that state the number of M-cycles of an instruction are all wrong |
| `doc_adjusted_hl` | `LoadsFromAdjustedHL` | docs/04-instructions.md:117 says LD A, (HL+/-) loads from the adjusted HL; the code (rightly) loads from the address HL held before |
| `doc_exception_rethrown` | `BodyExceptionIsRethrown` | docs/02-cpu.md:49 says an exception in a coroutine is re-thrown by the next `Step()`; the `Step()` in which it is thrown destroys it |

The three `doc_` runs are expected to end in a violation; each disagreement is a finding
in `PROJECT.json`, with the line it quotes. In the first two runs the code is right and
the text is not. In the third the code means to do what the text says (`Step()` begins with
the re-throw) and does not: a coroutine that has thrown is done, so its handler, with
the exception, is replaced before the next `Step()`. It has no effect today, because no
handler body of the table throws.

**Bounds.** Programs are the inputs; each run enumerates a family and starts from
the power-up state, so every state is one the emulator can be in.

- `every_opcode`, `refinement`: 6 records of register, operand and memory contents × 256 opcodes
  = 1,536 programs, each of which loads the registers (AF through the stack) and
  executes the opcode. The records cover carry in and out of both nibbles, equal
  operands, zero and 255, both outcomes of every condition, displacements of both
  signs with and without a page crossing, pointers at the edges of ROM, RAM and the
  address space, and SP at 0001, FFFE and FFFF and at the edges of the RAM.
- `refinement` adds 21 programs that copy themselves to RAM and write over the
  instruction that follows, with each kind of instruction that can: the opcode fetched
  must be the one written.
- `interrupts`: loops over any three of seven instructions, 343 programs, which run
  forever. Three instructions are enough for EI, what follows it, and what follows that.
- `call_stack`: three of eight blocks, one of eight subroutines, three initial
  stack pointers: 12,288 programs. They keep up to five words on the stack, pop what they
  never pushed, push and return to data, and leave the RAM at either end.
- `lifecycle_main`, `lifecycle_caller`: three places for frames, of which at most two
  are in use at a time, so that a place is used again at once or later; up to five
  co_yields, the most of any handler (CALL).
- `cartridge_loading`: 12 sizes, which are each bound of the code, one off it on either
  side, the addresses 148 and 149 of the size code, and 8000, 10000 and 800000; size
  codes 0, 1, 8, 9 and 255; checksums that are right and wrong. Any file may be replaced by any
  other meanwhile. `ChecksumSeesOneChange` tries all values of
  all 25 bytes, the checksum and the bytes next to them; among the checksums are those that a
  sum of one byte too few or too many would take for right.
- `masked_register`: bytes of two bits (`Half` = 2), so that a carry crosses from bit to
  bit and from byte to byte, with all 16 masks; the proof is for every width.
- `emulator`: 14 files; ten are ROMs whose programs store into the RAM, over
  themselves, and where no device is, then end in five ways for two stored bytes.
- RAM is C000-C007 (C000 alone in `interrupts`, C000-C001 in `emulator`) where the code has C000-DFFF:
  `RamEnd` is a constant, the programs address both sides of it, and the proofs hold for
  every value. `RomFill` is 76 (HALT, unimplemented; in `emulator` D3, illegal), so a program
  that runs off its end throws.

**Fairness.** `WF(Step)`: main calls `cpu.Step()` in an endless loop and nothing
else runs. Only `PendingResolves` needs it. HandlerLifecycle has `WF(Inside)`, since a
`Step()` that has begun runs on without waiting for anybody, and `WF(InMain /\ Begin)`,
since only `main()` always calls the next one; `ImplementsStepping` uses both for the
liveness of Stepping. Under weak fairness of `Inside` alone a body could yield forever;
`MaxYields` bounds it, as every handler is bounded by its text. CartridgeLoading has
`WF(LoadRomData)`, Emulator `WF(Main)`: the one thread goes on. Nobody has to rewrite a
file, call a `Step()` outside `main()` or destroy a `Cpu`. Deadlock is checked in every
run; a thrown exception is not a deadlock but the end of main (`Exited`, `Ended`,
`Finished` stutter there).

## Proofs

All theorems hold for every set of programs, every `RomFill` and every `RamEnd`
that satisfy `BusAssumption` (what a cartridge and a RAM of the code are).

- `RefinementProofs!Refinement` (`ImplementsIsa`) and `CourseKept`
  (`InstructionUnderway`): the CPU implements the instruction set, for every program,
  those that write over their own code included.
- `CallStackProofs!WordsKept` (`StackIntact`) and `LastOnFirstOff` (`LastInFirstOut`):
  for every program that satisfies `KeepsOffStack`, every word on the stack stays in
  memory until it is taken off, and POP, RET and RETI take off what was put on.
- `CpuProofs!TypeCorrectness` (`TypeOK`), `FlagsStayClean` (`FlagsLowNibbleZero`),
  `DelayedEnable` (`EnableIsDelayed`) and `CulpritReported` (`ReportedOpcode`).
- `CpuProofs!AddCarry`, `SubBorrow`, `AddCarryIn`, `SubBorrowIn`: the bits that
  the half-carry and carry flags are taken from are the carries and borrows out of the
  nibble and of the byte, for all operands and both values of the carry-in.
- `IsaProofs!MathIsAlu`, `TargetIsSum`, `Decoding`: the eight operations of the code are
  those of Isa, on every register file; JR's bytewise target is PC plus a signed
  displacement; all 256 entries of the table are the handlers of the octal pattern.
- `HandlerLifecycleProofs!TypeCorrectness` (`TypeOK`), `Ownership` (`FramesOwnedOnce`),
  `Defined` (`DefinedUntilThrown`), `Released` (`NothingOutlivesCpu`), and
  `StepImplements`, the safety part of `ImplementsStepping`: for every set of frames,
  every `MaxYields`.
- `CartridgeLoadingProofs!InBounds` (`AccessesInBounds`), `RightVerdict`
  (`VerdictIsRight`) and `ChecksumNotices` (`ChecksumSeesOneChange`): for every set of
  files, from `FilesAssumption`.
- `MaskedRegisterProofs!HiddenBits` (`HiddenBitsStayHidden`) and `NeverCounted`: for every width
  and every mask; the second from `CountsNoHiddenBit`, without the history variable.
- `EmulatorProofs!OwnCauses` (`WaysOut`) and `ReadsTheLoadedRom`
  (`CpuReadsTheLoadedRom`): for every set of files, from `EmulatorAssumption` and
  `BusAssumption`.

*The refinement.* `ImplementsIsa` says that a `Step()` that ends an instruction is one step
of Isa, and every other one changes nothing that Isa sees. Nothing in a state of the CPU
says so: what the last `Step()` of a CALL does is right only if the five before it have
put the right words into WZ, SP, memory and PC. So the invariant is `RInv`: `IInv`, that the
current handler is the one of the instruction register (`Selected`), that the machine at
the boundary is one of Isa (`MachineState`), that its interrupt state has been kept
except by RETI (`EnableKept`), and `InstructionUnderway`. The proof has one lemma per handler
(`LoadA16SPExecutes`, ...): from `InstructionUnderway`, a resumption leaves the handler further on
its course (`Onward`), or the instruction has been executed and the opcode at the new PC
fetched (`Ended /\ Architecture!Execute`). `StepExecutes` puts them together,
`NextUnderway` says that the instruction fetched is then at the beginning of its course,
also when the one before has just written it, and `FirstStep` that the Noop of the
constructor is a stutter of Isa.
IsaProofs has what these lemmas share. `Machine...` are the operations on the register
file, seen from Isa: an 8-bit assignment changes one register or, for W and Z, nothing.
`ReadIsPeek` is the same for the bus, where ORing over devices is a read of the
partition. `ComputeIsArithmetic`, `RotationIsIsa`, `LowByteStep`, `HighByteStep` and `PoppedAF` are
about numbers: bits against arithmetic modulo 256, and two bytes and a carry against a
signed sum.

*The stack.* That the top word is where SP points and still in memory says nothing of the
words below it, and says nothing in the middle of a CALL, when SP has moved and
half a word is stored. The invariant is `SInv`: `RInv` and, of all words on the stack, that they lie
on top of each other from the boundary's SP on (`Stacked`, modulo 65536) and that both the
memory and that of the boundary hold them (`Intact`). `WordsApart` gives that a push does not
hit a word: the two addresses below SP are none of the stack's, since it takes less than
the address space. What an instruction has done when it ends comes from the
refinement: `PutsOn` and `TakesOffIt` read off `Architecture!Execute` that it has moved SP by two and stored
the word, or stored nothing. That it writes nowhere else before it ends is `Untouched`, from
`InstructionUnderway`. `LastInFirstOut` then follows at the step that completes a POP or RET: by
the refinement it loads the word at SP, which `TopRead` shows to be the last one put on.

The hypothesis `KeepsOffStack` is needed: a program may store into its own stack, or load SP
with a word pushed, and then what it takes off is what it stored. It says nothing of what
PUSH, CALL, RST, POP, RET and RETI do, which is what is proved, nor of any program while its
stack is empty. The programs of run `call_stack` satisfy it: they load SP once, before they push
anything, and their other instructions (LD rr, INC A, XOR A) store nothing.

*The inductive invariant of the CPU.* Neither `TypeOK` nor `FlagsLowNibbleZero` is inductive
alone: the flags stay clean only if every byte and word that a handler hands on is
one, and a register keeps its width through `PUSH AF`, `Bump` and the arithmetic
only as a member of the register file. `IInv` is their conjunction, written for the
provers: the register file is in `CleanFile`, the files of words whose AF has a zero
low nibble. `CpuProofs` shows that each register operation preserves
`CleanFile` (masked assignment, assignment of a set of flag positions, `Bump` of any
register but AF, arithmetic), and for each handler that every stretch of
it hands only such register files to `Yield` and `Return`, with a byte as local, and
that what `Return` dispatches is in the table.

*`DelayedEnable`* needs one thing more, `Selected`: the current handler is the one
that the table holds for the instruction register. Since DI, EI and RETI have one
opcode each in the table (`InterruptOpcodes`), a change made by one of these
handlers identifies its opcode.

`ReportedOpcode` is a conjunct of `IInv` too: `Step()` needs `status = "running"`, and
`Return`, the one place that sets `"threw"`, has just read the opcode at the PC it
increments.

*HandlerLifecycle.* `LInv` says, for each statement, which objects own a frame and what
state that frame is in: `m_handler`'s is suspended at rest, running in its body and
done from the fetch to the assignment, when the two handles change places. That the
frames that exist are exactly the owned ones, each once, is not inductive without it:
destroying one needs to know that nobody else refers to it.

*CartridgeLoading.* `CInv` says what each test has established for the statements after
it (`Known`) and, separately, that it holds of the file too while nobody has disturbed
the loading (`SameAsFile`). The first gives the bounds whatever happens to the file, the
second that no ROM is turned away.

*MaskedRegister.* `MInv` says that the two registers agree on the shown bits of the
whole word unless hidden bits have been counted. Each operator is shown to read or to store
nothing else; an assignment of the whole word needs no agreement before it, and `++` and `--`
keep it where nothing is hidden (`CountInv`). The CPU's side of the discipline is in
`FlagsLowNibbleZero`: AF counted once would have a low nibble that is not zero.

*Emulator.* `EInv` composes: `IInv` for the CPU, which each Step preserves by the lemmas
of CpuProofs and which also holds while the devices are being built; `DataInv`, what
the loading has to establish for the composition (the data are bytes, and a ROM once
loaded); `MainInv`, which relates `phase`, `stage`, `status` and `outcome` and says that
`rom` is the loaded data from `Construct` on. The last needs `StepKeepsRom`: no handler
writes to the cartridge. That the bus then answers with the ROM's byte is `OrNothing`.

*The checksum.* `ValidHeaderChecksum` compares a recursive function's last value, and that
the recursion has a solution at all needs induction. The library's induction theorems
take an operator, which no prover here can instantiate, but `WFMin`, that every non-empty
set has a least element, takes a set: `SetInduction` follows, with which `SumsExist` and
`OneChangeShows` are proved. The last compares the sums of two ROMs that differ in one byte:
equal up to it, different from there on. `SameSum` and `OtherChange` are the converse, for a
byte that is not summed up. `DataAreBytes` is the invariant it needs.

**Only model-checked:** liveness under fairness, which is beyond the proof system:
`PendingResolves`, `ExceptionsEndIt` and the liveness of `ImplementsStepping`. The three
properties of the `doc_` runs are refuted by TLC and are not theorems.

## Not modelled

- The bytes of the Nintendo logo and the names of the cartridge types: they are
  compared and returned, and nothing depends on the result. Which addresses they are
  read from is modelled.
- A file that is rewritten while `read()` copies it, so that the data is part of one
  version and part of another: `Read` is one step. (`InBounds` would hold all the same,
  as no step of it looks at the file.)
- A coroutine frame that cannot be allocated, and any other lack of memory.
- The comparison `<=>` of `Register`, which looks at hidden bits too and which nothing uses;
  the `interruptEnableRegister`, which is never read or written.
- The printing of registers and messages, tests and mocks, build files and scripts.

## Plan

1. *(done)* Bytes, CpuRegisters, Opcodes, AddressBus, Cpu; type correctness, the
   interrupt delay; Isa and the refinement; the call stack; first proofs.
2. *(done)* HandlerLifecycle and Stepping, CartridgeLoading, MaskedRegister, Emulator,
   with the proofs of their safety.
3. *(done)* Microcode; the refinement of Isa, instruction by instruction; the header
   checksum.
4. *(done)* The stack laws, for programs that leave their stack alone: `StackIntact` from a
   discipline of stores and of SP, `LastInFirstOut` from it and the refinement.
