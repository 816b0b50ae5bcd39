-------------------------------- MODULE Cpu --------------------------------
(***************************************************************************)
(* Cpu::Step() and the instruction handlers.                               *)
(*                                                                         *)
(* A handler is a coroutine.  Every Step() resumes it once, which runs the *)
(* code up to the next co_yield: one M-cycle.  The Step() in which it      *)
(* reaches co_return goes on to fetch the next opcode and to create its    *)
(* handler, so the last M-cycle of an instruction overlaps with the fetch. *)
(*                                                                         *)
(* Each step of Next is one Step().  There is one action per handler; its  *)
(* disjuncts are the stretches of code between co_yields, in the order in  *)
(* which they run: Yield(k, ...) and the actions made from it are the k-th *)
(* resumption when that ends at a co_yield, Return(k, ...) when it ends at *)
(* co_return.                                                              *)
(***************************************************************************)
EXTENDS AddressBus, Opcodes

VARIABLES
  reg,      \* the register file
  ime,      \* masterInterruptState
  ir,       \* instructionRegister
  handler,  \* m_handler: which coroutine, the resumption it awaits, and the
            \* local that it keeps across a co_yield
  status    \* "running", or "threw" once a Step() has thrown: main() exits

vars == <<rom, ram, reg, ime, ir, handler, status>>

Created(h) == [body |-> h, at |-> 1, local |-> 0]

\* Cpu::Cpu: the registers after power-up, and the handler of opcode 00.
PowerUp ==
  /\ reg = [AF |-> \h0180, BC |-> \h0013, DE |-> \h00D8, HL |-> \h014D,
            WZ |-> \h0000, PC |-> \h0100, SP |-> \hFFFE]
  /\ ime = "DISABLED"
  /\ ir = \h00
  /\ handler = Created(Noop)
  /\ status = "running"

Init == BusInit /\ PowerUp

-----------------------------------------------------------------------------
(***************************************************************************)
(* What handlers are made of.  r, i and m are the registers, the master    *)
(* interrupt state and the memory that a stretch of code leaves behind.    *)
(***************************************************************************)
Executing(h) == status = "running" /\ handler.body = h

Suspend(k, next, r, i, m, local) ==
  /\ handler.at = k
  /\ reg' = r
  /\ ime' = i
  /\ ram' = m
  /\ handler' = [handler EXCEPT !.at = next, !.local = local]
  /\ UNCHANGED <<rom, ir, status>>

Yield(k, r) == Suspend(k, k + 1, r, ime, ram, handler.local)

YieldWriting(k, address, data, r) ==
  Suspend(k, k + 1, r, ime, BusWrite(address, data), handler.local)

\* Faulty: EI takes effect at once; a pending enable is never promoted.
PromoteAtOnce(i) == IF i = "PENDING" THEN "ENABLED" ELSE i
NeverPromote(i)  == i

\* The end of an instruction enables the interrupts when that was pending
\* before the instruction's last M-cycle and still is.
Promote(i) == IF ime = "PENDING" /\ i = "PENDING" THEN "ENABLED" ELSE i

\* Faulty: an opcode without a handler yields a coroutine like any other.
DispatchUnchecked(h) == handler' = Created(h) /\ UNCHANGED status

\* The table's function is called: it creates the coroutine, or throws, in
\* which case m_handler stays the coroutine that has just finished.
Dispatch(h) ==
  \/ /\ h \notin Throwing
     /\ handler' = Created(h)
     /\ UNCHANGED status
  \/ /\ h \in Throwing
     /\ status' = "threw"
     /\ UNCHANGED handler

\* Faulty: the instruction register is assigned after the dispatch.
ReturnAssigningLate(k, r, i) ==
  LET opcode == BusRead(r["PC"])
  IN  /\ handler.at = k
      /\ ime' = Promote(i)
      /\ reg' = Bump(r, "PC", 1)
      /\ Dispatch(OpcodeHandlers[opcode])
      /\ ir' = IF status' = "threw" THEN ir ELSE opcode
      /\ UNCHANGED <<rom, ram>>

Return(k, r, i) ==
  LET opcode == BusRead(r["PC"])
  IN  /\ handler.at = k
      /\ ime' = Promote(i)
      /\ ir' = opcode
      /\ reg' = Bump(r, "PC", 1)
      /\ Dispatch(OpcodeHandlers[opcode])
      /\ UNCHANGED <<rom, ram>>

\* Reading a byte at PC or SP into an internal register.
Operand(k, n) == Yield(k, Bump(Assign8(reg, n, BusRead(reg["PC"])), "PC", 1))

\* Faulty: the stack pointer is not moved.
PopByteInPlace(k, n) == Yield(k, Assign8(reg, n, BusRead(reg["SP"])))

PopByte(k, n) == Yield(k, Bump(Assign8(reg, n, BusRead(reg["SP"])), "SP", 1))

R8(n) == Value8(reg, n)

\* The register pairs that handlers are instantiated with.
Pair16      == {"BC", "DE", "HL", "SP"}
StackedPair == {"AF", "BC", "DE", "HL"}

HighPage(offset) == \hFF00 + offset

-----------------------------------------------------------------------------
(* Loads *)

NoopStep == Executing(Noop) /\ Return(1, reg, ime)

LoadRegReg == \E d, s \in Register8 :
  /\ Executing(<<"LoadRegReg", d, s>>)
  /\ Return(1, Assign8(reg, d, R8(s)), ime)

LoadRegN8 == \E d \in Register8 :
  /\ Executing(<<"LoadRegN8", d>>)
  /\ \/ Operand(1, "Z")
     \/ Return(2, Assign8(reg, d, R8("Z")), ime)

LoadRegN16 == \E d \in Pair16 :
  /\ Executing(<<"LoadRegN16", d>>)
  /\ \/ Operand(1, "Z")
     \/ Operand(2, "W")
     \/ Return(3, Assign16(reg, d, reg["WZ"]), ime)

\* The byte goes to the address the register had before it is modified.
LoadIndirectFrom == \E a \in Pair16, s \in Register8, by \in {-1, 0, 1} :
  /\ Executing(<<"LoadIndirectFrom", a, s, by>>)
  /\ \/ YieldWriting(1, reg[a], Value8(Bump(reg, a, by), s), Bump(reg, a, by))
     \/ Return(2, reg, ime)

LoadRIndirectRr == \E d \in Register8, a \in Pair16, by \in {-1, 0, 1} :
  /\ Executing(<<"LoadRIndirectRr", d, a, by>>)
  /\ \/ Suspend(1, 2, Bump(reg, a, by), ime, ram, BusRead(reg[a]))
     \/ Return(2, Assign8(reg, d, handler.local), ime)

LoadIndirectHlN8 ==
  /\ Executing(<<"LoadIndirectHlN8">>)
  /\ \/ Operand(1, "Z")
     \/ YieldWriting(2, reg["HL"], R8("Z"), reg)
     \/ Return(3, reg, ime)

LoadA16SP ==
  /\ Executing(<<"LoadA16SP">>)
  /\ \/ Operand(1, "Z")
     \/ Operand(2, "W")
     \/ YieldWriting(3, reg["WZ"], Low(reg["SP"]), Bump(reg, "WZ", 1))
     \/ YieldWriting(4, reg["WZ"], High(reg["SP"]), reg)
     \/ Return(5, reg, ime)

LoadIndirectA8FromA ==
  /\ Executing(<<"LoadIndirectA8FromA">>)
  /\ \/ Operand(1, "Z")
     \/ YieldWriting(2, HighPage(R8("Z")), R8("A"), reg)
     \/ Return(3, reg, ime)

LoadIndirectA16FromA ==
  /\ Executing(<<"LoadIndirectA16FromA">>)
  /\ \/ Operand(1, "Z")
     \/ Operand(2, "W")
     \/ YieldWriting(3, reg["WZ"], R8("A"), reg)
     \/ Return(4, reg, ime)

LoadIndirectCFromA ==
  /\ Executing(<<"LoadIndirectCFromA">>)
  /\ \/ YieldWriting(1, HighPage(R8("C")), R8("A"), reg)
     \/ Return(2, reg, ime)

LoadAFromIndirectA8 ==
  /\ Executing(<<"LoadAFromIndirectA8">>)
  /\ \/ Operand(1, "Z")
     \/ Yield(2, Assign8(reg, "Z", BusRead(HighPage(R8("Z")))))
     \/ Return(3, Assign8(reg, "A", R8("Z")), ime)

LoadAFromIndirectA16 ==
  /\ Executing(<<"LoadAFromIndirectA16">>)
  /\ \/ Operand(1, "Z")
     \/ Operand(2, "W")
     \/ Yield(3, Assign8(reg, "Z", BusRead(reg["WZ"])))
     \/ Return(4, Assign8(reg, "A", R8("Z")), ime)

LoadAFromIndirectC ==
  /\ Executing(<<"LoadAFromIndirectC">>)
  /\ \/ Yield(1, Assign8(reg, "A", BusRead(HighPage(R8("C")))))
     \/ Return(2, reg, ime)

LoadReg16Reg16 == \E d, s \in Pair16 :
  /\ Executing(<<"LoadReg16Reg16", d, s>>)
  /\ \/ Yield(1, Assign16(reg, d, reg[s]))
     \/ Return(2, reg, ime)

\* LD HL, SP + e8.  L and the flags change one M-cycle before H, which takes
\* its carry from the flags; the local keeps the sign of the displacement.
LoadSPFromHlPlusE8 ==
  LET sum  == AddWithCarry(Low(reg["SP"]), R8("Z"))
      sign == And(\h80, R8("Z"))
      adjustment == IF handler.local > 0 THEN \hFF ELSE 0
      carry      == IF CarryIn(reg) THEN 1 ELSE 0
  IN  /\ Executing(<<"LoadSPFromHlPlusE8">>)
      /\ \/ Operand(1, "Z")
         \/ Suspend(2, 3, Assign8(Assign8(reg, "L", sum.result), "F",
                                  FromBits(HalfCarryFlag(sum) \cup CarryFlag(sum))),
                    ime, ram, sign)
         \/ Return(3, Assign8(reg, "H", (High(reg["SP"]) + adjustment + carry) % 256), ime)

\* Faulty: each byte is stored before SP is decremented.
PushRrFromSP == \E s \in StackedPair :
  /\ Executing(<<"PushRr", s>>)
  /\ \/ Yield(1, reg)
     \/ YieldWriting(2, reg["SP"], High(reg[s]), Bump(reg, "SP", -1))
     \/ YieldWriting(3, reg["SP"], Low(reg[s]), Bump(reg, "SP", -1))
     \/ Return(4, reg, ime)

PushRr == \E s \in StackedPair :
  /\ Executing(<<"PushRr", s>>)
  /\ \/ Yield(1, Bump(reg, "SP", -1))
     \/ YieldWriting(2, reg["SP"], High(reg[s]), Bump(reg, "SP", -1))
     \/ YieldWriting(3, reg["SP"], Low(reg[s]), reg)
     \/ Return(4, reg, ime)

PopRr == \E d \in StackedPair :
  /\ Executing(<<"PopRr", d>>)
  /\ \/ PopByte(1, "Z")
     \/ PopByte(2, "W")
     \/ Return(3, Assign16(reg, d, reg["WZ"]), ime)

-----------------------------------------------------------------------------
(* Arithmetic and logic *)

MathOperandR == \E o \in MathOperation, s \in Register8 :
  /\ Executing(<<"MathOperandR", o, s>>)
  /\ Return(1, Math(reg, o, R8(s), Sink(o)), ime)

MathN8 == \E o \in MathOperation :
  /\ Executing(<<"MathN8", o>>)
  /\ \/ Operand(1, "Z")
     \/ Return(2, Math(reg, o, R8("Z"), Sink(o)), ime)

\* The eight ...AFromIndirectHL handlers; that of CP only sets the flags,
\* which leaves Z with the operand, as if Z were assigned its own value.
MathIndirectHL == \E o \in MathOperation :
  LET x == Compute(o, R8("A"), R8("Z"), CarryIn(reg))
      flags == OperationFlags(o, x)
  IN  /\ Executing(<<"MathIndirectHL", o>>)
      /\ \/ Yield(1, Assign8(reg, "Z", BusRead(reg["HL"])))
         \/ /\ o # "Cp"
            /\ Return(2, Math(reg, o, R8("Z"), "A"), ime)
         \/ /\ o = "Cp"
            /\ Return(2, AssignFlags(reg, flags), ime)

IncR == \E n \in Register8 :
  Executing(<<"IncR", n>>) /\ Return(1, Increment(reg, n), ime)

DecR == \E n \in Register8 :
  Executing(<<"DecR", n>>) /\ Return(1, Decrement(reg, n), ime)

IncRR == \E n \in Pair16 :
  /\ Executing(<<"IncRR", n>>)
  /\ \/ Yield(1, Bump(reg, n, 1))
     \/ Return(2, reg, ime)

DecRR == \E n \in Pair16 :
  /\ Executing(<<"DecRR", n>>)
  /\ \/ Yield(1, Bump(reg, n, -1))
     \/ Return(2, reg, ime)

\* The rotations of A: left or right by one bit, the bit that enters being
\* the one that leaves or, through the carry, the carry flag.
Rotated(entering, left) ==
  IF left THEN ((2 * R8("A")) % 256) + (IF entering THEN 1 ELSE 0)
          ELSE (R8("A") \div 2) + (IF entering THEN 128 ELSE 0)

Rotation(entering, leaving, left) ==
  Assign8(Assign8(reg, "A", Rotated(entering, left)), "F", FromBits(FlagIf(Carry, leaving)))

Bit0OfA == R8("A") % 2 = 1
Bit7OfA == R8("A") >= 128

Rlca == Executing(<<"Rlca">>) /\ Return(1, Rotation(Bit7OfA, Bit7OfA, TRUE), ime)
Rrca == Executing(<<"Rrca">>) /\ Return(1, Rotation(Bit0OfA, Bit0OfA, FALSE), ime)
Rla  == Executing(<<"Rla">>)  /\ Return(1, Rotation(CarryIn(reg), Bit7OfA, TRUE), ime)
Rra  == Executing(<<"Rra">>)  /\ Return(1, Rotation(CarryIn(reg), Bit0OfA, FALSE), ime)

Cpl ==
  /\ Executing(<<"Cpl">>)
  /\ Return(1, AssignFlags(Assign8(reg, "A", Complement(R8("A"))),
                           Flags(reg) \cup {Subtract, HalfCarry}), ime)

Ccf ==
  LET kept == Flags(reg) \cap {Carry, Zero}
  IN  /\ Executing(<<"Ccf">>)
      /\ Return(1, AssignFlags(reg, (kept \ {Carry}) \cup ({Carry} \ kept)), ime)

-----------------------------------------------------------------------------
(* Control flow *)

Jump == \E c \in Condition :
  /\ Executing(<<"Jump", c>>)
  /\ \/ Operand(1, "Z")
     \/ Operand(2, "W")
     \/ ~Holds(c, reg) /\ Return(3, reg, ime)
     \/ Holds(c, reg) /\ Yield(3, Assign16(reg, "PC", reg["WZ"]))
     \/ Return(4, reg, ime)

\* The displacement in Z is added to the low byte of PC; the high byte is
\* corrected by the carry and the sign of the displacement.
JumpTarget ==
  LET sum      == AddWithCarry(R8("Z"), Low(reg["PC"]))
      carry    == 7 \in sum.carryBits
      negative == 7 \in Bits(R8("Z"))
      adjustment == IF carry /\ ~negative THEN 1
                    ELSE IF ~carry /\ negative THEN 255 ELSE 0
  IN  Pair((High(reg["PC"]) + adjustment) % 256, sum.result)

JumpRelative == \E c \in Condition :
  /\ Executing(<<"JumpRelative", c>>)
  /\ \/ Operand(1, "Z")
     \/ ~Holds(c, reg) /\ Return(2, reg, ime)
     \/ Holds(c, reg) /\ Yield(2, Assign16(reg, "WZ", JumpTarget))
     \/ Return(3, Assign16(reg, "PC", reg["WZ"]), ime)

JumpHl == Executing(<<"JumpHl">>) /\ Return(1, Assign16(reg, "PC", reg["HL"]), ime)

Call == \E c \in Condition :
  /\ Executing(<<"Call", c>>)
  /\ \/ Operand(1, "Z")
     \/ Operand(2, "W")
     \/ ~Holds(c, reg) /\ Return(3, reg, ime)
     \/ Holds(c, reg) /\ Yield(3, Bump(reg, "SP", -1))
     \/ YieldWriting(4, reg["SP"], High(reg["PC"]), Bump(reg, "SP", -1))
     \/ YieldWriting(5, reg["SP"], Low(reg["PC"]), Assign16(reg, "PC", reg["WZ"]))
     \/ Return(6, reg, ime)

Rst == \E target \in {\h00, \h08, \h10, \h18, \h20, \h28, \h30, \h38} :
  /\ Executing(<<"Rst", target>>)
  /\ \/ Yield(1, Bump(reg, "SP", -1))
     \/ YieldWriting(2, reg["SP"], High(reg["PC"]), Bump(reg, "SP", -1))
     \/ YieldWriting(3, reg["SP"], Low(reg["PC"]), Assign16(reg, "PC", target))
     \/ Return(4, reg, ime)

Ret ==
  /\ Executing(<<"Ret">>)
  /\ \/ PopByte(1, "Z")
     \/ PopByte(2, "W")
     \/ Yield(3, Assign16(reg, "PC", reg["WZ"]))
     \/ Return(4, reg, ime)

\* The condition is tested in the first resumption; when it fails the second
\* one is a bare co_return, like the fifth of a return that is taken.
RetConditional == \E c \in Condition :
  /\ Executing(<<"RetConditional", c>>)
  /\ \/ ~Holds(c, reg) /\ Suspend(1, 5, reg, ime, ram, handler.local)
     \/ Holds(c, reg) /\ Yield(1, reg)
     \/ PopByte(2, "Z")
     \/ PopByte(3, "W")
     \/ Yield(4, Assign16(reg, "PC", reg["WZ"]))
     \/ Return(5, reg, ime)

RetI ==
  /\ Executing(<<"RetI">>)
  /\ \/ PopByte(1, "Z")
     \/ PopByte(2, "W")
     \/ Suspend(3, 4, Assign16(reg, "PC", reg["WZ"]), "ENABLED", ram, handler.local)
     \/ Return(4, reg, ime)

Di == Executing(<<"Di">>) /\ Return(1, reg, "DISABLED")

Ei == Executing(<<"Ei">>) /\ Return(1, reg, IF ime = "DISABLED" THEN "PENDING" ELSE ime)

-----------------------------------------------------------------------------
LoadStep ==
  \/ NoopStep
  \/ LoadRegReg \/ LoadRegN8 \/ LoadRegN16
  \/ LoadIndirectFrom \/ LoadRIndirectRr \/ LoadIndirectHlN8 \/ LoadA16SP
  \/ LoadIndirectA8FromA \/ LoadIndirectA16FromA \/ LoadIndirectCFromA
  \/ LoadAFromIndirectA8 \/ LoadAFromIndirectA16 \/ LoadAFromIndirectC
  \/ LoadReg16Reg16 \/ LoadSPFromHlPlusE8
  \/ PushRr \/ PopRr

MathStep ==
  \/ MathOperandR \/ MathN8 \/ MathIndirectHL
  \/ IncR \/ DecR \/ IncRR \/ DecRR
  \/ Rlca \/ Rrca \/ Rla \/ Rra \/ Cpl \/ Ccf

ControlStep ==
  \/ Jump \/ JumpRelative \/ JumpHl
  \/ Call \/ Rst \/ Ret \/ RetConditional \/ RetI
  \/ Di \/ Ei

Step == LoadStep \/ MathStep \/ ControlStep

\* main() has caught the exception and has left its loop.
Exited == status = "threw" /\ UNCHANGED vars

Next == Step \/ Exited

\* main() calls Step() for as long as it does not throw.
Spec == Init /\ [][Next]_vars /\ WF_vars(Step)

-----------------------------------------------------------------------------
\* A Step() in which the handler has reached co_return.
Completes == handler'.at = 1 \/ status' = "threw"

\* Types, of which two carry weight: every register fits its width whatever
\* is added to it or taken from it, and a handler is one the table can
\* create, waiting at one of its resumptions (Cpu::Step, cpu.cpp:36).
TypeOK ==
  /\ BusTypeOK
  /\ reg \in RegisterFile
  /\ ime \in {"DISABLED", "PENDING", "ENABLED"}
  /\ ir \in Byte
  /\ handler \in [body : Handlers, at : 1 .. 6, local : Byte]
  /\ status \in {"running", "threw"}

\* The low four bits of F are zero at every M-cycle, although most handlers
\* write flags.value, which no mask protects, PUSH AF stores that value as
\* it is and POP AF loads any byte (register.h:24, flag_helpers.h:21).
FlagsLowNibbleZero == reg["AF"] % 16 = 0

\* When a Step() has thrown, what main() prints names the opcode at fault:
\* the exception was thrown for the byte in the instruction register, and
\* PC, which is past it, still leads back to that byte, also when it was in
\* RAM, at FFFF, or operand of another instruction (cpu.cpp:56-60,
\* main.cpp:56-62).
ReportedOpcode ==
  status = "threw" =>
    /\ OpcodeHandlers[ir] \in Throwing
    /\ ir = BusRead((reg["PC"] - 1) % 65536)

\* The delay of EI: interrupts become pending only when EI ends, and
\* enabled only when RETI jumps or when an instruction other than DI ends
\* that had found them pending; only DI disables them, and it withdraws a
\* pending enable (Cpu::Step, cpu.cpp:43-54; ei, di and reti handlers).
EnableIsDelayed ==
  [][ime' # ime =>
       \/ ime' = "DISABLED" /\ Completes /\ ir = \hF3
       \/ ime' = "PENDING" /\ Completes /\ ir = \hFB /\ ime = "DISABLED"
       \/ ime' = "ENABLED" /\ Completes /\ ir # \hF3 /\ ime = "PENDING"
       \/ ime' = "ENABLED" /\ ~Completes /\ ir = \hD9]_vars

\* A pending enable does not stay pending: the instruction after EI ends,
\* unless creating its handler throws (Cpu::Step, cpu.cpp:51).
PendingResolves == ime = "PENDING" ~> (ime # "PENDING" \/ status = "threw")
=============================================================================
