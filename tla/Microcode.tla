----------------------------- MODULE Microcode -----------------------------
(***************************************************************************)
(* What every handler has done of its instruction after each M-cycle: how  *)
(* far the machine that programs see has moved from the last boundary,     *)
(* what the internal registers W and Z and the coroutine's local hold, and *)
(* where PC stands.  Said in the terms of the instruction set, this is     *)
(* what links the middle of an instruction to its beginning, and it is     *)
(* what makes the refinement of Isa inductive.                             *)
(*                                                                         *)
(* h is the coroutine, r the register file, and s the machine seen through *)
(* it: the registers, flags and memory that a program could tell apart.    *)
(***************************************************************************)
EXTENDS CpuHistory

Name(h) == h.body[1]

\* PC is n bytes past the first byte of the instruction.
PcPast(r, n) == r["PC"] = (boundary.pc + n) % 65536

\* The handlers that begin by reading one byte, or two bytes, after the
\* opcode, the low byte into Z and the high one into W.
ReadWord == {"LoadRegN16", "LoadA16SP", "LoadIndirectA16FromA", "LoadAFromIndirectA16", "Jump", "Call"}
ReadByte == {"LoadRegN8", "LoadIndirectHlN8", "LoadIndirectA8FromA", "LoadAFromIndirectA8",
             "LoadSPFromHlPlusE8", "MathN8", "JumpRelative"} \cup ReadWord

Fetching(h, r, s) ==
  /\ s = boundary
  /\ \/ h.at = 1 /\ PcPast(r, 1)
     \/ h.at = 2 /\ Name(h) \in ReadByte /\ PcPast(r, 2) /\ Value8(r, "Z") = Architecture!imm8
     \/ h.at = 3 /\ Name(h) \in ReadWord /\ PcPast(r, 3) /\ r["WZ"] = Architecture!imm16

-----------------------------------------------------------------------------
(* Loads and 16-bit arithmetic *)

StoreByte(a, v) == Architecture!Poke(boundary, a, v)

\* LD (BC), A and its kin, and LD (HL), r.
StoredIndirect == IF Architecture!x = 0
                    THEN Architecture!Moved(StoreByte(Architecture!Pointer, boundary.r["A"]))
                    ELSE StoreByte(Architecture!HL(boundary), Architecture!Get8(Architecture!z))

LoadedIndirect == Architecture!Peek(IF Architecture!x = 0 THEN Architecture!Pointer ELSE Architecture!HL(boundary))

Stepped(by) == LET p == Architecture!y \div 2 IN Architecture!Set16(boundary, p, Architecture!Get16(p) + by)

\* The first half of LD HL, SP+e8.
LowByteAdded ==
  LET sp == boundary.sp
      e  == Architecture!imm8
  IN  [boundary EXCEPT !.r["L"]  = (sp + e) % 256,
                       !.flags = Architecture!When((sp % 16) + (e % 16) > 15, "H")
                                 \cup Architecture!When((sp % 256) + e > 255, "C")]

Loading(h, r, s) ==
  \/ /\ h.at = 2 /\ PcPast(r, 1)
     /\ \/ Name(h) = "LoadIndirectFrom" /\ s = StoredIndirect
        \/ /\ Name(h) = "LoadRIndirectRr"
           /\ s = IF Architecture!x = 0 THEN Architecture!Moved(boundary) ELSE boundary
           /\ h.local = LoadedIndirect
        \/ Name(h) = "LoadIndirectCFromA" /\ s = StoreByte(HighPage(boundary.r["C"]), boundary.r["A"])
        \/ /\ Name(h) = "LoadAFromIndirectC"
           /\ s = [boundary EXCEPT !.r["A"] = Architecture!Peek(HighPage(boundary.r["C"]))]
        \/ Name(h) = "LoadReg16Reg16" /\ s = [boundary EXCEPT !.sp = Architecture!HL(boundary)]
        \/ Name(h) = "IncRR" /\ s = Stepped(1)
        \/ Name(h) = "DecRR" /\ s = Stepped(-1)
        \/ /\ Name(h) = "MathIndirectHL" /\ s = boundary
           /\ Value8(r, "Z") = Architecture!Peek(Architecture!HL(boundary))
  \/ /\ h.at = 3 /\ PcPast(r, 2)
     /\ \/ Name(h) = "LoadIndirectHlN8" /\ s = StoreByte(Architecture!HL(boundary), Architecture!imm8)
        \/ Name(h) = "LoadIndirectA8FromA" /\ s = StoreByte(HighPage(Architecture!imm8), boundary.r["A"])
        \/ /\ Name(h) = "LoadAFromIndirectA8" /\ s = boundary
           /\ Value8(r, "Z") = Architecture!Peek(HighPage(Architecture!imm8))
        \/ /\ Name(h) = "LoadSPFromHlPlusE8" /\ s = LowByteAdded
           /\ h.local > 0 <=> Architecture!imm8 >= 128
  \/ /\ h.at = 4 /\ PcPast(r, 3)
     /\ \/ Name(h) = "LoadIndirectA16FromA" /\ s = StoreByte(Architecture!imm16, boundary.r["A"])
        \/ /\ Name(h) = "LoadAFromIndirectA16" /\ s = boundary
           /\ Value8(r, "Z") = Architecture!Peek(Architecture!imm16)
        \/ /\ Name(h) = "LoadA16SP" /\ s = StoreByte(Architecture!imm16, Low(boundary.sp))
           /\ r["WZ"] = (Architecture!imm16 + 1) % 65536
  \/ /\ h.at = 5 /\ PcPast(r, 3)
     /\ Name(h) = "LoadA16SP" /\ s = Architecture!Poke16(boundary, Architecture!imm16, boundary.sp)

-----------------------------------------------------------------------------
(* The stack *)

\* The word on its way to the stack, the bytes of the instruction, and the
\* resumption that makes room for it.
Pushed(h) == IF Name(h) = "PushRr"
               THEN IF Architecture!y = 6 THEN Architecture!AF ELSE Architecture!Get16(Architecture!y \div 2)
               ELSE (boundary.pc + (IF Name(h) = "Call" THEN 3 ELSE 1)) % 65536

MakesRoom(h) == IF Name(h) = "Call" THEN 3 ELSE 1

MovedSP(by) == [boundary EXCEPT !.sp = (@ + by) % 65536]

\* A call that goes on after its operands has found its condition true and
\* keeps its target in WZ until the return address is stored.
Pushing(h, r, s) ==
  /\ Name(h) \in {"PushRr", "Call", "Rst"}
  /\ Name(h) = "Call" => Holds(h.body[2], r)
  /\ \/ /\ h.at \in {MakesRoom(h) + 1, MakesRoom(h) + 2}
        /\ PcPast(r, MakesRoom(h))
        /\ Name(h) = "Call" => r["WZ"] = Architecture!imm16
        /\ s = IF h.at = MakesRoom(h) + 1 THEN MovedSP(-1)
               ELSE Architecture!Poke(MovedSP(-2), (boundary.sp - 1) % 65536, High(Pushed(h)))
     \/ /\ h.at = MakesRoom(h) + 3
        /\ s = Architecture!PushOn(boundary, Pushed(h))
        /\ \/ Name(h) = "PushRr" /\ PcPast(r, 1)
           \/ Name(h) = "Call" /\ r["PC"] = Architecture!imm16
           \/ Name(h) = "Rst" /\ r["PC"] = 8 * Architecture!y

\* The resumption that takes the first byte off the stack.
TakesOff(h) == IF Name(h) = "RetConditional" THEN 2 ELSE 1

Popping(h, r, s) ==
  /\ Name(h) \in {"PopRr", "Ret", "RetI", "RetConditional"}
  /\ Name(h) = "RetConditional" => Holds(h.body[2], r)
  /\ \/ h.at = 2 /\ Name(h) = "RetConditional" /\ PcPast(r, 1) /\ s = boundary
     \/ /\ h.at = TakesOff(h) + 1 /\ PcPast(r, 1)
        /\ s = MovedSP(1) /\ Value8(r, "Z") = Architecture!Peek(boundary.sp)
     \/ /\ h.at = TakesOff(h) + 2 /\ PcPast(r, 1)
        /\ s = MovedSP(2) /\ r["WZ"] = Architecture!Popped
     \/ /\ h.at = TakesOff(h) + 3 /\ Name(h) # "PopRr" /\ r["PC"] = Architecture!Popped
        /\ s = IF Name(h) = "RetI" THEN Architecture!Interrupts(MovedSP(2), TRUE) ELSE MovedSP(2)

\* A jump has found its condition true; it has reached its target, or still
\* has it in WZ.
Jumping(h, r, s) ==
  /\ s = boundary
  /\ Holds(h.body[2], r)
  /\ \/ Name(h) = "Jump" /\ h.at = 4 /\ r["PC"] = Architecture!imm16
     \/ /\ Name(h) = "JumpRelative" /\ h.at = 3
        /\ r["WZ"] = (boundary.pc + 2 + Architecture!Signed(Architecture!imm8)) % 65536

\* A conditional return that is not taken skips to its last resumption.
Skipping(h, r, s) ==
  /\ Name(h) = "RetConditional" /\ h.at = 5
  /\ s = boundary /\ PcPast(r, 1) /\ ~Holds(h.body[2], r)

-----------------------------------------------------------------------------
\* The coroutine h, resumed n times since the boundary, has left r, the
\* interrupt state i and the memory m.
OnCourse(h, r, i, m, n) ==
  LET s == Machine(r, i, m, boundary.pc)
  IN  \/ /\ n = h.at - 1
         /\ Fetching(h, r, s) \/ Loading(h, r, s) \/ Pushing(h, r, s) \/ Popping(h, r, s) \/ Jumping(h, r, s)
      \/ n = 1 /\ Skipping(h, r, s)

\* The handler of opcode 00 that m_handler starts with belongs to no
\* instruction: it only fetches the first one.
PoweringUp ==
  /\ handler = Created(Noop) /\ ir = \h00 /\ ime = "DISABLED"
  /\ boundary = Machine(reg, ime, ram, reg["PC"])
  /\ elapsed = 0 /\ cycles = 1

\* In the middle of an instruction, at every M-cycle of every handler,
\* registers, flags, memory and interrupt state are those of the last
\* boundary but for the part of the instruction already done; operands and
\* return addresses on their way through W and Z, which later instructions
\* reuse, are those of this instruction, also when it has written over its
\* own bytes; and as many M-cycles have passed as it has been resumed
\* (instruction_handler.h:32, cpu.cpp:36, the handlers).
InstructionUnderway ==
  status = "running" =>
    \/ PoweringUp
    \/ ir = Architecture!opcode /\ OnCourse(handler, reg, ime, ram, elapsed)
=============================================================================
