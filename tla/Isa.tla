-------------------------------- MODULE Isa --------------------------------
(***************************************************************************)
(* What the CPU promises: the instruction set as a machine that executes   *)
(* one whole instruction per step.  It has no internal registers, no       *)
(* M-cycle boundaries and no prefetched opcode; the duration of each       *)
(* instruction is a number.  Opcodes are decoded by their octal digits,    *)
(* arithmetic is arithmetic on numbers and the memory map is a partition,  *)
(* so that nothing here is shared with the way the code does it.           *)
(***************************************************************************)
EXTENDS Bytes, Sequences

CONSTANTS RomFill, RamEnd

VARIABLES
  rom,      \* the program
  machine,  \* registers, flags, interrupt enable and RAM between instructions
  cycles    \* the M-cycles the last instruction took

Name8  == <<"B", "C", "D", "E", "H", "L", "(HL)", "A">>
Name16 == <<<<"B", "C">>, <<"D", "E">>, <<"H", "L">>>>

IsaInit ==
  /\ machine = [r |-> [A |-> 1, B |-> 0, C |-> \h13, D |-> 0, E |-> \hD8, H |-> 1, L |-> \h4D],
                flags |-> {"Z"}, sp |-> \hFFFE, pc |-> \h0100,
                enabled |-> FALSE, armed |-> FALSE,
                ram |-> [a \in \hC000 .. RamEnd |-> 0]]
  /\ cycles = 1

-----------------------------------------------------------------------------
(* Memory and operands *)

Peek(a) == IF a < \h8000 THEN (IF a \in DOMAIN rom THEN rom[a] ELSE RomFill)
           ELSE IF a \in \hC000 .. RamEnd THEN machine.ram[a] ELSE 0

Poke(m, a, v) == IF a \in \hC000 .. RamEnd THEN [m EXCEPT !.ram[a] = v] ELSE m

Peek16(a) == 256 * Peek((a + 1) % 65536) + Peek(a)

Poke16(m, a, v) == Poke(Poke(m, (a + 1) % 65536, v \div 256), a, v % 256)

opcode == Peek(machine.pc)
imm8   == Peek((machine.pc + 1) % 65536)
imm16  == Peek16((machine.pc + 1) % 65536)

\* opcode = xyz in octal
x == opcode \div 64
y == (opcode \div 8) % 8
z == opcode % 8

Signed(b) == IF b < 128 THEN b ELSE b - 256

HL(m) == 256 * m.r["H"] + m.r["L"]

Get8(i) == IF i = 6 THEN Peek(HL(machine)) ELSE machine.r[Name8[i + 1]]

Set8(m, i, v) == IF i = 6 THEN Poke(m, HL(machine), v)
                          ELSE [m EXCEPT !.r[Name8[i + 1]] = v]

Get16(p) == IF p = 3 THEN machine.sp
            ELSE 256 * machine.r[Name16[p + 1][1]] + machine.r[Name16[p + 1][2]]

Set16(m, p, v) ==
  IF p = 3 THEN [m EXCEPT !.sp = v % 65536]
  ELSE [m EXCEPT !.r[Name16[p + 1][1]] = (v % 65536) \div 256,
                 !.r[Name16[p + 1][2]] = v % 256]

When(condition, flag) == IF condition THEN {flag} ELSE {}

CarryValue == IF "C" \in machine.flags THEN 1 ELSE 0

\* The conditions NZ, Z, NC and C.
Taken(c) == CASE c = 0 -> "Z" \notin machine.flags
              [] c = 1 -> "Z" \in machine.flags
              [] c = 2 -> "C" \notin machine.flags
              [] c = 3 -> "C" \in machine.flags

-----------------------------------------------------------------------------
(* The end of an instruction that leaves m, with the given length and      *)
(* duration.  EI takes effect after the instruction that follows it.       *)

Interrupts(m, on) == [m EXCEPT !.enabled = on, !.armed = FALSE]

Finish(m, duration) == machine' = m /\ cycles' = duration /\ UNCHANGED rom

Armed(m) == Interrupts(m, machine.enabled \/ machine.armed)

\* Execution goes on at pc.
Continue(m, pc, duration) == Finish([Armed(m) EXCEPT !.pc = pc % 65536], duration)

Proceed(m, length, duration) == Continue(m, machine.pc + length, duration)

PushOn(m, v) == Poke16([m EXCEPT !.sp = (@ - 2) % 65536], (m.sp - 2) % 65536, v)

Popped == Peek16(machine.sp)

PopOff(m) == [m EXCEPT !.sp = (@ + 2) % 65536]

-----------------------------------------------------------------------------
(* Loads *)

NOP == opcode = 0 /\ Proceed(machine, 1, 1)

LD_r_r == /\ x = 1 /\ ~(y = 6 /\ z = 6)
          /\ Proceed(Set8(machine, y, Get8(z)), 1, IF 6 \in {y, z} THEN 2 ELSE 1)

LD_r_n == /\ x = 0 /\ z = 6
          /\ Proceed(Set8(machine, y, imm8), 2, IF y = 6 THEN 3 ELSE 2)

LD_rr_nn == /\ x = 0 /\ z = 1 /\ y % 2 = 0
            /\ Proceed(Set16(machine, y \div 2, imm16), 3, 3)

\* (BC), (DE), (HL+), (HL-): even y store A, odd y load it.
Pointer  == IF y \div 2 < 2 THEN Get16(y \div 2) ELSE HL(machine)
Moved(m) == CASE y \div 2 = 2 -> Set16(m, 2, HL(machine) + 1)
              [] y \div 2 = 3 -> Set16(m, 2, HL(machine) - 1)
              [] OTHER        -> m

LD_A_indirect ==
  /\ x = 0 /\ z = 2
  /\ Proceed(Moved(IF y % 2 = 0 THEN Poke(machine, Pointer, machine.r["A"])
                                ELSE Set8(machine, 7, Peek(Pointer))), 1, 2)

LD_nn_SP == opcode = \h08 /\ Proceed(Poke16(machine, imm16, machine.sp), 3, 5)

StoreA(a, length, duration) == Proceed(Poke(machine, a, machine.r["A"]), length, duration)
LoadA(a, length, duration)  == Proceed(Set8(machine, 7, Peek(a)), length, duration)

LD_A_direct ==
  \/ opcode = \hE0 /\ StoreA(\hFF00 + imm8, 2, 3)
  \/ opcode = \hF0 /\ LoadA(\hFF00 + imm8, 2, 3)
  \/ opcode = \hE2 /\ StoreA(\hFF00 + machine.r["C"], 1, 2)
  \/ opcode = \hF2 /\ LoadA(\hFF00 + machine.r["C"], 1, 2)
  \/ opcode = \hEA /\ StoreA(imm16, 3, 4)
  \/ opcode = \hFA /\ LoadA(imm16, 3, 4)

LD_SP_HL == opcode = \hF9 /\ Proceed([machine EXCEPT !.sp = HL(machine)], 1, 2)

LD_HL_SP_e ==
  /\ opcode = \hF8
  /\ Proceed([Set16(machine, 2, machine.sp + Signed(imm8)) EXCEPT !.flags =
                When((machine.sp % 16) + (imm8 % 16) > 15, "H")
                \cup When((machine.sp % 256) + imm8 > 255, "C")], 2, 3)

FlagBits == [Z |-> 128, N |-> 64, H |-> 32, C |-> 16]

AF == 256 * machine.r["A"]
      + (IF "Z" \in machine.flags THEN 128 ELSE 0) + (IF "N" \in machine.flags THEN 64 ELSE 0)
      + (IF "H" \in machine.flags THEN 32 ELSE 0) + 16 * CarryValue

PUSH == /\ x = 3 /\ z = 5 /\ y % 2 = 0
        /\ Proceed(PushOn(machine, IF y = 6 THEN AF ELSE Get16(y \div 2)), 1, 4)

POP ==
  /\ x = 3 /\ z = 1 /\ y % 2 = 0
  /\ \/ y # 6 /\ Proceed(Set16(PopOff(machine), y \div 2, Popped), 1, 3)
     \/ y = 6 /\ Proceed([PopOff(machine) EXCEPT
                            !.r["A"] = Popped \div 256,
                            !.flags = {f \in DOMAIN FlagBits : (Popped \div FlagBits[f]) % 2 = 1}], 1, 3)

-----------------------------------------------------------------------------
(* Arithmetic and logic: operation y on A and v *)

A == machine.r["A"]

Bitwise2(op(_, _), v) ==
  LET bit(b, i) == (b \div BitMask(i)) % 2
      at(i)     == op(bit(A, i), bit(v, i)) * BitMask(i)
  IN  at(0) + at(1) + at(2) + at(3) + at(4) + at(5) + at(6) + at(7)

Both(a, b)    == a * b
Exactly(a, b) == (a + b) % 2
Either(a, b)  == IF a + b = 0 THEN 0 ELSE 1

Alu(v) ==
  LET carry  == IF y \in {1, 3} THEN CarryValue ELSE 0
      total  == CASE y \in {0, 1}    -> A + v + carry
                  [] y \in {2, 3, 7} -> A - v - carry
                  [] y = 4           -> Bitwise2(Both, v)
                  [] y = 5           -> Bitwise2(Exactly, v)
                  [] y = 6           -> Bitwise2(Either, v)
      nibble == CASE y \in {0, 1}    -> (A % 16) + (v % 16) + carry
                  [] y \in {2, 3, 7} -> (A % 16) - (v % 16) - carry
                  [] y = 4           -> 16
                  [] OTHER           -> 0
  IN  [machine EXCEPT
         !.r["A"] = IF y = 7 THEN @ ELSE total % 256,
         !.flags  = When(total % 256 = 0, "Z") \cup When(y \in {2, 3, 7}, "N")
                    \cup When(nibble \notin 0 .. 15, "H") \cup When(total \notin 0 .. 255, "C")]

ALU_r == x = 2 /\ Proceed(Alu(Get8(z)), 1, IF z = 6 THEN 2 ELSE 1)
ALU_n == x = 3 /\ z = 6 /\ Proceed(Alu(imm8), 2, 2)

INC_DEC_r ==
  /\ x = 0 /\ z \in {4, 5} /\ y # 6
  /\ LET v == (Get8(y) + (IF z = 4 THEN 1 ELSE -1)) % 256
     IN  Proceed([Set8(machine, y, v) EXCEPT !.flags =
                    (@ \cap {"C"}) \cup When(v = 0, "Z") \cup When(z = 5, "N")
                    \cup When(v % 16 = (IF z = 4 THEN 0 ELSE 15), "H")], 1, 1)

INC_DEC_rr ==
  /\ x = 0 /\ z = 3
  /\ Proceed(Set16(machine, y \div 2, Get16(y \div 2) + (IF y % 2 = 0 THEN 1 ELSE -1)), 1, 2)

\* RLCA, RRCA, RLA and RRA rotate eight or, through the carry, nine bits.
Rotate ==
  /\ x = 0 /\ z = 7 /\ y < 4
  /\ LET leaving  == IF y % 2 = 0 THEN A \div 128 ELSE A % 2
         entering == IF y < 2 THEN leaving ELSE CarryValue
     IN  Proceed([machine EXCEPT
                    !.r["A"] = IF y % 2 = 0 THEN ((2 * A) % 256) + entering ELSE (A \div 2) + 128 * entering,
                    !.flags = When(leaving = 1, "C")], 1, 1)

CPL == opcode = \h2F /\ Proceed([machine EXCEPT !.r["A"] = 255 - @, !.flags = @ \cup {"N", "H"}], 1, 1)

CCF == /\ opcode = \h3F
       /\ Proceed([machine EXCEPT !.flags = (@ \cap {"Z"}) \cup ({"C"} \ @)], 1, 1)

-----------------------------------------------------------------------------
(* Control flow *)

JR == /\ x = 0 /\ z = 0 /\ y > 2
      /\ LET taken == y = 3 \/ Taken(y - 4)
         IN  Continue(machine, machine.pc + 2 + (IF taken THEN Signed(imm8) ELSE 0), IF taken THEN 3 ELSE 2)

JP == \/ opcode = \hC3 /\ Continue(machine, imm16, 4)
      \/ opcode = \hE9 /\ Continue(machine, HL(machine), 1)
      \/ /\ x = 3 /\ z = 2 /\ y < 4
         /\ \/ Taken(y) /\ Continue(machine, imm16, 4)
            \/ ~Taken(y) /\ Proceed(machine, 3, 3)

CallTo(a, length, duration) == Continue(PushOn(machine, (machine.pc + length) % 65536), a, duration)

CALL == \/ opcode = \hCD /\ CallTo(imm16, 3, 6)
        \/ /\ x = 3 /\ z = 4 /\ y < 4
           /\ \/ Taken(y) /\ CallTo(imm16, 3, 6)
              \/ ~Taken(y) /\ Proceed(machine, 3, 3)

RST == x = 3 /\ z = 7 /\ CallTo(8 * y, 1, 4)

RET == \/ opcode = \hC9 /\ Continue(PopOff(machine), Popped, 4)
       \/ opcode = \hD9 /\ Finish([Interrupts(PopOff(machine), TRUE) EXCEPT !.pc = Popped], 4)
       \/ /\ x = 3 /\ z = 0 /\ y < 4
          /\ \/ Taken(y) /\ Continue(PopOff(machine), Popped, 5)
             \/ ~Taken(y) /\ Proceed(machine, 1, 2)

DI == opcode = \hF3 /\ Finish([Interrupts(machine, FALSE) EXCEPT !.pc = (@ + 1) % 65536], 1)

EI == /\ opcode = \hFB
      /\ Finish([Armed(machine) EXCEPT !.pc = (@ + 1) % 65536,
                                       !.armed = ~(machine.enabled \/ machine.armed)], 1)

Execute ==
  \/ NOP \/ LD_r_r \/ LD_r_n \/ LD_rr_nn \/ LD_A_indirect \/ LD_nn_SP \/ LD_A_direct
  \/ LD_SP_HL \/ LD_HL_SP_e \/ PUSH \/ POP
  \/ ALU_r \/ ALU_n \/ INC_DEC_r \/ INC_DEC_rr \/ Rotate \/ CPL \/ CCF
  \/ JR \/ JP \/ CALL \/ RST \/ RET \/ DI \/ EI

IsaSpec == IsaInit /\ [][Execute]_<<rom, machine, cycles>>
=============================================================================
