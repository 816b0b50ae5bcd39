-------------------------- MODULE CallStackProofs --------------------------
(***************************************************************************)
(* The stack of a program that keeps off it otherwise: PUSH, CALL and RST, *)
(* POP, RET and RETI, however they follow each other, leave every word in  *)
(* the RAM until it is taken off, and what is taken off is what was put    *)
(* on.  From the refinement, an instruction that has used the stack has    *)
(* done what Isa says; from InstructionUnderway, it has written nowhere    *)
(* else in the meantime.                                                   *)
(***************************************************************************)
EXTENDS RefinementProofs, CallStack

\* Addresses wrap around at the ends of the address space.
Wrap(n) == n % 65536

WordOnStack == [word : Word, sp : Word]

\* Word w is at address a of the memory m, if the RAM is there.
Stored(m, a, w) == {a, a + 1} \subseteq RamAddress => Pair(m[a + 1], m[a]) = w

\* Every word of the stack p is in the memory m.
Intact(p, m) == \A k \in DOMAIN p : Stored(m, p[k].sp, p[k].word)

\* The words lie on top of each other, the last one where SP points.
Stacked(p, sp) == \A k \in DOMAIN p : p[k].sp = Wrap(sp + 2 * (k - 1))

StackKept ==
  /\ pushed \in Seq(WordOnStack)
  /\ Stacked(pushed, boundary.sp)
  /\ Intact(pushed, ram)
  /\ Intact(pushed, boundary.ram)

SInv == RInv /\ StackKept

\* The two addresses below the stack, where the next word goes.
Below(sp) == {Wrap(sp - 1), Wrap(sp - 2)}

-----------------------------------------------------------------------------
(* Addresses *)

\* How an address that is out of bounds by less than 65536 wraps around.
LEMMA Wrapping ==
  ASSUME NEW n \in Int
  PROVE  /\ Wrap(n) \in Word
         /\ 0 <= n /\ n < 65536 => Wrap(n) = n
         /\ 65536 <= n /\ n < 131072 => Wrap(n) = n - 65536
         /\ -65536 <= n /\ n < 0 => Wrap(n) = n + 65536
<1>1. Wrap(n) \in Word
  BY DEF Wrap, Word
<1> QED
  BY <1>1, Wrap65536 DEF Wrap

\* The RAM ends before the last address.
LEMMA RamRange ==
  ASSUME NEW a \in RamAddress
  PROVE  a \in Int /\ 0 <= a /\ a < 65535
<1>1. RamStart \in Int /\ 0 <= RamStart
  BY DEF RamStart
<1>2. RamEnd \in RamStart .. 57343
  BY BusAssumption DEF BusAssumption
<1>3. RamEnd \in Int /\ RamEnd <= 57343
  BY <1>1, <1>2
<1> QED
  BY <1>1, <1>3 DEF RamAddress

\* A word of a stack that holds less than half the address space does not
\* lie where the next one goes.
LEMMA WordsApart ==
  ASSUME NEW sp \in Word, NEW k \in Nat, k < 32767, NEW a, a = Wrap(sp + 2 * k), a + 1 < 65536
  PROVE  a \notin Below(sp) /\ a + 1 \notin Below(sp)
<1> DEFINE b == Wrap(sp - 1)
           c == Wrap(sp - 2)
           n == sp + 2 * k
<1>0. sp \in Int /\ 0 <= sp /\ sp < 65536
  BY DEF Word
<1>1. n \in Int /\ 0 <= n /\ n < 131072 /\ a = Wrap(n) /\ n = sp + 2 * k
  BY <1>0
<1>2. Below(sp) = {b, c}
  BY DEF Below
<1>3. sp - 1 \in Int /\ sp - 2 \in Int
  BY <1>0
<1>4. (n < 65536 => a = n) /\ (n >= 65536 => a = n - 65536)
  <2> HIDE DEF n
  <2> QED
    BY <1>1, Wrapping
<1>5. b = sp - 1 \/ (sp = 0 /\ b = 65535)
  BY <1>0, <1>3, Wrapping
<1>6. c = sp - 2 \/ (sp < 2 /\ c = sp + 65534)
  BY <1>0, <1>3, Wrapping
<1> HIDE DEF b, c, n
<1> QED
  BY <1>0, <1>1, <1>2, <1>4, <1>5, <1>6

\* Addresses above the old top and above the new one.
LEMMA TopMoved ==
  ASSUME NEW sp \in Word, NEW k \in Int
  PROVE  /\ Wrap(Wrap(sp - 2) + 2 * (k - 1)) = Wrap(sp + 2 * (k - 2))
         /\ Wrap(Wrap(sp + 2) + 2 * (k - 1)) = Wrap(sp + 2 * k)
<1>0. sp \in Int /\ 0 <= sp /\ sp < 65536
  BY DEF Word
<1>1. Wrap(sp - 2) = sp - 2 \/ Wrap(sp - 2) = (sp - 2) + 65536
  BY <1>0, Wrapping
<1>2. Wrap(sp + 2) = sp + 2 \/ Wrap(sp + 2) = (sp + 2) - 65536
  BY <1>0, Wrapping
<1>3. ASSUME NEW n \in Int
      PROVE  Wrap(n + 65536) = Wrap(n) /\ Wrap(n - 65536) = Wrap(n)
  BY DEF Wrap
<1>4. Wrap(Wrap(sp - 2) + 2 * (k - 1)) = Wrap(sp + 2 * (k - 2))
  <2>1. sp + 2 * (k - 2) \in Int
    BY <1>0
  <2>2. \/ Wrap(sp - 2) + 2 * (k - 1) = sp + 2 * (k - 2)
        \/ Wrap(sp - 2) + 2 * (k - 1) = (sp + 2 * (k - 2)) + 65536
    BY <1>0, <1>1
  <2> QED
    BY <1>3, <2>1, <2>2
<1>5. Wrap(Wrap(sp + 2) + 2 * (k - 1)) = Wrap(sp + 2 * k)
  <2>1. sp + 2 * k \in Int
    BY <1>0
  <2>2. \/ Wrap(sp + 2) + 2 * (k - 1) = sp + 2 * k
        \/ Wrap(sp + 2) + 2 * (k - 1) = (sp + 2 * k) - 65536
    BY <1>0, <1>2
  <2> QED
    BY <1>3, <2>1, <2>2
<1> QED
  BY <1>4, <1>5

\* The stack after a word has been put on it.
LEMMA StackedOn ==
  ASSUME NEW sp \in Word, NEW p \in Seq(WordOnStack), Stacked(p, sp), NEW e \in WordOnStack, e.sp = Wrap(sp - 2)
  PROVE  <<e>> \o p \in Seq(WordOnStack) /\ Stacked(<<e>> \o p, e.sp)
<1> DEFINE q == <<e>> \o p
           t == e.sp
<1>1. q \in Seq(WordOnStack)
  OBVIOUS
<1>2. ASSUME NEW k \in DOMAIN q
      PROVE  q[k].sp = Wrap(t + 2 * (k - 1))
  <2>1. k \in Int /\ k \in 1 .. (Len(p) + 1) /\ Len(p) \in Nat
    BY <1>2
  <2>2. t \in Word
    BY DEF WordOnStack
  <2>3. CASE k = 1
    <3>1. q[k].sp = t
      BY <2>3
    <3> HIDE DEF q, t
    <3>2. t + 2 * (k - 1) = t /\ t \in Int /\ 0 <= t /\ t < 65536
      BY <2>2, <2>3 DEF Word
    <3> QED
      BY <3>1, <3>2, Wrapping
  <2>4. CASE k # 1
    <3>1. k - 1 \in DOMAIN p /\ q[k] = p[k - 1] /\ (k - 1) - 1 = k - 2
      BY <2>1, <2>4
    <3>2. q[k].sp = Wrap(sp + 2 * ((k - 1) - 1))
      BY <3>1 DEF Stacked
    <3>3. t = Wrap(sp - 2)
      OBVIOUS
    <3> HIDE DEF q, t
    <3> QED
      BY <2>1, <3>1, <3>2, <3>3, TopMoved
  <2> QED
    BY <2>3, <2>4
<1> QED
  BY <1>1, <1>2 DEF Stacked

\* The stack after one has been taken off it.
LEMMA StackedOff ==
  ASSUME NEW sp \in Word, NEW p \in Seq(WordOnStack), Stacked(p, sp), p # <<>>
  PROVE  Tail(p) \in Seq(WordOnStack) /\ Stacked(Tail(p), Wrap(sp + 2))
<1> DEFINE q == Tail(p)
<1>1. q \in Seq(WordOnStack)
  OBVIOUS
<1>2. ASSUME NEW k \in DOMAIN q
      PROVE  q[k].sp = Wrap(Wrap(sp + 2) + 2 * (k - 1))
  <2>2. k \in Int /\ k + 1 \in DOMAIN p /\ q[k] = p[k + 1] /\ (k + 1) - 1 = k
    BY <1>2
  <2>3. q[k].sp = Wrap(sp + 2 * ((k + 1) - 1))
    BY <2>2 DEF Stacked
  <2> HIDE DEF q
  <2> QED
    BY <2>2, <2>3, TopMoved
<1> QED
  BY <1>1, <1>2 DEF Stacked

\* A memory that differs only below the stack holds the words of the stack.
LEMMA IntactBeside ==
  ASSUME NEW sp \in Word, NEW p \in Seq(WordOnStack), Stacked(p, sp), Len(p) < 32768,
         NEW m, NEW n, Intact(p, m), \A a \in RamAddress \ Below(sp) : n[a] = m[a]
  PROVE  Intact(p, n)
<1>1. ASSUME NEW k \in DOMAIN p, {p[k].sp, p[k].sp + 1} \subseteq RamAddress
      PROVE  Pair(n[p[k].sp + 1], n[p[k].sp]) = p[k].word
  <2> DEFINE a == p[k].sp
  <2>1. k - 1 \in Nat /\ k - 1 < 32767
    OBVIOUS
  <2>2. a = Wrap(sp + 2 * (k - 1))
    BY DEF Stacked
  <2>3. a + 1 < 65536
    <3>1. a \in RamAddress
      BY <1>1
    <3> HIDE DEF a
    <3> QED
      BY <3>1, RamRange
  <2>4. Pair(m[a + 1], m[a]) = p[k].word
    BY <1>1 DEF Intact, Stored
  <2>5. a \in RamAddress /\ a + 1 \in RamAddress
    BY <1>1
  <2> HIDE DEF a
  <2>6. a \notin Below(sp) /\ a + 1 \notin Below(sp)
    BY <2>1, <2>2, <2>3, WordsApart
  <2> QED
    BY <2>4, <2>5, <2>6 DEF a
<1> QED
  BY <1>1 DEF Intact, Stored

-----------------------------------------------------------------------------
(* The instructions of the stack *)

\* Their opcodes in octal.
LEMMA StackDigits ==
  ASSUME NEW x \in 0 .. 3, NEW y \in 0 .. 7, NEW z \in 0 .. 7, NEW op, op = 64 * x + 8 * y + z
  PROVE  /\ op \in PushOpcodes => x = 3 /\ z = 5 /\ y \in {0, 2, 4, 6}
         /\ op \in PopOpcodes => x = 3 /\ z = 1 /\ y \in {0, 2, 4, 6}
         /\ op \in CallOpcodes => x = 3 /\ ((z = 4 /\ y < 4) \/ (z = 5 /\ y = 1))
         /\ op \in RstOpcodes => x = 3 /\ z = 7
         /\ op \in RetOpcodes => x = 3 /\ ((z = 0 /\ y < 4) \/ (z = 1 /\ y \in {1, 3}))
<1>1. x \in Int /\ 0 <= x /\ x <= 3 /\ y \in Int /\ 0 <= y /\ y <= 7 /\ z \in Int /\ 0 <= z /\ z <= 7
  OBVIOUS
<1>2. op \in PushOpcodes => x = 3 /\ z = 5 /\ y \in {0, 2, 4, 6}
  BY <1>1 DEF PushOpcodes
<1>3. op \in PopOpcodes => x = 3 /\ z = 1 /\ y \in {0, 2, 4, 6}
  BY <1>1 DEF PopOpcodes
<1>4. op \in CallOpcodes => x = 3 /\ ((z = 4 /\ y < 4) \/ (z = 5 /\ y = 1))
  BY <1>1 DEF CallOpcodes
<1>5. op \in RstOpcodes => x = 3 /\ z = 7
  BY <1>1 DEF RstOpcodes
<1>6. op \in RetOpcodes => x = 3 /\ ((z = 0 /\ y < 4) \/ (z = 1 /\ y \in {1, 3}))
  BY <1>1 DEF RetOpcodes
<1> QED
  BY <1>2, <1>3, <1>4, <1>5, <1>6

\* Their handlers.
LEMMA StackHandlers ==
  ASSUME Underway
  PROVE  /\ ir \in PushOpcodes => handler.body = <<"PushRr", StackedOf[Half(Architecture!y)]>>
         /\ ir \in PopOpcodes => handler.body = <<"PopRr", StackedOf[Half(Architecture!y)]>>
         /\ ir \in CallOpcodes => Name(handler) = "Call"
         /\ ir \in RstOpcodes => Name(handler) = "Rst"
         /\ ir \in RetOpcodes => Name(handler) \in {"Ret", "RetI", "RetConditional"}
<1> DEFINE x == Architecture!x
           y == Architecture!y
           z == Architecture!z
<1>1. /\ ir = 64 * x + 8 * y + z /\ x \in 0 .. 3 /\ y \in 0 .. 7 /\ z \in 0 .. 7
      /\ Decodes(x, y, z, handler.body)
  BY DecodedUnderway DEF Underway
<1> HIDE DEF x, y, z
<1>2. ASSUME x = 3
      PROVE  Block3(y, z, handler.body)
  BY <1>1, <1>2 DEF Decodes
<1>3. ir \in PushOpcodes => handler.body = <<"PushRr", StackedOf[Half(y)]>>
  BY <1>1, <1>2, StackDigits DEF Block3, Even
<1>4. ir \in PopOpcodes => handler.body = <<"PopRr", StackedOf[Half(y)]>>
  BY <1>1, <1>2, StackDigits DEF Block3, Even
<1>5. ir \in CallOpcodes => Name(handler) = "Call"
  BY <1>1, <1>2, StackDigits DEF Block3, Even, Name
<1>6. ir \in RstOpcodes => Name(handler) = "Rst"
  BY <1>1, <1>2, StackDigits DEF Block3, Name
<1>7. ir \in RetOpcodes => Name(handler) \in {"Ret", "RetI", "RetConditional"}
  BY <1>1, <1>2, StackDigits DEF Block3, Even, Name
<1> QED
  BY <1>3, <1>4, <1>5, <1>6, <1>7 DEF y

\* The instruction executed is the one of the opcode.
LEMMA StackInstructions ==
  ASSUME Underway, Architecture!Execute
  PROVE  /\ ir \in PushOpcodes => Architecture!PUSH
         /\ ir \in PopOpcodes => Architecture!POP
         /\ ir \in CallOpcodes => Architecture!CALL
         /\ ir \in RstOpcodes => Architecture!RST
         /\ ir \in RetOpcodes => Architecture!RET
<1> DEFINE x == Architecture!x
           y == Architecture!y
           z == Architecture!z
           op == Architecture!opcode
<1>1. ir = op /\ op = 64 * x + 8 * y + z /\ x \in 0 .. 3 /\ y \in 0 .. 7 /\ z \in 0 .. 7
  BY DecodedUnderway DEF Underway
<1>2. ASSUME x = 3, z \in {0, 1, 4, 5, 7}, z = 0 => y < 4, z = 1 => y \notin {5, 7}
      PROVE  \/ z = 5 /\ y % 2 = 0 /\ Architecture!PUSH
             \/ z = 1 /\ y % 2 = 0 /\ Architecture!POP
             \/ (z = 4 \/ op = 205) /\ Architecture!CALL
             \/ z = 7 /\ Architecture!RST
             \/ (z = 0 \/ op \in {201, 217}) /\ Architecture!RET
  <2>1. op \in Int /\ op \notin {0, 8, 224, 240, 226, 242, 234, 250, 248, 249, 47, 63, 195, 233, 243, 251}
    BY <1>1, <1>2
  <2>2. ~Architecture!NOP /\ ~Architecture!LD_r_r /\ ~Architecture!LD_r_n /\ ~Architecture!LD_rr_nn
        /\ ~Architecture!LD_A_indirect /\ ~Architecture!LD_nn_SP /\ ~Architecture!LD_A_direct
        /\ ~Architecture!LD_SP_HL /\ ~Architecture!LD_HL_SP_e
    BY <1>2, <2>1 DEF Architecture!NOP, Architecture!LD_r_r, Architecture!LD_r_n, Architecture!LD_rr_nn,
       Architecture!LD_A_indirect, Architecture!LD_nn_SP, Architecture!LD_A_direct, Architecture!LD_SP_HL,
       Architecture!LD_HL_SP_e
  <2>3. ~Architecture!ALU_r /\ ~Architecture!ALU_n /\ ~Architecture!INC_DEC_r /\ ~Architecture!INC_DEC_rr
        /\ ~Architecture!Rotate /\ ~Architecture!CPL /\ ~Architecture!CCF /\ ~Architecture!JR
        /\ ~Architecture!JP /\ ~Architecture!DI /\ ~Architecture!EI
    BY <1>2, <2>1 DEF Architecture!ALU_r, Architecture!ALU_n, Architecture!INC_DEC_r, Architecture!INC_DEC_rr,
       Architecture!Rotate, Architecture!CPL, Architecture!CCF, Architecture!JR, Architecture!JP,
       Architecture!DI, Architecture!EI
  <2>4. Architecture!PUSH \/ Architecture!POP \/ Architecture!CALL \/ Architecture!RST \/ Architecture!RET
    BY <2>2, <2>3 DEF Architecture!Execute
  <2> QED
    BY <2>4 DEF Architecture!PUSH, Architecture!POP, Architecture!CALL, Architecture!RST, Architecture!RET
<1> HIDE DEF x, y, z, op
<1>3. ir \in PushOpcodes => Architecture!PUSH
  BY <1>1, <1>2, StackDigits
<1>4. ir \in PopOpcodes => Architecture!POP
  BY <1>1, <1>2, StackDigits
<1>5. ir \in CallOpcodes => Architecture!CALL
  BY <1>1, <1>2, StackDigits
<1>6. ir \in RstOpcodes => Architecture!RST
  BY <1>1, <1>2, StackDigits
<1>7. ir \in RetOpcodes => Architecture!RET
  BY <1>1, <1>2, StackDigits
<1> QED
  BY <1>3, <1>4, <1>5, <1>6, <1>7

-----------------------------------------------------------------------------
(* What they do to SP and to the memory *)

\* A byte written to the memory of a machine.
LEMMA PokeRam ==
  ASSUME NEW s \in MachineState, NEW a, NEW v \in Byte
  PROVE  /\ Architecture!Poke(s, a, v) \in MachineState
         /\ Architecture!Poke(s, a, v).ram = IF a \in RamAddress THEN [s.ram EXCEPT ![a] = v] ELSE s.ram
<1>1. Architecture!Poke(s, a, v) = IF a \in RamAddress THEN [s EXCEPT !.ram[a] = v] ELSE s
  BY DEF Architecture!Poke, RamAddress, RamStart
<1>2. s.ram \in RamImage
  BY DEF MachineState
<1>3. [s.ram EXCEPT ![a] = v] \in RamImage
  BY <1>2 DEF RamImage
<1> DEFINE n == [s.ram EXCEPT ![a] = v]
<1>4. [s EXCEPT !.ram[a] = v] = [s EXCEPT !.ram = n]
  BY DEF MachineState
<1> HIDE DEF n
<1>5. n \in RamImage
  BY <1>3 DEF n
<1>6. [s EXCEPT !.ram = n].ram = n /\ [s EXCEPT !.ram = n] \in MachineState
  BY <1>5 DEF MachineState
<1> QED
  BY <1>1, <1>4, <1>6 DEF n

\* A word pushed on the stack is there, and only there.
LEMMA PushOnRam ==
  ASSUME boundary \in MachineState, NEW v \in Word
  PROVE  /\ Architecture!PushOn(boundary, v) \in MachineState
         /\ Architecture!PushOn(boundary, v).sp = Wrap(boundary.sp - 2)
         /\ \A a \in RamAddress \ Below(boundary.sp) : Architecture!PushOn(boundary, v).ram[a] = boundary.ram[a]
         /\ Stored(Architecture!PushOn(boundary, v).ram, Wrap(boundary.sp - 2), v)
<1> DEFINE s == Architecture!PushOn(boundary, v)
           a == Wrap(boundary.sp - 2)
           b == Wrap(boundary.sp - 1)
           h == High(v)
           l == Low(v)
           p == MovedSP(-2)
           q == Architecture!Poke(p, b, h)
<1>1. boundary.sp \in Int /\ 0 <= boundary.sp /\ boundary.sp < 65536 /\ boundary.ram \in RamImage
  BY DEF MachineState, Word
<1>2. h \in Byte /\ l \in Byte /\ Pair(h, l) = v
  <2>1. v = 256 * (v \div 256) + (v % 256)
    BY DEF Word
  <2> QED
    BY <2>1, WordParts DEF Pair, High, Low
<1>3. a \in Word /\ b \in Word /\ (a + 1 < 65536 => b = a + 1)
  <2>1. boundary.sp - 2 \in Int /\ boundary.sp - 1 \in Int
    BY <1>1
  <2>2. a \in Word /\ b \in Word
    BY <2>1, Wrapping
  <2>3. a = boundary.sp - 2 \/ (boundary.sp < 2 /\ a = (boundary.sp - 2) + 65536)
    BY <1>1, <2>1, Wrapping
  <2>4. b = boundary.sp - 1 \/ (boundary.sp = 0 /\ b = 65535)
    BY <1>1, <2>1, Wrapping
  <2> HIDE DEF a, b
  <2> QED
    BY <1>1, <2>2, <2>3, <2>4 DEF Word
<1>4. p = [boundary EXCEPT !.sp = a]
  <2>1. boundary.sp + -2 = boundary.sp - 2
    BY <1>1
  <2> QED
    BY <2>1 DEF MovedSP, Wrap
<1>5. p \in MachineState /\ p.sp = a /\ p.ram = boundary.ram
  <2> HIDE DEF a
  <2> QED
    BY <1>3, <1>4 DEF MachineState
<1>6. s = Architecture!Poke(q, a, l)
  BY PushedOn DEF Wrap
<1> HIDE DEF p, a, b, h, l, s
<1>7. q \in MachineState /\ q.sp = a /\ q.ram = IF b \in RamAddress THEN [boundary.ram EXCEPT ![b] = h] ELSE boundary.ram
  <2>1. q.sp = p.sp
    BY <1>5, PokeRest
  <2>2. q \in MachineState /\ q.ram = IF b \in RamAddress THEN [p.ram EXCEPT ![b] = h] ELSE p.ram
    BY <1>2, <1>5, PokeRam
  <2> QED
    BY <1>5, <2>1, <2>2
<1> HIDE DEF q
<1>8. s \in MachineState /\ s.sp = a /\ s.ram = IF a \in RamAddress THEN [q.ram EXCEPT ![a] = l] ELSE q.ram
  <2>1. s.sp = q.sp
    BY <1>6, <1>7, PokeRest
  <2>2. /\ Architecture!Poke(q, a, l) \in MachineState
        /\ Architecture!Poke(q, a, l).ram = IF a \in RamAddress THEN [q.ram EXCEPT ![a] = l] ELSE q.ram
    BY <1>2, <1>7, PokeRam
  <2> QED
    BY <1>6, <1>7, <2>1, <2>2
<1>9. Below(boundary.sp) = {a, b}
  BY DEF Below, a, b
<1>10. q.ram \in RamImage
  BY <1>7 DEF MachineState
<1>11. ASSUME NEW c \in RamAddress, c # a, c # b
       PROVE  s.ram[c] = boundary.ram[c]
  BY <1>1, <1>7, <1>8, <1>10, <1>11 DEF RamImage
<1>12. ASSUME a \in RamAddress, a + 1 \in RamAddress
       PROVE  Pair(s.ram[a + 1], s.ram[a]) = v
  <2>1. b = a + 1 /\ b # a
    BY <1>3, <1>12, RamRange
  <2>2. s.ram[a] = l
    BY <1>8, <1>10, <1>12 DEF RamImage
  <2>3. s.ram[b] = h
    BY <1>1, <1>7, <1>8, <1>10, <1>12, <2>1 DEF RamImage
  <2> QED
    BY <1>2, <2>1, <2>2, <2>3
<1>13. s.sp = a /\ s \in MachineState
  BY <1>8
<1>14. \A c \in RamAddress \ Below(boundary.sp) : s.ram[c] = boundary.ram[c]
  BY <1>9, <1>11
<1>15. Stored(s.ram, a, v)
  BY <1>12 DEF Stored
<1> QED
  BY <1>13, <1>14, <1>15 DEF a, s

\* A word taken off the stack leaves the memory as it is.
LEMMA PopOffRam ==
  ASSUME boundary \in MachineState
  PROVE  /\ Architecture!PopOff(boundary) \in MachineState
         /\ Architecture!PopOff(boundary).sp = Wrap(boundary.sp + 2)
         /\ Architecture!PopOff(boundary).ram = boundary.ram
<1> DEFINE s == Architecture!PopOff(boundary)
           a == Wrap(boundary.sp + 2)
<1>1. a \in Word
  <2>1. boundary.sp + 2 \in Int
    BY DEF MachineState, Word
  <2> QED
    BY <2>1, Wrapping
<1>2. s = [boundary EXCEPT !.sp = a]
  BY DEF Architecture!PopOff, Wrap
<1> HIDE DEF a, s
<1>3. s \in MachineState /\ s.sp = a /\ s.ram = boundary.ram
  BY <1>1, <1>2 DEF MachineState
<1> QED
  BY <1>3 DEF a, s

\* The end of an instruction changes the interrupt state and PC alone.
LEMMA InterruptsParts ==
  ASSUME NEW s \in MachineState, NEW on, NEW pc
  PROVE  /\ [Architecture!Interrupts(s, on) EXCEPT !.pc = pc].sp = s.sp
         /\ [Architecture!Interrupts(s, on) EXCEPT !.pc = pc].ram = s.ram
         /\ [Architecture!Interrupts(s, on) EXCEPT !.pc = pc].pc = pc
<1> DEFINE t == [Architecture!Interrupts(s, on) EXCEPT !.pc = pc]
<1>1. PICK p1, p2, p3, p4, p5, p6, p7 : s = Image(p1, p2, p3, p4, p5, p6, p7)
  BY DEF MachineState, Image
<1> DEFINE k == FALSE
<1> HIDE DEF k
<1>2. [s EXCEPT !.enabled = on] = Image(p1, p2, p3, p4, on, p6, p7)
  BY <1>1 DEF Image
<1>3. [Image(p1, p2, p3, p4, on, p6, p7) EXCEPT !.armed = k] = Image(p1, p2, p3, p4, on, k, p7)
  BY DEF Image
<1>4. Architecture!Interrupts(s, on) = Image(p1, p2, p3, p4, on, k, p7)
  <2>1. [s EXCEPT !.enabled = on, !.armed = k] = Image(p1, p2, p3, p4, on, k, p7)
    BY <1>2, <1>3
  <2> QED
    BY <2>1, Zenon DEF Architecture!Interrupts, k
<1>5. [Image(p1, p2, p3, p4, on, k, p7) EXCEPT !.pc = pc] = Image(p1, p2, p3, pc, on, k, p7)
  BY DEF Image
<1>6. t = Image(p1, p2, p3, pc, on, k, p7)
  BY <1>4, <1>5
<1>7. s.sp = p3 /\ s.ram = p7
  BY <1>1 DEF Image
<1>8. t.sp = p3 /\ t.ram = p7 /\ t.pc = pc
  BY <1>6 DEF Image
<1> QED
  BY <1>7, <1>8

\* The interrupt state is not in memory.
LEMMA InterruptsRam ==
  ASSUME NEW s \in MachineState, NEW on
  PROVE  Architecture!Interrupts(s, on).ram = s.ram
<1>1. PICK p1, p2, p3, p4, p5, p6, p7 : s = Image(p1, p2, p3, p4, p5, p6, p7)
  BY DEF MachineState, Image
<1> DEFINE k == FALSE
<1> HIDE DEF k
<1>2. [s EXCEPT !.enabled = on, !.armed = k].ram = s.ram
  BY <1>1 DEF Image
<1> QED
  BY <1>2, Zenon DEF Architecture!Interrupts, k

\* An instruction after which execution goes on at pc.
LEMMA Continued ==
  ASSUME NEW s \in MachineState, NEW pc, NEW d, Architecture!Continue(s, pc, d)
  PROVE  boundary'.sp = s.sp /\ boundary'.ram = s.ram /\ boundary'.pc = pc % 65536
<1> DEFINE on == boundary.enabled \/ boundary.armed
           a == pc % 65536
<1>1. boundary' = [Architecture!Interrupts(s, on) EXCEPT !.pc = a]
  BY DEF Architecture!Continue, Architecture!Finish, Architecture!Armed
<1> HIDE DEF on, a
<1> DEFINE t == boundary'
<1>2. t = [Architecture!Interrupts(s, on) EXCEPT !.pc = a]
  BY <1>1
<1> HIDE DEF t
<1>3. t.sp = s.sp /\ t.ram = s.ram /\ t.pc = a
  BY <1>2, InterruptsParts
<1> QED
  BY <1>3 DEF a, t

\* The word that the history keeps is the one on its way to the stack.
LEMMA WordOfPush ==
  ASSUME Underway, ir \in PushOpcodes
  PROVE  /\ WordPushed = IF Architecture!y = 6 THEN Architecture!AF ELSE Architecture!Get16(Architecture!y \div 2)
         /\ WordPushed \in Word
<1> DEFINE y == Architecture!y
           b == boundary
<1>1. ir = 64 * Architecture!x + 8 * y + Architecture!z /\ Architecture!x = 3 /\ Architecture!z = 5 /\ y \in {0, 2, 4, 6}
  BY DecodedUnderway, StackDigits DEF Underway
<1>2. /\ b.r["A"] \in Byte /\ b.r["B"] \in Byte /\ b.r["C"] \in Byte /\ b.r["D"] \in Byte /\ b.r["E"] \in Byte
      /\ b.r["H"] \in Byte /\ b.r["L"] \in Byte
  BY Basics DEF MachineState, Register8
<1>3. \A h, l \in Byte : 256 * h + l \in Word
  BY DEF Byte, Word
<1> HIDE DEF y
<1>4. CASE y # 6
  <2>1. \/ y = 0 /\ ir = 197 /\ y \div 2 = 0
        \/ y = 2 /\ ir = 213 /\ y \div 2 = 1
        \/ y = 4 /\ ir = 229 /\ y \div 2 = 2
    BY <1>1, <1>4
  <2>2. /\ Architecture!Get16(0) = 256 * b.r["B"] + b.r["C"]
        /\ Architecture!Get16(1) = 256 * b.r["D"] + b.r["E"]
        /\ Architecture!Get16(2) = 256 * b.r["H"] + b.r["L"]
    BY DEF Architecture!Get16, Architecture!Name16
  <2>3. WordPushed = Architecture!Get16(y \div 2)
    <3>1. ir = 197 => WordPushed = Pair(b.r["B"], b.r["C"])
      BY DEF WordPushed, CallOpcodes, RstOpcodes
    <3>2. ir = 213 => WordPushed = Pair(b.r["D"], b.r["E"])
      BY DEF WordPushed, CallOpcodes, RstOpcodes
    <3>3. ir = 229 => WordPushed = Pair(b.r["H"], b.r["L"])
      BY DEF WordPushed, CallOpcodes, RstOpcodes
    <3> QED
      BY <2>1, <2>2, <3>1, <3>2, <3>3 DEF Pair
  <2>4. Architecture!Get16(y \div 2) \in Word
    BY <1>2, <1>3, <2>1, <2>2
  <2> QED
    BY <1>4, <2>3, <2>4 DEF y
<1>5. CASE y = 6
  <2> DEFINE S == {f \in FlagPositions : FlagName[f] \in b.flags}
  <2>1. ir = 245
    BY <1>1, <1>5
  <2>2. WordPushed = Pair(b.r["A"], FromBits(S))
    BY <2>1 DEF WordPushed, CallOpcodes, RstOpcodes
  <2>3. /\ 0 \notin S /\ 1 \notin S /\ 2 \notin S /\ 3 \notin S
        /\ 7 \in S <=> "Z" \in b.flags
        /\ 6 \in S <=> "N" \in b.flags
        /\ 5 \in S <=> "H" \in b.flags
        /\ 4 \in S <=> "C" \in b.flags
    BY FlagNameOf DEF FlagPositions, Zero, Subtract, HalfCarry, Carry
  <2>4. /\ BitMask(4) = 16 /\ BitMask(5) = 32 /\ BitMask(6) = 64 /\ BitMask(7) = 128
    BY DEF BitMask
  <2> HIDE DEF S
  <2>5. FromBits(S) = (IF "Z" \in b.flags THEN 128 ELSE 0) + (IF "N" \in b.flags THEN 64 ELSE 0)
                      + (IF "H" \in b.flags THEN 32 ELSE 0) + (IF "C" \in b.flags THEN 16 ELSE 0)
    BY <2>3, <2>4 DEF FromBits
  <2>6. WordPushed = Architecture!AF
    <3> DEFINE zf == IF "Z" \in b.flags THEN 128 ELSE 0
               nf == IF "N" \in b.flags THEN 64 ELSE 0
               hf == IF "H" \in b.flags THEN 32 ELSE 0
               cf == IF "C" \in b.flags THEN 16 ELSE 0
               cv == IF "C" \in b.flags THEN 1 ELSE 0
    <3>1. zf \in Int /\ nf \in Int /\ hf \in Int /\ cv \in Int /\ cf = 16 * cv
      OBVIOUS
    <3>2. FromBits(S) = zf + nf + hf + cf
      BY <2>5
    <3>3. Architecture!AF = 256 * b.r["A"] + zf + nf + hf + 16 * cv
      BY DEF Architecture!AF, Architecture!CarryValue
    <3>4. b.r["A"] \in Int
      BY <1>2 DEF Byte
    <3> HIDE DEF zf, nf, hf, cf, cv
    <3> QED
      BY <2>2, <3>1, <3>2, <3>3, <3>4 DEF Pair
  <2>7. FromBits(S) \in Byte
    BY <2>5 DEF Byte
  <2>8. WordPushed \in Word
    BY <1>2, <1>3, <2>2, <2>7 DEF Pair
  <2> QED
    BY <1>5, <2>6, <2>8 DEF y
<1> QED
  BY <1>4, <1>5

\* The word of a CALL or RST is where the instruction continues.
LEMMA WordOfCall ==
  ASSUME Underway
  PROVE  /\ ir \in CallOpcodes => WordPushed = (boundary.pc + 3) % 65536 /\ WordPushed \in Word
         /\ ir \in RstOpcodes => WordPushed = (boundary.pc + 1) % 65536 /\ WordPushed \in Word
<1>1. boundary.pc \in Int
  BY Basics DEF Word
<1>2. (boundary.pc + 3) % 65536 \in Word /\ (boundary.pc + 1) % 65536 \in Word
  BY <1>1 DEF Word
<1>3. ir \in CallOpcodes => WordPushed = (boundary.pc + 3) % 65536
  BY DEF WordPushed, CallOpcodes, RstOpcodes
<1>4. ir \in RstOpcodes => WordPushed = (boundary.pc + 1) % 65536
  BY DEF WordPushed, CallOpcodes, RstOpcodes
<1> QED
  BY <1>2, <1>3, <1>4

\* What is put on the stack is a word.
LEMMA WordType ==
  ASSUME Underway, ir \in PuttingOn
  PROVE  WordPushed \in Word /\ WordPushed = Pushed(handler)
<1>1. CASE ir \in PushOpcodes
  <2>1. Name(handler) = "PushRr"
    BY <1>1, StackHandlers DEF Name
  <2> QED
    BY <1>1, <2>1, WordOfPush DEF Pushed
<1>2. CASE ir \in CallOpcodes
  BY <1>2, StackHandlers, WordOfCall DEF Pushed
<1>3. CASE ir \in RstOpcodes
  BY <1>3, StackHandlers, WordOfCall DEF Pushed
<1> QED
  BY <1>1, <1>2, <1>3 DEF PuttingOn

\* What PUSH, CALL and RST have done to the stack.
LEMMA PutsOn ==
  ASSUME Underway, Architecture!Execute, ir \in PuttingOn
  PROVE  \/ /\ boundary'.sp = Wrap(boundary.sp - 2)
            /\ boundary'.ram = Architecture!PushOn(boundary, WordPushed).ram
         \/ /\ ir \in Conditional
            /\ boundary'.sp = boundary.sp /\ boundary'.ram = boundary.ram
<1> DEFINE s == Architecture!PushOn(boundary, WordPushed)
<1>1. boundary \in MachineState /\ boundary.pc \in Int
  BY Basics DEF Word
<1>2. s \in MachineState /\ s.sp = Wrap(boundary.sp - 2)
  BY <1>1, WordType, PushOnRam
<1>3. (\E pc, d : Architecture!Continue(s, pc, d)) \/ (ir \in Conditional /\ \E pc, d : Architecture!Continue(boundary, pc, d))
  <2>1. CASE ir \in PushOpcodes
    <3>1. Architecture!PUSH
      BY <2>1, StackInstructions
    <3> QED
      BY <2>1, <3>1, WordOfPush DEF Architecture!PUSH, Architecture!Proceed
  <2>2. CASE ir \in RstOpcodes
    <3>1. Architecture!RST
      BY <2>2, StackInstructions
    <3> QED
      BY <2>2, <3>1, WordOfCall DEF Architecture!RST, Architecture!CallTo
  <2>3. CASE ir \in CallOpcodes
    <3>1. Architecture!CALL /\ ir = Architecture!opcode
      BY <2>3, StackInstructions DEF Underway
    <3>2. CASE ir = 205
      <4>1. Architecture!z = 5
        BY <3>1, <3>2 DEF Architecture!z
      <4> QED
        BY <2>3, <3>1, <4>1, WordOfCall DEF Architecture!CALL, Architecture!CallTo
    <3>3. CASE ir # 205
      <4>1. ir \in Conditional
        BY <2>3, <3>3 DEF Conditional
      <4> QED
        BY <2>3, <3>1, <4>1, WordOfCall DEF Architecture!CALL, Architecture!CallTo, Architecture!Proceed
    <3> QED
      BY <3>2, <3>3
  <2> QED
    BY <2>1, <2>2, <2>3 DEF PuttingOn
<1> HIDE DEF s
<1>4. CASE \E pc, d : Architecture!Continue(s, pc, d)
  BY <1>2, <1>4, Continued DEF s
<1>5. CASE ir \in Conditional /\ \E pc, d : Architecture!Continue(boundary, pc, d)
  BY <1>1, <1>5, Continued
<1> QED
  BY <1>3, <1>4, <1>5

\* A pair loaded leaves the rest.
LEMMA PairLoaded ==
  ASSUME NEW s \in MachineState, NEW p \in {0, 1, 2}, NEW w \in Word
  PROVE  /\ Architecture!Set16(s, p, w) \in MachineState
         /\ Architecture!Set16(s, p, w).sp = s.sp /\ Architecture!Set16(s, p, w).ram = s.ram
<1> DEFINE h == Architecture!Name16[p + 1][1]
           l == Architecture!Name16[p + 1][2]
           u == (w % 65536) \div 256
           v == w % 256
           q == [s EXCEPT !.r[h] = u]
           t == [q EXCEPT !.r[l] = v]
<1>1. h \in Register8 /\ l \in Register8
  BY DEF Architecture!Name16, Register8
<1>2. u \in Byte /\ v \in Byte
  BY DEF Word, Byte
<1>3. Architecture!Set16(s, p, w) = t
  BY DEF Architecture!Set16
<1> HIDE DEF h, l, u, v
<1>4. q \in MachineState /\ q.sp = s.sp /\ q.ram = s.ram
  BY <1>1, <1>2 DEF MachineState
<1> HIDE DEF q
<1>5. t \in MachineState /\ t.sp = q.sp /\ t.ram = q.ram
  BY <1>1, <1>2, <1>4 DEF MachineState
<1> QED
  BY <1>3, <1>4, <1>5

\* So do A and the flags.
LEMMA AFLoaded ==
  ASSUME NEW s \in MachineState, NEW a \in Byte, NEW F, F \subseteq {"Z", "N", "H", "C"}
  PROVE  /\ [s EXCEPT !.r["A"] = a, !.flags = F] \in MachineState
         /\ [s EXCEPT !.r["A"] = a, !.flags = F].sp = s.sp
         /\ [s EXCEPT !.r["A"] = a, !.flags = F].ram = s.ram
<1> DEFINE q == [s EXCEPT !.r["A"] = a]
           t == [q EXCEPT !.flags = F]
<1>1. "A" \in Register8
  BY DEF Register8
<1>2. q \in MachineState /\ q.sp = s.sp /\ q.ram = s.ram
  BY <1>1 DEF MachineState
<1>3. [s EXCEPT !.r["A"] = a, !.flags = F] = t
  OBVIOUS
<1> HIDE DEF q
<1>4. t \in MachineState /\ t.sp = q.sp /\ t.ram = q.ram
  BY <1>2 DEF MachineState
<1> QED
  BY <1>2, <1>3, <1>4

\* What RET and POP have done to it, and where RET goes on.
LEMMA TakesOffIt ==
  ASSUME Underway, Architecture!Execute, ir \in TakingOff
  PROVE  \/ /\ boundary'.sp = Wrap(boundary.sp + 2)
            /\ boundary'.ram = boundary.ram
            /\ ir \in RetOpcodes => boundary'.pc = Architecture!Popped
         \/ /\ ir \in Conditional
            /\ boundary'.sp = boundary.sp /\ boundary'.ram = boundary.ram
<1> DEFINE s == Architecture!PopOff(boundary)
           w == Architecture!Popped
<1>1. boundary \in MachineState /\ w \in Word
  BY Basics, OperandTypes
<1>2. s \in MachineState /\ s.sp = Wrap(boundary.sp + 2) /\ s.ram = boundary.ram
  BY <1>1, PopOffRam
<1>3. w % 65536 = w
  BY <1>1 DEF Word
<1>4. CASE ir \in PopOpcodes
  <2>1. ir \notin RetOpcodes
    BY <1>4 DEF PopOpcodes, RetOpcodes
  <2>2. Architecture!POP /\ Architecture!y \in {0, 2, 4, 6} /\ ir = Architecture!opcode
    BY <1>4, StackInstructions, DecodedUnderway, StackDigits DEF Underway
  <2>3. CASE Architecture!y # 6
    <3> DEFINE t == Architecture!Set16(s, Architecture!y \div 2, w)
    <3>1. \E pc, d : Architecture!Continue(t, pc, d)
      BY <2>2, <2>3 DEF Architecture!POP, Architecture!Proceed
    <3>2. Architecture!y \div 2 \in {0, 1, 2} /\ t = Architecture!Set16(s, Architecture!y \div 2, w)
      BY <2>2, <2>3
    <3> HIDE DEF t, s, w
    <3>3. t \in MachineState /\ t.sp = s.sp /\ t.ram = s.ram
      BY <1>1, <1>2, <3>2, PairLoaded
    <3> QED
      BY <1>2, <2>1, <3>1, <3>3, Continued
  <2>4. CASE Architecture!y = 6
    <3> DEFINE F == {f \in DOMAIN Architecture!FlagBits : (w \div Architecture!FlagBits[f]) % 2 = 1}
               a == w \div 256
               t == [s EXCEPT !.r["A"] = a, !.flags = F]
    <3>1. \E pc, d : Architecture!Continue(t, pc, d)
      BY <2>2, <2>4, Zenon DEF Architecture!POP, Architecture!Proceed
    <3>2. a \in Byte
      BY <1>1 DEF Word, Byte
    <3>3. F \subseteq {"Z", "N", "H", "C"}
      BY DEF Architecture!FlagBits
    <3> HIDE DEF F, a, s, w
    <3>4. t \in MachineState /\ t.sp = s.sp /\ t.ram = s.ram
      BY <1>2, <3>2, <3>3, AFLoaded
    <3> HIDE DEF t
    <3> QED
      BY <1>2, <2>1, <3>1, <3>4, Continued DEF s
  <2> QED
    BY <2>3, <2>4
<1>5. CASE ir \in RetOpcodes
  <2>1. Architecture!RET /\ ir = Architecture!opcode
    BY <1>5, StackInstructions DEF Underway
  <2>2. \/ \E d : Architecture!Continue(s, w, d)
        \/ boundary' = [Architecture!Interrupts(s, TRUE) EXCEPT !.pc = w]
        \/ ir \in Conditional /\ \E pc, d : Architecture!Continue(boundary, pc, d)
    <3>1. CASE ir \in {201, 217}
      <4>1. Architecture!z # 0
        BY <2>1, <3>1 DEF Architecture!z
      <4>2. \/ Architecture!Continue(s, w, 4)
            \/ Architecture!Finish([Architecture!Interrupts(s, TRUE) EXCEPT !.pc = w], 4)
        BY <2>1, <4>1, Zenon DEF Architecture!RET
      <4> QED
        BY <4>2, Zenon DEF Architecture!Finish
    <3>2. CASE ir \notin {201, 217}
      <4>1. ir \in Conditional
        BY <1>5, <3>2 DEF Conditional
      <4> QED
        BY <2>1, <3>2, <4>1, Zenon DEF Architecture!RET, Architecture!Proceed
    <3> QED
      BY <3>1, <3>2
  <2> DEFINE on == TRUE
  <2> HIDE DEF s, w
  <2>3. CASE \E d : Architecture!Continue(s, w, d)
    <3>1. boundary'.sp = s.sp /\ boundary'.ram = s.ram /\ boundary'.pc = w % 65536
      BY <1>2, <2>3, Continued
    <3> QED
      BY <1>2, <1>3, <3>1 DEF w
  <2>4. CASE boundary' = [Architecture!Interrupts(s, TRUE) EXCEPT !.pc = w]
    <3>1. boundary' = [Architecture!Interrupts(s, on) EXCEPT !.pc = w]
      BY <2>4
    <3> HIDE DEF on
    <3>2. boundary'.sp = s.sp /\ boundary'.ram = s.ram /\ boundary'.pc = w
      BY <1>2, <3>1, InterruptsParts
    <3> QED
      BY <1>2, <3>2 DEF w
  <2>5. CASE ir \in Conditional /\ \E pc, d : Architecture!Continue(boundary, pc, d)
    BY <1>1, <2>5, Continued
  <2> QED
    BY <2>2, <2>3, <2>4, <2>5 DEF w
<1> QED
  BY <1>4, <1>5 DEF TakingOff

-----------------------------------------------------------------------------
(* The middle of an instruction *)

\* SP moved leaves the memory.
LEMMA MovedRam ==
  ASSUME boundary \in MachineState, NEW n \in Int
  PROVE  MovedSP(n) \in MachineState /\ MovedSP(n).ram = boundary.ram
<1> DEFINE a == (boundary.sp + n) % 65536
<1>1. a \in Word
  BY DEF MachineState, Word
<1>2. MovedSP(n) = [boundary EXCEPT !.sp = a]
  BY DEF MovedSP
<1> HIDE DEF a
<1> QED
  BY <1>1, <1>2 DEF MachineState

\* Until they end, the instructions of the stack write to the two addresses
\* below it alone.
LEMMA Untouched ==
  ASSUME Underway, ir \in PuttingOn \cup TakingOff
  PROVE  \A a \in RamAddress \ Below(boundary.sp) : ram[a] = boundary.ram[a]
<1> DEFINE s == Seen
           h == High(Pushed(handler))
           b == (boundary.sp - 1) % 65536
           p == MovedSP(-2)
           on == TRUE
           m == MovedSP(2)
<1>1. boundary \in MachineState /\ s.ram = ram /\ boundary.ram \in RamImage
  BY Basics, SeenParts DEF MachineState
<1>2. Name(handler) \in {"PushRr", "PopRr", "Call", "Rst", "Ret", "RetI", "RetConditional"}
  BY StackHandlers DEF PuttingOn, TakingOff, Name
<1>3. \/ s = boundary
      \/ s = MovedSP(-1)
      \/ s = Architecture!Poke(p, b, h) /\ Name(handler) \in {"PushRr", "Call", "Rst"}
      \/ s = Architecture!PushOn(boundary, Pushed(handler)) /\ Name(handler) \in {"PushRr", "Call", "Rst"}
      \/ s = MovedSP(1)
      \/ s = m
      \/ s = Architecture!Interrupts(m, on)
  <2>1. ~Loading(handler, reg, s)
    BY <1>2 DEF Loading
  <2>2. Fetching(handler, reg, s) \/ Jumping(handler, reg, s) \/ Skipping(handler, reg, s) => s = boundary
    BY DEF Fetching, Jumping, Skipping
  <2>3. Pushing(handler, reg, s) =>
          /\ Name(handler) \in {"PushRr", "Call", "Rst"}
          /\ s = MovedSP(-1) \/ s = Architecture!Poke(p, b, h) \/ s = Architecture!PushOn(boundary, Pushed(handler))
    BY DEF Pushing
  <2>4. Popping(handler, reg, s) => s = boundary \/ s = MovedSP(1) \/ s = m \/ s = Architecture!Interrupts(m, on)
    BY Zenon DEF Popping
  <2> HIDE DEF s, p, b, h, m, on
  <2> QED
    BY <2>1, <2>2, <2>3, <2>4, Course DEF s
<1>4. Name(handler) \in {"PushRr", "Call", "Rst"} => Pushed(handler) \in Word
  <2>1. ASSUME ir \in TakingOff
        PROVE  Name(handler) \notin {"PushRr", "Call", "Rst"}
    BY <2>1, StackHandlers DEF TakingOff, Name
  <2> QED
    BY <2>1, WordType
<1>5. m \in MachineState /\ m.ram = boundary.ram /\ p \in MachineState /\ p.ram = boundary.ram
  <2>1. 2 \in Int /\ -2 \in Int
    OBVIOUS
  <2> QED
    BY <1>1, <2>1, MovedRam
<1>6. MovedSP(1).ram = boundary.ram /\ MovedSP(-1).ram = boundary.ram
  <2>1. 1 \in Int /\ -1 \in Int
    OBVIOUS
  <2> QED
    BY <1>1, <2>1, MovedRam
<1> HIDE DEF s, on, m, p, h, b
<1>7. CASE s \in {boundary, MovedSP(-1), MovedSP(1), m}
  BY <1>1, <1>5, <1>6, <1>7
<1>8. CASE s = Architecture!Interrupts(m, on)
  BY <1>1, <1>5, <1>8, InterruptsRam
<1>9. CASE s = Architecture!Poke(p, b, h) /\ Name(handler) \in {"PushRr", "Call", "Rst"}
  <2>1. h \in Byte
    BY <1>4, <1>9, WordParts DEF h
  <2>2. ram = IF b \in RamAddress THEN [boundary.ram EXCEPT ![b] = h] ELSE boundary.ram
    <3>1. Architecture!Poke(p, b, h).ram = IF b \in RamAddress THEN [p.ram EXCEPT ![b] = h] ELSE p.ram
      BY <1>5, <2>1, PokeRam
    <3> QED
      BY <1>1, <1>5, <1>9, <3>1
  <2>3. b \in Below(boundary.sp)
    BY DEF Below, b, Wrap
  <2> QED
    BY <1>1, <2>2, <2>3 DEF RamImage
<1>10. CASE s = Architecture!PushOn(boundary, Pushed(handler)) /\ Name(handler) \in {"PushRr", "Call", "Rst"}
  BY <1>1, <1>4, <1>10, PushOnRam
<1> QED
  BY <1>3, <1>7, <1>8, <1>9, <1>10

-----------------------------------------------------------------------------
(* Every step keeps the stack *)

\* The memory holds a stack when it holds its first word and the others.
LEMMA IntactOn ==
  ASSUME NEW p \in Seq(WordOnStack), NEW e \in WordOnStack, NEW m, Stored(m, e.sp, e.word), Intact(p, m)
  PROVE  Intact(<<e>> \o p, m)
<1> DEFINE q == <<e>> \o p
<1>1. ASSUME NEW k \in DOMAIN q
      PROVE  Stored(m, q[k].sp, q[k].word)
  <2>1. CASE k = 1
    BY <2>1
  <2>2. CASE k # 1
    <3>1. k - 1 \in DOMAIN p /\ q[k] = p[k - 1]
      BY <2>2
    <3> QED
      BY <3>1 DEF Intact
  <2> QED
    BY <2>1, <2>2
<1> QED
  BY <1>1 DEF Intact

\* With the word on top taken off, the others are still there.
LEMMA IntactOff ==
  ASSUME NEW p \in Seq(WordOnStack), p # <<>>, NEW m, Intact(p, m)
  PROVE  Intact(Tail(p), m)
<1>1. ASSUME NEW k \in DOMAIN Tail(p)
      PROVE  Stored(m, Tail(p)[k].sp, Tail(p)[k].word)
  <2>1. k + 1 \in DOMAIN p /\ Tail(p)[k] = p[k + 1]
    OBVIOUS
  <2> QED
    BY <2>1 DEF Intact
<1> QED
  BY <1>1 DEF Intact

\* The boundary an instruction leaves is the machine it ends with.
LEMMA NewBoundary ==
  ASSUME Completes, Record
  PROVE  boundary'.sp = reg'["SP"] /\ boundary'.ram = ram'
<1>1. boundary' = Machine(reg', ime', ram', (reg'["PC"] - 1) % 65536)
  BY DEF Record
<1> QED
  BY <1>1, MachineRest

\* An instruction that is not made for the stack.
LEMMA OffStackStep ==
  ASSUME StackKept, Record, CSRecord, KeepsOffStack, ir \notin PuttingOn \cup TakingOff
  PROVE  StackKept'
<1>1. UNCHANGED pushed
  BY DEF CSRecord, Uses
<1>2. Intact(pushed, ram')
  <2>1. ASSUME NEW k \in DOMAIN pushed, {pushed[k].sp, pushed[k].sp + 1} \subseteq RamAddress
        PROVE  Pair(ram'[pushed[k].sp + 1], ram'[pushed[k].sp]) = pushed[k].word
    <3>1. pushed[k].sp \in OnStack \cap RamAddress /\ pushed[k].sp + 1 \in OnStack \cap RamAddress
      BY <2>1 DEF OnStack
    <3>2. ram'[pushed[k].sp] = ram[pushed[k].sp] /\ ram'[pushed[k].sp + 1] = ram[pushed[k].sp + 1]
      BY <3>1 DEF KeepsOffStack
    <3>3. Pair(ram[pushed[k].sp + 1], ram[pushed[k].sp]) = pushed[k].word
      BY <2>1 DEF StackKept, Intact, Stored
    <3> QED
      BY <3>2, <3>3
  <2> QED
    BY <2>1 DEF Intact, Stored
<1>3. CASE Completes
  <2>1. boundary'.sp = reg'["SP"] /\ boundary'.ram = ram'
    BY <1>3, NewBoundary
  <2>2. pushed # <<>> => boundary'.sp = boundary.sp
    BY <1>3, <2>1 DEF KeepsOffStack
  <2>3. Stacked(pushed, boundary'.sp)
    <3>1. CASE pushed = <<>>
      BY <3>1 DEF Stacked
    <3>2. CASE pushed # <<>>
      BY <2>2, <3>2 DEF StackKept
    <3> QED
      BY <3>1, <3>2
  <2> QED
    BY <1>1, <1>2, <2>1, <2>3 DEF StackKept
<1>4. CASE ~Completes
  <2>1. UNCHANGED boundary
    BY <1>4 DEF Record
  <2> QED
    BY <1>1, <1>2, <2>1 DEF StackKept
<1> QED
  BY <1>3, <1>4

\* An instruction of the stack that goes on.
LEMMA MiddleStep ==
  ASSUME SInv, Underway, Step, Record, CSRecord, KeepsOffStack, ir \in PuttingOn \cup TakingOff, ~Completes
  PROVE  StackKept'
<1>1. UNCHANGED <<pushed, boundary>>
  BY DEF CSRecord, Uses, Record
<1>2. RInv' /\ UNCHANGED rom
  BY StepRInv, StepKeepsRom DEF SInv, RInv, Base
<1>3. Underway'
  <2>1. status' = "running" /\ ~PoweringUp'
    BY <1>2 DEF Completes, RInv, Base, IInv, PoweringUp, Created
  <2> QED
    BY <1>2, <2>1 DEF Underway, RInv, InstructionUnderway
<1>4. ir' \in PuttingOn \cup TakingOff
  <2>1. ir = Architecture!opcode /\ ir' = Architecture!opcode'
    BY <1>3 DEF Underway
  <2> QED
    BY <1>1, <1>2, <2>1, OpcodeKept
<1>5. \A a \in RamAddress \ Below(boundary.sp) : ram'[a] = boundary.ram[a]
  <2>1. (Underway /\ ir \in PuttingOn \cup TakingOff)'
          => (\A a \in RamAddress \ Below(boundary.sp) : ram[a] = boundary.ram[a])'
    BY Untouched, PTL
  <2> QED
    BY <1>1, <1>3, <1>4, <2>1
<1>6. Intact(pushed, ram')
  <2>1. boundary.sp \in Word /\ Len(pushed) < 32768
    BY Basics DEF MachineState, KeepsOffStack
  <2> QED
    BY <1>5, <2>1, IntactBeside DEF SInv, StackKept
<1> QED
  BY <1>1, <1>6 DEF SInv, StackKept

\* One that ends having put its word on the stack.
LEMMA PutStep ==
  ASSUME SInv, Underway, Architecture!Execute, Record, CSRecord, KeepsOffStack, ir \in PuttingOn, Completes
  PROVE  StackKept'
<1> DEFINE sp == boundary.sp
           w == WordPushed
           e == [word |-> w, sp |-> reg'["SP"]]
           m == Architecture!PushOn(boundary, w).ram
<1>1. boundary \in MachineState /\ sp \in Word /\ w \in Word /\ Len(pushed) < 32768
  BY Basics, WordType DEF MachineState, KeepsOffStack
<1>2. boundary'.sp = reg'["SP"] /\ boundary'.ram = ram'
  BY NewBoundary
<1>3. ir \notin PopOpcodes \cup RetOpcodes
  BY DEF PuttingOn, PushOpcodes, CallOpcodes, RstOpcodes, PopOpcodes, RetOpcodes
<1>4. CASE boundary'.sp = Wrap(sp - 2) /\ ram' = m
  <2>1. Wrap(sp - 2) \in Word /\ Wrap(sp - 2) # sp
    <3>1. sp \in Int /\ 0 <= sp /\ sp < 65536 /\ sp - 2 \in Int
      BY <1>1 DEF Word
    <3> HIDE DEF sp
    <3> QED
      BY <3>1, Wrapping
  <2>2. Uses(PuttingOn)
    BY <1>2, <1>4, <2>1 DEF Uses
  <2>3. pushed' = <<e>> \o pushed
    BY <1>3, <2>2 DEF CSRecord, Uses, TakingOff
  <2>4. e \in WordOnStack /\ e.sp = Wrap(sp - 2) /\ e.word = w
    BY <1>1, <1>2, <1>4, <2>1 DEF WordOnStack
  <2>5. (\A a \in RamAddress \ Below(sp) : m[a] = boundary.ram[a]) /\ Stored(m, Wrap(sp - 2), w)
    BY <1>1, PushOnRam
  <2>6. /\ pushed \in Seq(WordOnStack) /\ Stacked(pushed, sp) /\ Intact(pushed, boundary.ram)
    BY DEF SInv, StackKept
  <2> HIDE DEF sp, w, e, m
  <2>7. Intact(pushed, m)
    BY <1>1, <2>5, <2>6, IntactBeside
  <2>8. Intact(<<e>> \o pushed, m)
    BY <2>4, <2>5, <2>6, <2>7, IntactOn
  <2>9. <<e>> \o pushed \in Seq(WordOnStack) /\ Stacked(<<e>> \o pushed, e.sp)
    BY <1>1, <2>4, <2>6, StackedOn
  <2> QED
    BY <1>2, <1>4, <2>3, <2>4, <2>8, <2>9 DEF StackKept
<1>5. CASE ir \in Conditional /\ boundary'.sp = sp /\ boundary'.ram = boundary.ram
  <2>1. UNCHANGED pushed
    BY <1>2, <1>5 DEF CSRecord, Uses
  <2> QED
    BY <1>2, <1>5, <2>1 DEF SInv, StackKept
<1> QED
  BY <1>2, <1>4, <1>5, PutsOn

\* One that ends having taken one off.
LEMMA TakeStep ==
  ASSUME SInv, Underway, Architecture!Execute, Record, CSRecord, ir \in TakingOff, Completes
  PROVE  StackKept'
<1> DEFINE sp == boundary.sp
<1>1. sp \in Word
  BY Basics DEF MachineState
<1>2. boundary'.sp = reg'["SP"] /\ boundary'.ram = ram'
  BY NewBoundary
<1>3. ir \notin PuttingOn
  BY DEF PuttingOn, TakingOff, PushOpcodes, CallOpcodes, RstOpcodes, PopOpcodes, RetOpcodes
<1>4. pushed \in Seq(WordOnStack) /\ Stacked(pushed, sp) /\ Intact(pushed, boundary.ram)
  BY DEF SInv, StackKept
<1>5. CASE boundary'.sp = Wrap(sp + 2) /\ boundary'.ram = boundary.ram
  <2>1. Wrap(sp + 2) # sp
    <3>1. sp \in Int /\ 0 <= sp /\ sp < 65536 /\ sp + 2 \in Int
      BY <1>1 DEF Word
    <3> HIDE DEF sp
    <3> QED
      BY <3>1, Wrapping
  <2>2. Uses(TakingOff)
    BY <1>2, <1>5, <2>1 DEF Uses
  <2>3. pushed' = IF pushed = <<>> THEN pushed ELSE Tail(pushed)
    BY <1>3, <2>2 DEF CSRecord, Uses
  <2> HIDE DEF sp
  <2>4. CASE pushed = <<>>
    <3>1. pushed' = <<>>
      BY <2>3, <2>4
    <3>2. /\ <<>> \in Seq(WordOnStack) /\ Stacked(<<>>, boundary'.sp)
          /\ Intact(<<>>, ram') /\ Intact(<<>>, boundary'.ram)
      BY DEF Stacked, Intact
    <3> QED
      BY <3>1, <3>2 DEF StackKept
  <2>5. CASE pushed # <<>>
    <3>1. pushed' = Tail(pushed)
      BY <2>3, <2>5
    <3>2. Tail(pushed) \in Seq(WordOnStack) /\ Stacked(Tail(pushed), Wrap(sp + 2))
      BY <1>1, <1>4, <2>5, StackedOff
    <3>3. Intact(Tail(pushed), boundary.ram)
      BY <1>4, <2>5, IntactOff
    <3> QED
      BY <1>2, <1>5, <3>1, <3>2, <3>3 DEF StackKept
  <2> QED
    BY <2>4, <2>5
<1>6. CASE ir \in Conditional /\ boundary'.sp = sp /\ boundary'.ram = boundary.ram
  <2>1. UNCHANGED pushed
    BY <1>2, <1>6 DEF CSRecord, Uses
  <2> QED
    BY <1>2, <1>4, <1>6, <2>1 DEF StackKept
<1> QED
  BY <1>5, <1>6, TakesOffIt

-----------------------------------------------------------------------------
(* What is taken off *)

\* The word where SP points is the last one put on.
LEMMA TopRead ==
  ASSUME SInv, TopIsStored
  PROVE  /\ Architecture!Popped = pushed[1].word
         /\ Wrap(boundary.sp + 2) = pushed[1].sp + 2 /\ Wrap(boundary.sp + 2) # boundary.sp
<1> DEFINE a == boundary.sp
           b == a + 1
<1>1. a \in RamAddress /\ b \in RamAddress /\ pushed # <<>> /\ pushed[1].sp = a
  BY DEF TopIsStored
<1>2. 1 \in DOMAIN pushed
  BY <1>1 DEF SInv, StackKept
<1>3. Pair(boundary.ram[b], boundary.ram[a]) = pushed[1].word
  BY <1>1, <1>2 DEF SInv, StackKept, Intact, Stored
<1>4. b = a + 1
  OBVIOUS
<1> HIDE DEF a, b
<1>5. a \in Int /\ 0 <= a /\ a < 65535 /\ b \in Int /\ 0 <= b /\ b < 65535
  BY <1>1, RamRange
<1>6. ASSUME NEW c \in RamAddress
      PROVE  Architecture!Peek(c) = boundary.ram[c]
  <2>1. c \in RamStart .. RamEnd /\ RamStart = 49152 /\ c \in Int
    BY <1>6, RamRange DEF RamAddress, RamStart
  <2>2. ~(c < 32768)
    <3>1. RamEnd \in Int
      <4>1. RamEnd \in RamStart .. 57343 /\ RamStart \in Int
        BY BusAssumption DEF BusAssumption, RamStart
      <4> QED
        BY <4>1
    <3> QED
      BY <2>1, <3>1
  <2> QED
    BY <2>1, <2>2 DEF Architecture!Peek
<1>7. (a + 1) % 65536 = b
  BY <1>4, <1>5
<1>8. Architecture!Popped = 256 * Architecture!Peek(b) + Architecture!Peek(a)
  BY <1>7 DEF Architecture!Popped, Architecture!Peek16, a
<1>9. Architecture!Popped = pushed[1].word
  BY <1>1, <1>3, <1>6, <1>8 DEF Pair
<1>10. Wrap(a + 2) = a + 2
  <2>1. a + 2 < 65536
    BY <1>4, <1>5
  <2> QED
    BY <1>5, <2>1, Wrapping
<1> QED
  BY <1>1, <1>5, <1>9, <1>10 DEF a

\* Only PopRr steps in its handler.
LEMMA PopRrSteps ==
  ASSUME Step, NEW d, handler.body = <<"PopRr", d>>
  PROVE  PopRr
<1>1. ~MathStep
  BY DEF MathStep, MathOperandR, MathN8, MathIndirectHL, IncR, DecR, IncRR, DecRR,
     Rlca, Rrca, Rla, Rra, Cpl, Ccf, Executing
<1>2. ~ControlStep
  BY DEF ControlStep, Jump, JumpRelative, JumpHl, Call, Rst, Ret, RetConditional, RetI, Di, Ei, Executing
<1>3. LoadStep
  BY <1>1, <1>2 DEF Step
<1> QED
  BY <1>3 DEF LoadStep, NoopStep, Noop, LoadRegReg, LoadRegN8, LoadRegN16, LoadIndirectFrom, LoadRIndirectRr,
     LoadIndirectHlN8, LoadA16SP, LoadIndirectA8FromA, LoadIndirectA16FromA, LoadIndirectCFromA,
     LoadAFromIndirectA8, LoadAFromIndirectA16, LoadAFromIndirectC, LoadReg16Reg16, LoadSPFromHlPlusE8,
     PushRr, Executing

\* POP loads the pair it names, but for the low four bits of F.
LEMMA PopLoads ==
  ASSUME Underway, Step, ir \in PopOpcodes, Completes
  PROVE  reg'[StackPair(ir)] = Popped(ir, Architecture!Popped)
<1> DEFINE y == Architecture!y
           w == reg["WZ"]
<1>1. handler.body = <<"PopRr", StackedOf[Half(y)]>>
  BY StackHandlers
<1>2. PICK d \in StackedPair :
        /\ handler.body = <<"PopRr", d>>
        /\ PopByte(1, "Z") \/ PopByte(2, "W") \/ Return(3, Assign16(reg, d, w), ime)
  BY <1>1, PopRrSteps DEF PopRr, Executing
<1>3. d = StackedOf[Half(y)] /\ Name(handler) = "PopRr"
  BY <1>1, <1>2 DEF Name
<1>4. ~PopByte(1, "Z") /\ ~PopByte(2, "W")
  <2>1. handler \in Coroutine /\ status = "running"
    BY Basics DEF Underway
  <2>2. ASSUME NEW k \in {1, 2}, NEW n, PopByte(k, n)
        PROVE  FALSE
    <3>1. handler' = [handler EXCEPT !.at = k + 1, !.local = handler.local] /\ status' = status
      BY <2>2 DEF PopByte, Yield, Suspend
    <3>2. handler'.at = k + 1
      BY <2>1, <3>1 DEF Coroutine
    <3> QED
      BY <2>1, <3>1, <3>2 DEF Completes
  <2> QED
    BY <2>2
<1>5. Return(3, Assign16(reg, d, w), ime)
  BY <1>2, <1>4
<1>6. w = Architecture!Popped
  <2>1. handler.at = TakesOff(handler) + 2
    BY <1>3, <1>5 DEF Return, TakesOff
  <2> QED
    BY <1>3, <2>1, AtPopped
<1>7. ir = 64 * Architecture!x + 8 * y + Architecture!z /\ Architecture!x = 3 /\ Architecture!z = 1 /\ y \in {0, 2, 4, 6}
  BY DecodedUnderway, StackDigits DEF Underway
<1>8. StackPair(ir) = d /\ (ir = 241 <=> d = "AF")
  <2>0. ir = 192 + 8 * y + 1
    BY <1>7
  <2> HIDE DEF y
  <2>1. (y = 0 /\ ir = 193) \/ (y = 2 /\ ir = 209) \/ (y = 4 /\ ir = 225) \/ (y = 6 /\ ir = 241)
    BY <1>7, <2>0
  <2>2. (d = "BC" /\ ir = 193) \/ (d = "DE" /\ ir = 209) \/ (d = "HL" /\ ir = 225) \/ (d = "AF" /\ ir = 241)
    BY <1>3, <2>1 DEF StackedOf, Half
  <2> QED
    BY <2>2 DEF StackPair
<1>9. reg'[d] = IF d = "AF" THEN Masked(w) ELSE w
  <2>1. reg \in [Register16 -> Word] /\ d \in Register16 /\ d # "PC"
    BY Basics DEF CleanFile, RegisterFile, StackedPair, Register16
  <2>2. Assign16(reg, d, w)[d] = (IF d = "AF" THEN Masked(w) ELSE w)
    BY <2>1 DEF Assign16
  <2>3. reg' = Bump(Assign16(reg, d, w), "PC", 1)
    BY <1>5 DEF Return
  <2>4. DOMAIN Assign16(reg, d, w) = Register16
    BY <2>1 DEF Assign16
  <2> HIDE DEF w
  <2> QED
    BY <2>1, <2>2, <2>3, <2>4 DEF Bump
<1> HIDE DEF w, y
<1> QED
  BY <1>6, <1>8, <1>9 DEF Popped, Masked

\* The handler that m_handler starts with does not use the stack.
LEMMA StackUnderway ==
  ASSUME SInv, Step, ir \in PuttingOn \cup TakingOff
  PROVE  Underway
<1>1. Base /\ InstructionUnderway
  BY DEF SInv, RInv
<1>2. status = "running"
  BY <1>1, StepCases DEF Base
<1>3. ~PoweringUp
  BY DEF PoweringUp, PuttingOn, TakingOff, PushOpcodes, CallOpcodes, RstOpcodes, PopOpcodes, RetOpcodes
<1> QED
  BY <1>1, <1>2, <1>3 DEF InstructionUnderway, Underway

\* A Step() keeps the invariant.
LEMMA StackInv ==
  ASSUME SInv, Step, Record, CSRecord, KeepsOffStack
  PROVE  SInv'
<1>1. RInv'
  BY StepRInv DEF SInv
<1>2. CASE ir \notin PuttingOn \cup TakingOff
  BY <1>1, <1>2, OffStackStep DEF SInv
<1>3. CASE ir \in PuttingOn \cup TakingOff
  <2>1. Underway
    BY <1>3, StackUnderway
  <2>2. CASE ~Completes
    BY <1>1, <1>3, <2>1, <2>2, MiddleStep DEF SInv
  <2>3. CASE Completes
    <3>1. Architecture!Execute
      BY <2>1, <2>3, StepExecutes DEF Outcome, Onward
    <3> QED
      BY <1>1, <1>3, <2>1, <2>3, <3>1, PutStep, TakeStep DEF SInv
  <2> QED
    BY <2>2, <2>3
<1> QED
  BY <1>2, <1>3

\* So does a step of nothing.
LEMMA StackStutter ==
  ASSUME SInv, UNCHANGED allVars
  PROVE  SInv'
<1>1. UNCHANGED <<vars, historyVars>> /\ UNCHANGED <<pushed, ram, boundary>>
  BY DEF allVars, vars, historyVars
<1> QED
  BY <1>1, StutterRInv DEF SInv, StackKept

\* So every step of the specification does.
LEMMA StackStep ==
  ASSUME SInv, [CSNext]_allVars, [KeepsOffStack]_allVars
  PROVE  SInv'
<1>1. ASSUME Exited, UNCHANGED <<historyVars, pushed>>
      PROVE  UNCHANGED allVars
  BY <1>1 DEF Exited, allVars
<1>2. CASE UNCHANGED allVars
  BY <1>2, StackStutter
<1>3. CASE Step /\ Record /\ CSRecord /\ KeepsOffStack
  BY <1>3, StackInv
<1> QED
  BY <1>1, <1>2, <1>3 DEF CSNext

\* At first there is no stack.
LEMMA StackInit ==
  ASSUME CSInit
  PROVE  SInv
BY InitRInv DEF CSInit, SInv, StackKept, Stacked, Intact

\* What is taken off is what was put on.
LEMMA TakesTop ==
  ASSUME SInv, Step, Record, CSRecord
  PROVE  /\ Uses(PopOpcodes) /\ TopIsStored =>
              /\ reg'[StackPair(ir)] = Popped(ir, pushed[1].word)
              /\ reg'["SP"] = pushed[1].sp + 2
         /\ Uses(RetOpcodes) /\ TopIsStored =>
              /\ boundary'.pc = pushed[1].word
              /\ reg'["SP"] = pushed[1].sp + 2
<1> SUFFICES ASSUME Uses(PopOpcodes) \/ Uses(RetOpcodes), TopIsStored
             PROVE  /\ reg'["SP"] = pushed[1].sp + 2
                    /\ Uses(PopOpcodes) => reg'[StackPair(ir)] = Popped(ir, pushed[1].word)
                    /\ Uses(RetOpcodes) => boundary'.pc = pushed[1].word
  OBVIOUS
<1>1. ir \in TakingOff /\ Completes /\ (ir \in Conditional => reg'["SP"] # boundary.sp)
  BY DEF Uses, TakingOff
<1>2. Underway
  BY <1>1, StackUnderway
<1>3. Architecture!Execute
  BY <1>1, <1>2, StepExecutes DEF Outcome, Onward
<1>4. boundary'.sp = reg'["SP"]
  BY <1>1, NewBoundary
<1>5. boundary'.sp = Wrap(boundary.sp + 2) /\ (ir \in RetOpcodes => boundary'.pc = Architecture!Popped)
  BY <1>1, <1>2, <1>3, <1>4, TakesOffIt
<1>6. Architecture!Popped = pushed[1].word /\ Wrap(boundary.sp + 2) = pushed[1].sp + 2
  BY TopRead
<1>7. Uses(PopOpcodes) => reg'[StackPair(ir)] = Popped(ir, Architecture!Popped)
  BY <1>1, <1>2, PopLoads DEF Uses
<1>8. Uses(RetOpcodes) => ir \in RetOpcodes
  BY DEF Uses
<1> QED
  BY <1>4, <1>5, <1>6, <1>7, <1>8

(* Whatever a program pushes, calls and restarts, and however deep it      *)
(* nests, every word stays in the RAM byte by byte until it is taken off,  *)
(* at every M-cycle, for every program that keeps off its stack otherwise  *)
(* (push_rr.h, call_a16.h, rst.h, pop_rr.h, ret.h).                        *)
THEOREM WordsKept == CSSpec /\ [][KeepsOffStack]_allVars => []StackIntact
<1>1. CSInit => SInv
  BY StackInit
<1>2. SInv /\ [CSNext]_allVars /\ [KeepsOffStack]_allVars => SInv'
  BY StackStep
<1>3. SInv => StackIntact
  BY DEF SInv, StackKept, StackIntact, Intact, Stored
<1> QED
  BY <1>1, <1>2, <1>3, PTL DEF CSSpec

(* In such a program each POP loads the register pair with the word that   *)
(* the matching PUSH stored and each taken RET goes on at the address that *)
(* the matching call stored, through the bytes that several Steps move     *)
(* between memory, W and Z, and SP is back where it was before             *)
(* (pop_rr.h:20, ret.h:17).                                                *)
THEOREM LastOnFirstOff == CSSpec /\ [][KeepsOffStack]_allVars => LastInFirstOut
<1>1. CSInit => SInv
  BY StackInit
<1>2. SInv /\ [CSNext]_allVars /\ [KeepsOffStack]_allVars => SInv'
  BY StackStep
<1> DEFINE Takes ==
             /\ Uses(PopOpcodes) /\ TopIsStored =>
                  /\ reg'[StackPair(ir)] = Popped(ir, pushed[1].word)
                  /\ reg'["SP"] = pushed[1].sp + 2
             /\ Uses(RetOpcodes) /\ TopIsStored =>
                  /\ boundary'.pc = pushed[1].word
                  /\ reg'["SP"] = pushed[1].sp + 2
<1>3. SInv /\ [CSNext]_allVars => [Takes]_allVars
  <2>1. ASSUME Exited, UNCHANGED <<historyVars, pushed>>
        PROVE  UNCHANGED allVars
    BY <2>1 DEF Exited, allVars
  <2>2. ASSUME SInv, Step, Record, CSRecord
        PROVE  Takes
    BY <2>2, TakesTop
  <2> HIDE DEF Takes
  <2> QED
    BY <2>1, <2>2 DEF CSNext
<1>4. CSSpec /\ [][KeepsOffStack]_allVars => [][Takes]_allVars
  <2> HIDE DEF Takes
  <2> QED
    BY <1>1, <1>2, <1>3, PTL DEF CSSpec
<1> QED
  BY <1>4 DEF LastInFirstOut

=============================================================================
