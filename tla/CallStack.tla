----------------------------- MODULE CallStack -----------------------------
(***************************************************************************)
(* The stack as programs see it: PUSH, CALL and RST put a word on it, POP, *)
(* RET and RETI take one off, and what is taken off is what was put on.    *)
(* The code has no stack of its own: each of these handlers moves one byte *)
(* of the word per M-cycle between registers and memory, through SP.       *)
(*                                                                         *)
(* The history variable pushed is the stack a program believes in.         *)
(***************************************************************************)
EXTENDS CpuHistory

VARIABLE pushed  \* the words not yet taken off, the last one first:
                 \* the word, and SP after it was pushed

allVars == <<vars, historyVars, pushed>>

PushOpcodes == {\hC5, \hD5, \hE5, \hF5}
PopOpcodes  == {\hC1, \hD1, \hE1, \hF1}
CallOpcodes == {\hC4, \hCC, \hCD, \hD4, \hDC}
RstOpcodes  == {\hC7, \hCF, \hD7, \hDF, \hE7, \hEF, \hF7, \hFF}
RetOpcodes  == {\hC0, \hC8, \hC9, \hD0, \hD8, \hD9}

PuttingOn == PushOpcodes \cup CallOpcodes \cup RstOpcodes
TakingOff == PopOpcodes \cup RetOpcodes

\* The pair a PUSH or POP names: BC, DE, HL or AF, by bits 4 and 5.
StackPair(opcode) == <<"BC", "DE", "HL", "AF">>[1 + ((opcode \div 16) % 4)]

\* The calls and returns that do nothing when their condition fails.
Conditional == (CallOpcodes \ {\hCD}) \cup (RetOpcodes \ {\hC9, \hD9})

\* The instruction that ends has used the stack: a conditional call or
\* return has been taken if it has moved SP.
Uses(opcodes) ==
  /\ Completes
  /\ ir \in opcodes
  /\ ir \in Conditional => reg'["SP"] # boundary.sp

\* The word pushed: a register pair as it was when the instruction began,
\* or the address of the instruction after the call.
WordPushed ==
  LET r == boundary.r
  IN  CASE ir = \hC5 -> Pair(r["B"], r["C"])
        [] ir = \hD5 -> Pair(r["D"], r["E"])
        [] ir = \hE5 -> Pair(r["H"], r["L"])
        [] ir = \hF5 -> Pair(r["A"], FromBits({f \in FlagPositions : FlagName[f] \in boundary.flags}))
        [] ir \in CallOpcodes -> (boundary.pc + 3) % 65536
        [] ir \in RstOpcodes  -> (boundary.pc + 1) % 65536

CSInit == HInit /\ pushed = <<>>

CSRecord ==
  \/ /\ Uses(PuttingOn)
     /\ pushed' = <<[word |-> WordPushed, sp |-> reg'["SP"]]>> \o pushed
  \/ /\ Uses(TakingOff)
     /\ pushed' = IF pushed = <<>> THEN pushed ELSE Tail(pushed)
  \/ /\ ~Uses(PuttingOn \cup TakingOff)
     /\ UNCHANGED pushed

CSNext ==
  \/ Step /\ Record /\ CSRecord
  \/ Exited /\ UNCHANGED <<historyVars, pushed>>

CSSpec == CSInit /\ [][CSNext]_allVars

\* The addresses of the words on the stack.
OnStack == UNION {{pushed[k].sp, pushed[k].sp + 1} : k \in DOMAIN pushed}

\* What a program has to do for its own stack: the instructions that are not
\* made for it do not write over its words and do not move SP while there
\* are any, and it never holds half the address space.
KeepsOffStack ==
  /\ Len(pushed) < 32768
  /\ ir \notin PuttingOn \cup TakingOff =>
       /\ \A a \in OnStack \cap RamAddress : ram'[a] = ram[a]
       /\ Completes /\ pushed # <<>> => reg'["SP"] = boundary.sp

-----------------------------------------------------------------------------
\* The next word to be taken off lies where SP points, in the RAM.
TopIsStored ==
  /\ pushed # <<>>
  /\ pushed[1].sp = boundary.sp
  /\ {boundary.sp, boundary.sp + 1} \subseteq RamAddress

\* What the pair named by a POP is to hold: F keeps four of its bits.
Popped(opcode, word) == IF opcode = \hF1 THEN word - (word % 16) ELSE word

\* What POP and RET take off is what the matching PUSH or CALL put on, as
\* long as the stack stays in the RAM: each POP loads the register pair
\* with that word and each taken RET goes on at that address, and SP is
\* back where it was before it was pushed.  Both move the word in single
\* bytes over several Steps, and PC has moved on by the length of the call
\* when it is stored (call_a16.h:32, push_rr.h:25, pop_rr.h:20, ret.h:17).
LastInFirstOut ==
  [][ /\ Uses(PopOpcodes) /\ TopIsStored =>
           /\ reg'[StackPair(ir)] = Popped(ir, pushed[1].word)
           /\ reg'["SP"] = pushed[1].sp + 2
      /\ Uses(RetOpcodes) /\ TopIsStored =>
           /\ boundary'.pc = pushed[1].word
           /\ reg'["SP"] = pushed[1].sp + 2 ]_allVars

\* As long as nothing but the stack is written, the words of the stack stay
\* in the RAM byte by byte, low byte at the lower address, at every M-cycle:
\* no later push, pop or call disturbs a word that lies above it.
StackIntact ==
  \A k \in DOMAIN pushed :
    LET e == pushed[k]
    IN  {e.sp, e.sp + 1} \subseteq RamAddress
          => Pair(ram[e.sp + 1], ram[e.sp]) = e.word
=============================================================================
