------------------------------ MODULE Opcodes ------------------------------
(***************************************************************************)
(* opcode_handler_map.h: which handler, instantiated with which registers, *)
(* condition or operation, each opcode selects.  A handler is written as   *)
(* the tuple of its name (the source's, without "Execute") and its         *)
(* template arguments.                                                     *)
(***************************************************************************)
EXTENDS CpuRegisters, Sequences

Unimplemented == <<"UnimplementedOpcode">>
Illegal       == <<"IllegalOpcode">>

\* The handlers that throw instead of creating a coroutine.
Throwing == {Unimplemented, Illegal}

\* The order in which opcodes name their operand; the seventh is the byte
\* at HL.
Operands == <<"B", "C", "D", "E", "H", "L", "(HL)", "A">>

LoadOctet(destination) ==
  [i \in 1 .. 8 |->
     IF Operands[i] = "(HL)"
       THEN <<"LoadRIndirectRr", destination, "HL", 0>>
       ELSE <<"LoadRegReg", destination, Operands[i]>>]

StoreOctet ==
  [i \in 1 .. 8 |->
     IF Operands[i] = "(HL)" THEN Unimplemented   \* HALT
                             ELSE <<"LoadIndirectFrom", "HL", Operands[i], 0>>]

MathOctet(operation) ==
  [i \in 1 .. 8 |->
     IF Operands[i] = "(HL)" THEN <<"MathIndirectHL", operation>>
                             ELSE <<"MathOperandR", operation, Operands[i]>>]

Noop == <<"Noop">>

\* The table in rows of eight opcodes: row i starts at opcode 8 * (i - 1).
Octets == <<
  (* 00 *) <<Noop, <<"LoadRegN16", "BC">>, <<"LoadIndirectFrom", "BC", "A", 0>>, <<"IncRR", "BC">>,
             <<"IncR", "B">>, <<"DecR", "B">>, <<"LoadRegN8", "B">>, <<"Rlca">>>>,
  (* 08 *) <<<<"LoadA16SP">>, Unimplemented, <<"LoadRIndirectRr", "A", "BC", 0>>, <<"DecRR", "BC">>,
             <<"IncR", "C">>, <<"DecR", "C">>, <<"LoadRegN8", "C">>, <<"Rrca">>>>,
  (* 10 *) <<Unimplemented, <<"LoadRegN16", "DE">>, <<"LoadIndirectFrom", "DE", "A", 0>>, <<"IncRR", "DE">>,
             <<"IncR", "D">>, <<"DecR", "D">>, <<"LoadRegN8", "D">>, <<"Rla">>>>,
  (* 18 *) <<<<"JumpRelative", "Always">>, Unimplemented, <<"LoadRIndirectRr", "A", "DE", 0>>, <<"DecRR", "DE">>,
             <<"IncR", "E">>, <<"DecR", "E">>, <<"LoadRegN8", "E">>, <<"Rra">>>>,
  (* 20 *) <<<<"JumpRelative", "NonZero">>, <<"LoadRegN16", "HL">>, <<"LoadIndirectFrom", "HL", "A", 1>>, <<"IncRR", "HL">>,
             <<"IncR", "H">>, <<"DecR", "H">>, <<"LoadRegN8", "H">>, Unimplemented>>,
  (* 28 *) <<<<"JumpRelative", "Zero">>, Unimplemented, <<"LoadRIndirectRr", "A", "HL", 1>>, <<"DecRR", "HL">>,
             <<"IncR", "L">>, <<"DecR", "L">>, <<"LoadRegN8", "L">>, <<"Cpl">>>>,
  (* 30 *) <<<<"JumpRelative", "NonCarry">>, <<"LoadRegN16", "SP">>, <<"LoadIndirectFrom", "HL", "A", -1>>, <<"IncRR", "SP">>,
             Unimplemented, Unimplemented, <<"LoadIndirectHlN8">>, Unimplemented>>,
  (* 38 *) <<<<"JumpRelative", "Carry">>, Unimplemented, <<"LoadRIndirectRr", "A", "HL", -1>>, <<"DecRR", "SP">>,
             <<"IncR", "A">>, <<"DecR", "A">>, <<"LoadRegN8", "A">>, <<"Ccf">>>>,
  (* 40 *) LoadOctet("B"), LoadOctet("C"), LoadOctet("D"), LoadOctet("E"),
  (* 60 *) LoadOctet("H"), LoadOctet("L"), StoreOctet, LoadOctet("A"),
  (* 80 *) MathOctet("Add"), MathOctet("Adc"), MathOctet("Sub"), MathOctet("Sbc"),
  (* A0 *) MathOctet("And"), MathOctet("Xor"), MathOctet("Or"), MathOctet("Cp"),
  (* C0 *) <<<<"RetConditional", "NonZero">>, <<"PopRr", "BC">>, <<"Jump", "NonZero">>, <<"Jump", "Always">>,
             <<"Call", "NonZero">>, <<"PushRr", "BC">>, <<"MathN8", "Add">>, <<"Rst", \h00>>>>,
  (* C8 *) <<<<"RetConditional", "Zero">>, <<"Ret">>, <<"Jump", "Zero">>, Unimplemented,
             <<"Call", "Zero">>, <<"Call", "Always">>, <<"MathN8", "Adc">>, <<"Rst", \h08>>>>,
  (* D0 *) <<<<"RetConditional", "NonCarry">>, <<"PopRr", "DE">>, <<"Jump", "NonCarry">>, Illegal,
             <<"Call", "NonCarry">>, <<"PushRr", "DE">>, <<"MathN8", "Sub">>, <<"Rst", \h10>>>>,
  (* D8 *) <<<<"RetConditional", "Carry">>, <<"RetI">>, <<"Jump", "Carry">>, Illegal,
             <<"Call", "Carry">>, Illegal, <<"MathN8", "Sbc">>, <<"Rst", \h18>>>>,
  (* E0 *) <<<<"LoadIndirectA8FromA">>, <<"PopRr", "HL">>, <<"LoadIndirectCFromA">>, Illegal,
             Illegal, <<"PushRr", "HL">>, <<"MathN8", "And">>, <<"Rst", \h20>>>>,
  (* E8 *) <<Unimplemented, <<"JumpHl">>, <<"LoadIndirectA16FromA">>, Illegal,
             Illegal, Illegal, <<"MathN8", "Xor">>, <<"Rst", \h28>>>>,
  (* F0 *) <<<<"LoadAFromIndirectA8">>, <<"PopRr", "AF">>, <<"LoadAFromIndirectC">>, <<"Di">>,
             Illegal, <<"PushRr", "AF">>, <<"MathN8", "Or">>, <<"Rst", \h30>>>>,
  (* F8 *) <<<<"LoadSPFromHlPlusE8">>, <<"LoadReg16Reg16", "SP", "HL">>, <<"LoadAFromIndirectA16">>, <<"Ei">>,
             Illegal, Illegal, <<"MathN8", "Cp">>, <<"Rst", \h38>>>> >>

OpcodeHandlers == [opcode \in Byte |-> Octets[1 + (opcode \div 8)][1 + (opcode % 8)]]

\* The coroutines an opcode can create.
Handlers == {OpcodeHandlers[opcode] : opcode \in Byte} \ Throwing
=============================================================================
