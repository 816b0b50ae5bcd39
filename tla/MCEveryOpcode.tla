--------------------------- MODULE MCEveryOpcode ---------------------------
(***************************************************************************)
(* Every opcode, executed on register contents, operands and memory chosen *)
(* for their edges.  A program first loads the registers, through the      *)
(* stack for AF, and then executes the one opcode.                         *)
(***************************************************************************)
EXTENDS Cpu

Place(address, bytes) ==
  [a \in address .. (address + Len(bytes) - 1) |-> bytes[1 + a - address]]

LoadWord(op, w) == <<op, Low(w), High(w)>>

\* LD SP; LD BC; PUSH BC; POP AF; then LD BC, DE, HL and SP.
Prefix(d) ==
  LoadWord(\h31, \hC006) \o LoadWord(\h01, d.af) \o <<\hC5, \hF1>>
  \o LoadWord(\h01, d.bc) \o LoadWord(\h11, d.de) \o LoadWord(\h21, d.hl) \o LoadWord(\h31, d.sp)

\* The opcodes whose operand is an address to jump to.
Jumps == {\hC2, \hC3, \hC4, \hCA, \hCC, \hCD, \hD2, \hD4, \hDA, \hDC}

Program(d, op) ==
  Place(\h0100, Prefix(d) \o LoadWord(op, IF op \in Jumps THEN d.target ELSE d.operand))

Data == {
  [af |-> \h0F00, bc |-> \h0100, de |-> \hC003, hl |-> \hC000, sp |-> \hC004, operand |-> \hC001, target |-> \h4000],
  [af |-> \hF0FF, bc |-> \hC010, de |-> \hFF7F, hl |-> \hFFFF, sp |-> \h0001, operand |-> \hBFFF, target |-> \hFFFF],
  [af |-> \h80B0, bc |-> \h7F80, de |-> \h00FF, hl |-> \h0101, sp |-> \hFFFE, operand |-> \hC007, target |-> \h0000],
  [af |-> \h0010, bc |-> \hFF01, de |-> \h10EF, hl |-> \h7FFF, sp |-> \hC001, operand |-> \hFFFF, target |-> \h7FFE],
  [af |-> \hFF80, bc |-> \h0FF0, de |-> \hC007, hl |-> \hC003, sp |-> \hC007, operand |-> \h0080, target |-> \h0105],
  [af |-> \h3C40, bc |-> \h3C3D, de |-> \h3BC4, hl |-> \hFFFC, sp |-> \hFFFF, operand |-> \hFFFE, target |-> \hFFFD] }

MCPrograms == {Program(d, op) : d \in Data, op \in Byte}

MCRamEnd  == \hC007
MCRomFill == \h76
=============================================================================
