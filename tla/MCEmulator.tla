----------------------------- MODULE MCEmulator -----------------------------
(***************************************************************************)
(* ROMs whose programs write to the RAM and over themselves, to the        *)
(* cartridge and where no device is, and end in an opcode without a        *)
(* handler: in the ROM, in the RAM, in the header, or never.  Some files   *)
(* hold no ROM.                                                            *)
(***************************************************************************)
EXTENDS Emulator, TLC

LOCAL INSTANCE Sequences

Place(address, code) ==
  [a \in address .. (address + Len(code) - 1) |-> code[1 + a - address]]

Rom(size, sizeCode, code) ==
  [size |-> size, bytes |-> Place(\h0148, <<sizeCode>>) @@ Place(\h0100, code)]

\* LD A, n; LD (C000), A; LD (0100), A; LD (C001), A; LD (FF00), A
Stores(n) == <<\h3E, n, \hEA, \h00, \hC0, \hEA, \h00, \h01, \hEA, \h01, \hC0, \hEA, \h00, \hFF>>

Endings == {
  <<\hD3>>,                \* an illegal opcode
  <<\hC3, \h00, \hC0>>,    \* JP C000, where the RAM holds what was stored
  <<\hC3, \h48, \h01>>,    \* JP 0148, the size code, and on through the header
  <<\h18, \hFE>>,          \* JR to itself
  <<\hC3, \hFF, \hBF>> }   \* JP BFFF, where no device answers, and on into the RAM

Codes == {Stores(n) \o e : n \in {\hED, \hFF}, e \in Endings}

MCFiles ==
  {Rom(\h8000, 0, c) : c \in Codes}
  \cup {Rom(s.size, s.code, Stores(\hED)) :
          s \in {[size |-> \h8001, code |-> 0], [size |-> \h10000, code |-> 1],
                 [size |-> \h100, code |-> 0], [size |-> \h8000, code |-> 9]}}

MCPrograms == {Image(f) : f \in MCFiles}
MCRamEnd   == \hC001
=============================================================================
