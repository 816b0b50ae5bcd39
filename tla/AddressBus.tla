----------------------------- MODULE AddressBus -----------------------------
(***************************************************************************)
(* The address bus and the two devices main() connects to it: the          *)
(* cartridge (a ROM at 0000-7FFF) and the work RAM at C000.  The bus       *)
(* broadcasts each write to every device and ORs what the devices read;    *)
(* a device ignores the addresses that are not its own.                    *)
(***************************************************************************)
EXTENDS Bytes

CONSTANTS
  Programs,  \* what a cartridge may hold: functions from ROM addresses to bytes
  RomFill,   \* the byte at the addresses a program says nothing of
  RamEnd     \* the last address of the RAM (DFFF in the code)

RomEnd   == \h7FFF
RamStart == \hC000

RamAddress == RamStart .. RamEnd

ASSUME BusAssumption ==
  /\ \A p \in Programs : p \in [DOMAIN p -> Byte] /\ DOMAIN p \subseteq 0 .. RomEnd
  /\ RomFill \in Byte
  /\ RamEnd \in RamStart .. \hDFFF

VARIABLES
  rom,  \* the cartridge's m_romData
  ram   \* the RAM's m_data

BusInit ==
  /\ rom \in Programs
  /\ ram = [a \in RamAddress |-> 0]

BusTypeOK ==
  /\ DOMAIN rom \subseteq 0 .. RomEnd
  /\ rom \in [DOMAIN rom -> Byte]
  /\ ram \in [RamAddress -> Byte]

CartridgeRead(a) == IF a > RomEnd        THEN 0
                    ELSE IF a \in DOMAIN rom THEN rom[a] ELSE RomFill

\* Faulty: the RAM answers at every address.
RamReadAnywhere(a) == ram[RamStart + (a % (RamEnd - RamStart + 1))]

RamRead(a) == IF a \in RamAddress THEN ram[a] ELSE 0

BusRead(a) == Or(CartridgeRead(a), RamRead(a))

\* The RAM's contents after a write; the cartridge ignores writes.
BusWrite(a, data) == IF a \in RamAddress THEN [ram EXCEPT ![a] = data] ELSE ram
=============================================================================
