------------------------------ MODULE Emulator ------------------------------
(***************************************************************************)
(* main(): its argument, the cartridge that is loaded from it, the devices *)
(* on the bus, the CPU's loop, and every way out of the program.           *)
(*                                                                         *)
(* The cartridge is constructed before the try block: what its constructor *)
(* throws leaves main(), and the program is terminated.                    *)
(***************************************************************************)
EXTENDS Cpu

CONSTANTS
  Files,   \* what the ROM file may contain
  Absent   \* a path that cannot be opened

VARIABLES
  argc,                                             \* of main()
  file, stage, diskRomSize, romData, error, disturbed,  \* of CartridgeLoading
  phase,   \* how far main() has come
  outcome  \* how the program has ended, or "none"

loadVars == <<file, stage, diskRomSize, romData, error, disturbed>>
emulatorVars == <<vars, loadVars, argc, phase, outcome>>

Loading == INSTANCE CartridgeLoading WITH Fill <- RomFill

\* What the bus reaches of the data of a cartridge.
Image(data) == [a \in DOMAIN data.bytes \cap (0 .. RomEnd) |-> data.bytes[a]]

ASSUME EmulatorAssumption ==
  /\ \A f \in Files : /\ f.size \in Nat
                      /\ f.bytes \in [DOMAIN f.bytes -> Byte]
                      /\ Image(f) \in Programs
  /\ Absent \notin Files

\* Until the devices exist, the CPU's variables hold what they will hold.
EmulatorInit ==
  /\ argc \in 1 .. 3
  /\ Loading!Init
  /\ rom = Image(romData)
  /\ ram = [a \in RamAddress |-> 0]
  /\ PowerUp
  /\ phase = "arguments"
  /\ outcome = "none"

-----------------------------------------------------------------------------
Running(p) == phase = p /\ outcome = "none"

End(how) == outcome' = how /\ UNCHANGED phase

CheckArguments ==
  /\ Running("arguments")
  /\ IF argc # 2 THEN End("usage") ELSE phase' = "loading" /\ UNCHANGED outcome
  /\ UNCHANGED <<vars, loadVars, argc>>

Load ==
  /\ Running("loading")
  /\ Loading!LoadRomData
  /\ UNCHANGED <<vars, argc, phase, outcome>>

\* The constructor has thrown.
Terminate ==
  /\ Running("loading") /\ stage = "failed"
  /\ End("terminated")
  /\ UNCHANGED <<vars, loadVars, argc>>

\* Faulty: what the constructor has thrown is caught and the loop entered.
ConstructAnyway ==
  /\ Running("loading") /\ stage \in {"loaded", "failed"}
  /\ rom' = Image(romData)
  /\ phase' = "stepping"
  /\ UNCHANGED <<ram, reg, ime, ir, handler, status, loadVars, argc, outcome>>

\* Cartridge, Ram, AddressBus and Cpu exist.
Construct ==
  /\ Running("loading") /\ stage = "loaded"
  /\ rom' = Image(romData)
  /\ phase' = "stepping"
  /\ UNCHANGED <<ram, reg, ime, ir, handler, status, loadVars, argc, outcome>>

StepCpu ==
  /\ Running("stepping")
  /\ Step
  /\ UNCHANGED <<loadVars, argc, phase, outcome>>

\* Faulty: the try block is inside the loop.
CatchInLoop ==
  /\ Running("stepping") /\ status = "threw"
  /\ UNCHANGED emulatorVars

Catch ==
  /\ Running("stepping") /\ status = "threw"
  /\ End("exit")
  /\ UNCHANGED <<vars, loadVars, argc>>

Main == CheckArguments \/ Load \/ Terminate \/ Construct \/ StepCpu \/ Catch

RewriteFile ==
  /\ Loading!Rewrite
  /\ UNCHANGED <<vars, argc, phase, outcome>>

Ended == outcome # "none" /\ UNCHANGED emulatorVars

EmulatorNext == Main \/ RewriteFile \/ Ended

EmulatorSpec == EmulatorInit /\ [][EmulatorNext]_emulatorVars /\ WF_emulatorVars(Main)

-----------------------------------------------------------------------------
(* Each way out of main() has its own cause (main.cpp:35-62).  The usage  *)
(* is printed before any file is opened; the program is terminated by the *)
(* loading, before the CPU exists; and it exits because of an opcode that *)
(* has no handler, which came from a ROM that was valid.                  *)
WaysOut ==
  /\ outcome = "usage" => argc # 2 /\ stage = "open"
  /\ outcome = "terminated" => error # "none" /\ handler = Created(Noop) /\ rom = <<>>
  /\ outcome = "exit" => Loading!IsRom(romData) /\ OpcodeHandlers[ir] \in Throwing

(* Whatever the program does, and whoever rewrites the file meanwhile, the *)
(* CPU reads at 0000-7FFF the bytes of the data that was validated: no     *)
(* write reaches the cartridge, and the RAM, whose answers are or-ed into  *)
(* the cartridge's, is silent there (address_bus.cpp:20-36, ram.cpp:11-27, *)
(* cartridge.cpp:132-144).                                                 *)
CpuReadsTheLoadedRom ==
  phase = "stepping" =>
    /\ Loading!IsRom(romData)
    /\ \A a \in DOMAIN romData.bytes \cap (0 .. RomEnd) : BusRead(a) = romData.bytes[a]

(* A program that is not in its loop for good comes to an end: what is    *)
(* thrown, by the loading or by a Step(), ends it (main.cpp:43-62).       *)
ExceptionsEndIt == (error # "none" \/ status = "threw") ~> outcome # "none"
=============================================================================
