SPECIFICATION EmulatorSpec
CONSTANTS
  Files <- MCFiles
  Absent = Absent
  Programs <- MCPrograms
  RomFill = 211
  RamEnd <- MCRamEnd
INVARIANTS
  WaysOut
  CpuReadsTheLoadedRom
PROPERTY ExceptionsEndIt
