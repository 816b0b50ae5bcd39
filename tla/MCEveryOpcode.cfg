SPECIFICATION Spec
CONSTANTS
  Programs <- MCPrograms
  RamEnd   <- MCRamEnd
  RomFill  <- MCRomFill
INVARIANTS
  TypeOK
  FlagsLowNibbleZero
  ReportedOpcode
