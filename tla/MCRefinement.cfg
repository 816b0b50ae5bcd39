SPECIFICATION HSpec
CONSTANTS
  Programs <- RefinementPrograms
  RamEnd   <- MCRamEnd
  RomFill  <- MCRomFill
INVARIANTS
  InstructionUnderway
PROPERTIES
  ImplementsIsa
