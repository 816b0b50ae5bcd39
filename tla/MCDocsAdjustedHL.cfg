SPECIFICATION HSpec
CONSTANTS
  Programs <- MCPrograms
  RamEnd   <- MCRamEnd
  RomFill  <- MCRomFill
PROPERTIES
  LoadsFromAdjustedHL
