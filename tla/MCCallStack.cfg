SPECIFICATION CSSpec
CONSTANTS
  Programs <- MCPrograms
  RamEnd   <- MCRamEnd
  RomFill  <- MCRomFill
INVARIANTS
  StackIntact
PROPERTIES
  LastInFirstOut
