SPECIFICATION Spec
CONSTANTS
  Programs <- MCPrograms
  RamEnd   <- MCRamEnd
  RomFill  <- MCRomFill
PROPERTIES
  EnableIsDelayed
  PendingResolves
