SPECIFICATION FairSpec
CONSTANTS
  NumUnits = 8
  SectorSize = 4
  BufSize = 2
  MaxSize = 5
  MaxCalls = 3
  Contiguous = FALSE
  PageErase = {FALSE, TRUE}
  Toggles = TRUE
INVARIANTS TypeOK ImageWrittenUnlessLost ProgramsErased InterfaceReleased
PROPERTIES CallsReturn
CHECK_DEADLOCK FALSE
