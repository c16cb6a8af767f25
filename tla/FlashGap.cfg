SPECIFICATION Spec
CONSTANTS
  NumUnits = 8
  SectorSize = 4
  BufSize = 2
  MaxSize = 3
  MaxCalls = 4
  Contiguous = FALSE
  PageErase = {FALSE}
  Toggles = FALSE
INVARIANTS ImageWritten
CHECK_DEADLOCK FALSE
