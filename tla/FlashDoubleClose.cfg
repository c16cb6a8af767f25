SPECIFICATION Spec
CONSTANTS
  NumUnits = 8
  SectorSize = 4
  BufSize = 2
  MaxSize = 3
  MaxCalls = 4
  Contiguous = TRUE
  PageErase = {TRUE}
  Toggles = FALSE
INVARIANTS ClosesInterfaceOnce
CHECK_DEADLOCK FALSE
