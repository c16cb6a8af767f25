SPECIFICATION FairSpec
CONSTANTS
  Size = 5
  RX_OVRF_MSG_SIZE = 2
  Chunk = 3
  Detect = {FALSE, TRUE}
  MaxBytes = 6
INVARIANTS TypeOK NeverAsserts NothingLostToLine KeepsOrder
PROPERTIES NoSilentLoss LineServed
CHECK_DEADLOCK FALSE
