SPECIFICATION Spec
CONSTANTS
  NumRegions = 2
  SingleInit = {2}
  SkipChipErase = {}
  Verifies = {1}
  SmallBuffer = {1}
  EraseReset = {TRUE}
INVARIANTS TypeOK AlgorithmReady BusyTells
PROPERTIES SuccessIsWritten
