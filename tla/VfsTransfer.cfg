SPECIFICATION FairSpec
CONSTANTS
  Slots = {s1, s2}
  AssertSlot = s1
  NoFile = NoFile
  NoName = NoName
  BinNames = {"A.BIN"}
  HexNames = {}
  OtherNames = {}
  CommandNames = {}
  SectorSize = 2
  NumSectors = 2
  FirstSectors = {1, 2}
  FileSizes = {0, 3}
  DisconnectDelay = 0
  TransferTimeout = 1
  ReconnectDelay = 0
  MaxEventTime = 2
  Automation = TRUE
  Images = {"interface"}
  VendorCommands = FALSE
  OtherAsserts = FALSE
INVARIANTS TypeOK NoAssertFails StreamOwned
PROPERTIES VerdictFinal DetachesOnlyWhenQuiet SuccessIsComplete TransfersConclude
CHECK_DEADLOCK FALSE
