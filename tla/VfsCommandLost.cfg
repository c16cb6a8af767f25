SPECIFICATION FairSpec
CONSTANTS
  Slots = {s1, s2}
  AssertSlot = s1
  NoFile = NoFile
  NoName = NoName
  BinNames = {"A.BIN"}
  HexNames = {}
  OtherNames = {}
  CommandNames = {"MODE.ACT"}
  SectorSize = 1
  NumSectors = 1
  FirstSectors = {1}
  FileSizes = {0}
  DisconnectDelay = 0
  TransferTimeout = 1
  ReconnectDelay = 0
  MaxEventTime = 2
  Automation = TRUE
  Images = {"interface"}
  VendorCommands = FALSE
  OtherAsserts = FALSE
PROPERTIES CommandsRemount
CHECK_DEADLOCK FALSE
