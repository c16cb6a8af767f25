SPECIFICATION FairSpec
CONSTANTS
  Slots = {s1}
  AssertSlot = s1
  NoFile = NoFile
  NoName = NoName
  BinNames = {}
  HexNames = {}
  OtherNames = {"R.TXT"}
  CommandNames = {"MODE.ACT", "ASSERT.ACT", "MSD_ON.CFG", "MSD_OFF.CFG", "REFRESH.ACT"}
  SectorSize = 1
  NumSectors = 1
  FirstSectors = {1}
  FileSizes = {0}
  DisconnectDelay = 0
  TransferTimeout = 0
  ReconnectDelay = 0
  MaxEventTime = 1
  Automation = FALSE
  Images = {"interface", "bootloader"}
  VendorCommands = TRUE
  OtherAsserts = TRUE
INVARIANTS NoAssertFails StreamOwned DriveConsistent
PROPERTIES CommandsRemount
CHECK_DEADLOCK FALSE
