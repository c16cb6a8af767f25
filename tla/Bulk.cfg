SPECIFICATION FairSpec
CONSTANTS
  DAP_PACKET_COUNT = 3
  Window = 3
  MaxChunks = 3
  MaxRequests = 7
  Hosts = {"plain", "resetting"}
  MaxResets = 2
INVARIANTS TypeOK RingConsistent DroppedOnlyAfterCut NeverClobbered StrandedOnlyAfterCut
PROPERTIES ImplementsService
CHECK_DEADLOCK FALSE
