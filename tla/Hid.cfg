SPECIFICATION FairSpec
CONSTANTS
  DAP_PACKET_COUNT = 3
  Window = 3
  MaxRequests = 7
  Hosts = {"plain", "shared"}
  IdleRate = TRUE
  MaxResets = 1
INVARIANTS TypeOK NeverHangs AssertsOnlyAfterReset
PROPERTIES ImplementsService
CHECK_DEADLOCK FALSE
