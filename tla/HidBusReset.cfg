SPECIFICATION Spec
CONSTANTS
  DAP_PACKET_COUNT = 2
  Window = 2
  MaxRequests = 5
  Hosts = {"resetting"}
  IdleRate = FALSE
  MaxResets = 1
INVARIANTS NeverAsserts
CHECK_DEADLOCK FALSE
