SPECIFICATION Spec
CONSTANTS
  Processes = {p1}
  MaxRequests = 1
  Window = 2
  MaxDelay = 0
  LastTick = 6
CHECK_DEADLOCK FALSE
PROPERTY DroppedOnlyAfterSends
