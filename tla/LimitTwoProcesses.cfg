SPECIFICATION Spec
CONSTANTS
  Processes = {p1, p2}
  MaxRequests = 2
  Window = 3
  MaxDelay = 0
  LastTick = 6
CHECK_DEADLOCK FALSE
INVARIANT NeverOverLimit
