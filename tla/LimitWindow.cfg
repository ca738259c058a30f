SPECIFICATION Spec
CONSTANTS
  Processes = {p1, p2}
  MaxRequests = 2
  Window = 4
  MaxDelay = 1
  LastTick = 7
CHECK_DEADLOCK FALSE
SYMMETRY Symmetry
INVARIANTS
  NothingForgotten
  TimesWithinLimit
PROPERTY RefusedOnlyAtLimit
