SPECIFICATION Spec
CONSTANTS
  paid = paid
  dispute = dispute
  other = other
  Events = {paid, dispute, other}
  Type <- TypeOf
  Workers = {w1, w2}
  Tolerance = 1
  ProcessedTTL = 4
  RetryWindow = 1
  Skew = 1
  MaxInFlight = 2
  MaxFaults = 1
  MaxCrashes = 1
SYMMETRY Symmetry
INVARIANTS
  AckedIsDone
  RepeatsAreAccountedFor
PROPERTY MarkedIsNeverRedone
