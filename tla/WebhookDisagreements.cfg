SPECIFICATION Spec
CONSTANTS
  paid = paid
  dispute = dispute
  other = other
  Events = {paid, dispute}
  Type <- TypeOf
  Workers = {w1, w2}
  Tolerance = 1
  ProcessedTTL = 3
  RetryWindow = 1
  Skew = 0
  MaxInFlight = 2
  MaxFaults = 0
  MaxCrashes = 0
INVARIANTS
  CarriedOutOnce
  DisputeAlertsOps
