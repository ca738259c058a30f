SPECIFICATION FairSpec
CONSTANTS
  Purchases = {u1}
  Bodies = {usd, eur}
  Callers = {c1, c2}
  NoKey = NoKey
  MAX_RETRIES = 2
  LastMinute = 2
  MaxCalls = 3
  MaxFaults = 2
CHECK_DEADLOCK FALSE
INVARIANTS
  OverlapBoundsDuplicates
  UntoldChargesNeedFaults
PROPERTY EveryCallReturns
