SPECIFICATION Spec
CONSTANTS
  Purchases = {u1}
  Bodies = {usd, eur}
  Callers = {c1, c2}
  NoKey = NoKey
  MAX_RETRIES = 3
  LastMinute = 1
  MaxCalls = 2
  MaxFaults = 1
CHECK_DEADLOCK FALSE
INVARIANTS
  OneIntentPerPurchase
  NoBodyMismatch
  FailedMeansUnpaid
