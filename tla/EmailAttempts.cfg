SPECIFICATION Spec
CONSTANTS
  Mails = {m1}
  MAX_RETRY_ATTEMPTS = 4
  Numbers = {n1}
  Processes = {}
  CacheTTL = 2
  MaxDelay = 1
  MaxCount = 6
  MaxChanges = 0
INVARIANT FourAttempts
