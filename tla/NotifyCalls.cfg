SPECIFICATION FairSpec
CONSTANTS
  Mails = {m1}
  MAX_RETRY_ATTEMPTS = 4
  Numbers = {n1}
  Processes = {p1, p2}
  CacheTTL = 2
  MaxDelay = 1
  MaxCount = 6
  MaxChanges = 2
INVARIANTS
  DuplicatesNeedLostAnswers
  GivenUpAfterAllAttempts
  CachedAnswerIsRecent
PROPERTY EveryMailEnds
