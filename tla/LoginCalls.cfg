SPECIFICATION LoginFairSpec
CONSTANTS
  Users = {u1}
  Addresses = {a1, a2}
  Servers = {p1, p2}
  LOGIN_RATE_LIMIT = 2
  LOGIN_RATE_WINDOW = 2
  MaxCrashes = 1
INVARIANTS
  CountBounded
  SessionsGetAnEnd
PROPERTY EveryLockoutEnds
