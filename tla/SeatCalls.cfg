SPECIFICATION FairSpec
CONSTANTS
  s1 = s1
  s2 = s2
  Seats = {s1, s2}
  Reservations = {r1, r2}
  NoReservation = NoReservation
  SeatLists <- TwoSeats
  Sessions = {p1, p2}
  LockTTL = 1
  PendingExpiry = 2
  MaxCheckouts = 1
  MaxCrashes = 1
INVARIANTS
  ConflictReleasesAll
  CleanupNeverFreesOwnLock
  GracePeriodKept
PROPERTIES
  ConfirmedInTimeIsFinal
  EveryPendingTicketSettles
  EverySessionReturns
