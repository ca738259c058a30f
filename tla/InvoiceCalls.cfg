SPECIFICATION InvoiceSpec
CONSTANTS
  b1 = b1
  b2 = b2
  p1 = p1
  p2 = p2
  Purchases = {b1, b2}
  UserSuffix <- MCSuffix
  Amount <- MCAmounts
  EventName <- MCNames
  Threads = {p1, p2}
  SecondsPerMonth = 1
  LastSecond = 1
  MaxCalls = 3
SYMMETRY MCSymmetry
INVARIANTS
  InvoiceTypeOK
  EnterpriseIsAscii
  AmountsReadBack
  LinksLeadToTheirNumber
CHECK_DEADLOCK FALSE
