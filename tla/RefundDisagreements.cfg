SPECIFICATION Spec
CONSTANTS
  ChargeAmount = 2
  OriginalCurrency = "usd"
  Networks = {"mastercard", "amex", "unknown", "null"}
  Currencies = {"usd", "jpy"}
  Amounts = {0, 1}
  Rates <- MCRates
  Processes = {p1, p2}
  DaysPerTick = 10
  MaxRefunds = 2
  MaxLost = 1

INVARIANTS
  WholeChargeGoesBack
  NothingAskedNothingRefunded
  EveryCallerIsAnswered
  WarnedAfterTheWindowTold
  WarnedInBusinessDays
