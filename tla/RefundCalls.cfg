SPECIFICATION FairSpec
CONSTANTS
  ChargeAmount = 2
  OriginalCurrency = "usd"
  Networks = {"mastercard", "amex", "unknown", "null"}
  Currencies = {"usd", "jpy"}
  Amounts = {1}
  Rates <- MCRates
  Processes = {p1, p2}
  DaysPerTick = 10
  MaxRefunds = 2
  MaxLost = 1
INVARIANTS
  CallersAreTold
  EarlyWarningsNeedAFailedLookup
  ConversionWithinHalfUnit
PROPERTY EveryStuckRefundIsWarnedOf
