SPECIFICATION Spec
CONSTANTS
  i1 = i1
  i2 = i2
  Intents <- TwoIntents
  Cap <- AllPay
  Prices <- TwoPrices
  MaxPending = 1
  MaxInclusions = 2
  Reorgs = FALSE
  MaxClock = 0
  MaxSent = 2
  MaxFaults = 0
INVARIANT HistoryAnswers
CHECK_DEADLOCK FALSE
