SPECIFICATION Spec
CONSTANTS
  i1 = i1
  i2 = i2
  Intents <- OneIntent
  Cap <- AllPay
  Prices = {1, 2, 3}
  MaxPending = 2
  MaxInclusions = 2
  Reorgs = TRUE
  MaxClock = 1
  MaxSent = 2
  MaxFaults = 1
INVARIANTS IndexesAgree InclusionsStored FinalizedIsFinal CancelledStaysOut
PROPERTIES FetchesAll PublishedIsTold NotRebundled
CHECK_DEADLOCK FALSE
