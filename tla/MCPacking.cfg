SPECIFICATION FairSpec
CONSTANTS
  Lens <- SomeLens
  MaxPrices <- SomePrices
  Costs <- SomeCosts
  MaxLen = 6
  BlobLen = 8
  BruteForceBelow = 4
  MaxCount = 4
INVARIANTS BruteForceOptimal KnapsackAgrees GreedyFills BlobPaid ChargeNearMax
PROPERTIES Terminates
CHECK_DEADLOCK FALSE
