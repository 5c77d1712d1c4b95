SPECIFICATION Spec
CONSTANTS
  s1 = s1
  alice = alice
  bob = bob
  Senders <- OneSender
  Users <- OneUser
  Prices <- TwoPrices
  GenesisPrice <- LowPrice
  TopFee = 9
  PartChoices <- NoParts
  TopupChoices <- NoTopups
  Fees <- Fees2
  MaxBlocks = 4
  MaxNews = 1
  Depth = 1
  MaxPending = 1
  MaxSent = 3
  MaxFaults = 1
INVARIANTS OnePerSlot NoStaleInclusion NonceHeld RepricedHasRival
PROPERTIES DroppedTxsPend
CHECK_DEADLOCK FALSE
