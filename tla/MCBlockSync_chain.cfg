SPECIFICATION FairSpec
CONSTANTS
  s1 = s1
  alice = alice
  bob = bob
  Senders <- OneSender
  Users <- OneUser
  Prices <- OnePrice
  GenesisPrice <- LowPrice
  TopFee = 9
  PartChoices <- NoParts
  TopupChoices <- NoTopups
  Fees <- Fees1
  MaxBlocks = 6
  MaxNews = 2
  Depth = 2
  MaxPending = 2
  MaxSent = 0
  MaxFaults = 2
INVARIANTS ChainLinked AppliedOnce AnchorDeep
PROPERTIES ImplementsFinalityLog FollowsHead
CHECK_DEADLOCK FALSE
