SPECIFICATION Spec
CONSTANTS
  s1 = s1
  alice = alice
  bob = bob
  Senders <- OneSender
  Users <- TwoUsers
  Prices <- TwoPrices
  GenesisPrice <- LowPrice
  TopFee = 9
  TopupValue = 5
  PartChoices <- SomeParts
  TopupChoices <- SomeTopups
  Fees <- Fees2
  MaxBlocks = 4
  MaxNews = 1
  Depth = 1
  MaxPending = 1
  MaxSent = 2
  MaxFaults = 1
INVARIANTS ExactWithoutRepeats
PROPERTIES InclusionNeverCharges ReorgNeverCredits
CHECK_DEADLOCK FALSE
