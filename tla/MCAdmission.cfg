SPECIFICATION SpecAdmission
CONSTANTS
  p1 = p1
  p2 = p2
  alice = alice
  Posts <- TwoPosts
  Users <- OneUser
  Owner <- AllOfAlice
  Nonce <- SameNonce
  PostLen <- Lens
  MaxPrice <- MaxPrices
  Deposit <- Paid
  MaxDataSize = 3
  MaxUserLen = 3
  ChunkLen = 2
  MinCharged = 2
  MaxNonce = 1
  Intents <- ThreeIntents
  Cap <- CapOfPost
  Prices = {1, 2}
  MaxPending = 1
  MaxInclusions = 2
  Reorgs = TRUE
  MaxClock = 0
  MaxSent = 2
  MaxFaults = 1
CONSTRAINT Explored
INVARIANTS ReplayProtected StoredWhole LimitSeesPool
CHECK_DEADLOCK FALSE
