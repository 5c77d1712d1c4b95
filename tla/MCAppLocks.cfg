SPECIFICATION FairSpec
CONSTANTS
  Tasks <- FourKinds
  Kind <- OnItself
INVARIANTS HangNeedsRequest
PROPERTIES Served
CHECK_DEADLOCK FALSE
