SPECIFICATION FairSpec
CONSTANTS
  i1 = i1
  Intents <- OneIntent
  Periodic = {"push_metrics"}
  MaxDistance = 2
  MaxLag = 3
  MaxInterrupts = 1
PROPERTIES PostsAttempted PostsOffered InterruptEnds
CHECK_DEADLOCK FALSE
