SPECIFICATION Spec
CONSTANTS
  alice = alice
  r1 = r1
  Users <- OneUser
  Runs <- OneRun
  Wallet <- AllOfAlice
  Chunks <- TwoRounds
  Prices = {4, 6}
  Factor = 1250
  LowerBound = 10
  UpperBound = 20
  Limit = 2
  HistoryLimit = 1
  MaxTime = 3
  MaxRows = 2
  MaxFaults = 1
INVARIANT UndisturbedIsShown
CHECK_DEADLOCK FALSE
