SPECIFICATION Spec
CONSTANTS
  i1 = i1
  i2 = i2
  i3 = i3
  alice = alice
  bob = bob
  wallet = wallet
  foreigner = foreigner
  Intents <- ThreeIntents
  From <- Owners
  Data <- Datas
  Wallet = wallet
  Foreigner = foreigner
  ForeignInputs <- Inputs
  ForeignBlobs <- OneOrTwo
  ElementLen = 2
  Elements = 3
  LenBase = 3
  LenDigits = 2
  GenesisTime = 5
  SecondsPerSlot = 12
  MaxBlobs = 3
  LongAt = 8
  MinBlobGasPrice = 1
  UpdateFraction = 1
  TargetBlobGas = 1
  MaxTxs = 2
  MaxBlocks = 3
  MaxSlot = 2
INVARIANTS ServedOwnData ExtractsOwnData IncludableNext
PROPERTY NodeAgrees
CHECK_DEADLOCK FALSE
