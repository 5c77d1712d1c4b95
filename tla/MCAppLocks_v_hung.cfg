SPECIFICATION Spec
CONSTANTS
  Tasks <- FourKinds
  Kind <- OnItself
INVARIANTS NeverHung
CHECK_DEADLOCK FALSE
