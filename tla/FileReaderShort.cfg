CONSTANTS
  StreamLen = 8
  MaxLen = 4
  MaxLoads = 3
  Big = 2
  Little = 2
SPECIFICATION Spec
INVARIANT ExactBytes
CHECK_DEADLOCK FALSE
