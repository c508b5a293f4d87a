SPECIFICATION Spec
CONSTANTS
  Retries = 1
  BaseDelay = 3
  TailLen = 2
  Decoder = "c"
  MaxCalls = 2
  MaxConns = 2
INVARIANTS
  ResultOfThisCall
CHECK_DEADLOCK FALSE
