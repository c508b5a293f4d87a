SPECIFICATION Spec
CONSTANTS
  Retries = 1
  BaseDelay = 3
  TailLen = 2
  Decoder = "py"
  MaxCalls = 1
  MaxConns = 2
INVARIANTS
  ResultWhole
CHECK_DEADLOCK FALSE
