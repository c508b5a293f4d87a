SPECIFICATION FairSpec
CONSTANTS
  Retries = 1
  BaseDelay = 3
  TailLen = 2
  Decoder = "c"
  MaxCalls = 1
  MaxConns = 2
PROPERTIES
  CallTerminates
CHECK_DEADLOCK FALSE
