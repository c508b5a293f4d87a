SPECIFICATION FairSpec
CONSTANTS
  Retries = 1
  BaseDelay = 3
  TailLen = 2
  Decoder = "py"
  MaxCalls = 3
  MaxConns = 4
INVARIANTS
  TypeOK
  ReaderOnCurrentSocket
  AnswerFromThisTry
  AtMostOncePerTry
  NoSpuriousFailure
  TotalWait
PROPERTIES
  KeepsService
  CallTerminates
CHECK_DEADLOCK FALSE
