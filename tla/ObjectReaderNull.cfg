SPECIFICATION Spec
CONSTANTS
  StreamLen = 6
  MaxLen = 3
  MaxLoads = 3
  HeapSize = 9
INVARIANTS
  NullIsError
CHECK_DEADLOCK FALSE
