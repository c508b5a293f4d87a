SPECIFICATION FairSpec
CONSTANTS
  StreamLen = 6
  MaxLen = 3
  MaxLoads = 3
  HeapSize = 9
INVARIANTS
  TypeOK
  ExactBytes
  HeldIsOwned
  NothingHeld
  EOFErrorTakesNothing
  Released
PROPERTIES
  KeepsContract
  ReadEnds
CHECK_DEADLOCK FALSE
