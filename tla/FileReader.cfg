CONSTANTS
  StreamLen = 8
  MaxLen = 4
  MaxLoads = 3
  Big = 2
  Little = 2
SPECIFICATION FairSpec
INVARIANTS
  TypeOK
  FitsTheBlock
  GoesOn
  EOFErrorAtTheEnd
  OneBlock
PROPERTIES
  KeepsContract
  ReadEnds
CHECK_DEADLOCK FALSE
