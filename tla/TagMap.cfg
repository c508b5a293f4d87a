CONSTANTS
  Heaps <- MCHeaps
  ClassTags <- MCClassTags
  IsInstance <- MCIsInstance
  Depth <- MCDepth
  MaxRaises = 2
SPECIFICATION Spec
INVARIANTS
  TypeOK
  DecodesOnce
  ComesBack
PROPERTY CallerUntouched
CHECK_DEADLOCK FALSE
