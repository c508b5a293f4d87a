SPECIFICATION Spec
CONSTANTS
  Decoders = {"c loads", "c load", "py"}
  MaxTokens = 5
INVARIANTS
  TypeOK
  
  RefusesOnlyBadInput
  CountsBytes
CONSTRAINT WithinBounds
CHECK_DEADLOCK FALSE
