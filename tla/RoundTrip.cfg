CONSTANTS
  Objects <- MCObjects
  Sorted <- MCSorted
  Depth <- MCDepth
  Sinks = {"none", "object", "file"}
SPECIFICATION Spec
INVARIANTS
  PassesAgree
  DumpsReleases
  DumpIsWhole
  RoundTripHolds
  PrefixRefused
  SameAsPython
PROPERTY FailsBeforeWriting
CHECK_DEADLOCK FALSE
