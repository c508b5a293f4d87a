CONSTANTS
  Objects <- MCObjects
  Sorted <- MCSorted
  Depth <- MCDepth
  Sinks = {"none"}
SPECIFICATION Spec
INVARIANT IntsComeBack
CHECK_DEADLOCK FALSE
