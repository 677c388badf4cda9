SPECIFICATION Spec
CONSTANTS
  Stages = 1
  MaxTargets = 1
  Buffer = 1
CHECK_DEADLOCK FALSE
INVARIANTS KeyCancelExitsZero
