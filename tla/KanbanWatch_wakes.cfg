SPECIFICATION Spec
CONSTANTS
  MaxInjects = 3
  MaxLines = 4
INVARIANT WakesOnlyForOthers
CHECK_DEADLOCK FALSE
