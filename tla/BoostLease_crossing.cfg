SPECIFICATION Spec
CONSTANTS
  Command = {c1}
  MaxYields = 2
  Ttl = 1
  MaxTime = 0
  MaxFailures = 0
  MaxResets = 0
  MaxEnds = 0
  MaxRuns = 1
INVARIANT ComesBack
CHECK_DEADLOCK FALSE
