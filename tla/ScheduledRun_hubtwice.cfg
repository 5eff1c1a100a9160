SPECIFICATION Spec
CONSTANTS
  Session = {s1, s2}
  Target = {s1, s2}
  MaxSlot = 1
  Gating = {TRUE}
  Continuation = TRUE
  RunBudget = 0
  Lookback = 2
  MaxHistory = 2
  HubResume = TRUE
INVARIANT AtMostOneSend
SYMMETRY Symmetry
CHECK_DEADLOCK FALSE
