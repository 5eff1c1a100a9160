SPECIFICATION SumSpec
CONSTANTS
  None = None
  Process = {s1, s2}
  MaxMinute = 1
  Due = {0, 1}
  Window = 1
  MaxStarts = 2
  MaxEdits = 1
  Agent = {1, 2, 3}
  Lead = 1
  Newcomer = 2
  Foreign = {3}
  Terminal = {1}
  Capacity = 1
  QueueCap = 1
  MaxChanges = 2
INVARIANTS QuietOnceStopped NeverGoesBack BlankOnlyWhenUndone ActsAsAsked
SYMMETRY Symmetry
CHECK_DEADLOCK FALSE
