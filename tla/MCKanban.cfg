SPECIFICATION SumSpec
CONSTANTS
  Agent = {a1, me}
  Operator = me
  None = None
  MaxId = 2
  WipLimit = 1
  Gate = TRUE
  RequireEvidence = TRUE
  MaxTears = 1
  Order <- TwoTasks
  Columns <- TwoColumns
  Query <- FirstTask
  MaxChanges = 2
  Call = {l1, l2}
  Inode = {i1, i2}
  MaxRetries = 2
INVARIANTS WipBound ClaimedIsInProgress CompactionKeepsWork ActsOnItsTask
PROPERTIES OwnerCompletes OutageEnds EveryCallEnds
CHECK_DEADLOCK FALSE
