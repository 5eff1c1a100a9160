SPECIFICATION SumSpec
CONSTANTS
  Agent = {a1, a2}
  Lead = a1
  Label = {"lead", "desk"}
  Profiles <- LeadAndOther
  None = None
  External = {e1}
  MaxSuffix = 2
  MaxEvents = 2
  Child = {c1, c2}
  Name = {"x"}
  Faults = {"stdin", "overflow"}
  Window = 1
  Call = {l1, l2, l3}
  Inode = {i1, i2}
  MaxRetries = 1
  ForeignRemoval = FALSE
INVARIANTS MutualExclusion NoneLeftRunning SilentEndIsReported
PROPERTIES ImplementsLockService LabelStaysWithItsLead LabelReachesItsLead DeadAreCleared SessionGoesDown
CHECK_DEADLOCK FALSE
