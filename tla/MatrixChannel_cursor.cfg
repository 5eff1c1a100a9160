SPECIFICATION Spec
CONSTANTS
  None = None
  MaxEvents = 2
  Media = {1, 2}
  Untrusted = {}
  Unmentioned = {}
  Shared = {2}
  MaxActive = 2
  MaxPending = 1
  MaxDownloads = 1
  MaxWaiting = 1
  MaxBuffer = 1
  Burst = 2
  DropOldest = FALSE
  MaxStarts = 2
  MaxStale = 1
  MaxOthers = 1
INVARIANT RestartSkipsNothing
CHECK_DEADLOCK FALSE
