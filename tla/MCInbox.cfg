SPECIFICATION SumSpec
CONSTANTS
  None = None
  Session = {s1, s2}
  Target = {s1}
  MaxSlot = 1
  Gating = {TRUE, FALSE}
  Continuation = TRUE
  RunBudget = 0
  Lookback = 2
  MaxHistory = 2
  HubResume = FALSE
  MaxEvents = 2
  Media = {1, 2}
  Untrusted = {}
  Unmentioned = {}
  Shared = {2}
  MaxActive = 2
  MaxPending = 1
  MaxDownloads = 1
  MaxWaiting = 1
  MaxBuffer = 1
  Burst = 2
  DropOldest = FALSE
  MaxStarts = 2
  MaxStale = 1
  MaxOthers = 1
INVARIANTS BufferedIsHeld DeliveredOnce SentAtMostOnce
PROPERTIES ApprovedBeforeFirstSend DecisionsAreFinal
CHECK_DEADLOCK FALSE
