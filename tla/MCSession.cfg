SPECIFICATION SumSpec
CONSTANTS
  None = None
  a = a
  b = b
  Sender = {a, b}
  Msg <- Messages
  Corrupt <- Unreadable
  Uuid <- SecondFirst
  MaxClock = 1
  Keep = 1
  MaxPokeRetries = 1
  MaxLost = 2
  MaxThrows = 1
  MaxUserTurns = 1
  Command = {c1, c2}
  MaxYields = 1
  Ttl = 1
  MaxTime = 1
  MaxFailures = 2
  MaxResets = 1
  MaxEnds = 1
  MaxRuns = 1
  Path <- Paths
  Parent <- Parents
  Link <- Links
  Config <- Configs
  file = file
  folder = folder
  child = child
  Loader = {l1}
  Inode = {i1, i2}
  MaxPending = 1
  MaxBytes = 1
  MaxChanges = 3
INVARIANTS AtLeastOnce PromptIsTrue RunsBoosted NoChangeIsStuck HashIsWhole
PROPERTIES ImplementsInbox  EventuallyRestored
CHECK_DEADLOCK FALSE
