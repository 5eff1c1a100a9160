SPECIFICATION SumSpec
CONSTANTS
  None = None
  Run = {r1}
  Protocols = {"consult", "debate", "research"}
  Member = {1, 2}
  MaxLoops = 2
  MaxMoves = 1
  Principal = {p1}
  MaxGen = 2
  Native = {n1, n2}
  Title = {x}
  Taken = {}
  Key = {k1}
  Text = {t1}
  Message = {m1}
  Call = {c1, c2}
  MaxFaults = 1
  MaxCalls = 3
  Watched = {p1, x1}
  Mailboxes = {x1}
  Threshold = 2
  MaxInjects = 1
  MaxChanges = 2
INVARIANTS OncePerKey ReplayAgrees StoppedIsNotCompleted StalledIsSound
PROPERTIES StopEndsRun
CHECK_DEADLOCK FALSE
