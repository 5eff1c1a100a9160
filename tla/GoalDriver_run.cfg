SPECIFICATION Spec
CONSTANTS
  Session = {s1, s2}
  Creator = s1
  None = None
  Budget = 2
  MaxTurns = 2
  MaxRuns = 2
  MaxEdits = 1
  MaxHooks = 2
  MaxEvents = 1
  Operations = {"edit", "pause", "stop", "steer", "clear", "block", "complete", "shutdown", "turn", "late", "crash"}
INVARIANT SentOnce
PROPERTIES CompletionIsCurrent LostDriverEnds
CHECK_DEADLOCK FALSE
