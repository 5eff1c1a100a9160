----------------------------- MODULE LockService -----------------------------
(***************************************************************************)
(* What withAdvisoryLock (lib/file-lock.ts) promises its callers: fn runs  *)
(* only while the caller is the one holder, a caller that cannot hold      *)
(* gives up, and a holder that dies keeps the lock until somebody clears   *)
(* it by hand.  No retries, no inspection, no inodes.                      *)
(***************************************************************************)
CONSTANTS Call, None

VARIABLES holder,  \* the call that owns the lock, or None
          st       \* "out" before fn, "in" while owning, "over" or "dead" at the end

vars == <<holder, st>>

Init == holder = None /\ st = [c \in Call |-> "out"]

Move(c, from, to) == st[c] = from /\ st' = [st EXCEPT ![c] = to]

Acquire(c) == holder = None /\ Move(c, "out", "in") /\ holder' = c

LetGo(c) == holder = c /\ Move(c, "in", "over") /\ holder' = None

GiveUp(c) == Move(c, "out", "over") /\ UNCHANGED holder

Die(c) == (Move(c, "out", "dead") \/ Move(c, "in", "dead")) /\ UNCHANGED holder

Clear == /\ \E c \in Call : holder = c /\ st[c] = "dead"
         /\ holder' = None
         /\ UNCHANGED st

Next == Clear \/ \E c \in Call : Acquire(c) \/ LetGo(c) \/ GiveUp(c) \/ Die(c)

Spec == Init /\ [][Next]_<<holder, st>>
=============================================================================
