---------------------------- MODULE AdvisoryLock ----------------------------
(***************************************************************************)
(* The advisory file lock of lib/file-lock.ts.  Every call of              *)
(* withAdvisoryLock(target, fn) on one target competes for the file        *)
(* "<target>.lock".  A call publishes its owner metadata by hard-linking a *)
(* private temporary file onto the lock path; a call that finds the path   *)
(* taken inspects what is there (lstat, then open), and retries or gives   *)
(* up; a call that ran fn inspects the path twice and removes it.          *)
(*                                                                         *)
(* A step is one file system operation on the shared path together with    *)
(* the operations on files only this call can reach.  The steps of all     *)
(* calls interleave: they may be in different processes.                   *)
(***************************************************************************)
EXTENDS Naturals

CONSTANTS Call,        \* the calls of withAdvisoryLock; a call has its own ownerId (a random UUID)
          Inode,       \* inode numbers of the file system, reused once free
          MaxRetries,  \* options.maxRetries
          ForeignRemoval, \* may the lock file be deleted by hand while its owner runs?
          None         \* no file at the lock path

ASSUME LockAssumption == /\ MaxRetries \in Nat
                         /\ ForeignRemoval \in BOOLEAN
                         /\ None \notin Call
                         /\ None \notin Inode

VARIABLES lock,     \* the file at lockPath: its inode and the owner written in it
          pc,       \* where each call is
          temp,     \* inode of the call's temporary file
          mine,     \* inode of the lock the call published (acquiredIdentity)
          seen,     \* inode the call's last lstat of lockPath returned (pathStat)
          retries   \* local variable of withAdvisoryLock

vars == <<lock, pc, temp, mine, seen, retries>>

NoLock == [owner |-> None, ino |-> None]

\* "changed" and "held" are the two errors that end a call without running fn.
Ended   == {"done", "held", "changed", "crashed"}
Waiting == {"create", "link", "lstat", "open"}
Release == {"lstat1", "open1", "lstat2", "open2", "rm"}
Owning  == {"fn"} \cup Release

TypeOK ==
  /\ lock \in [owner : Call, ino : Inode] \cup {NoLock}
  /\ pc \in [Call -> {"idle"} \cup Waiting \cup Owning \cup Ended]
  /\ temp \in [Call -> Inode \cup {None}]
  /\ mine \in [Call -> Inode \cup {None}]
  /\ seen \in [Call -> Inode \cup {None}]
  /\ retries \in [Call -> 0 .. MaxRetries]

Init ==
  /\ lock = NoLock
  /\ pc = [c \in Call |-> "idle"]
  /\ temp = [c \in Call |-> None]
  /\ mine = [c \in Call |-> None]
  /\ seen = [c \in Call |-> None]
  /\ retries = [c \in Call |-> 0]

Goto(c, from, to) == pc[c] = from /\ pc' = [pc EXCEPT ![c] = to]

\* An inode number is free when no path leads to it.
FreeInode == Inode \ ({lock.ino} \cup {temp[c] : c \in Call})

Start(c) == Goto(c, "idle", "create") /\ UNCHANGED <<lock, temp, mine, seen, retries>>

\* open(tempPath, "wx") and writeFile: a new private file.
CreateTemp(c) ==
  /\ Goto(c, "create", "link")
  /\ \E i \in FreeInode : temp' = [temp EXCEPT ![c] = i]
  /\ UNCHANGED <<lock, mine, seen, retries>>

\* Mistake: publishing with rename(), which replaces what is there.
LinkByRename(c) ==
  /\ Goto(c, "link", "fn")
  /\ lock' = [owner |-> c, ino |-> temp[c]]
  /\ mine' = [mine EXCEPT ![c] = temp[c]]
  /\ temp' = [temp EXCEPT ![c] = None]
  /\ UNCHANGED <<seen, retries>>

\* link(tempPath, lockPath) is atomic: it creates the path or fails with EEXIST.
Link(c) ==
  \/ /\ lock = NoLock
     /\ Goto(c, "link", "fn")
     /\ lock' = [owner |-> c, ino |-> temp[c]]
     /\ mine' = [mine EXCEPT ![c] = temp[c]]
     /\ temp' = [temp EXCEPT ![c] = None]
     /\ UNCHANGED <<seen, retries>>
  \/ /\ lock # NoLock
     /\ Goto(c, "link", "lstat")
     /\ UNCHANGED <<lock, temp, mine, seen, retries>>

\* The lock vanished under the inspection ("missing"): try again, counting no retry.
Missing(c, from) ==
  /\ lock = NoLock
  /\ Goto(c, from, "create")
  /\ temp' = [temp EXCEPT ![c] = None]
  /\ UNCHANGED <<lock, mine, seen, retries>>

\* The first look of inspectExistingLock.
Lstat(c, from, to) ==
  /\ lock # NoLock
  /\ Goto(c, from, to)
  /\ seen' = [seen EXCEPT ![c] = lock.ino]
  /\ UNCHANGED <<lock, temp, mine, retries>>

\* The open file is not the file lstat saw: inspectExistingLock throws.
Changed(c, from) ==
  /\ lock # NoLock /\ lock.ino # seen[c]
  /\ Goto(c, from, "changed")
  /\ temp' = [temp EXCEPT ![c] = None]
  /\ UNCHANGED <<lock, mine, seen, retries>>

\* Mistake: a retry that is not counted.
HeldUncounted(c) ==
  /\ lock # NoLock /\ lock.ino = seen[c]
  /\ Goto(c, "open", "create")
  /\ temp' = [temp EXCEPT ![c] = None]
  /\ UNCHANGED <<lock, mine, seen, retries>>

\* The lock is held: give up, or count a retry, wait and start over.
Held(c) ==
  /\ lock # NoLock /\ lock.ino = seen[c]
  /\ temp' = [temp EXCEPT ![c] = None]
  /\ \/ /\ retries[c] >= MaxRetries
        /\ Goto(c, "open", "held")
        /\ UNCHANGED retries
     \/ /\ retries[c] < MaxRetries
        /\ Goto(c, "open", "create")
        /\ retries' = [retries EXCEPT ![c] = @ + 1]
  /\ UNCHANGED <<lock, mine, seen>>

Inspect(c) ==
  \/ Missing(c, "lstat")
  \/ Lstat(c, "lstat", "open")
  \/ Missing(c, "open")
  \/ Changed(c, "open")
  \/ Held(c)

\* fn has settled, with a result or an error: the finally block runs.
FnSettles(c) == Goto(c, "fn", "lstat1") /\ UNCHANGED <<lock, temp, mine, seen, retries>>

\* The inspected lock is not the one this call published: leave it alone.
NotMine(c, from) ==
  /\ \/ lock = NoLock
     \/ /\ from \in {"open1", "open2"}
        /\ lock # NoLock /\ lock.ino = seen[c]
        /\ lock.owner # c \/ lock.ino # mine[c]
  /\ Goto(c, from, "done")
  /\ UNCHANGED <<lock, temp, mine, seen, retries>>

Mine(c, from, to) ==
  /\ lock = [owner |-> c, ino |-> mine[c]]
  /\ lock.ino = seen[c]
  /\ Goto(c, from, to)
  /\ UNCHANGED <<lock, temp, mine, seen, retries>>

\* rm(lockPath): removes whatever is at the path now.
Remove(c) ==
  /\ Goto(c, "rm", "done")
  /\ lock' = NoLock
  /\ UNCHANGED <<temp, mine, seen, retries>>

ReleaseStep(c) ==
  \/ Lstat(c, "lstat1", "open1")
  \/ Mine(c, "open1", "lstat2")
  \/ Lstat(c, "lstat2", "open2")
  \/ Mine(c, "open2", "rm")
  \/ \E from \in Release \ {"rm"} : NotMine(c, from)
  \/ \E from \in {"open1", "open2"} : Changed(c, from)
  \/ Remove(c)

\* The process dies; what is at the lock path stays.  A temporary file it
\* leaves behind keeps its inode.
Crash(c) ==
  /\ pc[c] \in Waiting \cup Owning
  /\ pc' = [pc EXCEPT ![c] = "crashed"]
  /\ UNCHANGED <<lock, temp, mine, seen, retries>>

\* Nothing in the code takes over an abandoned lock: somebody deletes it by hand,
\* or, with ForeignRemoval, deletes a live one.
OperatorRemove ==
  /\ lock # NoLock
  /\ ForeignRemoval \/ pc[lock.owner] = "crashed"
  /\ lock' = NoLock
  /\ UNCHANGED <<pc, temp, mine, seen, retries>>

Step(c) ==
  \/ CreateTemp(c)
  \/ Link(c)
  \/ Inspect(c)
  \/ FnSettles(c)
  \/ ReleaseStep(c)

Next ==
  \/ \E c \in Call : Start(c) \/ Step(c) \/ Crash(c)
  \/ OperatorRemove

\* A process that does not crash keeps running its started calls, and fn settles.
Spec == Init /\ [][Next]_vars /\ \A c \in Call : WF_vars(Step(c))

(***************************************************************************)
(* Properties                                                              *)
(***************************************************************************)

\* At most one call is between publishing the lock and removing it, so at most one
\* runs fn (withAdvisoryLock "acquire an advisory file lock").
MutualExclusion ==
  \A c, d \in Call : pc[c] \in Owning /\ pc[d] \in Owning => c = d

\* A lock file is left behind only by a crash: when withAdvisoryLock has returned or
\* thrown, the call's own file is gone, whichever way it ended.
NoLeak == lock # NoLock => pc[lock.owner] \in Owning \cup {"crashed"}

\* releaseOwnedLock never removes a lock another call published, and no waiting call
\* removes anything: only the owner's own "rm" or an operator clears the path.
RemovesOnlyOwn ==
  [][lock # NoLock /\ lock' # lock =>
       \/ pc[lock.owner] = "rm" /\ pc'[lock.owner] = "done"
       \/ pc' = pc]_vars

\* The lock as its callers see it (LockService): every step of the protocol on the
\* lock path is a step of the service or invisible.
Phase(p) == CASE p \in Owning -> "in"
              [] p = "crashed" -> "dead"
              [] p \in {"done", "held", "changed"} -> "over"
              [] OTHER -> "out"

Svc == INSTANCE LockService
         WITH holder <- lock.owner, st <- [c \in Call |-> Phase(pc[c])]

ImplementsLockService == Svc!Spec

\* No call waits for ever: every started call runs fn and ends, gives up, or dies,
\* even when the lock it waits for was abandoned.
EveryCallEnds == (\E c \in Call : pc[c] = "create") ~> (\A c \in Call : pc[c] \in {"idle"} \cup Ended)
=============================================================================
