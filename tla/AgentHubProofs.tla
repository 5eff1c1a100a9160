--------------------------- MODULE AgentHubProofs ---------------------------
(***************************************************************************)
(* Proofs about what the Agent Hub rests on.  The advisory lock, for every *)
(* set of calls, every set of inodes and every retry bound, provided       *)
(* nobody deletes the lock file of a running call by hand; the spawner,    *)
(* for all children, names, faults and windows; and the registry, for all  *)
(* agents, labels and profiles; the two as they take part in MCAgentHub.   *)
(***************************************************************************)
EXTENDS MCAgentHub, FiniteSetTheorems, WellFoundedInduction, TLAPS

\* A call that linked its file finds it at the path, unchanged, until it removes it.
Ownership ==
  /\ \A c \in Call : pc[c] = "link" => temp[c] \in Inode
  /\ \A c \in Call : pc[c] \in Owning => /\ lock = [owner |-> c, ino |-> mine[c]]
                                         /\ mine[c] \in Inode
  /\ \A c \in Call : pc[c] \in {"open1", "open2"} => seen[c] = mine[c]

IInv == TypeOK /\ Ownership /\ NoLeak

\* The invariant holds before any call begins.
LEMMA InitIInv == Init => IInv
  BY LockAssumption DEF Init, IInv, TypeOK, Ownership, NoLeak, NoLock, Owning, Release,
     Waiting, Ended

\* The lock record is NoLock exactly when it names no owner.
LEMMA LockFields ==
  ASSUME TypeOK, lock # NoLock
  PROVE  lock.owner \in Call /\ lock.ino \in Inode
  BY DEF TypeOK

\* Every step of a call keeps the types.
LEMMA StepTypeOK == IInv /\ [Next]_vars => TypeOK'
<1> SUFFICES ASSUME IInv, [Next]_vars PROVE TypeOK'
  OBVIOUS
<1> USE LockAssumption, LockFields DEF IInv, TypeOK, Ownership, Goto, Owning, Release, Waiting, Ended
<1>1. CASE UNCHANGED vars
  BY <1>1 DEF vars
<1>2. ASSUME NEW c \in Call, Start(c) PROVE TypeOK'
  BY <1>2 DEF Start
<1>3. ASSUME NEW c \in Call, CreateTemp(c) PROVE TypeOK'
  BY <1>3 DEF CreateTemp, FreeInode
<1>4. ASSUME NEW c \in Call, Link(c) PROVE TypeOK'
  BY <1>4 DEF Link
<1>5. ASSUME NEW c \in Call, NEW from \in {"lstat", "open"}, Missing(c, from) PROVE TypeOK'
  BY <1>5 DEF Missing
<1>6. ASSUME NEW c \in Call, NEW from \in {"lstat", "lstat1", "lstat2"},
             NEW to \in {"open", "open1", "open2"}, Lstat(c, from, to)
      PROVE  TypeOK'
  BY <1>6 DEF Lstat
<1>7. ASSUME NEW c \in Call, NEW from \in {"open", "open1", "open2"}, Changed(c, from)
      PROVE  TypeOK'
  BY <1>7 DEF Changed
<1>8. ASSUME NEW c \in Call, Held(c) PROVE TypeOK'
  BY <1>8 DEF Held
<1>9. ASSUME NEW c \in Call, FnSettles(c) PROVE TypeOK'
  BY <1>9 DEF FnSettles
<1>10. ASSUME NEW c \in Call, NEW from \in Release, NotMine(c, from) PROVE TypeOK'
  BY <1>10 DEF NotMine
<1>11. ASSUME NEW c \in Call, NEW from \in {"open1", "open2"}, NEW to \in {"lstat2", "rm"},
              Mine(c, from, to)
       PROVE  TypeOK'
  BY <1>11 DEF Mine
<1>12. ASSUME NEW c \in Call, Remove(c) PROVE TypeOK'
  BY <1>12 DEF Remove
<1>13. ASSUME NEW c \in Call, Crash(c) PROVE TypeOK'
  BY <1>13 DEF Crash
<1>14. CASE OperatorRemove
  BY <1>14 DEF OperatorRemove
<1> QED
  BY <1>1, <1>2, <1>3, <1>4, <1>5, <1>6, <1>7, <1>8, <1>9, <1>10, <1>11, <1>12, <1>13, <1>14
     DEF Next, Step, Inspect, ReleaseStep

\* Without foreign removal nobody but the owner clears the path, so every step keeps
\* the published file of an owner in place; a crashed owner's file may be cleared.
LEMMA StepOwnership ==
  ASSUME ~ForeignRemoval, IInv, [Next]_vars
  PROVE  Ownership' /\ NoLeak'
<1> USE LockAssumption, LockFields DEF IInv, TypeOK, Ownership, NoLeak, NoLock, Goto, Owning, Release, Waiting, Ended
<1>1. CASE UNCHANGED vars
  BY <1>1 DEF vars
<1>2. ASSUME NEW c \in Call, Start(c) PROVE Ownership' /\ NoLeak'
  BY <1>2 DEF Start
<1>3. ASSUME NEW c \in Call, CreateTemp(c) PROVE Ownership' /\ NoLeak'
  BY <1>3 DEF CreateTemp, FreeInode
<1>4. ASSUME NEW c \in Call, Link(c) PROVE Ownership' /\ NoLeak'
  BY <1>4 DEF Link
<1>5. ASSUME NEW c \in Call, NEW from \in {"lstat", "open"}, Missing(c, from) PROVE Ownership' /\ NoLeak'
  BY <1>5 DEF Missing
<1>6. ASSUME NEW c \in Call, Lstat(c, "lstat", "open") PROVE Ownership' /\ NoLeak'
  BY <1>6 DEF Lstat
<1>7. ASSUME NEW c \in Call, Lstat(c, "lstat1", "open1") PROVE Ownership' /\ NoLeak'
  BY <1>7 DEF Lstat
<1>8. ASSUME NEW c \in Call, Lstat(c, "lstat2", "open2") PROVE Ownership' /\ NoLeak'
  BY <1>8 DEF Lstat
<1>9. ASSUME NEW c \in Call, Changed(c, "open") PROVE Ownership' /\ NoLeak'
  BY <1>9 DEF Changed
<1>10. ASSUME NEW c \in Call, NEW from \in {"open1", "open2"}, Changed(c, from) PROVE Ownership' /\ NoLeak'
  BY <1>10 DEF Changed
<1>11. ASSUME NEW c \in Call, Held(c) PROVE Ownership' /\ NoLeak'
  BY <1>11 DEF Held
<1>12. ASSUME NEW c \in Call, FnSettles(c) PROVE Ownership' /\ NoLeak'
  BY <1>12 DEF FnSettles
<1>13. ASSUME NEW c \in Call, NEW from \in Release \ {"rm"}, NotMine(c, from) PROVE Ownership' /\ NoLeak'
  BY <1>13 DEF NotMine
<1>14. ASSUME NEW c \in Call, Mine(c, "open1", "lstat2") PROVE Ownership' /\ NoLeak'
  BY <1>14 DEF Mine
<1>15. ASSUME NEW c \in Call, Mine(c, "open2", "rm") PROVE Ownership' /\ NoLeak'
  BY <1>15 DEF Mine
<1>16. ASSUME NEW c \in Call, Remove(c) PROVE Ownership' /\ NoLeak'
  BY <1>16 DEF Remove
<1>17. ASSUME NEW c \in Call, Crash(c) PROVE Ownership' /\ NoLeak'
  BY <1>17 DEF Crash
<1>18. CASE OperatorRemove
  BY <1>18 DEF OperatorRemove
<1> QED
  BY <1>1, <1>2, <1>3, <1>4, <1>5, <1>6, <1>7, <1>8, <1>9, <1>10, <1>11, <1>12, <1>13, <1>14, <1>15, <1>16, <1>17, <1>18
     DEF Next, Step, Inspect, ReleaseStep

\* The type invariant and the ownership of the lock file hold in every state.
THEOREM LockInvariant ==
  ASSUME ~ForeignRemoval
  PROVE  Spec => []IInv
<1>1. Init => IInv
  BY InitIInv
<1>2. IInv /\ [Next]_vars => IInv'
  BY StepTypeOK, StepOwnership DEF IInv
<1> QED
  BY <1>1, <1>2, PTL DEF Spec

\* Where nobody removes a lock file by hand, every variable keeps its type.
THEOREM LockTypeOK ==
  ASSUME ~ForeignRemoval
  PROVE  Spec => []TypeOK
<1>1. IInv => TypeOK
  BY DEF IInv
<1> QED
  BY <1>1, LockInvariant, PTL

\* Two owners would both be the owner named in the one lock file.
THEOREM LockMutualExclusion ==
  ASSUME ~ForeignRemoval
  PROVE  Spec => []MutualExclusion
<1>1. IInv => MutualExclusion
  BY DEF IInv, TypeOK, Ownership, MutualExclusion
<1> QED
  BY <1>1, LockInvariant, PTL

\* Only a crash leaves a lock file behind.
THEOREM LockNoLeak ==
  ASSUME ~ForeignRemoval
  PROVE  Spec => []NoLeak
<1>1. IInv => NoLeak
  BY DEF IInv
<1> QED
  BY <1>1, LockInvariant, PTL

\* A step that clears the path is the owner's own rm or a removal by hand.
LEMMA StepRemovesOnlyOwn ==
  ASSUME IInv, Next, lock # NoLock, lock' # lock
  PROVE  \/ pc[lock.owner] = "rm" /\ pc'[lock.owner] = "done"
         \/ pc' = pc
<1> USE DEF IInv, TypeOK, Ownership, Goto, Owning, Release
<1>1. PICK c \in Call : Start(c) \/ Step(c) \/ Crash(c) \/ OperatorRemove
  BY LockFields DEF Next
<1>2. CASE Start(c) \/ Crash(c)
  BY <1>2 DEF Start, Crash
<1>3. CASE Step(c)
  <2>1. CASE Remove(c)
    BY <2>1 DEF Remove
  <2>2. CASE CreateTemp(c) \/ Link(c) \/ FnSettles(c)
    BY <2>2 DEF CreateTemp, Link, FnSettles
  <2>3. CASE Inspect(c)
    BY <2>3 DEF Inspect, Missing, Lstat, Changed, Held
  <2>4. CASE ReleaseStep(c) /\ ~Remove(c)
    BY <2>4 DEF ReleaseStep, Lstat, Mine, NotMine, Changed
  <2> QED
    BY <1>3, <2>1, <2>2, <2>3, <2>4 DEF Step
<1>4. CASE OperatorRemove
  BY <1>4 DEF OperatorRemove
<1> QED
  BY <1>1, <1>2, <1>3, <1>4

\* Where nobody removes a lock file by hand, a lock disappears only by its owner's own unlink.
THEOREM LockRemovesOnlyOwn ==
  ASSUME ~ForeignRemoval
  PROVE  Spec => RemovesOnlyOwn
<1>1. IInv /\ [Next]_vars =>
        [lock # NoLock /\ lock' # lock =>
           \/ pc[lock.owner] = "rm" /\ pc'[lock.owner] = "done"
           \/ pc' = pc]_vars
  BY StepRemovesOnlyOwn DEF vars
<1> QED
  BY <1>1, LockInvariant, PTL DEF Spec, RemovesOnlyOwn

\* The phases of the calls, as LockService sees them.
Phases == [c \in Call |-> Phase(pc[c])]

\* A call that owns the lock is in, one that waits or has not begun is out.
LEMMA PhaseOf ==
  /\ \A p \in Owning : Phase(p) = "in"
  /\ \A p \in {"idle"} \cup Waiting : Phase(p) = "out"
  /\ \A p \in {"done", "held", "changed"} : Phase(p) = "over"
  /\ Phase("crashed") = "dead"
  BY DEF Phase, Owning, Release, Waiting

\* A move of one program counter moves one phase.
LEMMA PhaseMoves ==
  ASSUME TypeOK, NEW c \in Call, NEW from, NEW to, Goto(c, from, to)
  PROVE  /\ Phases[c] = Phase(from)
         /\ Phases' = [Phases EXCEPT ![c] = Phase(to)]
  BY DEF TypeOK, Goto, Phases

\* No lock file: no holder.
LEMMA InitRefines == Init => Svc!Init
  BY PhaseOf DEF Init, Svc!Init, NoLock, Waiting

\* Every step of the file protocol is a step of LockService or changes neither the
\* holder nor a phase.
LEMMA StepRefines ==
  ASSUME ~ForeignRemoval, IInv, [Next]_vars
  PROVE  [Svc!Next]_<<lock.owner, Phases>>
<1> USE LockAssumption, LockFields, PhaseOf DEF IInv, TypeOK, Ownership, NoLock, Goto, Phases, Owning, Release, Waiting, Ended
<1>1. CASE UNCHANGED vars
  BY <1>1 DEF vars
<1>2. ASSUME NEW c \in Call, Start(c) PROVE UNCHANGED <<lock.owner, Phases>>
  BY <1>2 DEF Start
<1>3. ASSUME NEW c \in Call, CreateTemp(c) PROVE UNCHANGED <<lock.owner, Phases>>
  BY <1>3 DEF CreateTemp
<1>4. ASSUME NEW c \in Call, NEW from \in {"lstat", "open"}, Missing(c, from) PROVE UNCHANGED <<lock.owner, Phases>>
  BY <1>4 DEF Missing
<1>5. ASSUME NEW c \in Call, Lstat(c, "lstat", "open") PROVE UNCHANGED <<lock.owner, Phases>>
  BY <1>5 DEF Lstat
<1>6. ASSUME NEW c \in Call, Lstat(c, "lstat1", "open1") PROVE UNCHANGED <<lock.owner, Phases>>
  BY <1>6 DEF Lstat
<1>7. ASSUME NEW c \in Call, Lstat(c, "lstat2", "open2") PROVE UNCHANGED <<lock.owner, Phases>>
  BY <1>7 DEF Lstat
<1>8. ASSUME NEW c \in Call, FnSettles(c) PROVE UNCHANGED <<lock.owner, Phases>>
  BY <1>8 DEF FnSettles
<1>9. ASSUME NEW c \in Call, Mine(c, "open1", "lstat2") PROVE UNCHANGED <<lock.owner, Phases>>
  BY <1>9 DEF Mine
<1>10. ASSUME NEW c \in Call, Mine(c, "open2", "rm") PROVE UNCHANGED <<lock.owner, Phases>>
  BY <1>10 DEF Mine
<1>11. ASSUME NEW c \in Call, Link(c) PROVE Svc!Acquire(c) \/ UNCHANGED <<lock.owner, Phases>>
  <2>1. CASE lock = NoLock
    <3>1. Goto(c, "link", "fn") /\ lock' = [owner |-> c, ino |-> temp[c]]
      BY <1>11, <2>1 DEF Link
    <3> QED
      BY <2>1, <3>1, PhaseMoves DEF Svc!Acquire, Svc!Move
  <2>2. CASE lock # NoLock
    BY <1>11, <2>2 DEF Link
  <2> QED
    BY <2>1, <2>2
<1>12. ASSUME NEW c \in Call, Changed(c, "open") PROVE Svc!GiveUp(c)
  BY <1>12 DEF Changed, Svc!GiveUp, Svc!Move
<1>13. ASSUME NEW c \in Call, NEW from \in {"open1", "open2"}, Changed(c, from) PROVE FALSE
  BY <1>13 DEF Changed
<1>14. ASSUME NEW c \in Call, Held(c) PROVE Svc!GiveUp(c) \/ UNCHANGED <<lock.owner, Phases>>
  <2>1. CASE Goto(c, "open", "held")
    BY <1>14, <2>1, PhaseMoves DEF Held, Svc!GiveUp, Svc!Move
  <2>2. CASE Goto(c, "open", "create")
    BY <1>14, <2>2 DEF Held
  <2> QED
    BY <1>14, <2>1, <2>2 DEF Held
<1>15. ASSUME NEW c \in Call, NEW from \in Release \ {"rm"}, NotMine(c, from) PROVE FALSE
  BY <1>15 DEF NotMine
<1>16. ASSUME NEW c \in Call, Remove(c) PROVE Svc!LetGo(c)
  <2>1. Goto(c, "rm", "done") /\ lock' = NoLock /\ lock.owner = c
    BY <1>16 DEF Remove
  <2> QED
    BY <2>1, PhaseMoves DEF Svc!LetGo, Svc!Move
<1>17. ASSUME NEW c \in Call, Crash(c) PROVE Svc!Die(c)
  BY <1>17 DEF Crash, Svc!Die, Svc!Move
<1>18. CASE OperatorRemove
  BY <1>18 DEF OperatorRemove, Svc!Clear, Svc!Next
<1> QED
  BY <1>1, <1>2, <1>3, <1>4, <1>5, <1>6, <1>7, <1>8, <1>9, <1>10, <1>11, <1>12, <1>13, <1>14, <1>15, <1>16, <1>17, <1>18
     DEF Next, Step, Inspect, ReleaseStep, Svc!Next

\* The lock protocol implements the service its callers rely on.
THEOREM LockImplementsService ==
  ASSUME ~ForeignRemoval
  PROVE  Spec => ImplementsLockService
<1>1. Init => Svc!Init
  BY InitRefines
<1>2. IInv /\ [Next]_vars => [Svc!Next]_<<lock.owner, Phases>>
  BY StepRefines
<1> QED
  BY <1>1, <1>2, LockInvariant, PTL DEF Spec, Svc!Spec, ImplementsLockService, Phases

(***************************************************************************)
(* The spawner: whoever is up is looked after, and who ends is reported    *)
(***************************************************************************)

Kid == [state : {"unborn", "up", "exited", "closed"}, name : Name \cup {None},
        done : BOOLEAN, expected : BOOLEAN, signal : {"no", "term", "kill"}]
Stop == S!By \X Child

SpawnTypes ==
  /\ phase \in {"running", "stopping", "down"}
  /\ agents \in [Name -> Child \cup {None}] /\ child \in [Child -> Kid]
  /\ since \in [Child -> 0 .. Window] /\ signalled \subseteq Name /\ spoke \subseteq Child
  /\ stop \in [Stop -> {"off", "aborted", "termed", "ended"}] /\ notices \in [Child -> Nat]

\* Only a child that was born bears a name, speaks or is found under one.
Born ==
  /\ \A c \in Child : child[c].state # "unborn" => child[c].name \in Name
  /\ \A c \in Child : child[c].state = "unborn" => child[c].name = None /\ c \notin spoke /\ ~child[c].done
  /\ \A c \in Child : child[c].state = "closed" => child[c].done
  /\ \A n \in Name : agents[n] # None => child[agents[n]].state # "unborn" /\ child[agents[n]].name = n
  /\ \A by \in S!By, c \in Child : stop[<<by, c>>] # "off" => child[c].state # "unborn"

\* A child that runs on: up, not written off and not killed.
RunsOn(c) == child[c].state = "up" /\ ~child[c].done /\ child[c].signal # "kill"

\* It is found under its name, unless an older child's end took the name away; and once the session
\* shuts down, a stop of the shutdown is at it.
LookedAfter ==
  /\ \A c \in Child : RunsOn(c) => agents[child[c].name] = c \/ S!Replaced(c)
  /\ phase = "stopping" => \A c \in Child : RunsOn(c) =>
       stop[<<"shutdown", c>>] \in {"aborted", "termed"} \/ S!Replaced(c)
  /\ phase = "down" => \A c \in Child : ~(RunsOn(c) /\ ~S!Replaced(c))

\* Signals are those of children that spoke; notices are of children that are done and were not stopped.
Heard ==
  /\ \A c \in Child : since[c] < Window => c \in spoke
  /\ \A n \in signalled : \E d \in spoke : child[d].name = n
  /\ \A c \in Child : notices[c] > 0 => child[c].done /\ ~child[c].expected
  /\ S!SilentEndIsReported

SpawnInv == SpawnTypes /\ Born /\ LookedAfter /\ Heard

\* What the bounds are.
LEMMA SpawnBounds == Window \in Nat /\ None \notin Child /\ None \notin Name
BY HubAssumption DEF S!SpawnerAssumption

\* The fields of a child.
LEMMA KidFields ==
  ASSUME SpawnTypes, NEW c \in Child
  PROVE /\ child[c].name \in Name \cup {None} /\ child[c].done \in BOOLEAN /\ child[c].expected \in BOOLEAN
        /\ child[c].state \in {"unborn", "up", "exited", "closed"} /\ child[c].signal \in {"no", "term", "kill"}
BY DEF SpawnTypes, Kid

\* The invariant holds in a session that has spawned nothing.
LEMMA InitSpawn == ASSUME S!Init PROVE SpawnInv
<1>1. SpawnTypes /\ Born /\ LookedAfter
  BY SpawnBounds DEF S!Init, SpawnTypes, Kid, Stop, S!By, Born, LookedAfter, RunsOn
<1>2. Heard
  BY SpawnBounds DEF S!Init, Heard, S!SilentEndIsReported
<1> QED BY <1>1, <1>2 DEF SpawnInv

\* A child keeps its name, and a stop that has ended has.
NamesStay == \A d \in Child : child[d].state # "unborn" => child'[d].name = child[d].name /\ child'[d].state # "unborn"
EndedStay == \A d \in Child : stop[<<"kill", d>>] = "ended" => stop'[<<"kill", d>>] = "ended"
AtIt == {"aborted", "termed"}

\* So who lost its name to an older child's end has lost it for good.
LEMMA ReplacedStays ==
  ASSUME Born, NamesStay, EndedStay, NEW c \in Child, child[c].state # "unborn", S!Replaced(c)
  PROVE S!Replaced(c)'
<1>1. PICK d \in Child \ {c} : child[d].name = child[c].name /\ stop[<<"kill", d>>] = "ended"
  BY DEF S!Replaced
<1>2. child[c].name \in Name /\ child[d].state # "unborn"
  BY <1>1, SpawnBounds DEF Born
<1>3. child'[d].name = child'[c].name /\ stop'[<<"kill", d>>] = "ended"
  BY <1>1, <1>2 DEF NamesStay, EndedStay
<1> QED BY <1>3 DEF S!Replaced

\* Who runs on is looked after, when the step takes neither its name nor its stop away.
LEMMA LookedStays ==
  ASSUME SpawnInv, NamesStay, EndedStay, phase' = phase,
         \A c \in Child : RunsOn(c)' => RunsOn(c) \/ (phase = "running" /\ agents'[child'[c].name] = c),
         \A c \in Child : RunsOn(c) /\ RunsOn(c)' /\ agents[child[c].name] = c =>
           agents'[child[c].name] = c \/ S!Replaced(c)',
         \A c \in Child : RunsOn(c)' /\ stop[<<"shutdown", c>>] \in AtIt => stop'[<<"shutdown", c>>] \in AtIt
  PROVE LookedAfter'
<1>1. \A c \in Child : RunsOn(c) /\ S!Replaced(c) => S!Replaced(c)'
  BY ReplacedStays DEF SpawnInv, RunsOn
<1>2. \A c \in Child : RunsOn(c) => child'[c].name = child[c].name
  BY DEF NamesStay, RunsOn
<1>3. \A c \in Child : RunsOn(c)' => agents'[child'[c].name] = c \/ S!Replaced(c)'
  BY <1>1, <1>2 DEF SpawnInv, LookedAfter
<1>4. phase = "stopping" => \A c \in Child : RunsOn(c)' => stop'[<<"shutdown", c>>] \in AtIt \/ S!Replaced(c)'
  BY <1>1 DEF SpawnInv, LookedAfter, AtIt
<1>5. phase = "down" => \A c \in Child : RunsOn(c)' => S!Replaced(c)'
  BY <1>1 DEF SpawnInv, LookedAfter
<1> QED BY <1>3, <1>4, <1>5 DEF LookedAfter, AtIt

\* What ends no child reports nothing and hears at most a signal.
LEMMA HeardStays ==
  ASSUME SpawnInv, NamesStay, UNCHANGED <<signalled, notices>>, spoke \subseteq spoke',
         \A c \in Child : since'[c] < Window => since[c] < Window \/ c \in spoke',
         \A c \in Child : child'[c].state = "closed" <=> child[c].state = "closed",
         \A c \in Child : child[c].done => child'[c].done /\ child'[c].expected = child[c].expected
  PROVE Heard'
<1>1. \A c \in Child : since'[c] < Window => c \in spoke'
  BY DEF SpawnInv, Heard
<1>2. \A d \in spoke : d \in Child /\ child[d].state # "unborn" /\ child'[d].name = child[d].name
  BY DEF SpawnInv, SpawnTypes, Born, NamesStay
<1>3. \A n \in signalled' : \E d \in spoke' : child'[d].name = n
  BY <1>2 DEF SpawnInv, Heard
<1>4. \A c \in Child : notices'[c] > 0 => child'[c].done /\ ~child'[c].expected
  BY DEF SpawnInv, Heard
<1>5. S!SilentEndIsReported'
  <2>1. ASSUME NEW c \in Child, child'[c].state = "closed", ~child'[c].expected, c \notin spoke',
               \A d \in spoke' : child'[d].name # child'[c].name
        PROVE notices'[c] >= 1
    <3>1. child[c].state = "closed" /\ ~child[c].expected /\ c \notin spoke /\ child'[c].name = child[c].name
      BY <2>1 DEF NamesStay, SpawnInv, Born
    <3>2. \A d \in spoke : child[d].name # child[c].name
      BY <1>2, <2>1, <3>1
    <3> QED BY <3>1, <3>2 DEF SpawnInv, Heard, S!SilentEndIsReported
  <2>2. ASSUME NEW c \in Child, child'[c].expected PROVE notices'[c] = 0
    <3>1. notices'[c] \in Nat
      BY DEF SpawnInv, SpawnTypes
    <3> QED BY <1>4, <2>2, <3>1
  <2> QED BY <2>1, <2>2 DEF S!SilentEndIsReported
<1> QED BY <1>1, <1>3, <1>4, <1>5 DEF Heard

\* A child is spawned, under a name that is free or whose child is done.
LEMMA SpawnKeeps == ASSUME SpawnInv, NEW n \in Name, NEW c \in Child, S!Spawn(n, c) PROVE SpawnInv'
<1>1. /\ phase = "running" /\ child[c].state = "unborn" /\ (agents[n] # None => child[agents[n]].done)
      /\ agents' = [agents EXCEPT ![n] = c]
      /\ child' = [child EXCEPT ![c] = [@ EXCEPT !.state = "up", !.name = n]]
      /\ UNCHANGED <<phase, since, signalled, stop, spoke, notices>>
  BY DEF S!Spawn
<1>2. child \in [Child -> Kid] /\ child[c] \in Kid
  BY DEF SpawnInv, SpawnTypes
<1>3. /\ child'[c].state = "up" /\ child'[c].name = n /\ child'[c].done = child[c].done
      /\ child'[c].expected = child[c].expected /\ child'[c].signal = child[c].signal
      /\ \A d \in Child \ {c} : child'[d] = child[d]
      /\ child' \in [Child -> Kid]
  BY <1>1, <1>2 DEF Kid
<1>4. SpawnTypes'
  BY <1>1, <1>3 DEF SpawnInv, SpawnTypes
<1>5. Born'
  BY <1>1, <1>3, SpawnBounds DEF SpawnInv, SpawnTypes, Born
<1>6. NamesStay /\ EndedStay
  BY <1>1, <1>3 DEF NamesStay, EndedStay
<1>7. LookedAfter'
  <2>1. \A d \in Child : RunsOn(d)' => RunsOn(d) \/ (phase = "running" /\ agents'[child'[d].name] = d)
    BY <1>1, <1>3 DEF RunsOn, SpawnInv, SpawnTypes
  <2>2. \A d \in Child : RunsOn(d) /\ agents[child[d].name] = d => agents'[child[d].name] = d
    BY <1>1, SpawnBounds DEF RunsOn, SpawnInv, SpawnTypes, Born
  <2> QED BY <1>1, <1>6, <2>1, <2>2, LookedStays
<1>8. Heard'
  BY <1>1, <1>3, <1>6, HeardStays
<1> QED BY <1>4, <1>5, <1>7, <1>8 DEF SpawnInv

\* A name is freed, or a child is stopped on purpose under it.
LEMMA FreeKeeps == ASSUME SpawnInv, NEW n \in Name, S!SpawnFails(n) PROVE SpawnInv'
<1>1. /\ agents[n] # None /\ child[agents[n]].done /\ agents' = [agents EXCEPT ![n] = None]
      /\ UNCHANGED <<phase, child, since, signalled, stop, spoke, notices>>
  BY DEF S!SpawnFails
<1>2. SpawnTypes' /\ Born' /\ NamesStay /\ EndedStay
  BY <1>1, SpawnBounds DEF SpawnInv, SpawnTypes, Born, NamesStay, EndedStay
<1>3. \A d \in Child : RunsOn(d) /\ agents[child[d].name] = d => agents'[child[d].name] = d
  BY <1>1 DEF RunsOn, SpawnInv, SpawnTypes, Born
<1>4. LookedAfter'
  BY <1>1, <1>2, <1>3, LookedStays DEF RunsOn
<1>5. Heard'
  BY <1>1, <1>2, HeardStays
<1> QED BY <1>2, <1>4, <1>5 DEF SpawnInv

\* Output is a signal or not, and is kept unless the child is done.
LEMMA EmitKeeps ==
  ASSUME SpawnInv, NEW c \in Child, NEW e \in {"signal", "other"}, S!Emit(c, e) PROVE SpawnInv'
<1>1. /\ child[c].state = "up" /\ spoke' = (IF e = "signal" THEN spoke \cup {c} ELSE spoke)
      /\ since' = (IF child[c].done THEN since ELSE S!Retain(c, e))
      /\ UNCHANGED <<phase, agents, child, signalled, stop, notices>>
  BY DEF S!Emit, S!Up
<1>2. since' \in [Child -> 0 .. Window] /\ \A d \in Child : since'[d] < Window => since[d] < Window \/ d \in spoke'
  BY <1>1, SpawnBounds DEF S!Retain, SpawnInv, SpawnTypes
<1>3. SpawnTypes' /\ Born' /\ NamesStay /\ EndedStay
  BY <1>1, <1>2 DEF SpawnInv, SpawnTypes, Born, NamesStay, EndedStay
<1>4. LookedAfter'
  BY <1>1, <1>3, LookedStays DEF RunsOn
<1>5. Heard'
  BY <1>1, <1>2, <1>3, HeardStays
<1> QED BY <1>3, <1>4, <1>5 DEF SpawnInv

\* A child is marked: its record changes, and not what the others have.
Marked(c, k) == child' = [child EXCEPT ![c] = k]

\* A child that is marked so that it runs on no longer, or as it did.
LEMMA MarkKeeps ==
  ASSUME SpawnInv, NEW c \in Child, NEW k \in Kid, Marked(c, k), child[c].state # "unborn", k.name = child[c].name,
         k.state # "unborn", k.state = "closed" <=> child[c].state = "closed", child[c].done => k.done,
         child[c].done => k.expected = child[c].expected
  PROVE /\ child' \in [Child -> Kid] /\ child'[c] = k /\ \A d \in Child \ {c} : child'[d] = child[d]
        /\ NamesStay
        /\ \A d \in Child : child'[d].state = "closed" <=> child[d].state = "closed"
        /\ \A d \in Child : child[d].done => child'[d].done /\ child'[d].expected = child[d].expected
        /\ (UNCHANGED <<agents, spoke, stop>> => Born')
<1>1. child' \in [Child -> Kid] /\ child'[c] = k /\ \A d \in Child \ {c} : child'[d] = child[d]
  BY DEF Marked, SpawnInv, SpawnTypes
<1>2. NamesStay
  BY <1>1 DEF NamesStay
<1>3. UNCHANGED <<agents, spoke, stop>> => Born'
  BY <1>1, SpawnBounds DEF SpawnInv, SpawnTypes, Born
<1> QED BY <1>1, <1>2, <1>3

\* A child's process ends, or its stdin breaks.
LEMMA DieKeeps == ASSUME SpawnInv, NEW c \in Child, S!Die(c) \/ S!StdinFails(c) PROVE SpawnInv'
<1>1. PICK k : k = IF S!Die(c) THEN [child[c] EXCEPT !.state = "exited"] ELSE [child[c] EXCEPT !.done = TRUE]
  OBVIOUS
<1>2. child[c] \in Kid /\ child[c].state = "up"
  BY DEF S!Die, S!StdinFails, S!Up, SpawnInv, SpawnTypes
<1>3. /\ k \in Kid /\ k.name = child[c].name /\ k.state \in {"up", "exited"} /\ (child[c].done => k.done)
      /\ k.expected = child[c].expected
      /\ k.state = "up" => k.done
  BY <1>1, <1>2 DEF Kid
<1>4. Marked(c, k) /\ UNCHANGED <<phase, agents, since, signalled, stop, spoke, notices>>
  BY <1>1 DEF S!Die, S!StdinFails, Marked
<1>5. /\ child' \in [Child -> Kid] /\ child'[c] = k /\ \A d \in Child \ {c} : child'[d] = child[d]
      /\ NamesStay /\ Born'
      /\ \A d \in Child : child'[d].state = "closed" <=> child[d].state = "closed"
      /\ \A d \in Child : child[d].done => child'[d].done /\ child'[d].expected = child[d].expected
  BY <1>2, <1>3, <1>4, MarkKeeps
<1>6. SpawnTypes' /\ EndedStay
  BY <1>4, <1>5 DEF SpawnInv, SpawnTypes, EndedStay
<1>7. \A d \in Child : RunsOn(d)' => RunsOn(d)
  BY <1>3, <1>5 DEF RunsOn
<1>8. LookedAfter'
  BY <1>4, <1>5, <1>6, <1>7, LookedStays
<1>9. Heard'
  BY <1>4, <1>5, <1>6, HeardStays
<1> QED BY <1>5, <1>6, <1>8, <1>9 DEF SpawnInv

\* Who ends is reported, unless the end was asked for or a signal is found, which then names one that spoke.
LEMMA ExitIsHeard ==
  ASSUME SpawnInv, NEW c \in Child, child[c].state # "unborn", S!OnExit(c),
         \A d \in Child : child'[d].name = child[d].name,
         \A d \in Child \ {c} : child'[d] = child[d],
         child'[c].expected = child[c].expected, child[c].state # "closed",
         child'[c].done,
         UNCHANGED spoke, \A d \in Child : since'[d] < Window => since[d] < Window
  PROVE /\ Heard' /\ signalled' \subseteq Name /\ notices' \in [Child -> Nat]
<1>1. child[c].name \in Name /\ spoke \subseteq Child /\ notices \in [Child -> Nat] /\ signalled \subseteq Name
  BY DEF SpawnInv, SpawnTypes, Born
<1>2. S!HasCompletionSignal(c) => \E d \in spoke : child[d].name = child[c].name
  BY DEF S!HasCompletionSignal, SpawnInv, Heard
<1>3. /\ notices' \in [Child -> Nat] /\ \A d \in Child \ {c} : notices'[d] = notices[d]
      /\ child[c].expected => notices' = notices
      /\ ~child[c].expected /\ ~S!HasCompletionSignal(c) => notices'[c] = notices[c] + 1
  BY <1>1 DEF S!OnExit
<1>4. /\ signalled' \subseteq Name
      /\ \A n \in signalled' : n \in signalled \/ (n = child[c].name /\ S!HasCompletionSignal(c))
  BY <1>1 DEF S!OnExit
<1>5. \A n \in signalled' : \E d \in spoke' : child'[d].name = n
  <2>1. \A n \in signalled' : \E d \in spoke : child[d].name = n
    BY <1>2, <1>4 DEF SpawnInv, Heard
  <2> QED BY <1>1, <2>1
<1>6. \A d \in Child : notices'[d] > 0 => child'[d].done /\ ~child'[d].expected
  <2>1. ASSUME NEW d \in Child, notices'[d] > 0
        PROVE child'[d].done /\ ~child'[d].expected
    <3>1. CASE d # c
      BY <1>3, <2>1, <3>1 DEF SpawnInv, Heard
    <3>2. CASE d = c
      <4>1. notices[c] = 0 \/ notices[c] > 0
        BY <1>1
      <4>2. notices[c] > 0 => ~child[c].expected
        BY DEF SpawnInv, Heard
      <4> QED BY <1>3, <2>1, <3>2, <4>1, <4>2
    <3> QED BY <3>1, <3>2
  <2> QED BY <2>1
<1>7. S!SilentEndIsReported'
  <2>1. ASSUME NEW d \in Child, child'[d].state = "closed", ~child'[d].expected, d \notin spoke',
               \A q \in spoke' : child'[q].name # child'[d].name
        PROVE notices'[d] >= 1
    <3>1. d \notin spoke /\ \A q \in spoke : child[q].name # child[d].name
      BY <1>1, <2>1
    <3>2. CASE d = c
      <4>1. ~S!HasCompletionSignal(c) /\ ~child[c].expected
        BY <1>2, <2>1, <3>1, <3>2
      <4> QED BY <1>1, <1>3, <3>2, <4>1
    <3>3. CASE d # c
      BY <1>3, <2>1, <3>1, <3>3 DEF SpawnInv, Heard, S!SilentEndIsReported
    <3> QED BY <3>2, <3>3
  <2>2. ASSUME NEW d \in Child, child'[d].expected PROVE notices'[d] = 0
    BY <1>3, <1>6, <2>2
  <2> QED BY <2>1, <2>2 DEF S!SilentEndIsReported
<1>8. \A d \in Child : since'[d] < Window => d \in spoke'
  BY DEF SpawnInv, Heard
<1> QED BY <1>3, <1>4, <1>5, <1>6, <1>7, <1>8 DEF Heard

\* What is kept of the output after another event.
LEMMA OtherRetained ==
  ASSUME SpawnInv, NEW c \in Child, since' = S!Retain(c, "other")
  PROVE since' \in [Child -> 0 .. Window] /\ \A d \in Child : since'[d] < Window => since[d] < Window
BY SpawnBounds DEF S!Retain, SpawnInv, SpawnTypes

\* A child's streams close: the stops at it end, and one of kill_agent takes the name away.
LEMMA CloseKeeps == ASSUME SpawnInv, NEW c \in Child, S!Close(c) PROVE SpawnInv'
<1>1. PICK k : k = [child[c] EXCEPT !.state = "closed", !.done = TRUE]
  OBVIOUS
<1>2. child[c] \in Kid /\ child[c].state = "exited" /\ child[c].name \in Name
  BY DEF S!Close, SpawnInv, SpawnTypes, Born
<1>3. k \in Kid /\ k.name = child[c].name /\ k.state = "closed" /\ k.done /\ k.expected = child[c].expected
  BY <1>1, <1>2 DEF Kid
<1>4. /\ child' = [child EXCEPT ![c] = k] /\ since' = S!Retain(c, "other") /\ S!OnExit(c) /\ UNCHANGED <<phase, spoke>>
      /\ stop' = [s \in S!By \X Child |-> IF s[2] = c /\ stop[s] \in {"aborted", "termed"} THEN "ended" ELSE stop[s]]
      /\ agents' = IF stop[<<"kill", c>>] \in {"aborted", "termed"}
                   THEN [agents EXCEPT ![child[c].name] = None] ELSE agents
  BY <1>1 DEF S!Close
<1>5. child' \in [Child -> Kid] /\ child'[c] = k /\ \A d \in Child \ {c} : child'[d] = child[d]
  BY <1>3, <1>4 DEF SpawnInv, SpawnTypes
<1>6. \A d \in Child : child'[d].name = child[d].name
  BY <1>3, <1>5
<1>7. since' \in [Child -> 0 .. Window] /\ \A d \in Child : since'[d] < Window => since[d] < Window
  BY <1>4, OtherRetained
<1>8. Heard' /\ signalled' \subseteq Name /\ notices' \in [Child -> Nat]
  BY <1>2, <1>3, <1>4, <1>5, <1>6, <1>7, ExitIsHeard
<1>9. /\ stop' \in [Stop -> {"off", "aborted", "termed", "ended"}]
      /\ \A s \in Stop : s[2] # c => stop'[s] = stop[s]
      /\ stop[<<"kill", c>>] \in {"aborted", "termed"} => stop'[<<"kill", c>>] = "ended"
      /\ EndedStay
  BY <1>4 DEF SpawnInv, SpawnTypes, Stop, S!By, EndedStay
<1>10. SpawnTypes'
  BY <1>2, <1>4, <1>5, <1>7, <1>8, <1>9 DEF SpawnInv, SpawnTypes
<1>11. Born' /\ NamesStay
  <2>1. \A by \in S!By, d \in Child : stop'[<<by, d>>] # "off" => stop[<<by, d>>] # "off"
    BY <1>4
  <2> QED
    BY <1>2, <1>3, <1>4, <1>5, <2>1, SpawnBounds DEF SpawnInv, SpawnTypes, Born, NamesStay
<1>12. \A d \in Child : RunsOn(d)' => RunsOn(d) /\ d # c
  BY <1>3, <1>5 DEF RunsOn
<1>13. ASSUME NEW d \in Child, d # c, RunsOn(d), agents[child[d].name] = d
       PROVE agents'[child[d].name] = d \/ S!Replaced(d)'
  <2>1. CASE stop[<<"kill", c>>] \in {"aborted", "termed"} /\ child[c].name = child[d].name
    <3>1. stop'[<<"kill", c>>] = "ended" /\ child'[c].name = child'[d].name
      BY <1>6, <1>9, <2>1
    <3> QED BY <1>13, <3>1 DEF S!Replaced
  <2>2. CASE ~(stop[<<"kill", c>>] \in {"aborted", "termed"} /\ child[c].name = child[d].name)
    <3>1. child[d].name \in Name
      BY <1>13 DEF SpawnInv, Born, RunsOn
    <3> QED BY <1>4, <1>13, <2>2, <3>1 DEF SpawnInv, SpawnTypes
  <2> QED BY <2>1, <2>2
<1>14. \A d \in Child : RunsOn(d)' /\ stop[<<"shutdown", d>>] \in AtIt => stop'[<<"shutdown", d>>] \in AtIt
  <2>1. \A d \in Child : <<"shutdown", d>> \in Stop /\ <<"shutdown", d>>[2] = d
    BY DEF Stop, S!By
  <2> QED BY <1>9, <1>12, <2>1
<1>15. LookedAfter'
  BY <1>4, <1>9, <1>11, <1>12, <1>13, <1>14, LookedStays
<1> QED BY <1>8, <1>10, <1>11, <1>15 DEF SpawnInv

\* A child whose output is too long is killed, and reported as ended.
LEMMA OverflowKeeps == ASSUME SpawnInv, NEW c \in Child, S!Overflow(c) PROVE SpawnInv'
<1>1. PICK k : k = [child[c] EXCEPT !.done = TRUE, !.signal = "kill"]
  OBVIOUS
<1>2. child[c] \in Kid /\ child[c].state = "up" /\ "overflow" \in Faults
  BY DEF S!Overflow, S!Up, SpawnInv, SpawnTypes
<1>3. /\ k \in Kid /\ k.name = child[c].name /\ k.state = "up" /\ k.done /\ k.expected = child[c].expected
      /\ k.signal = "kill"
  BY <1>1, <1>2 DEF Kid
<1>4. /\ Marked(c, k) /\ since' = S!Retain(c, "other") /\ S!OnExit(c) /\ UNCHANGED <<phase, agents, stop, spoke>>
  BY <1>1 DEF S!Overflow, Marked
<1>5. /\ child' \in [Child -> Kid] /\ child'[c] = k /\ \A d \in Child \ {c} : child'[d] = child[d]
      /\ NamesStay /\ Born'
  BY <1>2, <1>3, <1>4, MarkKeeps
<1>6. \A d \in Child : child'[d].name = child[d].name
  BY <1>3, <1>5
<1>7. since' \in [Child -> 0 .. Window] /\ \A d \in Child : since'[d] < Window => since[d] < Window
  BY <1>4, OtherRetained
<1>8. Heard' /\ signalled' \subseteq Name /\ notices' \in [Child -> Nat]
  BY <1>2, <1>3, <1>4, <1>5, <1>6, <1>7, ExitIsHeard
<1>9. SpawnTypes' /\ EndedStay
  BY <1>4, <1>5, <1>7, <1>8 DEF SpawnInv, SpawnTypes, EndedStay
<1>10. \A d \in Child : RunsOn(d)' => RunsOn(d)
  BY <1>3, <1>5 DEF RunsOn
<1>11. LookedAfter'
  BY <1>4, <1>5, <1>9, <1>10, LookedStays
<1> QED BY <1>5, <1>8, <1>9, <1>11 DEF SpawnInv

\* A child is stopped on purpose, by name: at once, or by a stop that is now at it.
LEMMA KillKeeps == ASSUME SpawnInv, NEW n \in Name, S!Kill(n) \/ S!ForceKill(n) PROVE SpawnInv'
<1>1. agents[n] # None /\ UNCHANGED <<phase, since, signalled, spoke, notices>>
  BY DEF S!Kill, S!ForceKill
<1>2. PICK c \in Child : c = agents[n]
  BY <1>1 DEF SpawnInv, SpawnTypes
<1>3. child[c] \in Kid /\ child[c].state # "unborn" /\ child[c].name = n
  BY <1>1, <1>2 DEF SpawnInv, SpawnTypes, Born
<1>4. CASE child[c].done
  <2>1. agents' = [agents EXCEPT ![n] = None] /\ UNCHANGED <<child, stop>>
    BY <1>2, <1>4 DEF S!Kill, S!ForceKill
  <2>2. SpawnTypes' /\ Born' /\ NamesStay /\ EndedStay
    BY <1>1, <2>1, SpawnBounds DEF SpawnInv, SpawnTypes, Born, NamesStay, EndedStay
  <2>3. \A d \in Child : RunsOn(d) /\ agents[child[d].name] = d => agents'[child[d].name] = d
    BY <1>2, <1>4, <2>1 DEF RunsOn, SpawnInv, SpawnTypes, Born
  <2>4. LookedAfter'
    BY <1>1, <2>1, <2>2, <2>3, LookedStays DEF RunsOn
  <2>5. Heard'
    BY <1>1, <2>1, <2>2, HeardStays
  <2> QED BY <2>2, <2>4, <2>5 DEF SpawnInv
<1>5. CASE ~child[c].done
  <2>1. PICK k : k = IF S!Kill(n) THEN [child[c] EXCEPT !.expected = TRUE]
                     ELSE [child[c] EXCEPT !.expected = TRUE, !.signal = "kill"]
    OBVIOUS
  <2>2. /\ k \in Kid /\ k.name = child[c].name /\ k.state = child[c].state /\ ~k.done
        /\ S!Kill(n) \/ k.signal = "kill"
        /\ k.signal = child[c].signal \/ k.signal = "kill"
    BY <1>3, <1>5, <2>1 DEF Kid
  <2>3. Marked(c, k)
    BY <1>2, <1>5, <2>1 DEF S!Kill, S!ForceKill, Marked
  <2>4. \/ S!Kill(n) /\ UNCHANGED agents /\ stop[<<"kill", c>>] = "off" /\ stop' = [stop EXCEPT ![<<"kill", c>>] = "aborted"]
        \/ k.signal = "kill" /\ agents' = [agents EXCEPT ![n] = None] /\ UNCHANGED stop
    BY <1>2, <1>5, <2>2 DEF S!Kill, S!ForceKill
  <2>5. child[c].state # "closed"
    BY <1>5 DEF SpawnInv, Born
  <2>6. /\ child' \in [Child -> Kid] /\ child'[c] = k /\ \A d \in Child \ {c} : child'[d] = child[d]
        /\ NamesStay
        /\ \A d \in Child : child'[d].state = "closed" <=> child[d].state = "closed"
        /\ \A d \in Child : child[d].done => child'[d].done /\ child'[d].expected = child[d].expected
    BY <1>3, <2>2, <2>3, <2>5, <1>5, MarkKeeps
  <2>7. agents' \in [Name -> Child \cup {None}] /\ \A x \in Name : agents'[x] \in {agents[x], None}
    BY <2>4 DEF SpawnInv, SpawnTypes
  <2>8. stop' \in [Stop -> {"off", "aborted", "termed", "ended"}] /\ EndedStay
        /\ \A d \in Child : stop'[<<"shutdown", d>>] = stop[<<"shutdown", d>>]
    BY <2>4 DEF SpawnInv, SpawnTypes, Stop, S!By, EndedStay
  <2>9. SpawnTypes'
    BY <1>1, <2>6, <2>7, <2>8 DEF SpawnInv, SpawnTypes
  <2>10. Born'
    <3>1. \A by \in S!By, d \in Child : d = c \/ stop'[<<by, d>>] = stop[<<by, d>>]
      BY <2>4 DEF SpawnInv, SpawnTypes, Stop
    <3> QED
      BY <1>1, <1>3, <1>5, <2>2, <2>6, <2>7, <3>1, SpawnBounds DEF SpawnInv, SpawnTypes, Born
  <2>11. \A d \in Child : RunsOn(d)' => RunsOn(d)
    BY <1>5, <2>2, <2>6 DEF RunsOn
  <2>12. ASSUME NEW d \in Child, RunsOn(d), RunsOn(d)', agents[child[d].name] = d
         PROVE agents'[child[d].name] = d
    <3>1. child[d].name \in Name
      BY <2>12 DEF SpawnInv, Born, RunsOn
    <3>2. CASE child[d].name = n
      <4>1. d = c
        BY <1>2, <2>12, <3>2
      <4>2. k.signal # "kill"
        BY <2>6, <2>12, <4>1 DEF RunsOn
      <4> QED BY <2>4, <2>12, <4>2
    <3>3. CASE child[d].name # n
      BY <2>4, <2>12, <3>1, <3>3 DEF SpawnInv, SpawnTypes
    <3> QED BY <3>2, <3>3
  <2>13. LookedAfter'
    BY <1>1, <2>6, <2>8, <2>11, <2>12, LookedStays
  <2>14. Heard'
    BY <1>1, <2>6, HeardStays
  <2> QED BY <2>9, <2>10, <2>13, <2>14 DEF SpawnInv
<1> QED BY <1>4, <1>5

\* A stop's wait is over: it sends its next signal, or ends with the last.
LEMMA WaitKeeps ==
  ASSUME SpawnInv, NEW by \in S!By, NEW c \in Child, S!GiveUpWaiting(by, c) PROVE SpawnInv'
<1> DEFINE w == <<by, c>>
           ends == child[c].done \/ stop[w] = "termed"
<1>1. /\ stop[w] \in {"aborted", "termed"} /\ stop' = [stop EXCEPT ![w] = IF ends THEN "ended" ELSE "termed"]
      /\ agents' = (IF ends /\ by = "kill" THEN [agents EXCEPT ![child[c].name] = None] ELSE agents)
      /\ UNCHANGED <<phase, since, signalled, spoke, notices>>
  BY DEF S!GiveUpWaiting
<1>2. PICK k : /\ Marked(c, k) /\ k \in Kid /\ k.name = child[c].name /\ k.state = child[c].state
               /\ k.done = child[c].done /\ k.expected = child[c].expected
               /\ ends => k.done \/ k.signal = "kill"
               /\ child[c].signal = "kill" => k.signal = "kill"
  <2>1. child \in [Child -> Kid] /\ child[c] \in Kid
    BY DEF SpawnInv, SpawnTypes
  <2>2. CASE child[c].done
    <3>1. Marked(c, child[c])
      BY <2>1, <2>2 DEF S!GiveUpWaiting, Marked
    <3> QED BY <2>1, <2>2, <3>1
  <2>3. CASE ~child[c].done
    <3>1. PICK z \in {"no", "term", "kill"} :
             /\ z = (IF child[c].signal = "kill" THEN "kill" ELSE IF stop[w] = "aborted" THEN "term" ELSE "kill")
      OBVIOUS
    <3>2. PICK k : k = [child[c] EXCEPT !.signal = z]
      OBVIOUS
    <3>3. Marked(c, k)
      BY <2>1, <2>3, <3>1, <3>2 DEF S!GiveUpWaiting, S!Raise, Marked
    <3>4. /\ k \in Kid /\ k.name = child[c].name /\ k.state = child[c].state
          /\ k.done = child[c].done /\ k.expected = child[c].expected /\ k.signal = z
      BY <2>1, <3>2 DEF Kid
    <3> QED BY <1>1, <2>3, <3>1, <3>3, <3>4
  <2> QED BY <2>2, <2>3
<1>3. /\ stop' \in [Stop -> {"off", "aborted", "termed", "ended"}] /\ stop'[w] = (IF ends THEN "ended" ELSE "termed")
      /\ \A s \in Stop : s # w => stop'[s] = stop[s]
  BY <1>1 DEF SpawnInv, SpawnTypes, Stop
<1> HIDE DEF ends
<1>4. child[c].state # "unborn" /\ child[c].name \in Name
  BY <1>1 DEF SpawnInv, Born
<1>5. /\ child' \in [Child -> Kid] /\ child'[c] = k /\ \A d \in Child \ {c} : child'[d] = child[d]
      /\ NamesStay
      /\ \A d \in Child : child'[d].state = "closed" <=> child[d].state = "closed"
      /\ \A d \in Child : child[d].done => child'[d].done /\ child'[d].expected = child[d].expected
  BY <1>2, <1>4, MarkKeeps
<1>6. agents' \in [Name -> Child \cup {None}] /\ \A x \in Name : agents'[x] \in {agents[x], None}
  BY <1>1 DEF SpawnInv, SpawnTypes
<1>7. EndedStay
  BY <1>1, <1>3 DEF EndedStay, SpawnInv, SpawnTypes, Stop, S!By
<1>8. SpawnTypes'
  BY <1>1, <1>3, <1>5, <1>6 DEF SpawnInv, SpawnTypes
<1>9. Born'
  <2>1. \A y \in S!By, d \in Child : d = c \/ stop'[<<y, d>>] = stop[<<y, d>>]
    BY <1>3 DEF Stop
  <2> QED
    BY <1>1, <1>2, <1>4, <1>5, <1>6, <2>1, SpawnBounds DEF SpawnInv, SpawnTypes, Born
<1>10. \A d \in Child : RunsOn(d)' => RunsOn(d)
  BY <1>2, <1>5 DEF RunsOn
<1>11. RunsOn(c)' => ~ends
  BY <1>2, <1>5 DEF RunsOn
<1>12. ASSUME NEW d \in Child, RunsOn(d), RunsOn(d)', agents[child[d].name] = d
       PROVE agents'[child[d].name] = d \/ S!Replaced(d)'
  <2>1. CASE ends /\ by = "kill" /\ child[c].name = child[d].name
    <3>1. d # c
      BY <1>11, <1>12, <2>1
    <3>2. stop'[<<"kill", c>>] = "ended" /\ child'[c].name = child'[d].name
      BY <1>2, <1>3, <1>5, <2>1, <3>1
    <3> QED BY <3>1, <3>2 DEF S!Replaced
  <2>2. CASE ~(ends /\ by = "kill" /\ child[c].name = child[d].name)
    <3>1. child[d].name \in Name
      BY <1>12 DEF SpawnInv, Born, RunsOn
    <3> QED BY <1>1, <1>12, <2>2, <3>1 DEF SpawnInv, SpawnTypes
  <2> QED BY <2>1, <2>2
<1>13. \A d \in Child : RunsOn(d)' /\ stop[<<"shutdown", d>>] \in AtIt => stop'[<<"shutdown", d>>] \in AtIt
  <2>1. ASSUME NEW d \in Child, RunsOn(d)', stop[<<"shutdown", d>>] \in AtIt
        PROVE stop'[<<"shutdown", d>>] \in AtIt
    <3>1. <<"shutdown", d>> \in Stop
      BY DEF Stop, S!By
    <3>2. CASE <<"shutdown", d>> = w
      BY <1>3, <1>11, <2>1, <3>2 DEF AtIt
    <3>3. CASE <<"shutdown", d>> # w
      BY <1>3, <2>1, <3>1, <3>3
    <3> QED BY <3>2, <3>3
  <2> QED BY <2>1
<1>14. LookedAfter'
  BY <1>1, <1>5, <1>7, <1>10, <1>12, <1>13, LookedStays
<1>15. Heard'
  BY <1>1, <1>5, HeardStays
<1> QED BY <1>8, <1>9, <1>14, <1>15 DEF SpawnInv

\* The session ends: a stop is at each child that is found under a name and runs on.
LEMMA ShutdownKeeps == ASSUME SpawnInv, S!Shutdown PROVE SpawnInv'
<1> DEFINE live == {c \in S!Tracked : ~child[c].done}
<1>1. /\ phase = "running" /\ phase' = "stopping" /\ UNCHANGED <<agents, since, signalled, spoke, notices>>
      /\ child' = [c \in Child |-> IF c \in live THEN [child[c] EXCEPT !.expected = TRUE] ELSE child[c]]
      /\ stop' = [s \in S!By \X Child |-> IF s[1] = "shutdown" /\ s[2] \in live THEN "aborted" ELSE stop[s]]
  BY DEF S!Shutdown
<1>2. live \subseteq Child /\ \A c \in live : child[c].state # "unborn" /\ child[c].state # "closed" /\ ~child[c].done
  BY DEF S!Tracked, SpawnInv, SpawnTypes, Born
<1>3. \A c \in Child : agents[child[c].name] = c /\ RunsOn(c) => c \in live
  BY SpawnBounds DEF S!Tracked, SpawnInv, Born, RunsOn
<1> HIDE DEF live
<1>4. ASSUME NEW c \in Child
      PROVE /\ child'[c] \in Kid /\ child'[c].name = child[c].name /\ child'[c].state = child[c].state
            /\ child'[c].done = child[c].done /\ child'[c].signal = child[c].signal
            /\ c \notin live => child'[c] = child[c]
  <2>1. child[c] \in Kid
    BY DEF SpawnInv, SpawnTypes
  <2>2. CASE c \in live
    <3>1. child'[c] = [child[c] EXCEPT !.expected = TRUE]
      BY <1>1, <2>2
    <3> QED BY <2>1, <2>2, <3>1 DEF Kid
  <2>3. CASE c \notin live
    BY <1>1, <2>1, <2>3
  <2> QED BY <2>2, <2>3
<1>5. child' \in [Child -> Kid]
  BY <1>1, <1>4
<1>6. /\ stop' \in [Stop -> {"off", "aborted", "termed", "ended"}]
      /\ \A c \in Child : stop'[<<"kill", c>>] = stop[<<"kill", c>>]
      /\ \A c \in live : stop'[<<"shutdown", c>>] = "aborted"
      /\ \A c \in Child : c \notin live => stop'[<<"shutdown", c>>] = stop[<<"shutdown", c>>]
  BY <1>1, <1>2 DEF SpawnInv, SpawnTypes, Stop, S!By
<1>7. SpawnTypes'
  BY <1>1, <1>5, <1>6 DEF SpawnInv, SpawnTypes
<1>8. Born'
  <2>1. ASSUME NEW by \in S!By, NEW c \in Child, stop'[<<by, c>>] # "off"
        PROVE child'[c].state # "unborn"
    <3>1. c \in live \/ stop'[<<by, c>>] = stop[<<by, c>>]
      BY <1>6 DEF S!By
    <3>2. child[c].state # "unborn"
      BY <1>2, <2>1, <3>1 DEF SpawnInv, Born
    <3> QED BY <1>4, <3>2
  <2>2. ASSUME NEW n \in Name, agents'[n] # None
        PROVE child'[agents'[n]].state # "unborn" /\ child'[agents'[n]].name = n
    <3>1. PICK c \in Child : c = agents[n] /\ agents'[n] = c
      BY <1>1, <2>2 DEF SpawnInv, SpawnTypes
    <3>2. child[c].state # "unborn" /\ child[c].name = n
      BY <1>1, <2>2, <3>1 DEF SpawnInv, Born
    <3> QED BY <1>4, <3>1, <3>2
  <2>3. ASSUME NEW c \in Child
        PROVE /\ child'[c].state # "unborn" => child'[c].name \in Name
              /\ child'[c].state = "unborn" => child'[c].name = None /\ c \notin spoke' /\ ~child'[c].done
              /\ child'[c].state = "closed" => child'[c].done
    BY <1>1, <1>4 DEF SpawnInv, Born
  <2> QED BY <2>1, <2>2, <2>3 DEF Born
<1>9. NamesStay /\ EndedStay
  BY <1>4, <1>6 DEF NamesStay, EndedStay
<1>10. \A c \in Child : RunsOn(c)' => RunsOn(c)
  BY <1>4 DEF RunsOn
<1>11. \A c \in Child : RunsOn(c) /\ S!Replaced(c) => S!Replaced(c)'
  BY <1>9, ReplacedStays DEF SpawnInv, RunsOn
<1>12. LookedAfter'
  <2>1. ASSUME NEW c \in Child, RunsOn(c)'
        PROVE /\ agents'[child'[c].name] = c \/ S!Replaced(c)'
              /\ stop'[<<"shutdown", c>>] \in {"aborted", "termed"} \/ S!Replaced(c)'
    <3>1. agents[child[c].name] = c \/ S!Replaced(c)'
      BY <1>10, <1>11, <2>1 DEF SpawnInv, LookedAfter
    <3> QED BY <1>1, <1>3, <1>4, <1>6, <1>10, <2>1, <3>1
  <2> QED BY <1>1, <2>1 DEF LookedAfter
<1>13. Heard'
  BY <1>1, <1>2, <1>4, <1>9, HeardStays
<1> QED BY <1>7, <1>8, <1>12, <1>13 DEF SpawnInv

\* The shutdown's stops have ended: who still runs on had lost its name.
LEMMA DownKeeps == ASSUME SpawnInv, S!Down PROVE SpawnInv'
<1>1. /\ phase = "stopping" /\ phase' = "down" /\ \A c \in Child : stop[<<"shutdown", c>>] \in {"off", "ended"}
      /\ UNCHANGED <<agents, child, since, signalled, stop, spoke, notices>>
  BY DEF S!Down
<1>2. SpawnTypes' /\ Born' /\ Heard'
  BY <1>1 DEF SpawnInv, SpawnTypes, Born, Heard, S!SilentEndIsReported
<1>3. LookedAfter'
  BY <1>1 DEF SpawnInv, LookedAfter, RunsOn, S!Replaced
<1> QED BY <1>2, <1>3 DEF SpawnInv

\* Every step of the spawner and of the children.
LEMMA SpawnerKeeps == ASSUME SpawnInv, [S!Next]_spawning PROVE SpawnInv'
<1>1. CASE UNCHANGED spawning
  <2>1. SpawnTypes'
    BY <1>1 DEF spawning, SpawnInv, SpawnTypes
  <2>2. Born'
    BY <1>1 DEF spawning, SpawnInv, Born
  <2>3. LookedAfter'
    BY <1>1 DEF spawning, SpawnInv, LookedAfter, RunsOn, S!Replaced
  <2>4. Heard'
    BY <1>1 DEF spawning, SpawnInv, Heard, S!SilentEndIsReported
  <2> QED BY <2>1, <2>2, <2>3, <2>4 DEF SpawnInv
<1> QED
  BY <1>1, SpawnKeeps, FreeKeeps, EmitKeeps, DieKeeps, CloseKeeps, OverflowKeeps, KillKeeps, WaitKeeps,
     ShutdownKeeps, DownKeeps
  DEF S!Next

\* A step of the hub is one of the spawner, or leaves the spawner alone.
LEMMA SpawnerSteps ==
  ASSUME [SumNext]_<<part, registering, spawning, vars>> PROVE [S!Next]_spawning
<1>1. CASE InRegistry \/ InLock \/ UNCHANGED <<part, registering, spawning, vars>>
  BY <1>1 DEF InRegistry, InLock
<1>2. CASE InSpawner
  BY <1>2 DEF SumNext, InRegistry, InSpawner, InLock, S!Next
<1> QED BY <1>1, <1>2 DEF SumNext

\* A session does not go down with an agent of its own still running, but for one it killed, one
\* whose stdin broke and one whose entry went with an older agent of its name.
THEOREM HubNoneLeftRunning == SumSpec => []NoneLeftRunning
<1>1. SumInit => SpawnInv
  BY InitSpawn DEF SumInit
<1>2. SpawnInv /\ [SumNext]_<<part, registering, spawning, vars>> => SpawnInv'
  BY SpawnerSteps, SpawnerKeeps
<1>3. SpawnInv => NoneLeftRunning
  BY DEF SpawnInv, LookedAfter, RunsOn, NoneLeftRunning, S!NoneLeftRunning, S!Up
<1> QED BY <1>1, <1>2, <1>3, PTL DEF SumSpec

\* An agent that ends on its own without a signal is reported, and one that was stopped is not.
THEOREM HubSilentEndIsReported == SumSpec => []SilentEndIsReported
<1>1. SumInit => SpawnInv
  BY InitSpawn DEF SumInit
<1>2. SpawnInv /\ [SumNext]_<<part, registering, spawning, vars>> => SpawnInv'
  BY SpawnerSteps, SpawnerKeeps
<1>3. SpawnInv => SilentEndIsReported
  BY DEF SpawnInv, Heard, SilentEndIsReported
<1> QED BY <1>1, <1>2, <1>3, PTL DEF SumSpec

(***************************************************************************)
(* The registry                                                            *)
(***************************************************************************)

\* The registry's operators on finite sets are the library's.
LEMMA RegistrySets == \A T : R!Cardinality(T) = Cardinality(T) /\ (R!IsFiniteSet(T) <=> IsFiniteSet(T))
<1>1. \A T : R!Cardinality(T) = Cardinality(T)
  BY DEF Cardinality, R!Cardinality
<1>2. \A T : R!IsFiniteSet(T) <=> IsFiniteSet(T)
  BY DEF IsFiniteSet, R!IsFiniteSet
<1> QED BY <1>1, <1>2

\* A set with one member has it.
LEMMA OneMember == ASSUME NEW T, IsFiniteSet(T), R!Cardinality(T) = 1 PROVE \E x : T = {x}
<1>1. Cardinality(T) = 1
  BY RegistrySets
<1> QED BY <1>1, FS_Singleton

\* One member, and none.
LEMMA FewMembers == R!Cardinality({}) = 0 /\ \A x : R!Cardinality({x}) = 1
<1>1. Cardinality({}) = 0
  BY FS_EmptySet
<1>2. \A x : Cardinality({x}) = 1
  BY FS_Singleton
<1> QED BY <1>1, <1>2, RegistrySets

\* The agents are finitely many.
LEMMA FiniteAgents == IsFiniteSet(Agent)
BY RegistrySets, HubAssumption DEF R!RegistryAssumption

\* Whoever the registry knows by a label bears it, declared it or answers to it.
LEMMA FoundAnswers ==
  ASSUME NEW records, IsFiniteSet(records), NEW l, NEW x \in R!FindByLabel(records, l)
  PROVE x \in records /\ (x.name = R!Plain(l) \/ x.declared = l \/ x.alias = l)
<1>1. ASSUME NEW T, T \subseteq records PROVE R!TheOnly(T) \subseteq T
  <2>1. CASE R!Cardinality(T) = 1
    <3>1. PICK y : T = {y}
      BY <1>1, <2>1, FS_Subset, OneMember
    <3>2. (CHOOSE r \in T : TRUE) \in T
      BY <3>1, Zenon
    <3> QED BY <1>1, <2>1, <3>2 DEF R!TheOnly
  <2>2. CASE R!Cardinality(T) # 1
    BY <2>2 DEF R!TheOnly
  <2> QED BY <2>1, <2>2
<1>2. PICK plain : plain = {r \in records : r.namespace = None}
  OBVIOUS
<1>3. PICK named : named = {r \in plain : r.name = R!Plain(l)}
  OBVIOUS
<1>4. PICK declared : declared = {r \in plain : r.declared = l}
  OBVIOUS
<1>5. PICK spawned : spawned = {r \in records : r.alias = l /\ \A y \in records : y.namespace # l}
  OBVIOUS
<1>6. PICK trusted : trusted = {r \in named : r.source \in {"user", "declared"}}
  OBVIOUS
<1>7. trusted \subseteq records /\ spawned \subseteq records
  BY <1>2, <1>3, <1>5, <1>6
<1>8. R!FindByLabel(records, l) \in {named, R!TheOnly(trusted), declared, R!TheOnly(spawned)}
  BY <1>2, <1>3, <1>4, <1>5, <1>6 DEF R!FindByLabel
<1>9. x \in named \/ x \in trusted \/ x \in declared \/ x \in spawned
  BY <1>1, <1>7, <1>8
<1> QED BY <1>2, <1>3, <1>4, <1>5, <1>6, <1>9

\* The record of the one plain agent that bears a label or declares it is the one that is found.
LEMMA BearerIsFound ==
  ASSUME NEW records, NEW l, NEW x \in records, x.namespace = None, x.name = R!Plain(l) \/ x.declared = l,
         \A r \in records : r.namespace = None /\ (r.name = R!Plain(l) \/ r.declared = l) => r = x
  PROVE R!FindByLabel(records, l) = {x}
<1>1. PICK plain : plain = {r \in records : r.namespace = None}
  OBVIOUS
<1>2. PICK named : named = {r \in plain : r.name = R!Plain(l)}
  OBVIOUS
<1>3. PICK declared : declared = {r \in plain : r.declared = l}
  OBVIOUS
<1>4. CASE x.name = R!Plain(l)
  <2>1. named = {x}
    BY <1>1, <1>2, <1>4
  <2>2. R!Cardinality(named) = 1
    BY <2>1, FewMembers
  <2> QED BY <1>1, <1>2, <2>1, <2>2 DEF R!FindByLabel
<1>5. CASE x.name # R!Plain(l)
  <2>1. declared = {x} /\ named = {}
    BY <1>1, <1>2, <1>3, <1>5
  <2>2. R!Cardinality(declared) = 1 /\ R!Cardinality(named) = 0
    BY <2>1, FewMembers
  <2> QED BY <1>1, <1>2, <1>3, <2>1, <2>2 DEF R!FindByLabel
<1> QED BY <1>4, <1>5

\* The least of some positive numbers.
LEMMA LeastNumber == ASSUME NEW T \in SUBSET Nat, T # {} PROVE \E k \in T : \A j \in T : k <= j
<1> DEFINE Pairs == {ss \in Nat \X Nat : ss[1] < ss[2]}
<1>1. IsWellFoundedOn(Pairs, Nat)
  BY NatLessThanWellFounded DEF OpToRel
<1>2. PICK k \in T : \A j \in T : ~(<<j, k>> \in Pairs)
  BY <1>1, WFMin
<1>3. ASSUME NEW j \in T, ~(k <= j) PROVE FALSE
  <2>1. j \in Nat /\ k \in Nat /\ j < k
    BY <1>3
  <2>2. <<j, k>> \in Pairs
    BY <2>1
  <2> QED BY <1>2, <2>2
<1> QED BY <1>2, <1>3

\* Records of agents, names about to be written, and functions, by their shape.
IsRecord(r) == r = [name |-> r.name, source |-> r.source, alias |-> r.alias, synced |-> r.synced]
IsClaim(c) == c = [record |-> c.record, owns |-> c.owns] /\ IsRecord(c.record)
IsOn(f, T) == f = [x \in T |-> f[x]]

\* One process at a time has the journal as it is, and an entry is of one who declared the label.
ProcessFact(a) ==
  /\ life[a] = "live" => IsRecord(mem[a])
  /\ claim[a] # None => IsClaim(claim[a])
OwnerInv ==
  /\ IsOn(own, Agent) /\ IsOn(journal, Label)
  /\ \A a \in Agent : own[a] = "locked" => ownSnap = journal /\ \A b \in Agent : own[b] = "locked" => b = a
  /\ \A a \in Agent, l \in Label : journal[l] = a => profile[a].declared = l
RegistryInv ==
  /\ IsOn(mem, Agent) /\ IsOn(claim, Agent) /\ IsOn(life, Agent) /\ IsOn(asked, Agent) /\ IsOn(ext, External)
  /\ \A a \in Agent : ProcessFact(a)
  /\ OwnerInv

\* A name that may be taken is nobody else's label.
LEMMA ClaimableIsFree ==
  ASSUME OwnerInv, NEW a \in Agent, NEW l \in Label, R!Stranger(a, l), journal[l] # None, NEW n, R!Claimable(a, n)
  PROVE n # R!Plain(l)
BY DEF OwnerInv, R!Stranger, R!Claimable, R!Reserved

\* So is none that is picked.
LEMMA UniqueIsFree ==
  ASSUME OwnerInv, NEW a \in Agent, NEW l \in Label, R!Stranger(a, l), journal[l] # None, NEW base
  PROVE R!UniqueName(a, base) # R!Plain(l)
<1>1. PICK free : free = {k \in 1 .. MaxSuffix : R!Claimable(a, <<base, k>>)}
  OBVIOUS
<1>2. CASE free = {}
  BY <1>1, <1>2, HubAssumption DEF R!UniqueName, R!Plain, R!RegistryAssumption
<1>3. CASE free # {}
  <2>1. free \in SUBSET Nat
    BY <1>1, HubAssumption DEF R!RegistryAssumption
  <2>2. PICK k : k = CHOOSE i \in free : \A j \in free : i <= j
    OBVIOUS
  <2>3. k \in free
    BY <1>3, <2>1, <2>2, LeastNumber, Zenon
  <2>4. R!Claimable(a, <<base, k>>)
    BY <1>1, <2>3
  <2>5. R!UniqueName(a, base) = <<base, k>>
    BY <1>1, <1>3, <2>2 DEF R!UniqueName
  <2> QED BY <2>4, <2>5, ClaimableIsFree
<1> QED BY <1>2, <1>3

\* So is none that an agent begins with.
LEMMA PickedIsFree ==
  ASSUME OwnerInv, NEW a \in Agent, NEW s
  PROVE /\ \A l \in Label : R!Stranger(a, l) /\ journal[l] # None => R!PickActiveName(a, s).name # R!Plain(l)
<1>1. \/ s # None /\ R!Claimable(a, s) /\ R!PickActiveName(a, s).name = s
      \/ \E base : R!PickActiveName(a, s).name = R!UniqueName(a, base)
  BY DEF R!PickActiveName
<1> QED BY <1>1, ClaimableIsFree, UniqueIsFree

\* A label no stranger holds.
Safe(r, a) == \A l \in Label : R!Stranger(a, l) /\ journal[l] # None => r.name # R!Plain(l)

\* An alias no stranger may answer to, unless the process answers to it already.
SafeAlias(r, a) ==
  \A l \in Label : R!Stranger(a, l) /\ journal[l] # None => r.alias # l \/ (life[a] = "live" /\ mem[a].alias = l)

\* A process may claim a name that is nobody else's.
LEMMA ClaimKeeps ==
  ASSUME RegistryInv, NEW a \in Agent, NEW c, claim' = [claim EXCEPT ![a] = c], IsClaim(c), Safe(c.record, a),
         SafeAlias(c.record, a),
         UNCHANGED <<profile, mem, journal, own, ownSnap, ext, asked>>, IsOn(life', Agent),
         \A b \in Agent : life'[b] = "live" => life[b] = "live"
  PROVE /\ RegistryInv'
        /\ \A l \in Label : (R!Unclaimed(l) => R!Unclaimed(l)') /\ (R!Settled(l) => R!Settled(l)')
<1>1. claim' = [b \in Agent |-> IF b = a THEN c ELSE claim[b]]
  BY DEF RegistryInv, IsOn
<1>2. OwnerInv'
  BY DEF RegistryInv, OwnerInv
<1>3. ASSUME NEW b \in Agent PROVE ProcessFact(b)'
  BY <1>1 DEF RegistryInv, ProcessFact
<1>4. RegistryInv'
  BY <1>1, <1>2, <1>3 DEF RegistryInv, IsOn
<1>5. ASSUME NEW l \in Label, R!Unclaimed(l) PROVE R!Unclaimed(l)'
  <2>1. ASSUME NEW b \in Agent, R!Stranger(b, l) PROVE claim'[b] = None \/ claim'[b].record.name # R!Plain(l)
    BY <1>1, <1>5, <2>1 DEF R!Unclaimed, Safe
  <2> QED BY <1>5, <2>1 DEF R!Unclaimed, R!Stranger, R!Registered
<1>6. ASSUME NEW l \in Label, R!Settled(l) PROVE R!Settled(l)'
  <2>1. ASSUME NEW b \in Agent, R!Stranger(b, l), profile[b].namespace = None PROVE ~R!AnswersNow(b, l)'
    <3>1. ~R!AnswersNow(b, l) /\ journal[l] # None
      BY <1>6, <2>1 DEF R!Settled
    <3>2. CASE b # a
      BY <1>1, <3>1, <3>2 DEF R!AnswersNow, R!Answers
    <3>3. CASE b = a
      <4>1. ~R!Answers(c.record, l) /\ claim'[b] = c
        BY <1>1, <2>1, <3>1, <3>3 DEF R!AnswersNow, R!Answers, Safe, SafeAlias
      <4> QED BY <3>1, <4>1 DEF R!AnswersNow, R!Answers
    <3> QED BY <3>2, <3>3
  <2> QED BY <1>6, <2>1 DEF R!Settled, R!Stranger
<1> QED BY <1>4, <1>5, <1>6

\* The journal stays, and nobody else has its lock.
LEMMA OwnersStay ==
  ASSUME OwnerInv, UNCHANGED <<profile, journal>>, IsOn(own', Agent),
         \A b \in Agent : own'[b] = "locked" => own[b] = "locked" /\ ownSnap' = ownSnap
  PROVE OwnerInv'
BY DEF OwnerInv

\* What a step may do to a process, to an external registration and to a label in the journal.
ProcessMoves(b) ==
  /\ ProcessFact(b)'
  /\ mem'[b] \in {mem[b], None} \/ (claim[b] # None /\ mem'[b] = claim[b].record)
  /\ life'[b] = "live" => (life[b] = "live" /\ mem'[b] = mem[b]) \/ (claim[b] # None /\ mem'[b] = claim[b].record)
  /\ claim'[b] \in {claim[b], None}
  /\ asked'[b] \in {asked[b], None} \/ journal[asked'[b].label] = None
ExternalMoves(e) == ext'[e] \in {ext[e], None} \/ \E b \in Agent : asked[b] # None /\ ext'[e] = asked[b].label

\* Such a step keeps the invariant, and a label that is nobody else's.
LEMMA MovesKeep ==
  ASSUME RegistryInv, profile' = profile, OwnerInv', \A b \in Agent : ProcessMoves(b),
         \A e \in External : ExternalMoves(e), \A l \in Label : journal[l] # None => journal'[l] # None,
         IsOn(mem', Agent), IsOn(claim', Agent), IsOn(life', Agent), IsOn(asked', Agent), IsOn(ext', External)
  PROVE /\ RegistryInv'
        /\ \A l \in Label : (R!Unclaimed(l) => R!Unclaimed(l)') /\ (R!Settled(l) => R!Settled(l)')
<1>1. RegistryInv'
  BY DEF RegistryInv, ProcessMoves
<1>2. ASSUME NEW l \in Label, R!Unclaimed(l) PROVE R!Unclaimed(l)'
  <2>1. journal[l] # None /\ journal'[l] # None
    BY <1>2 DEF R!Unclaimed
  <2>2. ASSUME NEW b \in Agent, R!Stranger(b, l)
        PROVE /\ mem'[b] = None \/ mem'[b].name # R!Plain(l)
              /\ claim'[b] = None \/ claim'[b].record.name # R!Plain(l)
    BY <1>2, <2>2 DEF R!Unclaimed, ProcessMoves
  <2>3. ASSUME NEW b \in Agent PROVE asked'[b] = None \/ asked'[b].label # l
    BY <1>2, <2>1 DEF R!Unclaimed, ProcessMoves
  <2>4. l \notin R!Registered'
    <3>1. \A e \in External : ext'[e] # None => ext'[e] # l
      BY <1>2 DEF R!Unclaimed, R!Registered, ExternalMoves
    <3> QED BY <3>1 DEF R!Registered
  <2> QED BY <2>1, <2>2, <2>3, <2>4 DEF R!Unclaimed, R!Stranger
<1>3. ASSUME NEW l \in Label, R!Settled(l) PROVE R!Settled(l)'
  <2>1. ASSUME NEW b \in Agent, R!Stranger(b, l), profile[b].namespace = None PROVE ~R!AnswersNow(b, l)'
    <3>1. ~R!AnswersNow(b, l) /\ ProcessMoves(b)
      BY <1>3, <2>1 DEF R!Settled
    <3> QED BY <3>1 DEF R!AnswersNow, R!Answers, ProcessMoves
  <2>2. journal'[l] # None
    BY <1>3 DEF R!Settled
  <2> QED BY <2>1, <2>2 DEF R!Settled, R!Stranger
<1> QED BY <1>1, <1>2, <1>3

\* What every step of the registry is shown to do.
Holds ==
  /\ RegistryInv'
  /\ \A l \in Label : (R!Unclaimed(l) => R!Unclaimed(l)') /\ (R!Settled(l) => R!Settled(l)')

\* Nothing of a process moves.
LEMMA Stays ==
  ASSUME RegistryInv, UNCHANGED <<mem, claim, asked, life>>, NEW b \in Agent
  PROVE ProcessMoves(b)
BY DEF RegistryInv, ProcessFact, ProcessMoves

\* A process that picks a name.
LEMMA PicksKeep ==
  ASSUME RegistryInv, NEW a \in Agent, R!JoinPick(a) \/ R!Sync(a) \/ \E l \in Label : R!SetName(a, R!Plain(l))
  PROVE Holds
<1>1. IsOn(claim, Agent) /\ IsOn(life, Agent) /\ OwnerInv /\ ProcessFact(a)
  BY DEF RegistryInv
<1>2. CASE R!JoinPick(a)
  <2>1. PICK n : n = R!PickActiveName(a, session[a]).name
    OBVIOUS
  <2>2. PICK x, y, z, w :
          /\ claim' = [claim EXCEPT ![a] = [record |-> [name |-> n, source |-> x, alias |-> y, synced |-> z],
                                            owns |-> w]]
          /\ y = None \/ n = R!Plain(y)
    BY <1>2, <2>1 DEF R!JoinPick
  <2>0. PICK c : c = [record |-> [name |-> n, source |-> x, alias |-> y, synced |-> z], owns |-> w]
    OBVIOUS
  <2>3. claim' = [claim EXCEPT ![a] = c] /\ IsClaim(c) /\ c.record.name = n /\ c.record.alias = y
    BY <2>0, <2>2 DEF IsClaim, IsRecord
  <2>4. Safe(c.record, a) /\ SafeAlias(c.record, a)
    <3>1. Safe(c.record, a)
      BY <1>1, <2>1, <2>3, PickedIsFree DEF Safe
    <3> QED BY <2>2, <2>3, <3>1, HubAssumption DEF Safe, SafeAlias, R!RegistryAssumption
  <2>5. UNCHANGED <<profile, mem, journal, own, ownSnap, ext, asked>> /\ life' = [life EXCEPT ![a] = "joining"]
    BY <1>2 DEF R!JoinPick, R!owners, R!outside
  <2>6. IsOn(life', Agent) /\ \A b \in Agent : life'[b] = "live" => life[b] = "live"
    BY <1>1, <2>5 DEF IsOn
  <2> QED BY <2>3, <2>4, <2>5, <2>6, ClaimKeeps DEF Holds
<1>3. ASSUME R!Free(a), NEW n, NEW x, NEW y, NEW w, NEW r, r = [mem[a] EXCEPT !.name = n, !.source = x, !.synced = y],
             claim' = [claim EXCEPT ![a] = [record |-> r, owns |-> w]],
             \A l \in Label : R!Stranger(a, l) /\ journal[l] # None => n # R!Plain(l),
             UNCHANGED <<profile, mem, journal, own, ownSnap, ext, asked, life>>
      PROVE Holds
  <2>1. IsRecord(r) /\ r.name = n /\ r.alias = mem[a].alias
    BY <1>1, <1>3 DEF R!Free, ProcessFact, IsRecord
  <2>2. PICK c : c = [record |-> r, owns |-> w]
    OBVIOUS
  <2>3. IsClaim(c) /\ Safe(c.record, a) /\ claim' = [claim EXCEPT ![a] = c]
    BY <1>3, <2>1, <2>2 DEF IsClaim, Safe
  <2>4. SafeAlias(c.record, a)
    BY <1>1, <1>3, <2>1, <2>2 DEF SafeAlias, R!Free, ProcessFact
  <2> QED BY <1>1, <1>3, <2>3, <2>4, ClaimKeeps DEF Holds
<1>4. CASE R!Sync(a)
  <2>1. PICK picked : picked = IF session[a] = None
                               THEN R!PickActiveName(a, None) ELSE [name |-> session[a], source |-> "user"]
    OBVIOUS
  <2>2. PICK r, w : /\ r = [mem[a] EXCEPT !.name = picked.name, !.source = picked.source, !.synced = session[a]]
                    /\ claim' = [claim EXCEPT ![a] = [record |-> r, owns |-> w]]
    BY <1>4, <2>1 DEF R!Sync
  <2>3. \A l \in Label : R!Stranger(a, l) /\ journal[l] # None => picked.name # R!Plain(l)
    <3>1. CASE session[a] = None
      BY <1>1, <2>1, <3>1, PickedIsFree
    <3>2. CASE session[a] # None
      <4>1. picked.name = session[a] /\ R!Claimable(a, session[a])
        BY <1>4, <2>1, <3>2 DEF R!Sync
      <4> QED BY <1>1, <4>1, ClaimableIsFree
    <3> QED BY <3>1, <3>2
  <2>4. R!Free(a) /\ UNCHANGED <<profile, mem, journal, own, ownSnap, ext, asked, life>>
    BY <1>4 DEF R!Sync, R!owners, R!outside
  <2> QED BY <1>3, <2>2, <2>3, <2>4
<1>5. ASSUME NEW m \in Label, R!SetName(a, R!Plain(m)) PROVE Holds
  <2>1. PICK r, w : /\ r = [mem[a] EXCEPT !.name = R!Plain(m), !.source = "programmatic", !.synced = R!Plain(m)]
                    /\ claim' = [claim EXCEPT ![a] = [record |-> r, owns |-> w]]
    BY <1>5 DEF R!SetName
  <2>2. \A l \in Label : R!Stranger(a, l) /\ journal[l] # None => R!Plain(m) # R!Plain(l)
    BY <1>1, <1>5, ClaimableIsFree DEF R!SetName
  <2>3. R!Free(a) /\ UNCHANGED <<profile, mem, journal, own, ownSnap, ext, asked, life>>
    BY <1>5 DEF R!SetName, R!owners, R!outside
  <2> QED BY <1>3, <2>1, <2>2, <2>3
<1> QED BY <1>2, <1>4, <1>5

\* The record that was picked is written.
LEMMA FlushKeeps == ASSUME RegistryInv, NEW a \in Agent, R!Flush(a) PROVE Holds
<1>1. PICK r : r = claim[a].record
  OBVIOUS
<1>2. /\ claim[a] # None /\ mem' = [mem EXCEPT ![a] = r] /\ life' = [life EXCEPT ![a] = "live"]
      /\ claim' = [claim EXCEPT ![a] = None] /\ R!Ask(a, claim[a].owns)
      /\ UNCHANGED <<profile, journal, ownSnap, ext, asked>>
  BY <1>1 DEF R!Flush, R!outside
<1>3. /\ IsOn(mem, Agent) /\ IsOn(claim, Agent) /\ IsOn(life, Agent) /\ IsOn(own, Agent) /\ OwnerInv
      /\ IsOn(asked, Agent) /\ IsOn(ext, External)
  BY DEF RegistryInv, OwnerInv
<1>4. IsRecord(r)
  BY <1>1, <1>2 DEF RegistryInv, ProcessFact, IsClaim
<1>5. IsOn(mem', Agent) /\ IsOn(claim', Agent) /\ IsOn(life', Agent)
  BY <1>2, <1>3 DEF IsOn
<1>6. ASSUME NEW b \in Agent PROVE ProcessMoves(b)
  <2>1. CASE b = a
    BY <1>1, <1>2, <1>3, <1>4, <2>1 DEF ProcessMoves, ProcessFact, IsOn
  <2>2. CASE b # a
    <3>1. mem'[b] = mem[b] /\ claim'[b] = claim[b] /\ life'[b] = life[b] /\ asked'[b] = asked[b]
      BY <1>2, <1>3, <2>2 DEF IsOn
    <3> QED BY <3>1 DEF RegistryInv, ProcessMoves, ProcessFact
  <2> QED BY <2>1, <2>2
<1>7. OwnerInv'
  <2>1. own' = own \/ own' = [own EXCEPT ![a] = "wait"]
    BY <1>2 DEF R!Ask
  <2>2. IsOn(own', Agent) /\ \A b \in Agent : own'[b] = "locked" => own[b] = "locked"
    BY <1>3, <2>1 DEF IsOn
  <2> QED BY <1>2, <1>3, <2>2, OwnersStay
<1>8. \A e \in External : ExternalMoves(e)
  BY <1>2 DEF ExternalMoves
<1> QED BY <1>2, <1>3, <1>5, <1>6, <1>7, <1>8, MovesKeep DEF Holds

\* A process that ends or leaves holds nothing.
LEMMA LeaveKeeps ==
  ASSUME RegistryInv, NEW a \in Agent, NEW gone, gone # "live",
         life' = [life EXCEPT ![a] = gone], mem' = [mem EXCEPT ![a] = None],
         claim' = claim \/ claim' = [claim EXCEPT ![a] = None],
         asked' = asked \/ asked' = [asked EXCEPT ![a] = None],
         UNCHANGED <<profile, journal, ext>>, OwnerInv'
  PROVE Holds
<1>1. /\ IsOn(mem, Agent) /\ IsOn(claim, Agent) /\ IsOn(life, Agent) /\ IsOn(asked, Agent) /\ IsOn(ext, External)
  BY DEF RegistryInv
<1>2. IsOn(mem', Agent) /\ IsOn(claim', Agent) /\ IsOn(life', Agent) /\ IsOn(asked', Agent)
  BY <1>1 DEF IsOn
<1>3. ASSUME NEW b \in Agent PROVE ProcessMoves(b)
  <2>1. CASE b = a
    <3>1. mem'[b] = None /\ claim'[b] \in {claim[b], None} /\ life'[b] # "live" /\ asked'[b] \in {asked[b], None}
      BY <1>1, <2>1 DEF IsOn
    <3> QED BY <3>1 DEF RegistryInv, ProcessMoves, ProcessFact
  <2>2. CASE b # a
    <3>1. mem'[b] = mem[b] /\ claim'[b] = claim[b] /\ life'[b] = life[b] /\ asked'[b] = asked[b]
      BY <1>1, <2>2 DEF IsOn
    <3> QED BY <3>1 DEF RegistryInv, ProcessMoves, ProcessFact
  <2> QED BY <2>1, <2>2
<1>4. \A e \in External : ExternalMoves(e)
  BY DEF ExternalMoves
<1> QED BY <1>1, <1>2, <1>3, <1>4, MovesKeep DEF Holds

\* Ends.
LEMMA EndedKeeps == ASSUME RegistryInv, NEW a \in Agent, R!Ended(a) \/ R!Unregister(a) PROVE Holds
<1>1. OwnerInv /\ IsOn(own, Agent)
  BY DEF RegistryInv, OwnerInv
<1>2. CASE R!Ended(a)
  <2>1. /\ own' = [own EXCEPT ![a] = "idle"] /\ UNCHANGED <<profile, journal, ext>>
        /\ own[a] # "locked" => ownSnap' = ownSnap
    BY <1>2 DEF R!Ended
  <2>2. IsOn(own', Agent) /\ \A b \in Agent : own'[b] = "locked" => b # a /\ own[b] = "locked"
    BY <1>1, <2>1 DEF IsOn
  <2>3. \A b \in Agent : own'[b] = "locked" => ownSnap' = ownSnap
    BY <1>1, <2>1, <2>2 DEF OwnerInv
  <2>4. OwnerInv'
    BY <1>1, <2>1, <2>2, <2>3, OwnersStay
  <2> QED BY <1>2, <2>1, <2>4, LeaveKeeps DEF R!Ended
<1>3. CASE R!Unregister(a)
  <2>1. UNCHANGED <<profile, journal, own, ownSnap, ext, claim>>
    BY <1>3 DEF R!Unregister, R!owners
  <2>2. OwnerInv'
    BY <1>1, <2>1, OwnersStay
  <2> QED BY <1>3, <2>1, <2>2, LeaveKeeps DEF R!Unregister
<1> QED BY <1>2, <1>3

\* A process begins.
LEMMA BeginKeeps == ASSUME RegistryInv, NEW a \in Agent, R!Load(a) \/ R!Restart(a) PROVE Holds
<1>1. PICK x : x # "live" /\ life' = [life EXCEPT ![a] = x]
  BY DEF R!Load, R!Restart
<1>2. UNCHANGED <<profile, mem, claim, journal, own, ownSnap, ext, asked>>
  BY DEF R!Load, R!Restart, R!owners, R!outside
<1>3. IsOn(life, Agent) /\ IsOn(own, Agent) /\ OwnerInv
  BY DEF RegistryInv, OwnerInv
<1>4. IsOn(life', Agent) /\ \A b \in Agent : life'[b] = "live" => life[b] = "live"
  BY <1>1, <1>3 DEF IsOn
<1>5. \A b \in Agent : ProcessMoves(b)
  BY <1>2, <1>4 DEF RegistryInv, ProcessMoves, ProcessFact
<1>6. OwnerInv' /\ \A e \in External : ExternalMoves(e)
  BY <1>2, <1>3, OwnersStay DEF ExternalMoves
<1> QED BY <1>2, <1>4, <1>5, <1>6, MovesKeep DEF Holds, RegistryInv

\* The journal is locked, read and written.
LEMMA JournalKeeps ==
  ASSUME RegistryInv, NEW a \in Agent, R!Heartbeat(a) \/ R!OwnLock(a) \/ R!OwnWrite(a) PROVE Holds
<1>1. UNCHANGED <<profile, mem, claim, life, asked, ext>>
  BY DEF R!Heartbeat, R!OwnLock, R!OwnWrite, R!process, R!outside
<1>2. OwnerInv /\ IsOn(own, Agent) /\ IsOn(journal, Label)
  BY DEF RegistryInv, OwnerInv
<1>3. CASE R!Heartbeat(a)
  <2>1. (own' = own \/ own' = [own EXCEPT ![a] = "wait"]) /\ UNCHANGED <<journal, ownSnap>>
    BY <1>3 DEF R!Heartbeat, R!Ask
  <2>2. IsOn(own', Agent) /\ \A b \in Agent : own'[b] = "locked" => own[b] = "locked"
    BY <1>2, <2>1 DEF IsOn
  <2>3. OwnerInv'
    BY <1>1, <1>2, <2>1, <2>2, OwnersStay
  <2> QED BY <1>1, <2>1, <2>3, Stays, MovesKeep DEF Holds, RegistryInv, ExternalMoves
<1>4. CASE R!OwnLock(a)
  <2>1. /\ own' = [own EXCEPT ![a] = "locked"] /\ ownSnap' = journal /\ journal' = journal
        /\ \A b \in Agent : own[b] # "locked"
    BY <1>4 DEF R!OwnLock
  <2>2. IsOn(own', Agent) /\ \A b \in Agent : own'[b] = "locked" => b = a
    BY <1>2, <2>1 DEF IsOn
  <2>3. OwnerInv'
    BY <1>1, <1>2, <2>1, <2>2 DEF OwnerInv
  <2> QED BY <1>1, <2>1, <2>3, Stays, MovesKeep DEF Holds, RegistryInv, ExternalMoves
<1>5. CASE R!OwnWrite(a)
  <2>1. /\ own' = [own EXCEPT ![a] = "idle"] /\ own[a] = "locked" /\ ownSnap = journal
        /\ journal' = [journal EXCEPT ![profile[a].declared] = a]
    BY <1>2, <1>5 DEF R!OwnWrite, OwnerInv
  <2>2. /\ IsOn(journal', Label)
        /\ \A l \in Label : journal'[l] = IF l = profile[a].declared THEN a ELSE journal[l]
    BY <1>2, <2>1 DEF IsOn
  <2>3. IsOn(own', Agent) /\ \A b \in Agent : own'[b] # "locked"
    BY <1>2, <2>1 DEF IsOn, OwnerInv
  <2>4. OwnerInv'
    BY <1>1, <1>2, <2>2, <2>3 DEF OwnerInv
  <2>5. \A l \in Label : journal[l] # None => journal'[l] # None
    BY <2>2, HubAssumption DEF R!RegistryAssumption
  <2> QED BY <1>1, <2>4, <2>5, Stays, MovesKeep DEF Holds, RegistryInv, ExternalMoves
<1> QED BY <1>3, <1>4, <1>5

\* What a step may do to registrations of external agents.
OutsideMoves ==
  /\ IsOn(asked', Agent) /\ IsOn(ext', External)
  /\ \A b \in Agent : asked'[b] \in {asked[b], None} \/ journal[asked'[b].label] = None
  /\ \A e \in External : ExternalMoves(e)

\* External agents come and go.
LEMMA ExternalKeeps ==
  ASSUME RegistryInv, NEW a \in Agent,
         \/ \E l \in Label : R!AskExternal(a, l)
         \/ \E e \in External : R!AddExternal(a, e) \/ R!RemoveExternal(a, e)
  PROVE Holds
<1>1. UNCHANGED <<profile, mem, claim, life, journal, own, ownSnap>>
  BY DEF R!AskExternal, R!AddExternal, R!RemoveExternal, R!process, R!owners
<1>2. OwnerInv' /\ IsOn(asked, Agent) /\ IsOn(ext, External)
  BY <1>1, OwnersStay DEF RegistryInv, OwnerInv
<1>3. OutsideMoves
  <2>1. ASSUME NEW l \in Label, R!AskExternal(a, l) PROVE OutsideMoves
    <3>0. PICK x : x = [label |-> l, taken |-> R!Plain(l) \in R!Names(a) \cup {disk[a].name}]
      OBVIOUS
    <3>1. asked' = [asked EXCEPT ![a] = x] /\ x.label = l
      BY <2>1, <3>0 DEF R!AskExternal
    <3>2. journal[l] = None /\ ext' = ext
      BY <2>1 DEF R!AskExternal
    <3> QED BY <1>2, <3>1, <3>2 DEF IsOn, OutsideMoves, ExternalMoves
  <2>2. ASSUME NEW e \in External, R!AddExternal(a, e) PROVE OutsideMoves
    <3>1. /\ asked[a] # None /\ asked' = [asked EXCEPT ![a] = None]
          /\ ext' = ext \/ ext' = [ext EXCEPT ![e] = asked[a].label]
      BY <2>2 DEF R!AddExternal
    <3> QED BY <1>2, <3>1 DEF IsOn, OutsideMoves, ExternalMoves
  <2>3. ASSUME NEW e \in External, R!RemoveExternal(a, e) PROVE OutsideMoves
    <3>1. asked' = asked /\ ext' = [ext EXCEPT ![e] = None]
      BY <2>3 DEF R!RemoveExternal
    <3> QED BY <1>2, <3>1 DEF IsOn, OutsideMoves, ExternalMoves
  <2> QED BY <2>1, <2>2, <2>3
<1>4. \A b \in Agent : ProcessMoves(b)
  BY <1>1, <1>3 DEF RegistryInv, ProcessMoves, ProcessFact, OutsideMoves
<1> QED BY <1>1, <1>2, <1>3, <1>4, MovesKeep DEF Holds, RegistryInv, OutsideMoves

\* Nothing that matters moves.
LEMMA QuietKeeps ==
  ASSUME RegistryInv, UNCHANGED <<profile, mem, claim, life, journal, own, ownSnap, ext, asked>> PROVE Holds
BY DEF Holds, RegistryInv, OwnerInv, ProcessFact, R!Unclaimed, R!Stranger, R!Registered, R!Settled, R!AnswersNow

\* Every step of the registry.
LEMMA RegistryKeeps == ASSUME RegistryInv, [R!Next]_registering PROVE Holds
<1>1. CASE UNCHANGED registering
  BY <1>1, QuietKeeps DEF registering
<1>2. ASSUME NEW a \in Agent, R!Step(a) PROVE Holds
  <2>1. CASE R!ReadPeers(a) \/ R!ListOrphans(a) \/ R!ClearExternal(a) \/ R!LoadExternal(a) \/ R!Deliver(a)
    BY <2>1, QuietKeeps DEF R!ReadPeers, R!ListOrphans, R!ClearExternal, R!LoadExternal, R!Deliver,
       R!process, R!owners, R!outside
  <2>2. CASE \/ \E l \in Label : R!NameSession(a, R!Plain(l))
             \/ R!NameSession(a, None) \/ \E b \in Agent : R!RemoveOrphan(a, b) \/ R!Resolve(a, b)
    BY <2>2, QuietKeeps DEF R!NameSession, R!RemoveOrphan, R!Resolve, R!process, R!owners, R!outside
  <2>3. CASE R!Exit(a) \/ R!Crash(a) \/ \E b \in Agent : R!CrashReaping(a, b)
    BY <2>3, EndedKeeps DEF R!Exit, R!Crash, R!CrashReaping
  <2> QED
    BY <1>2, <2>1, <2>2, <2>3, PicksKeep, FlushKeeps, EndedKeeps, BeginKeeps, JournalKeeps, ExternalKeeps DEF R!Step
<1> QED BY <1>1, <1>2 DEF R!Next

\* Nobody has begun.
LEMMA InitRegistry == ASSUME R!Init PROVE RegistryInv
<1>1. IsOn(mem, Agent) /\ IsOn(claim, Agent) /\ IsOn(life, Agent) /\ IsOn(asked, Agent) /\ IsOn(ext, External)
  BY DEF R!Init, IsOn
<1>2. \A a \in Agent : ProcessFact(a)
  BY DEF R!Init, ProcessFact
<1>3. OwnerInv
  BY HubAssumption DEF R!Init, OwnerInv, IsOn, R!RegistryAssumption
<1> QED BY <1>1, <1>2, <1>3 DEF RegistryInv

\* A step of the sum is a step of the registry or leaves it alone.
LEMMA StepsOfHub == ASSUME [SumNext]_<<part, registering, spawning, vars>> PROVE [R!Next]_registering
<1>1. CASE InRegistry
  BY <1>1 DEF SumNext, InRegistry, InSpawner, InLock, R!Next, R!Step
<1>2. CASE InSpawner
  BY <1>2 DEF InSpawner
<1>3. CASE InLock
  BY <1>3 DEF InLock
<1>4. CASE UNCHANGED <<part, registering, spawning, vars>>
  BY <1>4
<1> QED BY <1>1, <1>2, <1>3, <1>4 DEF SumNext

\* Whatever agents, labels and profiles there are, and however they join, rename, crash, restart and
\* register others: once a label is in the journal and no stranger holds it, none ever takes it.
THEOREM HubLabelStaysWithItsLead == SumSpec => LabelStaysWithItsLead
<1>1. SumInit => RegistryInv
  BY InitRegistry DEF SumInit
<1>2. RegistryInv /\ [SumNext]_<<part, registering, spawning, vars>> => RegistryInv'
  BY StepsOfHub, RegistryKeeps DEF Holds
<1>3. RegistryInv /\ [SumNext]_<<part, registering, spawning, vars>>
        => [\A l \in Label : R!Unclaimed(l) => R!Unclaimed(l)']_(R!vars)
  BY StepsOfHub, RegistryKeeps DEF Holds
<1> QED BY <1>1, <1>2, <1>3, PTL DEF SumSpec, LabelStaysWithItsLead, R!LabelStaysWithItsLead

\* What the others read of a process that runs is what it holds.
WrittenFact(b) == disk[b] # None /\ ~R!Dead(b) => life[b] = "live" /\ disk[b] = mem[b]
Written == IsOn(disk, Agent) /\ \A b \in Agent : WrittenFact(b)

\* Records of the dead go, and a process moves, or nothing does.
LEMMA ReapKeeps ==
  ASSUME RegistryInv, Written, NEW a \in Agent, NEW h, R!ReapDead(h), mem' = mem,
         life' = life \/ (life[a] = "loaded" /\ life' = [life EXCEPT ![a] = "joining"])
  PROVE Written'
<1>1. disk' = [b \in Agent |-> IF R!Dead(b) THEN None ELSE disk[b]]
  BY DEF R!ReapDead
<1>2. IsOn(disk', Agent)
  BY <1>1 DEF IsOn
<1>3. ASSUME NEW b \in Agent PROVE WrittenFact(b)'
  <2>1. disk'[b] # None => ~R!Dead(b) /\ disk'[b] = disk[b]
    BY <1>1
  <2>2. WrittenFact(b) /\ mem'[b] = mem[b] /\ (life[b] = "live" => life'[b] = "live")
    BY DEF Written, RegistryInv, IsOn
  <2> QED BY <2>1, <2>2 DEF WrittenFact, R!Dead
<1> QED BY <1>2, <1>3 DEF Written

\* A process ends, and the records it does not remove stay.
LEMMA EndsWritten ==
  ASSUME RegistryInv, Written, NEW a \in Agent, R!Ended(a), disk' = disk \/ \E b \in Agent : disk' = [disk EXCEPT ![b] = None]
  PROVE Written'
<1>1. life' = [life EXCEPT ![a] = "dead"] /\ mem' = [mem EXCEPT ![a] = None]
  BY DEF R!Ended
<1>2. /\ IsOn(disk', Agent)
      /\ \A b \in Agent : disk'[b] \in {disk[b], None}
  BY DEF Written, IsOn
<1>3. ASSUME NEW b \in Agent PROVE WrittenFact(b)'
  <2>1. b = a \/ (life'[b] = life[b] /\ mem'[b] = mem[b])
    BY <1>1 DEF RegistryInv, IsOn
  <2>2. b = a => life'[b] = "dead"
    BY <1>1 DEF RegistryInv, IsOn
  <2> QED BY <1>2, <2>1, <2>2 DEF Written, WrittenFact, R!Dead
<1> QED BY <1>2, <1>3 DEF Written

\* A process writes or removes its own record, or begins.
LEMMA OwnWritten ==
  ASSUME RegistryInv, Written, NEW a \in Agent,
         R!Flush(a) \/ R!Heartbeat(a) \/ R!Unregister(a) \/ R!Load(a) \/ R!Restart(a)
  PROVE Written'
<1>1. IsOn(mem, Agent) /\ IsOn(life, Agent) /\ IsOn(disk, Agent)
  BY DEF RegistryInv, Written
<1>2. /\ IsOn(disk', Agent)
      /\ \A b \in Agent \ {a} : disk'[b] = disk[b] /\ mem'[b] = mem[b] /\ life'[b] = life[b]
  BY <1>1 DEF IsOn, R!Flush, R!Heartbeat, R!Unregister, R!Load, R!Restart, R!process
<1>3. WrittenFact(a)'
  <2>1. CASE R!Flush(a) \/ R!Heartbeat(a)
    BY <1>1, <2>1 DEF IsOn, R!Flush, R!Heartbeat, R!Free, R!process, WrittenFact
  <2>2. CASE R!Unregister(a)
    BY <1>1, <2>2 DEF IsOn, R!Unregister, WrittenFact
  <2>3. CASE R!Load(a) \/ R!Restart(a)
    <3>1. life[a] \in {"unborn", "leaving"} /\ disk' = disk
      BY <2>3 DEF R!Load, R!Restart
    <3>2. disk[a] = None
      BY <3>1 DEF Written, WrittenFact, R!Dead
    <3> QED BY <3>1, <3>2 DEF WrittenFact
  <2> QED BY <2>1, <2>2, <2>3
<1>4. \A b \in Agent \ {a} : WrittenFact(b)'
  BY <1>2 DEF Written, WrittenFact, R!Dead
<1> QED BY <1>2, <1>3, <1>4 DEF Written

\* Every step of the registry leaves on disk what the processes hold.
LEMMA WrittenKeeps == ASSUME RegistryInv, Written, [R!Next]_registering PROVE Written'
<1>1. ASSUME UNCHANGED <<mem, life, disk>> PROVE Written'
  BY <1>1 DEF Written, WrittenFact, R!Dead
<1>2. CASE UNCHANGED registering
  BY <1>1, <1>2 DEF registering
<1>3. ASSUME NEW a \in Agent, R!Step(a) PROVE Written'
  <2>1. CASE R!JoinPick(a) \/ R!Sync(a) \/ R!ReadPeers(a) \/ \E l \in Label : R!SetName(a, R!Plain(l)) \/ R!AskExternal(a, l)
    <3>1. PICK h : R!ReapDead(h)
      BY <2>1 DEF R!JoinPick, R!Sync, R!ReadPeers, R!SetName, R!AskExternal
    <3>2. /\ mem' = mem
          /\ life' = life \/ (life[a] = "loaded" /\ life' = [life EXCEPT ![a] = "joining"])
      BY <2>1 DEF R!JoinPick, R!Sync, R!ReadPeers, R!SetName, R!AskExternal, R!process
    <3> QED BY <3>1, <3>2, ReapKeeps
  <2>2. CASE R!Exit(a) \/ R!Crash(a) \/ \E b \in Agent : R!CrashReaping(a, b)
    <3>1. R!Ended(a) /\ (disk' = disk \/ \E b \in Agent : disk' = [disk EXCEPT ![b] = None])
      BY <2>2 DEF R!Exit, R!Crash, R!CrashReaping
    <3> QED BY <3>1, EndsWritten
  <2>3. CASE R!Flush(a) \/ R!Heartbeat(a) \/ R!Unregister(a) \/ R!Load(a) \/ R!Restart(a)
    BY <2>3, OwnWritten
  <2>4. CASE \/ R!ListOrphans(a) \/ R!OwnLock(a) \/ R!OwnWrite(a) \/ R!ClearExternal(a)
             \/ R!LoadExternal(a) \/ R!Deliver(a)
    BY <1>1, <2>4 DEF R!ListOrphans, R!OwnLock, R!OwnWrite, R!ClearExternal, R!LoadExternal, R!Deliver, R!process
  <2>5. CASE \/ \E l \in Label : R!NameSession(a, R!Plain(l))
             \/ R!NameSession(a, None) \/ \E b \in Agent : R!RemoveOrphan(a, b) \/ R!Resolve(a, b)
    BY <1>1, <2>5 DEF R!NameSession, R!RemoveOrphan, R!Resolve, R!process
  <2>6. CASE \E e \in External : R!AddExternal(a, e) \/ R!RemoveExternal(a, e)
    BY <1>1, <2>6 DEF R!AddExternal, R!RemoveExternal, R!process
  <2> QED BY <1>3, <2>1, <2>2, <2>3, <2>4, <2>5, <2>6 DEF R!Step
<1> QED BY <1>2, <1>3 DEF R!Next

\* A label no plain stranger answers to is found at a lead that declared it, or nowhere.
LEMMA SettledReaches ==
  ASSUME Written, NEW v \in Agent, NEW l \in Label, R!Settled(l), journal[l] # v
  PROVE R!ReachesItsLead(v, l)
<1>1. PICK others : others = {c \in R!Listed : c # v /\ ~R!Dead(c) /\ R!CanSee(v, c)}
  OBVIOUS
<1>2. PICK f : f = [b \in others |->
        [id |-> b, name |-> disk[b].name, source |-> disk[b].source, alias |-> disk[b].alias,
         namespace |-> profile[b].namespace, declared |-> profile[b].declared]]
  OBVIOUS
<1>3. \A b \in others : /\ b \in Agent /\ f[b].id = b /\ f[b].name = disk[b].name /\ f[b].alias = disk[b].alias
                        /\ f[b].namespace = profile[b].namespace /\ f[b].declared = profile[b].declared
  BY <1>1, <1>2 DEF R!Listed
<1>4. PICK records : records = {r \in R!Peers(v) : r.namespace = None /\ r.id # None}
  OBVIOUS
<1>5. records = {r \in {f[b] : b \in others} : r.namespace = None}
  <2>1. PICK outer : outer = {[id |-> None, name |-> R!Plain(x), source |-> None, alias |-> None,
                               namespace |-> None, declared |-> None] : x \in {y \in known[v] : profile[v].parent = None}}
    OBVIOUS
  <2>2. R!Peers(v) = {f[b] : b \in others} \cup outer
    BY <1>1, <1>2, <2>1 DEF R!Peers
  <2>3. \A r \in outer : r.id = None
    BY <2>1
  <2>4. \A b \in others : f[b].id # None
    BY <1>3, HubAssumption DEF R!RegistryAssumption
  <2> QED BY <1>4, <2>2, <2>3, <2>4
<1>6. IsFiniteSet(records)
  <2>1. IsFiniteSet(others)
    BY <1>1, FS_Subset, FiniteAgents DEF R!Listed
  <2>2. f \in Surjection(others, {f[b] : b \in others})
    BY <1>2 DEF Surjection
  <2>3. IsFiniteSet({f[b] : b \in others})
    BY <2>1, <2>2, FS_Surjection
  <2> QED BY <1>5, <2>3, FS_Subset
<1>7. PICK to : to = R!ResolvePeer(v, l) /\ to = R!FindByLabel(records, l)
  <2>1. journal[l] \notin {None, v}
    BY DEF R!Settled
  <2> QED BY <1>4, <2>1 DEF R!ResolvePeer
<1>8. PICK leads : leads = R!Leads(v, l)
  OBVIOUS
<1>9. leads = {b \in others : profile[b].namespace = None /\ profile[b].declared = l}
  BY <1>1, <1>8 DEF R!Leads, R!Stranger
<1>10. ASSUME NEW r \in records, r.name = R!Plain(l) \/ r.declared = l \/ r.alias = l PROVE r.id \in leads /\ r = f[r.id]
  <2>1. PICK b \in others : r = f[b]
    BY <1>5
  <2>2. r.id = b /\ b \in Agent /\ profile[b].namespace = None /\ profile[b].declared = r.declared
    BY <1>3, <1>5, <2>1
  <2>3. life[b] = "live" /\ r.name = mem[b].name /\ r.alias = mem[b].alias
    BY <1>1, <1>3, <2>1, <2>2 DEF Written, WrittenFact, R!Listed
  <2>4. profile[b].declared = l
    BY <1>10, <2>2, <2>3 DEF R!Settled, R!Stranger, R!AnswersNow, R!Answers
  <2> QED BY <1>9, <2>1, <2>2, <2>4
<1>11. ASSUME NEW r \in to PROVE r \in records /\ (r.name = R!Plain(l) \/ r.declared = l \/ r.alias = l)
  BY <1>6, <1>7, <1>11, FoundAnswers
<1>12. {r.id : r \in to} \subseteq leads
  BY <1>10, <1>11
<1>13. ASSUME R!Cardinality(leads) = 1 PROVE {r.id : r \in to} = leads
  <2>1. PICK b : leads = {b}
    BY <1>9, <1>13, <1>1, OneMember, FS_Subset, FiniteAgents DEF R!Listed
  <2>2. b \in others /\ f[b] \in records /\ f[b].namespace = None /\ f[b].declared = l /\ f[b].id = b
    BY <1>3, <1>5, <1>9, <2>1
  <2>3. \A r \in records : r.namespace = None /\ (r.name = R!Plain(l) \/ r.declared = l) => r = f[b]
    BY <1>10, <2>1
  <2>4. to = {f[b]}
    BY <1>7, <2>2, <2>3, BearerIsFound
  <2> QED BY <2>1, <2>2, <2>4
<1> QED BY <1>7, <1>8, <1>12, <1>13 DEF R!ReachesItsLead

\* Whatever agents, labels and profiles there are: once a label is in the journal and no plain stranger
\* answers to it, none ever does, and a message for it goes to a lead that declared it or to nobody.
THEOREM HubLabelReachesItsLead == SumSpec => LabelReachesItsLead
<1>1. SumInit => RegistryInv /\ Written
  <2>1. R!Init => Written
    BY DEF R!Init, Written, WrittenFact, IsOn
  <2> QED BY <2>1, InitRegistry DEF SumInit
<1>2. RegistryInv /\ Written /\ [SumNext]_<<part, registering, spawning, vars>> => (RegistryInv /\ Written)'
  BY StepsOfHub, RegistryKeeps, WrittenKeeps DEF Holds
<1>3. RegistryInv /\ Written /\ [SumNext]_<<part, registering, spawning, vars>>
        => [\A l \in Label : R!Settled(l) =>
              /\ R!Settled(l)'
              /\ \A v \in Agent : life[v] = "live" /\ journal[l] # v => R!ReachesItsLead(v, l)]_(R!vars)
  BY StepsOfHub, RegistryKeeps, SettledReaches DEF Holds
<1> QED BY <1>1, <1>2, <1>3, PTL DEF SumSpec, LabelReachesItsLead, R!LabelReachesItsLead
=============================================================================
