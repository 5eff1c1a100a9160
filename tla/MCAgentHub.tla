----------------------------- MODULE MCAgentHub -----------------------------
(***************************************************************************)
(* Whom the Agent Hub knows: the agents of the registry all processes      *)
(* share, the agents one session spawned; and the advisory lock of the     *)
(* files they share.  The three share no state, so a behaviour runs one of *)
(* them and leaves the others where they began.                            *)
(***************************************************************************)
EXTENDS AdvisoryLock

CONSTANTS Agent, External, Label, Profiles, MaxSuffix, MaxEvents,   \* of AgentRegistry
          Lead,                             \* the declared lead of LeadAndOther
          Child, Name, Faults, Window       \* of Spawner

VARIABLES part,
  profile, life, mem, session, claim, disk, box, orphans, journal, own, ownSnap, ext, known, asked,
  sending, events,
  phase, agents, child, since, signalled, stop, spoke, notices

registering == <<profile, life, mem, session, claim, disk, box, orphans, journal, own, ownSnap, ext,
                 known, asked, sending, events>>
spawning == <<phase, agents, child, since, signalled, stop, spoke, notices>>

P(declared, spawn, folder, namespace, parent) ==
  [declared |-> declared, spawn |-> spawn, folder |-> folder, namespace |-> namespace, parent |-> parent,
   ui |-> TRUE]

\* A lead, beside an agent in a folder of the lead's name or a helper spawned under it.
LeadAndOther ==
  {[a \in Agent |-> IF a = Lead THEN P("lead", None, "desk", None, None) ELSE p]
     : p \in {P(None, None, "lead", None, None), P(None, "lead", "desk", "lead", Lead)}}

R == INSTANCE AgentRegistry WITH seen <- known
S == INSTANCE Spawner

ASSUME HubAssumption == S!SpawnerAssumption /\ R!RegistryAssumption

SumInit ==
  /\ part \in {"registry", "spawner", "lock"} /\ R!Init /\ S!Init /\ Init
  /\ part # "registry" => profile = CHOOSE p \in Profiles : TRUE

InRegistry == part = "registry" /\ UNCHANGED <<part, spawning, vars>>
InSpawner  == part = "spawner" /\ UNCHANGED <<part, registering, vars>>
InLock     == part = "lock" /\ UNCHANGED <<part, registering, spawning>>

SumNext ==
  \/ \E a \in Agent : InRegistry /\ R!Load(a)
  \/ \E a \in Agent : InRegistry /\ R!JoinPick(a)
  \/ \E a \in Agent : InRegistry /\ R!Flush(a)
  \/ \E a \in Agent : InRegistry /\ R!Sync(a)
  \/ \E a \in Agent : InRegistry /\ R!Heartbeat(a)
  \/ \E a \in Agent, l \in Label : InRegistry /\ R!SetName(a, R!Plain(l))
  \/ \E a \in Agent, l \in Label : InRegistry /\ R!NameSession(a, R!Plain(l))
  \/ \E a \in Agent : InRegistry /\ R!NameSession(a, None)
  \/ \E a \in Agent : InRegistry /\ R!Unregister(a)
  \/ \E a \in Agent : InRegistry /\ R!Exit(a)
  \/ \E a \in Agent : InRegistry /\ R!Restart(a)
  \/ \E a \in Agent : InRegistry /\ R!Crash(a)
  \/ \E a, b \in Agent : InRegistry /\ R!CrashReaping(a, b)
  \/ \E a \in Agent : InRegistry /\ R!ReadPeers(a)
  \/ \E a \in Agent : InRegistry /\ R!ListOrphans(a)
  \/ \E a, b \in Agent : InRegistry /\ R!RemoveOrphan(a, b)
  \/ \E a \in Agent : InRegistry /\ R!OwnLock(a)
  \/ \E a \in Agent : InRegistry /\ R!OwnWrite(a)
  \/ \E a \in Agent, l \in Label : InRegistry /\ R!AskExternal(a, l)
  \/ \E a \in Agent, e \in External : InRegistry /\ R!AddExternal(a, e)
  \/ \E a \in Agent, e \in External : InRegistry /\ R!RemoveExternal(a, e)
  \/ \E a \in Agent : InRegistry /\ R!ClearExternal(a)
  \/ \E a \in Agent : InRegistry /\ R!LoadExternal(a)
  \/ \E a, b \in Agent : InRegistry /\ R!Resolve(a, b)
  \/ \E a \in Agent : InRegistry /\ R!Deliver(a)
  \/ \E n \in Name, c \in Child : InSpawner /\ S!Spawn(n, c)
  \/ \E n \in Name : InSpawner /\ S!SpawnFails(n)
  \/ \E n \in Name : InSpawner /\ S!Kill(n)
  \/ \E n \in Name : InSpawner /\ S!ForceKill(n)
  \/ \E c \in Child, e \in {"signal", "other"} : InSpawner /\ S!Emit(c, e)
  \/ \E c \in Child : InSpawner /\ S!Die(c)
  \/ \E c \in Child : InSpawner /\ S!Close(c)
  \/ \E c \in Child : InSpawner /\ S!StdinFails(c)
  \/ \E c \in Child : InSpawner /\ S!Overflow(c)
  \/ \E by \in S!By, c \in Child : InSpawner /\ S!GiveUpWaiting(by, c)
  \/ InSpawner /\ S!Shutdown
  \/ InSpawner /\ S!Down
  \/ \E c \in Call : InLock /\ Start(c)
  \/ \E c \in Call : InLock /\ CreateTemp(c)
  \/ \E c \in Call : InLock /\ Link(c)
  \/ \E c \in Call : InLock /\ Inspect(c)
  \/ \E c \in Call : InLock /\ FnSettles(c)
  \/ \E c \in Call : InLock /\ ReleaseStep(c)
  \/ \E c \in Call : InLock /\ Crash(c)

\* The fairness of the parts, each in its own behaviours.
SumFairness ==
  /\ \A a \in Agent : WF_registering(part = "registry" /\ R!Flush(a)) /\ WF_registering(part = "registry" /\ R!ListOrphans(a))
  /\ \A a \in Agent : WF_registering(part = "registry" /\ \E b \in Agent : R!RemoveOrphan(a, b))
  /\ \A a \in Agent : WF_registering(part = "registry" /\ profile[a].ui /\ R!ReadPeers(a))
  /\ \A by \in S!By, c \in Child : WF_spawning(part = "spawner" /\ S!GiveUpWaiting(by, c))
  /\ \A c \in Child : WF_spawning(part = "spawner" /\ S!Close(c))
  /\ \A c \in Child : WF_spawning(part = "spawner" /\ child[c].signal = "kill" /\ S!Die(c))
  /\ WF_spawning(part = "spawner" /\ S!Down)

SumSpec == SumInit /\ [][SumNext]_<<part, registering, spawning, vars>> /\ SumFairness

\* The properties of the parts, by the names they have there.
LabelStaysWithItsLead == R!LabelStaysWithItsLead
LabelReachesItsLead == R!LabelReachesItsLead
DeadAreCleared == R!DeadAreCleared
NoneLeftRunning == S!NoneLeftRunning
SilentEndIsReported == S!SilentEndIsReported
SessionGoesDown == S!SessionGoesDown
=============================================================================
