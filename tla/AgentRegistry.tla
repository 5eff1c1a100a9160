---------------------------- MODULE AgentRegistry ----------------------------
(***************************************************************************)
(* The agent registry: one file and one mailbox directory per process, a   *)
(* journal of the labels declared leads own, and a manifest of external    *)
(* agents.  Names are found free in one step and written in a later one,   *)
(* with no lock between; dead processes are cleared away by whoever reads. *)
(***************************************************************************)
EXTENDS Naturals, FiniteSets

CONSTANTS Agent,       \* the processes, each with the id it is born with
          External,    \* ids of external agents
          Label,       \* names without a suffix, up to case
          Profiles,    \* what each agent may be launched with: a set of functions
          None,
          MaxSuffix,   \* uniqueName tries base, base-2 .. base-MaxSuffix (99 in the code)
          MaxEvents    \* bound: crashes, renames, messages, external registrations, new sessions

RegistryAssumption == IsFiniteSet(Agent) /\ {1, None} \cap Agent = {} /\ None \notin Label /\ MaxSuffix \in Nat

VARIABLES
  profile,  \* declared, spawn, folder, namespace (a Label or None), parent (an agent or None), ui
  life,     \* unborn, loaded, joining, live, leaving, dead
  mem,      \* the record in the process: name, source, alias, synced
  session,  \* the host's session name
  claim,    \* a name found free and not written yet
  disk,     \* <id>.json in the registry directory
  box,      \* the ids that have a mailbox directory
  orphans,  \* what each reaper's listing showed: mailboxes without a record
  journal,  \* namespace-owners.json: label -> owner's id
  own,      \* the ownership write of each process
  ownSnap,  \* the journal as the holder of its lock read it
  ext,      \* external-agents.json: id -> label
  seen,     \* the labels of the external peers each process has loaded
  asked,    \* an external registration: label, and whether the peers read had it
  sending,  \* the peer a message is about to be written to
  events      \* how many of the bounded events happened

process == <<life, mem, session, claim>>
owners  == <<journal, own, ownSnap>>
outside == <<ext, seen, asked>>
vars    == <<profile, process, disk, box, orphans, owners, outside, sending, events>>

Identity == Label \X (1 .. MaxSuffix \cup Agent)
Plain(l) == <<l, 1>>
Source == {"user", "programmatic", "spawn", "declared", "generated"}
Record == [name : Identity, source : Source, alias : Label \cup {None}, synced : Identity \cup {None}]

TypeOK ==
  /\ profile \in Profiles
  /\ life \in [Agent -> {"unborn", "loaded", "joining", "live", "leaving", "dead"}]
  /\ mem \in [Agent -> Record \cup {None}] /\ disk \in [Agent -> Record \cup {None}]
  /\ session \in [Agent -> Identity \cup {None}]
  /\ \A a \in Agent : claim[a] = None \/ claim[a].record \in Record
  /\ box \subseteq Agent /\ orphans \in [Agent -> SUBSET Agent]
  /\ journal \in [Label -> Agent \cup {None}] /\ ownSnap \in [Label -> Agent \cup {None}]
  /\ own \in [Agent -> {"idle", "wait", "locked"}]
  /\ ext \in [External -> Label \cup {None}] /\ seen \in [Agent -> SUBSET Label]
  /\ sending \in [Agent -> Agent \cup {None}]

Init ==
  /\ profile \in Profiles
  /\ life = [a \in Agent |-> "unborn"]
  /\ mem = [a \in Agent |-> None] /\ disk = mem /\ session = mem /\ claim = mem
  /\ sending = mem /\ asked = mem
  /\ box = {} /\ orphans = [a \in Agent |-> {}]
  /\ journal = [l \in Label |-> None] /\ ownSnap = journal
  /\ own = [a \in Agent |-> "idle"]
  /\ ext = [e \in External |-> None] /\ seen = [a \in Agent |-> {}]
  /\ events = 0

Count == events < MaxEvents /\ events' = events + 1

-----------------------------------------------------------------------------
(* What a process sees, and the names it may take. *)

\* A record is dead when its process is, however fresh its heartbeat.
Dead(b) == life[b] = "dead"

Registered == {ext[e] : e \in External} \ {None}
Listed == {b \in Agent : disk[b] # None}
Names(a) == {disk[b].name : b \in {c \in Listed : c # a /\ ~Dead(c)}}
            \cup {Plain(l) : l \in seen[a]}

Reserved(a) == {Plain(l) : l \in {x \in Label : journal[x] \notin {None, a} /\ profile[a].declared # x}}

Claimable(a, n) == n \notin Names(a) /\ n \notin Reserved(a)

UniqueName(a, base) ==
  LET free == {k \in 1 .. MaxSuffix : Claimable(a, <<base, k>>)}
  IN IF free = {} THEN <<base, a>> ELSE <<base, CHOOSE k \in free : \A j \in free : k <= j>>

PickActiveName(a, s) ==
  LET p == profile[a] IN
  IF s # None /\ Claimable(a, s) THEN [name |-> s, source |-> "user"]
  ELSE IF p.spawn # None THEN [name |-> UniqueName(a, p.spawn), source |-> "spawn"]
  ELSE IF p.declared = None THEN [name |-> UniqueName(a, p.folder), source |-> "generated"]
  ELSE [name |-> UniqueName(a, p.declared),
        source |-> IF Claimable(a, Plain(p.declared)) THEN "declared" ELSE "generated"]

\* Every read of the peers removes the records of dead processes, and runs the
\* cleanup hooks this process has by then.
ReapDead(hooked) ==
  /\ disk' = [b \in Agent |-> IF Dead(b) THEN None ELSE disk[b]]
  /\ box' = IF hooked THEN box \ {b \in Listed : Dead(b)} ELSE box

-----------------------------------------------------------------------------
(* A process: session_start, heartbeat, renames, session_shutdown. *)

Free(a) == life[a] = "live" /\ claim[a] = None

\* An agent is launched by its parent, which has a record by then.
Load(a) ==
  /\ life[a] = "unborn"
  /\ profile[a].parent # None => life[profile[a].parent] \notin {"unborn", "loaded", "joining"}
  /\ life' = [life EXCEPT ![a] = "loaded"]
  /\ seen' = [seen EXCEPT ![a] = Registered]
  /\ UNCHANGED <<profile, mem, session, claim, disk, box, orphans, owners, ext, asked, sending, events>>

JoinPick(a) ==
  /\ life[a] = "loaded"
  /\ LET pick == PickActiveName(a, session[a])
         p == profile[a]
     IN claim' = [claim EXCEPT ![a] =
          [record |-> [name |-> pick.name, source |-> pick.source,
                       alias |-> IF p.spawn # None /\ pick.name = Plain(p.spawn) THEN p.spawn ELSE None,
                       synced |-> IF pick.source = "user" THEN session[a] ELSE None],
           owns |-> p.declared # None /\ Plain(p.declared) \notin Names(a)]]
  /\ life' = [life EXCEPT ![a] = "joining"]
  /\ ReapDead(FALSE)
  /\ UNCHANGED <<profile, mem, session, orphans, owners, outside, sending, events>>

Ask(a, owns) == own' = IF owns /\ own[a] = "idle" THEN [own EXCEPT ![a] = "wait"] ELSE own

\* The record is written, by registration or by the heartbeat or set_name that
\* picked a name.
Flush(a) ==
  /\ claim[a] # None
  /\ LET r == claim[a].record IN
     /\ mem' = [mem EXCEPT ![a] = r] /\ disk' = [disk EXCEPT ![a] = r]
     /\ session' = IF r.source = "programmatic" THEN [session EXCEPT ![a] = r.name] ELSE session
  /\ box' = box \cup {a}
  /\ Ask(a, claim[a].owns)
  /\ life' = [life EXCEPT ![a] = "live"]
  /\ claim' = [claim EXCEPT ![a] = None]
  /\ UNCHANGED <<profile, orphans, journal, ownSnap, outside, sending, events>>

\* Mistake: a session name is adopted whoever holds or reserved it.
SyncUnchecked(a) ==
  /\ Free(a) /\ session[a] \notin {mem[a].synced, None}
  /\ claim' = [claim EXCEPT ![a] = [record |-> [mem[a] EXCEPT !.name = session[a], !.synced = session[a]],
                                    owns |-> FALSE]]
  /\ UNCHANGED <<profile, life, mem, session, disk, box, orphans, owners, outside, sending, events>>

\* heartbeat and syncSessionName: a new session name is taken if it may be, else
\* tried again; a name that is gone is replaced by a picked one.
Sync(a) ==
  /\ Free(a) /\ session[a] # mem[a].synced
  /\ LET picked == IF session[a] = None
                   THEN PickActiveName(a, None) ELSE [name |-> session[a], source |-> "user"]
     IN /\ session[a] # None => Claimable(a, session[a])
        /\ claim' = [claim EXCEPT ![a] =
             [record |-> [mem[a] EXCEPT !.name = picked.name, !.source = picked.source, !.synced = session[a]],
              owns |-> profile[a].declared # None]]
  /\ ReapDead(TRUE)
  /\ UNCHANGED <<profile, life, mem, session, orphans, owners, outside, sending, events>>

\* A heartbeat that would rewrite the entry the journal has is left out.
Heartbeat(a) ==
  /\ Free(a) /\ profile[a].declared # None /\ own[a] = "idle" /\ journal[profile[a].declared] # a
  /\ disk' = [disk EXCEPT ![a] = mem[a]]
  /\ Ask(a, TRUE)
  /\ UNCHANGED <<profile, process, box, orphans, journal, ownSnap, outside, sending, events>>

SetName(a, n) ==
  /\ Free(a) /\ Claimable(a, n)
  /\ claim' = [claim EXCEPT ![a] =
       [record |-> [mem[a] EXCEPT !.name = n, !.source = "programmatic", !.synced = n], owns |-> FALSE]]
  /\ ReapDead(TRUE) /\ Count
  /\ UNCHANGED <<profile, life, mem, session, orphans, owners, outside, sending>>

\* The user names the session, or takes its name away.
NameSession(a, n) ==
  /\ life[a] \in {"unborn", "live"} /\ session[a] # n
  /\ session' = [session EXCEPT ![a] = n] /\ Count
  /\ UNCHANGED <<profile, life, mem, claim, disk, box, orphans, owners, outside, sending>>

\* unregister: the record goes first, then the mailbox.
Unregister(a) ==
  /\ Free(a)
  /\ life' = [life EXCEPT ![a] = "leaving"]
  /\ disk' = [disk EXCEPT ![a] = None] /\ mem' = [mem EXCEPT ![a] = None]
  /\ sending' = [sending EXCEPT ![a] = None] /\ asked' = [asked EXCEPT ![a] = None]
  /\ orphans' = [orphans EXCEPT ![a] = {}]
  /\ UNCHANGED <<profile, session, claim, box, owners, ext, seen, events>>

Ended(a) ==
  /\ life' = [life EXCEPT ![a] = "dead"]
  /\ claim' = [claim EXCEPT ![a] = None] /\ own' = [own EXCEPT ![a] = "idle"]
  /\ ownSnap' = IF own[a] = "locked" THEN [l \in Label |-> None] ELSE ownSnap
  /\ sending' = [sending EXCEPT ![a] = None] /\ asked' = [asked EXCEPT ![a] = None]
  /\ orphans' = [orphans EXCEPT ![a] = {}] /\ seen' = [seen EXCEPT ![a] = {}]
  /\ mem' = [mem EXCEPT ![a] = None] /\ session' = [session EXCEPT ![a] = None]
  /\ UNCHANGED <<profile, journal, ext>>

\* The same process begins another session.
Restart(a) ==
  /\ life[a] = "leaving" /\ life' = [life EXCEPT ![a] = "unborn"]
  /\ box' = box \ {a} /\ session' = [session EXCEPT ![a] = None]
  /\ Count /\ UNCHANGED <<profile, mem, claim, disk, orphans, owners, outside, sending>>

Exit(a) == life[a] = "leaving" /\ box' = box \ {a} /\ Ended(a) /\ UNCHANGED <<disk, events>>

Crash(a) ==
  /\ life[a] \notin {"unborn", "dead"}
  /\ Ended(a) /\ Count /\ UNCHANGED <<disk, box>>

-----------------------------------------------------------------------------
(* Clearing away what dead processes left. *)

ReadPeers(a) ==
  /\ Free(a) /\ \E b \in Listed : Dead(b)
  /\ ReapDead(TRUE)
  /\ UNCHANGED <<profile, process, orphans, owners, outside, sending, events>>

\* The reader dies after it unlinked a record and before its hooks ran.
CrashReaping(a, b) ==
  /\ Free(a) /\ b \in Listed /\ Dead(b)
  /\ disk' = [disk EXCEPT ![b] = None]
  /\ Ended(a) /\ Count /\ UNCHANGED box

ListOrphans(a) ==
  /\ Free(a) /\ orphans[a] = {} /\ orphans' = [orphans EXCEPT ![a] = box \ Listed]
  /\ orphans' # orphans
  /\ UNCHANGED <<profile, process, disk, box, owners, outside, sending, events>>

\* Mistake: only a mailbox that has a record is removed.
RemoveRecorded(a, b) ==
  /\ Free(a) /\ b \in orphans[a] /\ b \in Listed
  /\ orphans' = [orphans EXCEPT ![a] = @ \ {b}]
  /\ box' = IF Dead(b) THEN box \ {b} ELSE box
  /\ UNCHANGED <<profile, process, disk, owners, outside, sending, events>>

RemoveOrphan(a, b) ==
  /\ Free(a) /\ b \in orphans[a]
  /\ orphans' = [orphans EXCEPT ![a] = @ \ {b}]
  /\ box' = IF Dead(b) THEN box \ {b} ELSE box
  /\ UNCHANGED <<profile, process, disk, owners, outside, sending, events>>

-----------------------------------------------------------------------------
(* The ownership journal: read, merged and written under its advisory lock.   *)

OwnLock(a) ==
  /\ own[a] = "wait" /\ \A b \in Agent : own[b] # "locked"
  /\ own' = [own EXCEPT ![a] = "locked"] /\ ownSnap' = journal
  /\ UNCHANGED <<profile, process, disk, box, orphans, journal, outside, sending, events>>

OwnWrite(a) ==
  /\ own[a] = "locked"
  /\ journal' = [ownSnap EXCEPT ![profile[a].declared] = a]
  /\ own' = [own EXCEPT ![a] = "idle"] /\ ownSnap' = [l \in Label |-> None]
  /\ UNCHANGED <<profile, process, disk, box, orphans, outside, sending, events>>

-----------------------------------------------------------------------------
(* External agents, and messages. *)

\* An agent that was spawned is scoped: it sees its parent, its siblings and its children.
CanSee(a, b) ==
  LET parent == profile[a].parent
  IN parent = None \/ b = parent \/ profile[b].parent \in {parent, a}

\* registerExternalAgent checks the journal and takes the caller's peers before
\* it has the manifest's lock.
AskExternal(a, l) ==
  /\ Free(a) /\ asked[a] = None /\ journal[l] = None
  /\ asked' = [asked EXCEPT ![a] = [label |-> l, taken |-> Plain(l) \in Names(a) \cup {disk[a].name}]]
  /\ ReapDead(TRUE) /\ Count
  /\ UNCHANGED <<profile, process, orphans, owners, ext, seen, sending>>

AddExternal(a, e) ==
  /\ asked[a] # None /\ ext[e] = None
  /\ asked' = [asked EXCEPT ![a] = None]
  /\ LET refused == asked[a].taken \/ \E x \in External : ext[x] = asked[a].label
     IN ext' = IF refused THEN ext ELSE [ext EXCEPT ![e] = asked[a].label]
  /\ UNCHANGED <<profile, process, disk, box, orphans, owners, seen, sending, events>>

RemoveExternal(a, e) ==
  /\ Free(a) /\ ext[e] # None
  /\ ext' = [ext EXCEPT ![e] = None] /\ Count
  /\ UNCHANGED <<profile, process, disk, box, orphans, owners, seen, asked, sending>>

\* refresh clears the external peers, then loads the manifest; it may fail.
ClearExternal(a) ==
  /\ Free(a) /\ seen[a] # {} /\ seen' = [seen EXCEPT ![a] = {}]
  /\ UNCHANGED <<profile, process, disk, box, orphans, owners, ext, asked, sending, events>>

LoadExternal(a) ==
  /\ Free(a) /\ seen[a] = {} /\ seen' = [seen EXCEPT ![a] = Registered]
  /\ UNCHANGED <<profile, process, disk, box, orphans, owners, ext, asked, sending, events>>

\* A message is written to the mailbox of the peer that was resolved, which is
\* created again if it is gone.
Resolve(a, b) ==
  /\ Free(a) /\ a # b /\ b \in Listed /\ ~Dead(b) /\ CanSee(a, b) /\ sending[a] = None
  /\ sending' = [sending EXCEPT ![a] = b] /\ Count
  /\ UNCHANGED <<profile, process, disk, box, orphans, owners, outside>>

Deliver(a) ==
  /\ sending[a] # None
  /\ box' = box \cup {sending[a]} /\ sending' = [sending EXCEPT ![a] = None]
  /\ UNCHANGED <<profile, process, disk, orphans, owners, outside, events>>

Step(a) ==
  \/ Load(a) \/ JoinPick(a) \/ Flush(a) \/ Sync(a) \/ Heartbeat(a) \/ Unregister(a) \/ Exit(a) \/ Restart(a)
  \/ ReadPeers(a) \/ ListOrphans(a) \/ OwnLock(a) \/ OwnWrite(a) \/ ClearExternal(a)
  \/ LoadExternal(a) \/ Deliver(a) \/ Crash(a)
  \/ \E l \in Label : SetName(a, Plain(l)) \/ NameSession(a, Plain(l)) \/ AskExternal(a, l)
  \/ NameSession(a, None)
  \/ \E b \in Agent : CrashReaping(a, b) \/ RemoveOrphan(a, b) \/ Resolve(a, b)
  \/ \E e \in External : AddExternal(a, e) \/ RemoveExternal(a, e)

-----------------------------------------------------------------------------
(* Whom a message for a label goes to. *)

\* The peers v sees, of what the volatile files and the external manifest tell it.
Peers(v) ==
  {[id |-> b, name |-> disk[b].name, source |-> disk[b].source, alias |-> disk[b].alias,
    namespace |-> profile[b].namespace, declared |-> profile[b].declared]
     : b \in {c \in Listed : c # v /\ ~Dead(c) /\ CanSee(v, c)}}
  \cup {[id |-> None, name |-> Plain(l), source |-> None, alias |-> None, namespace |-> None,
         declared |-> None] : l \in {x \in seen[v] : profile[v].parent = None}}

TheOnly(S) == IF Cardinality(S) = 1 THEN {CHOOSE r \in S : TRUE} ELSE {}

\* findAgentByDisplayName, for a label without a namespace: the one record of
\* that name, among several the one with a trusted claim, else the one that
\* declared the label, else the one spawned under it.
FindByLabel(records, l) ==
  LET plain    == {r \in records : r.namespace = None}
      named    == {r \in plain : r.name = Plain(l)}
      declared == {r \in plain : r.declared = l}
      spawned  == {r \in records : r.alias = l /\ \A x \in records : x.namespace # l}
  IN IF Cardinality(named) = 1 THEN named
     ELSE IF named # {} THEN TheOnly({r \in named : r.source \in {"user", "declared"}})
     ELSE IF Cardinality(declared) = 1 THEN declared ELSE TheOnly(spawned)

\* Mistake: any record answers a label.
ResolveAny(v, l) == FindByLabel(Peers(v), l)

\* resolvePeer: a label of a lead is not answered by helpers and externals.
ResolvePeer(v, l) ==
  FindByLabel(IF journal[l] \in {None, v} THEN Peers(v)
              ELSE {r \in Peers(v) : r.namespace = None /\ r.id # None}, l)

Next == \E a \in Agent : Step(a)

\* The timers of a live process go on: widget, reaper, and the handlers under way.
Fairness == \A a \in Agent :
  /\ WF_vars(Flush(a)) /\ WF_vars(ListOrphans(a)) /\ WF_vars(\E b \in Agent : RemoveOrphan(a, b))
  /\ WF_vars(profile[a].ui /\ ReadPeers(a))

-----------------------------------------------------------------------------
(* Once a label is in the journal and no stranger holds it or is about to take *)
(* it, no stranger ever takes it: not while its lead runs, nor after the lead  *)
(* died, nor through a lost write of the journal (namespace-ownership.ts).     *)
Stranger(a, l) == profile[a].declared # l
Unclaimed(l) ==
  /\ journal[l] # None
  /\ \A a \in {x \in Agent : Stranger(x, l)} :
       /\ mem[a] = None \/ mem[a].name # Plain(l)
       /\ claim[a] = None \/ claim[a].record.name # Plain(l)
  /\ l \notin Registered /\ \A a \in Agent : asked[a] = None \/ asked[a].label # l
LabelStaysWithItsLead == [][\A l \in Label : Unclaimed(l) => Unclaimed(l)']_vars

(* Once a label is in the journal and no plain stranger answers to it, by its  *)
(* name or by its alias, in its record or in the one it is about to write,     *)
(* that stays so whoever joins, renames, crashes, restarts or registers an     *)
(* external agent under the label; and from then on a message for the label    *)
(* goes to nobody but a lead that declared it, under whatever name that lead   *)
(* is active, and to the one lead in sight when there is one (peers.ts,        *)
(* agent-names.ts, namespace-ownership.ts).                                    *)
Answers(record, l) == record.name = Plain(l) \/ record.alias = l
AnswersNow(a, l) ==
  (life[a] = "live" /\ Answers(mem[a], l)) \/ (claim[a] # None /\ Answers(claim[a].record, l))
Settled(l) ==
  /\ journal[l] # None
  /\ \A a \in Agent : Stranger(a, l) /\ profile[a].namespace = None => ~AnswersNow(a, l)
Leads(v, l) == {b \in Listed \ {v} : ~Dead(b) /\ CanSee(v, b)
                  /\ profile[b].namespace = None /\ ~Stranger(b, l)}
ReachesItsLead(v, l) ==
  LET to == {r.id : r \in ResolvePeer(v, l)}
  IN to \subseteq Leads(v, l) /\ (Cardinality(Leads(v, l)) = 1 => to = Leads(v, l))
LabelReachesItsLead ==
  [][\A l \in Label : Settled(l) =>
       /\ Settled(l)'
       /\ \A v \in Agent : life[v] = "live" /\ journal[l] # v => ReachesItsLead(v, l)]_vars

(* What a dead process left, a record or a mailbox, even one that a late       *)
(* message brought back, is cleared away as long as an agent with a widget     *)
(* lives (registry-reader.ts, reapOrphanedMailboxes).                          *)
Left(b) == life[b] = "dead" /\ (disk[b] # None \/ b \in box)
Watcher(a) == profile[a].ui /\ life[a] = "live"
DeadAreCleared == \A b \in Agent :
  Left(b) ~> (~Left(b) \/ ~\E a \in Agent : Watcher(a))

Spec == Init /\ [][Next]_vars /\ Fairness
=============================================================================
