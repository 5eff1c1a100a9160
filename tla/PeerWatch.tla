----------------------------- MODULE PeerWatch -----------------------------
(***************************************************************************)
(* What an agent makes of its peers: the health tool, which counts how     *)
(* often it found the activity of a peer unchanged, and the reconciler,    *)
(* which every minute reads the registry twice and tells its own model     *)
(* what needs attention                                                    *)
(* (src/extensions/pi-agent-hub/registry/health.ts, reconciler*.ts,        *)
(* state.ts).                                                              *)
(*                                                                         *)
(* The first reading classifies the records: it removes those of dead      *)
(* processes and replaces the status of one whose heartbeat is late by     *)
(* "stalled".  The second reads the files as they are.  A peer may move    *)
(* between the two, and between any two assessments.                       *)
(***************************************************************************)
EXTENDS Naturals, FiniteSets

CONSTANTS
  None,
  Peer,        \* the peers that are seen
  External,    \* peers with a mailbox only, no process
  Threshold,   \* unchanged assessments before a peer is called stalled
  MaxInjects,  \* MAX_CONSECUTIVE_INJECTS
  MaxChanges   \* changes of peers, settings and time in a behaviour

PeerWatchAssumption ==
  /\ External \subseteq Peer
  /\ Threshold \in Nat \ {0} /\ MaxInjects \in Nat /\ MaxChanges \in Nat

VARIABLES
  rec,       \* records: [status, beat, pending], or None
  alive,     \* the process runs
  log,       \* the recent activity in the session log: a number, 0 for none
  errors,    \* most of the last tool results are errors
  tracker,   \* stallTracker: [hash, count] or None
  verdict,   \* what the health tool said of a peer since its activity last moved
  still,     \* how often it has looked since then
  saved,     \* reconciliationNotifications in the settings
  on,        \* notificationsEnabled
  idle,      \* ctx.isIdle()
  injects,   \* consecutiveInjects
  cooling,   \* heuristics on cooldown
  fresh,     \* the last input is less than half an hour old
  resumed,   \* a reminder of the resumed session is open
  look,      \* the first reading, while the findings are confirmed, or None
  told,      \* the findings of the last message
  changes

peers   == <<rec, alive, log, errors>>
health  == <<tracker, verdict, still>>
control == <<saved, on, idle, injects, cooling, fresh, resumed>>
vars    == <<peers, health, control, look, told, changes>>

Present == {p \in Peer : rec[p] # None}

\* classifyRecord: how a reading shows a record.
Listed(p) ==
  IF p \notin External /\ rec[p].beat # "fresh" THEN [rec[p] EXCEPT !.status = "stalled"] ELSE rec[p]

\* The reading removes the records of dead processes.
Reap == rec' = [p \in Peer |-> IF rec[p] # None /\ ~alive[p] THEN None ELSE rec[p]]

Listing == [p \in Peer |-> IF rec[p] # None /\ alive[p] THEN Listed(p) ELSE None]

Init ==
  /\ rec = [p \in Peer |-> [status |-> "running", beat |-> "fresh", pending |-> FALSE]]
  /\ alive = [p \in Peer |-> TRUE]
  /\ log = [p \in Peer |-> IF p \in External THEN 0 ELSE 1]
  /\ errors = [p \in Peer |-> FALSE]
  /\ tracker = [p \in Peer |-> None] /\ verdict = [p \in Peer |-> "unknown"]
  /\ still = [p \in Peer |-> 0]
  /\ saved \in BOOLEAN /\ on = saved /\ idle = TRUE /\ injects = 0 /\ cooling = {}
  /\ fresh = TRUE /\ resumed \in BOOLEAN
  /\ look = None /\ told = {} /\ changes = 0

-----------------------------------------------------------------------------
(* The health tool.                                                        *)

\* The count is only compared with the threshold.
Capped(count) == IF count > Threshold THEN Threshold ELSE count

\* Mistake: the count goes on when the activity has changed.
AssessHealthCounting(p, r) ==
  LET prev  == tracker[p]
      count == IF prev = None THEN 0 ELSE Capped(prev.count + 1)
  IN IF p \in External
     THEN [status |-> IF r.status = "blocked" THEN "blocked" ELSE "waiting", track |-> None]
     ELSE IF r.status \in {"blocked", "waiting"}
     THEN [status |-> r.status, track |-> IF r.status = "waiting" THEN None ELSE prev]
     ELSE IF errors[p] THEN [status |-> "api_error", track |-> prev]
     ELSE [status |-> IF count < Threshold THEN "active" ELSE IF r.beat = "silent" THEN "stalled" ELSE "sleeping",
           track |-> [hash |-> log[p], count |-> count]]

\* assessHealth: the status of a listed record and what is kept of it.
AssessHealth(p, r) ==
  LET prev  == tracker[p]
      same  == prev # None /\ prev.hash = log[p] /\ log[p] # 0
      count == IF same THEN Capped(prev.count + 1) ELSE 0
  IN IF p \in External
     THEN [status |-> IF r.status = "blocked" THEN "blocked" ELSE "waiting", track |-> None]
     ELSE IF r.status \in {"blocked", "waiting"}
     THEN [status |-> r.status, track |-> IF r.status = "waiting" THEN None ELSE prev]
     ELSE IF errors[p] THEN [status |-> "api_error", track |-> prev]
     ELSE [status |-> IF ~same \/ count < Threshold THEN "active"
                      ELSE IF r.beat = "silent" THEN "stalled" ELSE "sleeping",
           track |-> [hash |-> log[p], count |-> count]]

\* agent_status for some of the peers.
AgentStatus(ps) ==
  /\ look = None /\ told' = {}
  /\ Reap
  /\ LET seen == {p \in ps : Listing[p] # None}
     IN /\ tracker' = [p \in Peer |-> IF p \in seen THEN AssessHealth(p, Listing[p]).track ELSE tracker[p]]
        /\ verdict' = [p \in Peer |-> IF p \in seen THEN AssessHealth(p, Listing[p]).status ELSE verdict[p]]
        /\ still' = [p \in Peer |-> IF p \in seen /\ still[p] <= Threshold THEN still[p] + 1 ELSE still[p]]
  /\ UNCHANGED <<alive, log, errors, control, look, changes>>

-----------------------------------------------------------------------------
(* The reconciler.                                                         *)

\* A session starts; the notifications are as they were saved.
Start(again) ==
  /\ look = None /\ told' = {} /\ changes < MaxChanges /\ changes' = changes + 1
  /\ on' = saved /\ injects' = 0 /\ cooling' = {} /\ resumed' = again /\ idle' = TRUE
  /\ UNCHANGED <<peers, health, saved, fresh, look>>

\* The command or the tool; the setting may fail to be saved.
SetEnabled(b, kept) ==
  /\ look = None /\ told' = {} /\ changes < MaxChanges /\ changes' = changes + 1
  /\ on' = b /\ saved' = IF kept THEN b ELSE saved
  /\ UNCHANGED <<peers, health, idle, injects, cooling, fresh, resumed, look>>

\* An input, a message of the reconciler too, starts a turn.
Input ==
  /\ look = None /\ idle /\ told' = {}
  /\ idle' = FALSE /\ fresh' = TRUE
  /\ UNCHANGED <<peers, health, saved, on, injects, cooling, resumed, look, changes>>

AgentEnd ==
  /\ look = None /\ ~idle /\ told' = {}
  /\ idle' = TRUE /\ injects' = 0
  /\ UNCHANGED <<peers, health, saved, on, cooling, fresh, resumed, look, changes>>

\* The minute is over: the first reading.
Look ==
  /\ look = None /\ on /\ idle /\ injects < MaxInjects /\ told' = {}
  /\ Reap /\ look' = Listing
  /\ UNCHANGED <<alive, log, errors, health, control, changes>>

\* confirmedPeerState: the second reading, by name.
Confirmed(p, peer) ==
  IF p \in External THEN [status |-> peer.status, alive |-> TRUE, confirmed |-> TRUE]
  ELSE IF rec[p] # None
       THEN [status |-> IF alive[p] THEN rec[p].status ELSE "terminated", alive |-> alive[p], confirmed |-> TRUE]
       ELSE [status |-> peer.status, alive |-> peer.status # "terminated", confirmed |-> FALSE]

\* actionableAgentFindings.
Findings(p, peer) ==
  LET c == Confirmed(p, peer)
  IN  {h \in {"pending-messages", "blocked-agent", "silent-done", "stale-worker"} :
        CASE h = "pending-messages" -> peer.pending
          [] h = "blocked-agent"    -> "blocked" \in {peer.status, c.status}
          [] h = "silent-done"      -> c.confirmed /\ ~c.alive /\ peer.status # "done" /\ p \notin External
          [] h = "stale-worker"     -> c.confirmed /\ c.alive /\ c.status = "stalled"}

\* isOperationallyQuiet, of a third reading.
Quiet(p, peer) ==
  LET c == Confirmed(p, peer)
  IN  /\ ~peer.pending /\ "blocked" \notin {peer.status, c.status}
      /\ c.status \in {"waiting", "running", "done"} \/ ~c.confirmed \/ rec[p].beat # "silent"

\* The findings that are not on cooldown become one message.
Judge ==
  /\ look # None
  /\ LET stale == ~fresh /\ \E p \in Peer : Listing[p] # None /\ ~Quiet(p, Listing[p])
         found == UNION {{<<h, p>> : h \in Findings(p, look[p])} : p \in {q \in Peer : look[q] # None}}
         now   == {f \in found : f[1] \notin cooling}
                    \cup {f \in {<<"stale-activity", None>>} : stale /\ "stale-activity" \notin cooling}
                    \cup {f \in {<<"resume-reminder", None>>} : resumed}
     IN /\ told' = now
        /\ cooling' = cooling \cup {f[1] : f \in now}
        /\ injects' = IF now = {} THEN injects ELSE injects + 1
        /\ idle' = (now = {}) /\ fresh' = (fresh \/ now # {})
  /\ IF ~fresh THEN Reap ELSE UNCHANGED rec
  /\ look' = None /\ resumed' = FALSE
  /\ UNCHANGED <<alive, log, errors, health, saved, on, changes>>

-----------------------------------------------------------------------------
(* The peers and the clock.                                                *)

Changes == changes < MaxChanges /\ changes' = changes + 1 /\ told' = {} /\ UNCHANGED <<tracker, look>>
Seen == UNCHANGED <<verdict, still>>

\* Work shows in the session log.
Works(p) ==
  /\ Changes /\ rec[p] # None /\ alive[p] /\ p \notin External
  /\ log' = [log EXCEPT ![p] = @ + 1]
  /\ verdict' = [verdict EXCEPT ![p] = "unknown"] /\ still' = [still EXCEPT ![p] = 0]
  /\ UNCHANGED <<rec, alive, errors, control>>

\* A peer reports its status itself.
Reports(p, status) ==
  /\ Changes /\ rec[p] # None /\ alive[p] /\ rec[p].status # status
  /\ rec' = [rec EXCEPT ![p].status = status, ![p].beat = "fresh"]
  /\ Seen /\ UNCHANGED <<alive, log, errors, control>>

\* The heartbeat is late, later than a minute, or comes again.
Beats(p, beat) ==
  /\ Changes /\ rec[p] # None /\ alive[p] /\ p \notin External /\ rec[p].beat # beat
  /\ rec' = [rec EXCEPT ![p].beat = beat]
  /\ Seen /\ UNCHANGED <<alive, log, errors, control>>

GetsMessage(p) ==
  /\ Changes /\ rec[p] # None
  /\ rec' = [rec EXCEPT ![p].pending = ~@]
  /\ Seen /\ UNCHANGED <<alive, log, errors, control>>

Fails(p) ==
  /\ Changes /\ p \notin External
  /\ errors' = [errors EXCEPT ![p] = ~@]
  /\ Seen /\ UNCHANGED <<rec, alive, log, control>>

Dies(p) ==
  /\ Changes /\ alive[p] /\ p \notin External
  /\ alive' = [alive EXCEPT ![p] = FALSE]
  /\ Seen /\ UNCHANGED <<rec, log, errors, control>>

\* Half an hour without an input; the cooldown of a heuristic ends.
TimePasses(h) ==
  /\ Changes
  /\ IF h = "input" THEN fresh' = FALSE /\ UNCHANGED cooling
     ELSE h \in cooling /\ cooling' = cooling \ {h} /\ UNCHANGED fresh
  /\ Seen /\ UNCHANGED <<peers, saved, on, idle, injects, resumed>>

Next ==
  \/ \E ps \in SUBSET Peer \ {{}} : AgentStatus(ps)
  \/ \E again \in BOOLEAN : Start(again)
  \/ \E b, kept \in BOOLEAN : SetEnabled(b, kept)
  \/ Input \/ AgentEnd \/ Look \/ Judge
  \/ \E p \in Peer : Works(p)
  \/ \E p \in Peer, s \in {"running", "waiting", "blocked", "done"} : Reports(p, s)
  \/ \E p \in Peer, b \in {"fresh", "late", "silent"} : Beats(p, b)
  \/ \E p \in Peer : GetsMessage(p)
  \/ \E p \in Peer : Fails(p)
  \/ \E p \in Peer : Dies(p)
  \/ \E h \in {"input", "pending-messages", "blocked-agent", "silent-done", "stale-activity"} : TimePasses(h)

Spec == Init /\ [][Next]_vars

-----------------------------------------------------------------------------
(* What the model of the agent may rely on.                                *)

\* A peer is called stalled or asleep only after more than Threshold looks at
\* the same activity, however its status, its errors and the registry moved
\* between the looks.
StalledIsSound ==
  \A p \in Peer : verdict[p] \in {"stalled", "sleeping"} => still[p] > Threshold

\* README.md:140 of the hub: "confirmed stale workers ... are surfaced".  A
\* running peer whose heartbeat is late at both readings is in the message.
StaleIsSurfaced ==
  [][look # None /\ look' = None =>
       \A p \in Peer \ External :
         /\ look[p] # None /\ rec[p] # None /\ alive[p]
         /\ rec[p].status = "running" /\ look[p].status = "stalled" /\ rec[p].beat = "silent"
         /\ "stale-worker" \notin cooling
         => <<"stale-worker", p>> \in told']_vars
=============================================================================
