--------------------------- MODULE ScheduleTimer ---------------------------
(***************************************************************************)
(* The timer of the automations scheduler (pi-scheduler.ts,                *)
(* scheduler-run-queue.ts, scheduler-work-tracker.ts) and the registry of  *)
(* schedules it reads (schedules.ts): one schedule, the processes that     *)
(* share its files, and the minutes of a clock.                            *)
(*                                                                         *)
(* A session starts the scheduler: it reconciles, catches up with the most *)
(* recent missed minute and sets a timer.  Each tick lists the schedules   *)
(* and spawns the runs that are due without awaiting them.  A stop refuses *)
(* new work, awaits the work tracked when it began, and forgets the        *)
(* configuration.  What a run does between its claim and its dispatch      *)
(* (guard, quota, approval) is module ScheduledRun's; here it may end.     *)
(***************************************************************************)
EXTENDS Integers, FiniteSets

CONSTANTS
  Process,     \* sessions whose scheduler reads these files
  MaxMinute,   \* the clock goes from 0 to this minute
  Due,         \* the minutes the cron expression of the schedule matches
  Window,      \* how many minutes back a catch-up looks (24 hours)
  MaxStarts,   \* starts of a scheduler and crashes of a process
  MaxEdits,    \* schedules added, removed, and edited by hand
  None

ASSUME TimerAssumption ==
  /\ MaxMinute \in Nat /\ Window \in Nat \ {0} /\ MaxStarts \in Nat /\ MaxEdits \in Nat
  /\ Due \subseteq 0..MaxMinute

Minute == 0..MaxMinute

VARIABLES
  now,        \* the minute of the clock
  env,        \* <task>.env: "none", "on", or "off": disabled, or with a cron that does not parse
  prompt,     \* <task>.prompt exists
  tool,       \* the tool call changing the files: "idle", "prompted", "undoing", "removing"
  undone,     \* a removal, or an add that failed, took a prompt away
  slot,       \* <task>.slot-<minute>.json: "none", "reserved", "admitted", "called", "returned"
  up,         \* the scheduler of a process: "down", "up" (accepting work), "stopping" (draining)
  config,     \* its configuration is known
  timer,      \* its interval runs
  ticked,     \* minute of the interval's last tick
  starting,   \* where its start() awaits: "no", "reconcile", "catchup"
  lists,      \* ticks and catch-ups in flight, each with what it has read
  runs,       \* runs in flight
  lastRun,    \* SchedulerRunQueue.lastRun
  active,     \* SchedulerRunQueue.activeRuns, as minutes
  awaited,    \* the work a stop is draining
  starts, edits

clockVars == <<starts, now>>
fileVars == <<env, prompt, tool, undone, edits>>
hostVars == <<up, config, timer, ticked, starting>>
workVars == <<lists, runs, lastRun, active, awaited>>
vars == <<clockVars, fileVars, slot, hostVars, workVars>>

\* A listing in flight: a tick or the catch-up of a process, for the minute it will run.  read: the
\* env file was read and is enabled.
List == [of: Process, minute: Minute, by: {"tick", "catchup"}, read: BOOLEAN]

\* A run in flight.  floor: ghost, the newest minute recorded as delivered when it was spawned.
Run == [of: Process, minute: Minute, by: {"tick", "catchup"}, pc: {"claim", "dispatch", "admit", "send", "mark"},
        prompt: BOOLEAN, floor: Minute \cup {None}]

Delivered == {m \in Minute : slot[m] = "returned"}
Newest == IF Delivered = {} THEN None ELSE CHOOSE m \in Delivered : \A n \in Delivered : n <= m

Init ==
  /\ now = 0 /\ env \in {"none", "on"} /\ prompt = (env = "on") /\ tool = "idle" /\ undone = FALSE
  /\ slot = [m \in Minute |-> "none"]
  /\ up = [p \in Process |-> "down"] /\ config = [p \in Process |-> FALSE]
  /\ timer = [p \in Process |-> FALSE] /\ ticked = [p \in Process |-> None]
  /\ starting = [p \in Process |-> "no"]
  /\ lists = {} /\ runs = {} /\ awaited = {}
  /\ lastRun = [p \in Process |-> None] /\ active = [p \in Process |-> {}]
  /\ starts = 0 /\ edits = 0

MinutePasses ==
  /\ now < MaxMinute /\ now' = now + 1
  /\ UNCHANGED <<starts, fileVars, slot, hostVars, workVars>>

(***************************************************************************)
(* The registry.  addSchedule writes the prompt, then the env file that    *)
(* makes the schedule visible; removeSchedule removes them the other way   *)
(* round.  Slot files stay.                                                *)
(***************************************************************************)

\* Mistake: the env file is written before the prompt.
AddEnvFirst ==
  /\ tool = "idle" /\ env = "none" /\ ~prompt /\ edits < MaxEdits
  /\ env' = "on" /\ tool' = "prompted" /\ edits' = edits + 1
  /\ UNCHANGED <<prompt, undone>>

Add ==
  /\ tool = "idle" /\ env = "none" /\ ~prompt /\ edits < MaxEdits
  /\ prompt' = TRUE /\ tool' = "prompted" /\ edits' = edits + 1
  /\ UNCHANGED <<env, undone>>

AddEnv ==
  /\ tool = "prompted"
  /\ \/ env' \in {"on", "off"} /\ prompt' = TRUE /\ tool' = "idle"
     \/ tool' = "undoing" /\ UNCHANGED <<env, prompt>>        \* the write failed
  /\ UNCHANGED <<undone, edits>>

\* The rollback of a failed add, and the second file of a removal.
DropPrompt ==
  /\ tool \in {"undoing", "removing"}
  /\ prompt' = FALSE /\ tool' = "idle" /\ undone' = TRUE
  /\ UNCHANGED <<env, edits>>

Remove ==
  /\ tool = "idle" /\ env # "none" /\ edits < MaxEdits
  /\ env' = "none" /\ tool' = "removing" /\ edits' = edits + 1
  /\ UNCHANGED <<prompt, undone>>

\* Enabling and disabling are edits of the file by hand, which may also break it.
EditByHand ==
  /\ env # "none" /\ edits < MaxEdits
  /\ env' \in {"on", "off"} \ {env} /\ edits' = edits + 1
  /\ UNCHANGED <<prompt, tool, undone>>

Registry ==
  /\ Add \/ AddEnv \/ DropPrompt \/ Remove \/ EditByHand
  /\ UNCHANGED <<clockVars, slot, hostVars, workVars>>

(***************************************************************************)
(* start(), tick() and the listings                                        *)
(***************************************************************************)

\* start(): refused while a stop is draining.  Nobody awaits it (lifecycle.ts); that a second one runs
\* while the first still awaits is left out.
Start(p) ==
  /\ up[p] = "down" /\ starting[p] = "no" /\ starts < MaxStarts
  /\ up' = [up EXCEPT ![p] = "up"] /\ config' = [config EXCEPT ![p] = TRUE]
  /\ starting' = [starting EXCEPT ![p] = "reconcile"] /\ starts' = starts + 1
  /\ UNCHANGED <<now, fileVars, slot, timer, ticked, workVars>>

\* The minutes a catch-up looks through, newest first: not the present one.
Missed == {m \in Due : m < now /\ m >= now - Window}

\* The reconciliation is over: the catch-up begins, whether or not a stop came meanwhile.
CatchUp(p) ==
  /\ starting[p] = "reconcile"
  /\ starting' = [starting EXCEPT ![p] = "catchup"]
  /\ lists' = IF config[p] /\ Missed # {}
              THEN lists \cup {[of |-> p, by |-> "catchup", read |-> FALSE,
                                minute |-> CHOOSE m \in Missed : \A n \in Missed : n <= m]}
              ELSE lists
  /\ UNCHANGED <<clockVars, fileVars, slot, up, config, timer, ticked, runs, lastRun, active, awaited>>

\* The catch-up is over, and start() sets the timer, even after a stop.
SetTimer(p) ==
  /\ starting[p] = "catchup"
  /\ \A l \in lists : l.of = p => l.by = "tick"
  /\ starting' = [starting EXCEPT ![p] = "no"] /\ timer' = [timer EXCEPT ![p] = TRUE]
  /\ UNCHANGED <<clockVars, fileVars, slot, up, config, ticked, workVars>>

\* tick(): at most one a minute, since the interval is a minute; a busy process skips some.
Tick(p) ==
  /\ timer[p] /\ ticked[p] # now
  /\ ticked' = [ticked EXCEPT ![p] = now]
  /\ lists' = IF up[p] = "up" /\ config[p] /\ now \in Due
              THEN lists \cup {[of |-> p, minute |-> now, by |-> "tick", read |-> FALSE]} ELSE lists
  /\ UNCHANGED <<clockVars, fileVars, slot, up, config, timer, starting, runs, lastRun, active, awaited>>

\* listSchedules reads the env file: a schedule that is missing, disabled or invalid ends the tick.
ReadEnv(l) ==
  /\ l \in lists /\ ~l.read
  /\ lists' = (lists \ {l}) \cup (IF env = "on" THEN {[l EXCEPT !.read = TRUE]} ELSE {})
  /\ UNCHANGED <<clockVars, fileVars, slot, hostVars, runs, lastRun, active, awaited>>

\* It reads the prompt file, if there is one, and the run is spawned; spawn() drops a minute this
\* process ran last or is running.
Spawn(l) ==
  /\ l \in lists /\ l.read
  /\ lists' = lists \ {l}
  /\ runs' = IF lastRun[l.of] = l.minute \/ l.minute \in active[l.of] THEN runs
             ELSE runs \cup {[of |-> l.of, minute |-> l.minute, by |-> l.by, pc |-> "claim", prompt |-> prompt,
                              floor |-> Newest]}
  /\ UNCHANGED <<clockVars, fileVars, slot, hostVars, lastRun, active, awaited>>

(***************************************************************************)
(* A run                                                                   *)
(***************************************************************************)

Step(r, to) == runs' = (runs \ {r}) \cup {[r EXCEPT !.pc = to]}

Ends(r) == /\ runs' = runs \ {r} /\ active' = [active EXCEPT ![r.of] = @ \ {r.minute}]

NewerDelivered(m) == \E n \in Minute : n > m /\ slot[n] = "returned"

\* Mistake: the claim does not look for a newer minute that was delivered.
ClaimSlotAlways(r) ==
  /\ r \in runs /\ r.pc = "claim"
  /\ IF config[r.of] /\ slot[r.minute] = "none"
     THEN /\ slot' = [slot EXCEPT ![r.minute] = "reserved"]
          /\ lastRun' = [lastRun EXCEPT ![r.of] = r.minute]
          /\ active' = [active EXCEPT ![r.of] = @ \cup {r.minute}] /\ Step(r, "dispatch")
     ELSE runs' = runs \ {r} /\ UNCHANGED <<slot, lastRun, active>>
  /\ UNCHANGED <<clockVars, fileVars, hostVars, lists, awaited>>

\* claimScheduleSlot under the slot's lock.  The slots of other minutes have other locks, but writing
\* this one commutes with what is written there, so looking and writing are one step.
ClaimSlot(r) ==
  /\ r \in runs /\ r.pc = "claim"
  /\ IF config[r.of] /\ ~NewerDelivered(r.minute) /\ slot[r.minute] = "none"
     THEN /\ slot' = [slot EXCEPT ![r.minute] = "reserved"]
          /\ lastRun' = [lastRun EXCEPT ![r.of] = r.minute]
          /\ active' = [active EXCEPT ![r.of] = @ \cup {r.minute}] /\ Step(r, "dispatch")
     ELSE runs' = runs \ {r} /\ UNCHANGED <<slot, lastRun, active>>
  /\ UNCHANGED <<clockVars, fileVars, hostVars, lists, awaited>>

\* Mistake: a run does not ask whether the scheduler still accepts work.
DispatchAlways(r) ==
  /\ r \in runs /\ r.pc = "dispatch"
  /\ Step(r, "admit") /\ UNCHANGED active
  /\ UNCHANGED <<clockVars, fileVars, slot, hostVars, lists, lastRun, awaited>>

\* Guard, quota and approval may end the run; so does a scheduler that no longer accepts work, and a
\* configuration that is gone.  The slot stays reserved.
Dispatch(r) ==
  /\ r \in runs /\ r.pc = "dispatch"
  /\ \/ up[r.of] = "up" /\ Step(r, "admit") /\ UNCHANGED active
     \/ Ends(r)
  /\ UNCHANGED <<clockVars, fileVars, slot, hostVars, lists, lastRun, awaited>>

\* admit(): reserved becomes admitted, unless the configuration is gone.
Admit(r) ==
  /\ r \in runs /\ r.pc = "admit"
  /\ IF config[r.of] /\ slot[r.minute] = "reserved"
     THEN slot' = [slot EXCEPT ![r.minute] = "admitted"] /\ Step(r, "send") /\ UNCHANGED active
     ELSE Ends(r) /\ UNCHANGED slot
  /\ UNCHANGED <<clockVars, fileVars, hostVars, lists, lastRun, awaited>>

\* sendUserMessage, in the turn of the event loop the admission returns to.
Send(r) ==
  /\ r \in runs /\ r.pc = "send" /\ Step(r, "mark")
  /\ UNCHANGED <<clockVars, fileVars, slot, hostVars, lists, lastRun, active, awaited>>

\* markHostCalled, then markHostCallReturned; each is refused once the configuration is gone.
MarkRun(r) ==
  /\ r \in runs /\ r.pc = "mark"
  /\ IF config[r.of] /\ slot[r.minute] = "admitted"
     THEN slot' = [slot EXCEPT ![r.minute] = "called"] /\ UNCHANGED <<runs, active>>
     ELSE /\ slot' = IF config[r.of] THEN [slot EXCEPT ![r.minute] = "returned"] ELSE slot
          /\ Ends(r)
  /\ UNCHANGED <<clockVars, fileVars, hostVars, lists, lastRun, awaited>>

(***************************************************************************)
(* stop(), and the end of a process                                        *)
(***************************************************************************)

\* The work of a process that is tracked: listings and runs.
InFlight(p) == {<<p, "list", l.by, l.minute>> : l \in {l \in lists : l.of = p}}
               \cup {<<p, "run", r.by, r.minute>> : r \in {r \in runs : r.of = p}}

\* stop(): no new work, and what is tracked now is awaited.
Stop(p) ==
  /\ up[p] = "up" /\ up' = [up EXCEPT ![p] = "stopping"] /\ timer' = [timer EXCEPT ![p] = FALSE]
  /\ awaited' = awaited \cup InFlight(p)
  /\ UNCHANGED <<clockVars, fileVars, slot, config, ticked, starting, lists, runs, lastRun, active>>

\* The awaited work has settled: resetAfterStop forgets the configuration and what has run.
Drained(p) ==
  /\ up[p] = "stopping" /\ awaited \cap InFlight(p) = {}
  /\ up' = [up EXCEPT ![p] = "down"] /\ config' = [config EXCEPT ![p] = FALSE]
  /\ awaited' = {w \in awaited : w[1] # p}
  /\ lastRun' = [lastRun EXCEPT ![p] = None] /\ active' = [active EXCEPT ![p] = {}]
  /\ UNCHANGED <<clockVars, fileVars, slot, timer, ticked, starting, lists, runs>>

\* The process dies, and another may take its place.
Crash(p) ==
  /\ up[p] # "down" /\ starts < MaxStarts /\ starts' = starts + 1
  /\ up' = [up EXCEPT ![p] = "down"] /\ config' = [config EXCEPT ![p] = FALSE]
  /\ timer' = [timer EXCEPT ![p] = FALSE] /\ ticked' = [ticked EXCEPT ![p] = None]
  /\ starting' = [starting EXCEPT ![p] = "no"]
  /\ lists' = {l \in lists : l.of # p} /\ runs' = {r \in runs : r.of # p}
  /\ awaited' = {w \in awaited : w[1] # p}
  /\ lastRun' = [lastRun EXCEPT ![p] = None] /\ active' = [active EXCEPT ![p] = {}]
  /\ UNCHANGED <<now, fileVars, slot>>

Scheduler(p) ==
  Start(p) \/ CatchUp(p) \/ SetTimer(p) \/ Tick(p) \/ Stop(p) \/ Drained(p) \/ Crash(p)

RunStep(r) == ClaimSlot(r) \/ Dispatch(r) \/ Admit(r) \/ Send(r) \/ MarkRun(r)

Next ==
  \/ MinutePasses \/ Registry
  \/ \E p \in Process : Scheduler(p)
  \/ \E l \in lists : ReadEnv(l) \/ Spawn(l)
  \/ \E r \in runs : RunStep(r)

Spec == Init /\ [][Next]_vars

-----------------------------------------------------------------------------

TypeOK ==
  /\ now \in Minute /\ starts \in Nat /\ edits \in Nat
  /\ env \in {"none", "on", "off"} /\ prompt \in BOOLEAN /\ undone \in BOOLEAN
  /\ tool \in {"idle", "prompted", "undoing", "removing"}
  /\ slot \in [Minute -> {"none", "reserved", "admitted", "called", "returned"}]
  /\ up \in [Process -> {"down", "up", "stopping"}]
  /\ config \in [Process -> BOOLEAN] /\ timer \in [Process -> BOOLEAN]
  /\ ticked \in [Process -> Minute \cup {None}]
  /\ starting \in [Process -> {"no", "reconcile", "catchup"}]
  /\ lists \subseteq List /\ runs \subseteq Run
  /\ lastRun \in [Process -> Minute \cup {None}] /\ active \in [Process -> SUBSET Minute]
  /\ awaited \subseteq Process \X {"list", "run"} \X {"tick", "catchup"} \X Minute

\* A scheduler whose stop has finished sends nothing until it is started again, although ticks and
\* catch-ups spawn runs the stop does not await: a run about to send belongs to a scheduler that runs,
\* or that is still draining it (scheduler-run-once.ts:100, scheduler-work-tracker.ts:40).
QuietOnceStopped == \A r \in runs : r.pc = "send" => up[r.of] # "down"

\* No run goes back in time: one spawned after a newer minute was recorded as delivered, by a catch-up
\* of any process or by a tick whose listing took long, is never sent (scheduler-slot-state.ts:155).
NeverGoesBack == \A r \in runs : r.pc \in {"send", "mark"} /\ r.floor # None => r.minute > r.floor

\* Adding a schedule never shows it without its prompt: a run has a blank prompt only after a removal or
\* a failed add took the file away while the schedules were listed (schedules.ts:147).
BlankOnlyWhenUndone == \A r \in runs : r.prompt \/ undone
=============================================================================
