----------------------------- MODULE GoalDriver -----------------------------
(***************************************************************************)
(* One goal of pi-goal, whose goal.json is shared by the sessions bound to *)
(* it.  A session claims the goal and its loop dispatches one turn after   *)
(* the other, each admitted in the file first; operators of every session  *)
(* edit, pause, stop, steer, clear and restart it; the agent asks for      *)
(* completion, which runs a hook outside every lock; a watchdog may nudge. *)
(*                                                                         *)
(* Every mutation is a load, an await and a transaction that the file's    *)
(* lock serialises and that fails unless the revision is the one loaded.   *)
(* Revisions are only ever compared for equality, so `fresh' keeps the     *)
(* threads whose loaded revision is still the file's: a load adds the      *)
(* thread, a commit empties the set.                                       *)
(***************************************************************************)
EXTENDS Integers, FiniteSets

CONSTANTS Session,      \* pi processes bound to the goal
          Creator,      \* the one whose /goal <text> created and started it
          None,         \* no session
          Budget,       \* --turns of a bounded run; a resumed run is unbounded
          MaxTurns,     \* bound: turns of a run
          MaxRuns,      \* bound: starts of the goal
          MaxEdits,     \* bound: edits of the objective
          MaxHooks,     \* bound: versions of the completion hook
          MaxEvents,       \* bound: operations, user turns, delays, failures, crashes
          Operations    \* the operator and tool calls of this instance

ASSUME GoalAssumption ==
  /\ None \notin Session /\ Creator \in Session
  /\ Budget \in Nat \ {0} /\ MaxTurns \in Nat /\ MaxRuns \in Nat \ {0}
  /\ MaxEdits \in Nat /\ MaxHooks \in Nat \ {0} /\ MaxEvents \in Nat

VARIABLES
  goal,       \* goal.json
  fresh,      \* the threads whose loaded revision is the current one
  late,       \* the soft liveness threshold has passed since the last progress
  hook,       \* revision of settings.json, whose hook is configured
  m,          \* the memory of each session
  sends,      \* how often the prompt of each attempt of each start was handed over
  spent       \* how many of these events there were

vars == <<goal, fresh, late, hook, m, sends, spent>>

Turn == 0 .. MaxTurns
Nobody == [by |-> None, gen |-> 0]
Owner == [by : Session \cup {None}, gen : 0 .. MaxRuns]
CheckStatus == {"none", "checking", "passed", "failed"}

\* parseGoalState: there is false once the file was deleted; start counts the runs
\* that /goal run or the creation began, edits the objectives.
Goal == [there : BOOLEAN, status : {"active", "paused", "complete"}, run : BOOLEAN,
         owner : Owner, ownerGen : 0 .. MaxRuns, adm : Turn, repl : Turn,
         used : Turn, budget : {0, Budget}, check : CheckStatus, checkHook : 0 .. MaxHooks,
         level : 0 .. 3, start : 1 .. MaxRuns, edits : 0 .. MaxEdits]

LoopSteps == {"off", "allowed", "resuming", "starting", "restarting", "claim", "claiming", "top",
              "admit", "admitting", "dispatch", "reserve", "reserving", "handoff", "consume",
              "consuming", "deliver", "turn", "progress", "interrupt", "interrupting",
              "release", "releasing"}
Handoff == {"handoff", "consume", "consuming"}
Command == {"edit", "pause", "stop", "steer", "clear"}
Tool == {"block", "complete"}
OpSteps == {"none", "steer_send", "steer_failed", "hook_runs", "passed", "failed", "shutdown"}
           \cup Command \cup Tool
DogSteps == {"off", "warn", "nudge", "admit", "admitting", "send", "contain", "hard"}

\* The runtime of a session (GoalRuntime), where its loop, its operator or tool call and its
\* watchdog are, what its agent does, and the markers whose prompts it swallows.
Memory == [loop : LoopSteps, turn : Turn, op : OpSteps, dog : DogSteps, nudge : 0 .. MaxTurns + 1,
           as : 0 .. MaxRuns, nudged : 1 .. MaxRuns, closed : BOOLEAN, driver : 0 .. MaxRuns,
           began : 1 .. MaxRuns, stopReq : BOOLEAN, waiting : BOOLEAN, pending : Turn,
           cancelled : SUBSET (1 .. MaxTurns), host : {"idle", "goal", "user"},
           ending : {"no", "ok", "error", "pausing"},
           vetted : [edits : 0 .. MaxEdits, hook : 0 .. MaxHooks, owner : Owner],
           swallowed : BOOLEAN]

Loop(s) == <<s, "loop">>
Op(s)   == <<s, "op">>
Dog(s)  == <<s, "dog">>
End(s)  == <<s, "end">>
Replacement == <<None, "replacement">>   \* the revision a reservation was written with

TypeOK ==
  /\ goal \in Goal /\ late \in BOOLEAN
  /\ fresh \subseteq {Replacement} \cup (Session \X {"loop", "op", "dog", "end"})
  /\ hook \in 0 .. MaxHooks
  /\ m \in [Session -> Memory]
  /\ \A a \in DOMAIN sends : a \in (1 .. MaxRuns) \X Turn /\ sends[a] \in Nat
  /\ spent \in 0 .. MaxEvents

\* getGoalRuntime, in a process that has just started.
Fresh == [loop |-> "off", turn |-> 0, op |-> "none", dog |-> "off", nudge |-> 0,
          as |-> 0, nudged |-> 1, closed |-> FALSE, driver |-> 0,
          began |-> 1, stopReq |-> FALSE, waiting |-> FALSE, pending |-> 0, cancelled |-> {},
          host |-> "idle", ending |-> "no", swallowed |-> FALSE,
          vetted |-> [edits |-> 0, hook |-> 0, owner |-> Nobody]]

\* A goal that /goal <text> has just created and started.
Init ==
  /\ goal = [there |-> TRUE, status |-> "active", run |-> TRUE, owner |-> Nobody, ownerGen |-> 0,
             adm |-> 0, repl |-> 0, used |-> 0, budget |-> Budget, check |-> "none",
             checkHook |-> 0, level |-> 0, start |-> 1, edits |-> 0]
  /\ fresh = {} /\ late = FALSE /\ spent = 0
  /\ hook = 1
  /\ sends = [a \in (1 .. MaxRuns) \X (1 .. MaxTurns) |-> 0]
  /\ m = [s \in Session |-> [Fresh EXCEPT !.loop = IF s = Creator THEN "claim" ELSE "off"]]

(***************************************************************************)
(* The file                                                                *)
(***************************************************************************)

Active == goal.there /\ goal.run /\ goal.status = "active"
Mine(s) == m[s].driver # 0 /\ goal.owner = [by |-> s, gen |-> m[s].driver]

\* loadGoal: the thread knows the revision of what it read.
Load(t) == fresh' = fresh \cup {t}

\* matchesExpected, without and with an expected owner.
Matches(t) == t \in fresh /\ goal.there
MatchesAsOwner(t, s) == Matches(t) /\ Mine(s)

Larger(a, b) == IF a < b THEN b ELSE a

\* Every stop revokes the driver in the same commit, and never forgets an admitted attempt.
Revoked(g) ==
  IF g.run /\ g.status = "active" THEN g
  ELSE [g EXCEPT !.owner = Nobody, !.adm = 0, !.repl = 0, !.used = Larger(g.used, goal.adm)]

\* transactGoalAt, once the expectation is met: the new revision makes every other loaded
\* one stale; a thread that goes on with the committed state knows its revision.
Commit(g, knows) == goal' = Revoked(g) /\ fresh' = knows

Stopped(g) == [g EXCEPT !.run = FALSE]

(***************************************************************************)
(* The runtime of a session                                                *)
(***************************************************************************)

CancelPending(r) ==
  IF r.pending = 0 THEN r ELSE [r EXCEPT !.cancelled = @ \cup {r.pending}, !.pending = 0]

\* stopLocalRun, which only concerns a session that drives this goal.
StopLocalRun(r) ==
  IF r.driver = 0 THEN r ELSE [CancelPending(r) EXCEPT !.stopReq = TRUE, !.waiting = FALSE]

\* refreshUi of a committed state stops the local run when the state does not run.
RefreshUi(r, g) == IF g.run THEN r ELSE StopLocalRun(r)

Becomes(s, r) == m' = [m EXCEPT ![s] = r]
Step(s, pc) == Becomes(s, [m[s] EXCEPT !.loop = pc])

\* An event that an instance bounds: an operation, or in the loop a projection that cannot be
\* written, a host that refuses, a turn that fails.
Event == spent < MaxEvents /\ spent' = spent + 1
Normal == UNCHANGED spent

\* The input handler swallows a continuation whose marker was cancelled: no turn starts.
Swallows(s, attempt) == attempt > 1 /\ attempt \in m[s].cancelled

CountSend(start, attempt) == sends' = [sends EXCEPT ![<<start, attempt>>] = @ + 1]

\* localSession: between the reservation and the delivery the driver's session is being replaced,
\* and a session that shut down is not the driver's any more.
Local(s) == m[s].driver # 0 /\ m[s].loop \notin Handoff /\ ~m[s].closed
Queued(s) == m[s].waiting \/ m[s].pending # 0
Busy(s) == m[s].host # "idle"

\* No tick of the watchdog is under way.
NoTick(r) == [r EXCEPT !.dog = "off", !.nudge = 0, !.as = 0, !.nudged = 1]

(***************************************************************************)
(* Starting: /goal run and /goal resume                                    *)
(***************************************************************************)

\* startAllowed has a load of its own.
StartAllowed(s, pc) ==
  /\ m[s].loop = "off" /\ m[s].driver = 0
  /\ goal.there /\ ~goal.run /\ goal.owner = Nobody /\ goal.ownerGen < MaxRuns
  /\ Becomes(s, [m[s] EXCEPT !.loop = pc, !.stopReq = FALSE])
  /\ UNCHANGED <<goal, fresh, late, hook, sends, spent>>

StartLoad(s) ==
  /\ \/ /\ m[s].loop \in {"allowed", "resuming"} /\ goal.there /\ goal.status # "complete"
        /\ Load(Loop(s)) /\ Step(s, IF m[s].loop = "allowed" THEN "starting" ELSE "restarting")
     \/ /\ m[s].loop \in {"allowed", "resuming"} /\ ~(goal.there /\ goal.status # "complete")
        /\ UNCHANGED fresh /\ Step(s, "off")
  /\ UNCHANGED <<goal, late, hook, sends, spent>>

\* startRun begins a new count of turns; resumeRun goes on with the old one, unbounded.
StartRun(g) == [g EXCEPT !.status = "active", !.run = TRUE, !.used = 0, !.budget = Budget,
                         !.check = "none", !.level = 0, !.start = @ + 1]
\* Mistake: a resumed run starts counting again
ResumeRunAfresh(g) == [g EXCEPT !.status = "active", !.run = TRUE, !.budget = 0, !.used = 0,
                                !.check = "none", !.level = 0]
ResumeRun(g) == [g EXCEPT !.status = "active", !.run = TRUE, !.budget = 0,
                          !.check = "none", !.level = 0]

StartCommit(s) ==
  /\ m[s].loop \in {"starting", "restarting"}
  /\ \/ /\ Matches(Loop(s))
        /\ m[s].loop = "starting" => goal.start < MaxRuns
        /\ Commit(IF m[s].loop = "starting" THEN StartRun(goal) ELSE ResumeRun(goal), {})
        /\ late' = FALSE
        /\ Step(s, "claim")
     \/ ~Matches(Loop(s)) /\ Step(s, "off") /\ UNCHANGED <<goal, fresh, late>>
  /\ UNCHANGED <<hook, sends, spent>>

\* claimGoal refuses a goal that has an owner, however old.
ClaimLoad(s) ==
  /\ m[s].loop = "claim"
  /\ IF Active /\ goal.owner = Nobody
       THEN Load(Loop(s)) /\ Step(s, "claiming")
       ELSE Step(s, "off") /\ UNCHANGED fresh
  /\ UNCHANGED <<goal, late, hook, sends, spent>>

Claim(s) ==
  /\ m[s].loop = "claiming"
  /\ \/ /\ Matches(Loop(s)) /\ goal.ownerGen < MaxRuns
        /\ LET gen == goal.ownerGen + 1 IN
             /\ Commit([goal EXCEPT !.owner = [by |-> s, gen |-> gen], !.ownerGen = gen], {})
             /\ \E next \in {"top", "interrupt"} :
                  /\ IF next = "top" THEN Normal ELSE Event
                  /\ Becomes(s, [m[s] EXCEPT !.loop = next, !.driver = gen, !.stopReq = FALSE,
                                    !.closed = FALSE])
     \/ ~Matches(Loop(s)) /\ Step(s, "off") /\ UNCHANGED <<goal, fresh, spent>>
  /\ UNCHANGED <<late, hook, sends>>

(***************************************************************************)
(* The loop of the driver                                                  *)
(***************************************************************************)

\* The head of the loop waits for an idle host, loads, and prepares the next attempt.
LoopTop(s) ==
  /\ m[s].loop = "top"
  /\ LET attempt == goal.used + 1 IN
       \/ m[s].stopReq /\ Step(s, "release")
       \/ /\ ~m[s].stopReq /\ ~Busy(s)
          /\ ~(Mine(s) /\ Active) /\ Step(s, "release")
       \/ /\ ~m[s].stopReq /\ ~Busy(s) /\ Mine(s) /\ Active
          /\ goal.budget > 0 /\ goal.used >= goal.budget /\ Step(s, "interrupt")
       \/ /\ ~m[s].stopReq /\ ~Busy(s) /\ Mine(s) /\ Active
          /\ ~(goal.budget > 0 /\ goal.used >= goal.budget) /\ attempt <= MaxTurns
          /\ Becomes(s, [m[s] EXCEPT !.turn = attempt, !.waiting = TRUE,
                            !.pending = IF attempt > 1 THEN attempt ELSE 0,
                            !.loop = IF attempt = 1 THEN "admit" ELSE "reserve"])
  /\ UNCHANGED <<goal, fresh, late, hook, sends, spent>>

\* The condition of admitGoal on what it loads; the owner is compared by the transaction.
Admissible(attempt) ==
  /\ goal.there /\ goal.owner # Nobody /\ goal.run
  /\ goal.repl = 0 /\ goal.adm = 0 /\ attempt = goal.used + 1

AdmitLoad(s) ==
  /\ m[s].loop = "admit"
  /\ IF Admissible(m[s].turn)
       THEN Load(Loop(s)) /\ Step(s, "admitting")
       ELSE Step(s, "release") /\ UNCHANGED fresh
  /\ UNCHANGED <<goal, late, hook, sends, spent>>

StepAdmitted(s, pc) == Becomes(s, [m[s] EXCEPT !.loop = pc, !.began = goal.start])
Admitted(attempt) == [goal EXCEPT !.used = attempt, !.adm = attempt]

Admit(s) ==
  /\ m[s].loop = "admitting"
  /\ \/ /\ MatchesAsOwner(Loop(s), s)
        /\ Commit(Admitted(m[s].turn), {})
        /\ \/ StepAdmitted(s, "dispatch") /\ Normal
           \/ StepAdmitted(s, "release") /\ Event
     \/ ~MatchesAsOwner(Loop(s), s) /\ Step(s, "release") /\ UNCHANGED <<goal, fresh, spent>>
  /\ UNCHANGED <<late, hook, sends>>

\* The first turn runs in the session itself; the host may refuse the prompt.
Dispatch(s) ==
  /\ m[s].loop = "dispatch"
  /\ \/ m[s].stopReq /\ Step(s, "release") /\ Normal /\ UNCHANGED sends
     \/ ~m[s].stopReq /\ Busy(s) /\ Step(s, "interrupt") /\ Normal /\ UNCHANGED sends
     \/ ~m[s].stopReq /\ ~Busy(s) /\ Step(s, "interrupt") /\ Event /\ UNCHANGED sends
     \/ /\ ~m[s].stopReq /\ ~Busy(s) /\ Normal
        /\ Becomes(s, [m[s] EXCEPT !.loop = "turn", !.host = "goal"])
        /\ CountSend(m[s].began, m[s].turn)
  /\ UNCHANGED <<goal, fresh, late, hook>>

\* A later turn runs in a replacement session, reserved in the file beforehand.
ReserveLoad(s) ==
  /\ m[s].loop = "reserve"
  /\ IF goal.there /\ Mine(s) /\ goal.run /\ m[s].turn = goal.used + 1
       THEN Load(Loop(s)) /\ Step(s, "reserving")
       ELSE Step(s, "release") /\ UNCHANGED fresh
  /\ UNCHANGED <<goal, late, hook, sends, spent>>

Reserve(s) ==
  /\ m[s].loop = "reserving"
  /\ \/ /\ MatchesAsOwner(Loop(s), s)
        /\ Commit([goal EXCEPT !.repl = m[s].turn], {Replacement})
        /\ \/ Step(s, "handoff") /\ Normal
           \/ Step(s, "release") /\ Event
     \/ ~MatchesAsOwner(Loop(s), s) /\ Step(s, "release") /\ UNCHANGED <<goal, fresh, spent>>
  /\ UNCHANGED <<late, hook, sends>>

\* newSession: it may be cancelled, the run may have been stopped, the new session may be busy.
\* The watchdog of the old session is stopped, whatever it was doing.
HandOff(s) ==
  /\ m[s].loop = "handoff"
  /\ \/ (m[s].stopReq \/ Busy(s)) /\ Step(s, "interrupt") /\ Normal
     \/ Step(s, "interrupt") /\ Event
     \/ ~m[s].stopReq /\ ~Busy(s) /\ Becomes(s, [NoTick(m[s]) EXCEPT !.loop = "consume"]) /\ Normal
  /\ UNCHANGED <<goal, fresh, late, hook, sends>>

\* consumeReplacement: nothing at all was committed since the reservation.
ConsumeLoad(s) ==
  /\ m[s].loop = "consume"
  /\ IF /\ goal.there /\ Mine(s) /\ goal.run
        /\ goal.repl = m[s].turn /\ Replacement \in fresh /\ m[s].turn = goal.used + 1
       THEN Load(Loop(s)) /\ Step(s, "consuming")
       ELSE Step(s, "interrupt") /\ UNCHANGED fresh
  /\ UNCHANGED <<goal, late, hook, sends, spent>>

Consume(s) ==
  /\ m[s].loop = "consuming"
  /\ \/ /\ MatchesAsOwner(Loop(s), s)
        /\ Commit([Admitted(m[s].turn) EXCEPT !.repl = 0], {})
        /\ \/ StepAdmitted(s, "deliver") /\ Normal
           \/ StepAdmitted(s, "interrupt") /\ Event
     \/ ~MatchesAsOwner(Loop(s), s) /\ Step(s, "interrupt") /\ UNCHANGED <<goal, fresh, spent>>
  /\ UNCHANGED <<late, hook, sends>>

Deliver(s) ==
  /\ m[s].loop = "deliver"
  /\ \/ Step(s, "interrupt") /\ Event /\ UNCHANGED sends
     \/ /\ Swallows(s, m[s].turn) /\ Normal
        /\ Becomes(s, [m[s] EXCEPT !.loop = "turn", !.swallowed = m[s].waiting])
        /\ UNCHANGED sends
     \/ /\ ~Swallows(s, m[s].turn) /\ Normal
        /\ Becomes(s, [m[s] EXCEPT !.loop = "turn", !.host = "goal"])
        /\ CountSend(m[s].began, m[s].turn)
  /\ UNCHANGED <<goal, fresh, late, hook>>

\* The waiter was resolved, by the settled turn or by a stop.
ProgressLoad(s) ==
  /\ m[s].loop = "turn" /\ ~m[s].waiting
  /\ IF Mine(s) /\ goal.there /\ goal.run /\ ~m[s].stopReq
       THEN Load(Loop(s)) /\ Becomes(s, [m[s] EXCEPT !.loop = "progress", !.pending = 0])
       ELSE UNCHANGED fresh /\ Becomes(s, [m[s] EXCEPT !.loop = "release", !.pending = 0])
  /\ UNCHANGED <<goal, late, hook, sends, spent>>

Progress(s) ==
  /\ m[s].loop = "progress"
  /\ \/ /\ MatchesAsOwner(Loop(s), s)
        /\ Commit([goal EXCEPT !.used = Larger(@, m[s].turn), !.adm = 0, !.level = 0], {})
        /\ late' = FALSE
        /\ \/ Step(s, "top") /\ Normal
           \/ Step(s, "interrupt") /\ Event
     \/ ~MatchesAsOwner(Loop(s), s) /\ Step(s, "release") /\ UNCHANGED <<goal, fresh, late, spent>>
  /\ UNCHANGED <<hook, sends>>

InterruptLoad(s) ==
  /\ m[s].loop = "interrupt"
  /\ IF Mine(s)
       THEN Load(Loop(s)) /\ Step(s, "interrupting")
       ELSE Step(s, "release") /\ UNCHANGED fresh
  /\ UNCHANGED <<goal, late, hook, sends, spent>>

Interrupt(s) ==
  /\ m[s].loop = "interrupting"
  /\ \/ /\ MatchesAsOwner(Loop(s), s)
        /\ Commit(Stopped(goal), {})
        /\ Becomes(s, [StopLocalRun(m[s]) EXCEPT !.loop = "release"])
     \/ ~MatchesAsOwner(Loop(s), s) /\ Step(s, "release") /\ UNCHANGED <<goal, fresh>>
  /\ UNCHANGED <<late, hook, sends, spent>>

ReleaseLoad(s) ==
  /\ m[s].loop = "release"
  /\ Load(Loop(s)) /\ Step(s, "releasing")
  /\ UNCHANGED <<goal, late, hook, sends, spent>>

\* releaseGoal clears no owner but its own, and is not tried again when it conflicts.
Release(s) ==
  /\ m[s].loop = "releasing"
  /\ IF MatchesAsOwner(Loop(s), s)
       THEN Commit(Stopped(goal), {})
       ELSE UNCHANGED <<goal, fresh>>
  /\ Becomes(s, [CancelPending(m[s]) EXCEPT !.loop = "off", !.driver = 0,
                                !.waiting = FALSE, !.stopReq = FALSE, !.turn = 0, !.swallowed = FALSE])
  /\ UNCHANGED <<late, hook, sends, spent>>

(***************************************************************************)
(* Operators and tools                                                     *)
(***************************************************************************)

Called(s, r) == Becomes(s, r) /\ Event

\* What the handler refuses: the tools only work on an active goal, completion needs a hook
\* that is not being run already.
Accepts(s, o) ==
  CASE o = "steer" -> goal.run
    [] o = "stop" -> goal.run \/ goal.owner # Nobody
    [] o = "edit" -> goal.edits < MaxEdits
    [] o = "block" -> Busy(s) /\ goal.status = "active"
    [] o = "complete" -> /\ Busy(s) /\ goal.status = "active" /\ hook # 0
                         /\ ~(goal.check = "checking" /\ goal.checkHook = hook)
    [] OTHER -> TRUE

\* A handler loads the goal, then cancels the pending continuation of this process.
OpLoad(s) ==
  /\ m[s].op = "none"
  /\ \/ /\ goal.there /\ Load(Op(s))
        /\ \E o \in Operations \cap (Command \cup Tool) :
             /\ Accepts(s, o)
             /\ LET r == IF o \in {"edit", "pause", "stop", "clear"} THEN CancelPending(m[s]) ELSE m[s] IN
                  Becomes(s, [r EXCEPT !.op = o, !.stopReq = @ /\ o \notin {"pause", "clear"},
                          !.vetted = IF o = "complete"
                                     THEN [edits |-> goal.edits, hook |-> hook, owner |-> goal.owner] ELSE @])
             /\ IF o = "edit" /\ goal.check = "checking" THEN Normal ELSE Event   \* a bound
     \/ /\ ~goal.there /\ Operations \cap Command # {}      \* requireGoal throws
        /\ Becomes(s, StopLocalRun(m[s])) /\ UNCHANGED <<fresh, spent>>
  /\ UNCHANGED <<goal, late, hook, sends>>

Outcome(s, o) ==
  CASE o = "edit" -> [goal EXCEPT !.edits = @ + 1, !.check = "none"]
    [] o = "stop" -> Stopped(goal)
    [] o \in {"pause", "block", "steer_failed"} -> [Stopped(goal) EXCEPT !.status = "paused"]
    [] o = "clear" -> [Stopped(goal) EXCEPT !.there = FALSE]
    [] o = "complete" -> [goal EXCEPT !.check = "checking", !.checkHook = m[s].vetted.hook]
    [] OTHER -> goal

Continuation(o) == CASE o = "steer" -> "steer_send" [] o = "complete" -> "hook_runs" [] OTHER -> "none"

\* commitGoal throws on a conflict and after a failed projection; a command that throws ends
\* the local run, and so does a cleared or stopped goal.
OpCommit(s) ==
  LET o == m[s].op
      stops == o \in {"clear", "steer_failed"} IN
  /\ o \in Command \cup Tool \cup {"steer_failed"}
  /\ \/ /\ Matches(Op(s)) /\ Normal /\ Commit(Outcome(s, o), IF Continuation(o) = "none" THEN {} ELSE {Op(s)})
        /\ LET r == IF o = "stop" THEN [m[s] EXCEPT !.waiting = FALSE, !.stopReq = FALSE] ELSE m[s] IN
             Becomes(s, [(IF stops THEN StopLocalRun(r) ELSE RefreshUi(r, goal')) EXCEPT !.op = Continuation(o)])
     \/ /\ Matches(Op(s)) /\ o \notin Tool /\ Normal /\ Commit(Outcome(s, o), {})
        /\ Becomes(s, [StopLocalRun(m[s]) EXCEPT !.op = "none"])
     \/ /\ ~Matches(Op(s)) /\ UNCHANGED <<goal, fresh, spent>>
        /\ Becomes(s, [(IF o \in Tool THEN m[s] ELSE StopLocalRun(m[s])) EXCEPT !.op = "none"])
  /\ UNCHANGED <<late, hook, sends>>

\* The guidance wakes an idle agent; when it cannot be sent the run is paused.
SteerSend(s) ==
  /\ m[s].op = "steer_send"
  /\ \/ Becomes(s, [m[s] EXCEPT !.op = "none", !.host = IF @ = "idle" THEN "user" ELSE @]) /\ Normal
     \/ Becomes(s, [m[s] EXCEPT !.op = "steer_failed"]) /\ Normal
  /\ UNCHANGED <<goal, fresh, late, hook, sends>>

\* The hook runs outside every lock.
HookEnds(s) ==
  /\ m[s].op = "hook_runs"
  /\ \E result \in {"passed", "failed"} : Becomes(s, [m[s] EXCEPT !.op = result])
  /\ UNCHANGED <<goal, fresh, late, hook, sends, spent>>

\* Under the lock of settings.json: the hook is still the one that ran, and the goal is the
\* one the check was recorded in.
HookPassedWhatever(s) == m[s].op = "passed"   \* Mistake: the hook is not compared
HookPassed(s) == m[s].op = "passed" /\ hook = m[s].vetted.hook

SettleCheck(s) ==
  /\ m[s].op \in {"passed", "failed"}
  /\ IF Matches(Op(s))
       THEN Commit(IF HookPassed(s) THEN [Stopped(goal) EXCEPT !.status = "complete", !.check = "passed"]
                   ELSE [goal EXCEPT !.check = "failed"], {})
            /\ Becomes(s, [RefreshUi(m[s], goal') EXCEPT !.op = "none", !.vetted = Fresh.vetted])
       ELSE Becomes(s, [m[s] EXCEPT !.op = "none", !.vetted = Fresh.vetted]) /\ UNCHANGED <<goal, fresh>>
  /\ UNCHANGED <<late, hook, sends, spent>>

SaveHook ==
  /\ hook < MaxHooks /\ hook' = hook + 1
  /\ UNCHANGED <<goal, fresh, late, m, sends, spent>>

\* session_shutdown stops the watchdog, whose admission may be under way, and revokes what the
\* driver's session owns.
Closed(r) == [(IF r.dog \in {"admit", "admitting"} THEN r ELSE NoTick(r)) EXCEPT !.closed = TRUE]

Shutdown(s) ==
  /\ Local(s) /\ m[s].op = "none" /\ "shutdown" \in Operations
  /\ IF goal.there /\ Mine(s)
       THEN Load(Op(s)) /\ Called(s, [Closed(m[s]) EXCEPT !.op = "shutdown"])
       ELSE Called(s, StopLocalRun(Closed(m[s]))) /\ UNCHANGED fresh
  /\ UNCHANGED <<goal, late, hook, sends>>

ShutdownCommit(s) ==
  /\ m[s].op = "shutdown"
  /\ IF MatchesAsOwner(Op(s), s) THEN Commit(Stopped(goal), {}) ELSE UNCHANGED <<goal, fresh>>
  /\ Becomes(s, [StopLocalRun(m[s]) EXCEPT !.op = "none"])
  /\ UNCHANGED <<late, hook, sends, spent>>

(***************************************************************************)
(* The agent of a session                                                  *)
(***************************************************************************)

UserTurn(s) ==
  /\ "turn" \in Operations /\ ~Busy(s) /\ m[s].ending = "no"
  /\ Called(s, [m[s] EXCEPT !.host = "user"])
  /\ UNCHANGED <<goal, fresh, late, hook, sends>>

TurnEnds(s) ==
  /\ Busy(s) /\ m[s].ending = "no" /\ m[s].op \notin Tool \cup {"hook_runs", "passed", "failed"}
  /\ \E end \in {"ok", "error"} :
       /\ IF end = "ok" THEN Normal ELSE Event
       /\ Becomes(s, [m[s] EXCEPT !.host = "idle", !.ending = end])
  /\ UNCHANGED <<goal, fresh, late, hook, sends>>

\* Mistake: the end of a turn is ignored by a driver that lost the goal
SettleOwned(s) ==
  /\ m[s].ending \in {"ok", "error"}
  /\ IF Local(s) /\ goal.there /\ Mine(s) /\ m[s].ending = "error"
       THEN Load(End(s)) /\ Becomes(s, [m[s] EXCEPT !.ending = "pausing"])
       ELSE /\ UNCHANGED fresh
            /\ Becomes(s, [m[s] EXCEPT !.ending = "no",
                             !.waiting = @ /\ ~(Local(s) /\ goal.there /\ Mine(s))])
  /\ UNCHANGED <<goal, late, hook, sends, spent>>

\* agent_settled: an orphaned driver is stopped, a failed turn pauses the goal, and any other
\* turn, whoever asked for it, resolves the waiter of the loop.
Settle(s) ==
  /\ m[s].ending \in {"ok", "error"}
  /\ IF Local(s) /\ goal.there /\ Mine(s) /\ m[s].ending = "error"
       THEN Load(End(s)) /\ Becomes(s, [m[s] EXCEPT !.ending = "pausing"])
       ELSE /\ UNCHANGED fresh
            /\ Becomes(s, [(IF ~Local(s) THEN m[s]
                   ELSE IF goal.there /\ Mine(s) THEN [m[s] EXCEPT !.waiting = FALSE] ELSE StopLocalRun(m[s]))
                  EXCEPT !.ending = "no"])
  /\ UNCHANGED <<goal, late, hook, sends, spent>>

SettleError(s) ==
  /\ m[s].ending = "pausing"
  /\ IF MatchesAsOwner(End(s), s)
       THEN Commit([Stopped(goal) EXCEPT !.status = "paused"], {})
       ELSE UNCHANGED <<goal, fresh>>
  /\ Becomes(s, [StopLocalRun(m[s]) EXCEPT !.ending = "no"])
  /\ UNCHANGED <<late, hook, sends, spent>>

(***************************************************************************)
(* The watchdog                                                            *)
(***************************************************************************)

Late ==
  /\ "late" \in Operations /\ ~late /\ Active /\ late' = TRUE
  /\ Event /\ UNCHANGED <<goal, fresh, hook, m, sends>>

StepDog(s, pc) == Becomes(s, [m[s] EXCEPT !.dog = pc])
TickEnds(s) == Becomes(s, NoTick(m[s]))

\* A tick warns once per progress, nudges an idle run once, and warns a last time.
DogLoad(s) ==
  /\ m[s].dog = "off" /\ late /\ Local(s) /\ Mine(s) /\ goal.there /\ goal.run
  /\ goal.level = 0 \/ (goal.level < 3 /\ ~Busy(s) /\ ~Queued(s))
  /\ Load(Dog(s))
  /\ StepDog(s, CASE goal.level = 0 -> "warn" [] goal.level = 1 -> "nudge" [] OTHER -> "hard")
  /\ UNCHANGED <<goal, late, hook, sends, spent>>

Quiet(s) == ~Busy(s) /\ ~Queued(s)

\* Only the mark of a nudge goes on to its admission, under the driver of that moment.
DogMark(s) ==
  LET step == m[s].dog
      marked == [goal EXCEPT !.level = CASE step = "warn" -> 1 [] step = "nudge" -> 2 [] OTHER -> 3] IN
  /\ step \in {"warn", "nudge", "hard"}
  /\ IF Local(s) /\ MatchesAsOwner(Dog(s), s)
       THEN /\ Commit(marked, IF step = "warn" THEN {Dog(s)} ELSE {})
            /\ \/ step = "warn" /\ Quiet(s) /\ StepDog(s, "nudge")
               \/ /\ step = "nudge" /\ Quiet(s)
                  /\ Becomes(s, [m[s] EXCEPT !.dog = "admit", !.nudge = goal.used + 1, !.as = m[s].driver])
               \/ (step = "hard" \/ ~Quiet(s)) /\ TickEnds(s)
       ELSE TickEnds(s) /\ UNCHANGED <<goal, fresh>>
  /\ UNCHANGED <<late, hook, sends, spent>>

\* The nudge is admitted like a turn, but against no budget.
DogAdmitLoad(s) ==
  /\ m[s].dog = "admit" /\ m[s].nudge <= MaxTurns
  /\ IF Admissible(m[s].nudge)
       THEN Load(Dog(s)) /\ StepDog(s, "admitting")
       ELSE TickEnds(s) /\ UNCHANGED fresh
  /\ UNCHANGED <<goal, late, hook, sends, spent>>

DogAdmit(s) ==
  /\ m[s].dog = "admitting"
  /\ IF Matches(Dog(s)) /\ goal.owner = [by |-> s, gen |-> m[s].as]
       THEN /\ Commit(Admitted(m[s].nudge), {Dog(s)})
            /\ IF m[s].closed THEN TickEnds(s)
               ELSE \E next \in {"send", "contain"} :
                      Becomes(s, [m[s] EXCEPT !.dog = next, !.nudged = goal.start])
       ELSE TickEnds(s) /\ UNCHANGED <<goal, fresh>>
  /\ UNCHANGED <<late, hook, sends, spent>>

\* Whether the session still drives the goal is not looked at again.
DogSend(s) ==
  /\ m[s].dog = "send"
  /\ \/ ~Quiet(s) /\ TickEnds(s) /\ UNCHANGED sends
     \/ /\ Quiet(s) /\ UNCHANGED sends
        /\ Becomes(s, [m[s] EXCEPT !.dog = "contain", !.pending = m[s].nudge])
     \/ /\ Quiet(s)
        /\ LET swallowed == m[s].nudge \in m[s].cancelled IN
             /\ Becomes(s, [NoTick(m[s]) EXCEPT !.pending = m[s].nudge,
                                         !.host = IF swallowed THEN @ ELSE "goal"])
             /\ IF swallowed THEN UNCHANGED sends ELSE CountSend(m[s].nudged, m[s].nudge)
  /\ UNCHANGED <<goal, fresh, late, hook, spent>>

DogContain(s) ==
  /\ m[s].dog = "contain"
  /\ IF Local(s) /\ MatchesAsOwner(Dog(s), s)
       THEN /\ Commit(Stopped(goal), {})
            /\ Becomes(s, NoTick(StopLocalRun(m[s])))
       ELSE TickEnds(s) /\ UNCHANGED <<goal, fresh>>
  /\ UNCHANGED <<late, hook, sends, spent>>

\* The process dies: the file keeps its owner until an operator stops the goal.
Crash(s) ==
  /\ "crash" \in Operations /\ m[s] # Fresh
  /\ Called(s, Fresh)
  /\ fresh' = fresh \ {Loop(s), Op(s), Dog(s), End(s)}
  /\ UNCHANGED <<goal, late, hook, sends>>

LoopStep(s) ==
  \/ StartLoad(s) \/ StartCommit(s) \/ ClaimLoad(s) \/ Claim(s) \/ LoopTop(s)
  \/ AdmitLoad(s) \/ Admit(s) \/ Dispatch(s) \/ ReserveLoad(s) \/ Reserve(s) \/ HandOff(s)
  \/ ConsumeLoad(s) \/ Consume(s) \/ Deliver(s) \/ ProgressLoad(s) \/ Progress(s)
  \/ InterruptLoad(s) \/ Interrupt(s) \/ ReleaseLoad(s) \/ Release(s)
Starts(s) == StartAllowed(s, "allowed") \/ StartAllowed(s, "resuming")
OpStep(s) == OpCommit(s) \/ SteerSend(s) \/ HookEnds(s) \/ SettleCheck(s) \/ ShutdownCommit(s)
AgentStep(s) == TurnEnds(s) \/ Settle(s) \/ SettleError(s)
DogStep(s) ==
  DogLoad(s) \/ DogMark(s) \/ DogAdmitLoad(s) \/ DogAdmit(s) \/ DogSend(s) \/ DogContain(s)

Next ==
  \/ \E s \in Session :
       \/ LoopStep(s) \/ OpStep(s) \/ AgentStep(s) \/ DogStep(s)
       \/ Starts(s) \/ OpLoad(s) \/ Shutdown(s) \/ UserTurn(s) \/ Crash(s)
  \/ SaveHook \/ Late

\* A process goes on while a promise of its loop or of a handler can settle or its agent has a
\* turn to end; nobody has to call anything, and the watchdog need not tick.
Fairness == \A s \in Session : WF_vars(LoopStep(s) \/ OpStep(s) \/ AgentStep(s))
Spec == Init /\ [][Next]_vars /\ Fairness

(***************************************************************************)
(* Properties                                                              *)
(***************************************************************************)

\* The prompt of an attempt is handed to an agent at most once: whatever is stopped, resumed,
\* nudged, steered or crashed between its admission and its send, it is never admitted again.
SentOnce == \A a \in DOMAIN sends : sends[a] <= 1

\* A goal completes only on a hook run of the objective, the hook and the driver it still has:
\* an edit, a new hook or another owner in the meantime makes the result count for nothing.
CompletionIsCurrent ==
  [][goal.status # "complete" /\ goal'.status = "complete" =>
       \E s \in Session : /\ m[s].op = "passed"
                          /\ m[s].vetted = [edits |-> goal.edits, hook |-> hook, owner |-> goal.owner]]_vars

\* An owner is only ever replaced by nobody, and a new owner has a generation that no
\* process, however stale, still drives under.
GenerationsAreNew ==
  [][goal'.owner # goal.owner /\ goal'.owner # Nobody =>
       goal.owner = Nobody /\ \A s \in Session : m[s].driver < goal'.owner.gen]_vars

\* The loop waits for the end of a turn that its swallowed prompt never started.
Stuck(s) == m[s].swallowed /\ m[s].waiting

\* A driver that lost the goal (stopped, paused, cleared, completed, in whatever process) ends
\* its loop, unless its prompt was swallowed and nothing will ever end the turn it waits for.
LostDriverEnds ==
  \A s \in Session : (m[s].driver # 0 /\ ~Mine(s)) ~> (m[s].driver = 0 \/ Stuck(s))

\* A run goes on until it completes or is stopped: while no operation is under way, the prompt
\* of a goal that still runs under this driver has not been swallowed.
RunsContinue ==
  (\A s \in Session : m[s].op = "none") => \A s \in Session : ~(Stuck(s) /\ Mine(s) /\ Active)
=============================================================================
