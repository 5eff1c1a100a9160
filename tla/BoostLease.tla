------------------------------ MODULE BoostLease ------------------------------
(***************************************************************************)
(* The boost lease of a Pi session: /boost switches the model, sends one   *)
(* prompt and restores the model when the agent has settled.  A handler    *)
(* runs to its next await; at every await any other handler may start or   *)
(* go on, and pi.setModel takes effect some time before it returns.        *)
(***************************************************************************)
EXTENDS Integers, FiniteSets

CONSTANTS Command,      \* the invocations of /boost <prompt>
          MaxYields,    \* boost.maxYields
          Ttl,          \* the lease duration
          MaxTime,      \* bound: the clock
          MaxFailures,  \* bound: calls of the host that fail
          MaxResets,    \* bound: invocations of /boost reset
          MaxEnds,      \* bound: sessions that end
          MaxRuns       \* bound: agent runs the user starts

Restorer == {"settle", "reset", "shutdown"}
Unset == "none"
Model == {"base", "boost"}

\* What the bounds have to be.
BoostAssumption ==
  /\ Command \cap Restorer = {}
  /\ MaxYields \in Nat \ {0} /\ Ttl \in Nat \ {0} /\ MaxTime \in Nat
  /\ MaxFailures \in Nat /\ MaxResets \in Nat /\ MaxEnds \in Nat /\ MaxRuns \in Nat

VARIABLES
  lease,     \* yieldsUsed, originalModel, revertFailed, startedAtMs
  model,     \* the session's model
  now,       \* Date.now()
  pc,        \* where each handler is
  saved,     \* previousStartedAtMs of each command
  asked,     \* the model each handler's call of pi.setModel asks for
  agent,     \* is an agent run going on?
  queue,     \* boosted prompts that wait behind it
  ranOn,     \* the model each boosted prompt ran on
  accepted,  \* boosted prompts accepted since the lease was reset or renewed
  crossed,   \* was a command past its checks at once with another handler?
  used       \* how many of each bounded event happened

host     == <<agent, queue, ranOn>>
handlers == <<pc, saved, asked>>
vars     == <<lease, model, now, handlers, host, accepted, crossed, used>>

Handler == Command \cup Restorer
\* Past its checks of the lease, up to its last write of it.
Busy  == {"count", "pick", "switch", "switched", "refused", "dispatch", "revert", "reverted", "failed"}
Steps == {"idle", "begin", "check", "done"} \cup Busy

TypeOK ==
  /\ lease \in [yieldsUsed : Nat, original : Model \cup {Unset}, revertFailed : BOOLEAN,
                startedAt : 0 .. MaxTime \cup {-1}]
  /\ model \in Model /\ now \in 0 .. MaxTime
  /\ pc \in [Handler -> Steps]
  /\ saved \in [Command -> 0 .. MaxTime \cup {-1}]
  /\ asked \in [Handler -> Model \cup {Unset}]
  /\ agent \in {"idle", "running"} /\ queue \subseteq Command
  /\ ranOn \in [Command -> Model \cup {Unset}]
  /\ accepted \in Nat /\ crossed \in BOOLEAN
  /\ used \in [failures : 0 .. MaxFailures, resets : 0 .. MaxResets, ends : 0 .. MaxEnds,
               runs : 0 .. MaxRuns]

Init ==
  /\ lease = [yieldsUsed |-> 0, original |-> Unset, revertFailed |-> FALSE, startedAt |-> -1]
  /\ model = "base" /\ now = 0
  /\ pc = [h \in Handler |-> "idle"]
  /\ saved = [c \in Command |-> -1]
  /\ asked = [h \in Handler |-> Unset]
  /\ agent = "idle" /\ queue = {} /\ ranOn = [c \in Command |-> Unset]
  /\ accepted = 0 /\ crossed = FALSE
  /\ used = [failures |-> 0, resets |-> 0, ends |-> 0, runs |-> 0]

Goto(h, from, to) == pc[h] = from /\ pc' = [pc EXCEPT ![h] = to]
AtRest == \A h \in Handler : pc[h] \in {"idle", "done"}
\* h goes past its checks, perhaps while another is past its own, and one of them is a command.
Cross(h) ==
  crossed' = (crossed \/ \E g \in Handler \ {h} : pc[g] \in Busy /\ {g, h} \cap Command # {})
Fail == used.failures < MaxFailures /\ used' = [used EXCEPT !.failures = @ + 1]

(***************************************************************************)
(* /boost <prompt>                                                         *)
(***************************************************************************)

Begin(c) ==
  /\ Goto(c, "idle", "begin")
  /\ UNCHANGED <<lease, model, now, saved, asked, host, accepted, crossed, used>>

\* leaseExpired, unless a boosted turn is in flight or a restore failed.
Expired ==
  /\ ~lease.revertFailed /\ lease.original = Unset
  /\ lease.yieldsUsed > 0 /\ lease.startedAt # -1 /\ now - lease.startedAt >= Ttl

Renew(c) ==
  /\ Goto(c, "begin", "check")
  /\ \/ /\ Expired
        /\ lease' = [lease EXCEPT !.yieldsUsed = 0, !.startedAt = -1] /\ accepted' = 0
     \/ ~Expired /\ UNCHANGED <<lease, accepted>>
  /\ UNCHANGED <<model, now, saved, asked, host, crossed, used>>

\* A boost is denied while a restore is owed, or without a prompt.
Check(c) ==
  /\ \/ Goto(c, "check", "done") /\ UNCHANGED crossed
     \/ lease.original = Unset /\ ~lease.revertFailed /\ Goto(c, "check", "count") /\ Cross(c)
  /\ UNCHANGED <<lease, model, now, saved, asked, host, accepted, used>>

Count(c) ==
  /\ \/ lease.yieldsUsed >= MaxYields /\ Goto(c, "count", "done")
     \/ lease.yieldsUsed < MaxYields /\ Goto(c, "count", "pick")
  /\ UNCHANGED <<lease, model, now, saved, asked, host, accepted, crossed, used>>

\* The baseline is recorded and setModel called, for the model that is configured or for the first
\* that is not the session's, unless there is none.
Pick(c) ==
  /\ \/ Goto(c, "pick", "done") /\ UNCHANGED <<lease, asked>>
     \/ /\ Goto(c, "pick", "switch") /\ lease' = [lease EXCEPT !.original = model]
        /\ \E m \in {"boost"} \cup (Model \ {model}) : asked' = [asked EXCEPT ![c] = m]
  /\ UNCHANGED <<model, now, saved, host, accepted, crossed, used>>

\* A yield is used and the lease starts anew.
Switched(c) ==
  /\ Goto(c, "switched", "dispatch")
  /\ saved' = [saved EXCEPT ![c] = lease.startedAt]
  /\ lease' = [lease EXCEPT !.startedAt = now, !.yieldsUsed = @ + 1]
  /\ UNCHANGED <<model, now, asked, host, accepted, crossed, used>>

Refused(c) ==
  /\ Goto(c, "refused", "done") /\ lease' = [lease EXCEPT !.original = Unset]
  /\ UNCHANGED <<model, now, saved, asked, host, accepted, crossed, used>>

\* sendUserMessage: the prompt starts a run, or waits behind the run that goes on.
Deliver(c) ==
  \/ /\ agent = "idle" /\ agent' = "running" /\ ranOn' = [ranOn EXCEPT ![c] = model]
     /\ UNCHANGED queue
  \/ /\ agent = "running" /\ queue' = queue \cup {c} /\ UNCHANGED <<agent, ranOn>>

Dispatch(c) ==
  \/ /\ Goto(c, "dispatch", "done") /\ Deliver(c) /\ accepted' = accepted + 1
     /\ UNCHANGED <<lease, model, now, saved, asked, crossed, used>>
  \/ /\ Goto(c, "dispatch", "revert") /\ Fail
     /\ lease' = [lease EXCEPT !.yieldsUsed = IF @ = 0 THEN 0 ELSE @ - 1,
                               !.startedAt = saved[c]]
     /\ asked' = [asked EXCEPT ![c] = lease.original]
     /\ UNCHANGED <<model, now, saved, host, accepted, crossed>>

(***************************************************************************)
(* Restoring                                                               *)
(***************************************************************************)

StartRestore(h) ==
  /\ Goto(h, "idle", "revert") /\ asked' = [asked EXCEPT ![h] = lease.original] /\ Cross(h)

\* Where restoreBaseline and the catch around it end.
End(h) == IF h \in Restorer THEN "idle" ELSE "done"

Reverted(h) ==
  /\ Goto(h, "reverted", End(h))
  /\ lease' = [lease EXCEPT !.original = Unset, !.revertFailed = FALSE]
  /\ UNCHANGED <<model, now, saved, asked, host, accepted, crossed, used>>

RevertFailed(h) ==
  /\ Goto(h, "failed", End(h))
  /\ lease' = [lease EXCEPT !.revertFailed = h # "reset" \/ @]
  /\ UNCHANGED <<model, now, saved, asked, host, accepted, crossed, used>>

\* Mistake: the baseline is restored when a run ends, although follow-ups wait.
AgentEnded ==
  /\ pc["settle"] = "idle"
  /\ agent = "running" /\ agent' = IF queue = {} THEN "idle" ELSE "running"
  /\ \/ lease.original # Unset /\ StartRestore("settle")
     \/ lease.original = Unset /\ UNCHANGED <<pc, asked, crossed>>
  /\ UNCHANGED <<lease, model, now, saved, queue, ranOn, accepted, used>>

\* Mistake: a run that settles restores nothing.
AgentSettledUnheard ==
  /\ pc["settle"] = "idle"
  /\ agent = "running" /\ queue = {} /\ agent' = "idle"
  /\ UNCHANGED <<lease, model, now, handlers, queue, ranOn, accepted, crossed, used>>

AgentSettled ==
  /\ pc["settle"] = "idle"
  /\ agent = "running" /\ queue = {} /\ agent' = "idle"
  /\ \/ lease.original # Unset /\ StartRestore("settle")
     \/ lease.original = Unset /\ UNCHANGED <<pc, asked, crossed>>
  /\ UNCHANGED <<lease, model, now, saved, queue, ranOn, accepted, used>>

Reset ==
  /\ pc["reset"] = "idle"
  /\ used.resets < MaxResets /\ used' = [used EXCEPT !.resets = @ + 1]
  /\ lease' = [lease EXCEPT !.yieldsUsed = 0, !.startedAt = -1] /\ accepted' = 0
  /\ \/ lease.revertFailed /\ lease.original # Unset /\ StartRestore("reset")
     \/ ~(lease.revertFailed /\ lease.original # Unset) /\ Cross("reset") /\ UNCHANGED <<pc, asked>>
  /\ UNCHANGED <<model, now, saved, host>>

\* The session ends: its run and queue are gone, the lease and the model go on.
Shutdown ==
  /\ pc["shutdown"] = "idle"
  /\ used.ends < MaxEnds /\ used' = [used EXCEPT !.ends = @ + 1]
  /\ agent' = "idle" /\ queue' = {}
  /\ \/ lease.original # Unset /\ StartRestore("shutdown")
     \/ lease.original = Unset /\ UNCHANGED <<pc, asked, crossed>>
  /\ UNCHANGED <<lease, model, now, saved, ranOn, accepted>>

(***************************************************************************)
(* The host                                                                *)
(***************************************************************************)

\* pi.setModel switches, refuses, or throws, out of the handler unless that restores.  Without a model
\* it fails.
SetModel(h) ==
  /\ \/ /\ asked[h] # Unset /\ model' = asked[h] /\ UNCHANGED used
        /\ Goto(h, "switch", "switched") \/ Goto(h, "revert", "reverted")
     \/ /\ Goto(h, "switch", "refused") \/ Goto(h, "switch", "done") \/ Goto(h, "revert", "failed")
        /\ Fail \/ (asked[h] = Unset /\ UNCHANGED used)
        /\ UNCHANGED model
  /\ UNCHANGED <<lease, now, saved, asked, host, accepted, crossed>>

UserRun ==
  /\ agent = "idle" /\ agent' = "running"
  /\ used.runs < MaxRuns /\ used' = [used EXCEPT !.runs = @ + 1]
  /\ UNCHANGED <<lease, model, now, handlers, queue, ranOn, accepted, crossed>>

FollowUp(c) ==
  /\ c \in queue /\ queue' = queue \ {c}
  /\ ranOn' = [ranOn EXCEPT ![c] = model]
  /\ UNCHANGED <<lease, model, now, handlers, agent, accepted, crossed, used>>

Tick ==
  /\ now < MaxTime /\ now' = now + 1
  /\ UNCHANGED <<lease, model, handlers, host, accepted, crossed, used>>

\* A handler goes on after an await.
Step(h) ==
  \/ h \in Command /\ (Renew(h) \/ Check(h) \/ Count(h) \/ Pick(h) \/ Switched(h) \/ Refused(h) \/ Dispatch(h))
  \/ SetModel(h) \/ Reverted(h) \/ RevertFailed(h)

Next ==
  \/ \E c \in Command : Begin(c) \/ FollowUp(c)
  \/ \E h \in Handler : Step(h)
  \/ AgentSettled \/ Reset \/ Shutdown \/ UserRun \/ Tick

\* Awaits return, queued prompts are taken up and runs settle.
Fairness ==
  /\ \A c \in Command : WF_vars(FollowUp(c))
  /\ \A h \in Handler : WF_vars(Step(h))
  /\ WF_vars(AgentSettled)

Spec == Init /\ [][Next]_vars /\ Fairness

(***************************************************************************)
(* Properties                                                              *)
(***************************************************************************)

\* The session gets its model back when the run settles ("restores your previous model when the run
\* settles", README.md:7): with nothing under way and no boost on record it is on its own model.
ComesBack == AtRest /\ agent = "idle" /\ lease.original = Unset => model = "base"

\* A boosted prompt runs on the boost model, also when it waited behind another run ("never in the
\* middle of retries or queued follow-ups", README.md:35), unless a command and another handler were
\* past their checks at once: everything else may come in any order between the awaits.
RunsBoosted == crossed \/ \A c \in Command : ranOn[c] # "base"

\* Nor is a session on the boost model without the model to go back to, but for the same reason.
NeverStranded == crossed \/ (AtRest /\ lease.original = Unset => model = "base")

\* A lease accepts at most MaxYields prompts ("hard-capped at 3 per lease", README.md:41), and at rest
\* it has used a yield for each of them: what was denied or failed to dispatch is free ("Failed
\* dispatch consumes no yield", index.ts:237); but for the same reason.
YieldsAreAccepted == crossed \/ (accepted <= MaxYields /\ (AtRest => lease.yieldsUsed = accepted))

\* The user gets the model back: a boost ends with its baseline restored, or blocked, or a command
\* crossed another handler.
EventuallyRestored == model = "boost" ~> model = "base" \/ lease.revertFailed \/ crossed
===============================================================================
