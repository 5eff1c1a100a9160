---------------------------- MODULE ScheduledRun ----------------------------
(***************************************************************************)
(* One schedule (one taskId) of pi-automations, run by the schedulers of   *)
(* several pi sessions that share an automations home.  A due minute is a  *)
(* slot.  A session claims a slot on disk, takes its run through the       *)
(* delivery guard, the quota and the approval gate, admits it, and sends   *)
(* the prompt to the host; a gated run is parked, decided by a principal   *)
(* from a tool or from the Agent Hub, and resumed.  A claim creates the    *)
(* slot's only run, so a slot names its run, its approval request and its  *)
(* token.                                                                  *)
(*                                                                         *)
(* Files (slot records, approval artifacts, the run state, the history)    *)
(* survive a crash; everything else is a session's memory.  An await of    *)
(* the code is a boundary between two actions.                             *)
(***************************************************************************)
EXTENDS Integers, Sequences, FiniteSets

CONSTANTS Session,       \* pi processes with a scheduler on this automations home
          Target,        \* the sessions shouldDeliver accepts
          MaxSlot,       \* bound: number of due minutes
          Gating,        \* may a prompt require approval: {TRUE}, {FALSE} or both
          Continuation,  \* schedule.continuation
          RunBudget,     \* schedule.runBudget, 0 when unset
          Lookback,      \* schedule.lookback
          MaxHistory,    \* MAX_HISTORY_ENTRIES
          HubResume      \* does the Agent Hub resume the runs it approves?

ASSUME RunAssumption ==
  /\ Session # {} /\ Target \subseteq Session
  /\ MaxSlot \in Nat /\ RunBudget \in Nat
  /\ Lookback \in Nat \ {0} /\ MaxHistory \in Nat \ {0}
  /\ Gating \subseteq BOOLEAN
  /\ Continuation \in BOOLEAN /\ HubResume \in BOOLEAN

Slot == 1 .. MaxSlot
NoRun == 0

VARIABLES
  slot,      \* status of each slot record; "none" when the file does not exist
  approval,  \* status of each approval artifact
  runState,  \* the task's one run-state file
  history,   \* outcomes loadRunHistory accepts, oldest first
  up,        \* "running" accepts work, "stopping" drains it, "down" has no config
  drain,     \* slots whose runs a stopping session waits for
  pc,        \* where the run of each slot is in claimAndExecute / runOncePerMinute
  at,        \* the session that executes it
  rpc,       \* where each session is with a decision or a resume of each run
  ending,    \* handleAgentEnd between its two writes, with the outcome it recorded
  active,    \* activeScheduledRuns of each session
  recovery,  \* recoverInterruptedRuns: -1 not started, 0 none, k found run k running
  sent       \* how often the prompt of each run was handed to the host

files   == <<slot, approval, runState, history>>
memory  == <<up, drain, pc, at, rpc, ending, active, recovery>>
vars    == <<files, memory, sent>>

SlotStatus == {"none", "reserved", "approval_pending", "admitted", "host_called",
               "host_call_returned", "uncertain"}
ApprovalStatus == {"none", "awaiting-approval", "approved", "rejected", "deferred", "completed"}
RunStatus == {"none", "running", "awaiting-approval", "complete", "interrupted", "failed"}
Outcome == {"queued", "dropped", "awaiting-approval", "interrupted"}

RunSteps == {"idle", "checked", "claimed", "quota", "park", "park_state", "park_history",
             "park_slot", "start", "dispatch", "admit", "send", "record", "called",
             "returned", "ambiguous", "uncertain"}
ResumeSteps == {"approved", "loaded", "slot_ok", "called", "saved", "returning", "unsure",
                "interrupt"}
HubSteps == {"hub_approved", "hub_loaded", "hub_saved", "hub_interrupt"}
DecisionSteps == {"idle", "closing", "close_save"}

FilesTyped ==
  /\ slot \in [Slot -> SlotStatus]
  /\ approval \in [Slot -> ApprovalStatus]
  /\ runState \in [status : RunStatus, run : Slot \cup {NoRun}]
  /\ history \in Seq(Outcome)

RunsTyped ==
  /\ pc \in [Slot -> RunSteps]
  /\ at \in [Slot -> Session]
  /\ rpc \in [Session -> [Slot -> ResumeSteps \cup HubSteps \cup DecisionSteps]]
  /\ sent \in [Slot -> Nat]

SessionsTyped ==
  /\ up \in [Session -> {"running", "stopping", "down"}]
  /\ drain \in [Session -> SUBSET Slot]
  /\ ending \in [Session -> [Slot -> {"no", "complete", "interrupted"}]]
  /\ active \in [Session -> SUBSET Slot]
  /\ recovery \in [Session -> -1 .. MaxSlot]

\* The files the sessions share and the memory of each have the shape the code gives them:
\* in particular every outcome in the history is one that isScheduleRunOutcome accepts.
TypeOK == FilesTyped /\ RunsTyped /\ SessionsTyped

Init ==
  /\ slot = [k \in Slot |-> "none"]
  /\ approval = [k \in Slot |-> "none"]
  /\ runState = [status |-> "none", run |-> NoRun]
  /\ history = <<>>
  /\ up = [s \in Session |-> "running"]
  /\ drain = [s \in Session |-> {}]
  /\ pc = [k \in Slot |-> "idle"]
  /\ at = [k \in Slot |-> CHOOSE s \in Session : TRUE]
  /\ rpc = [s \in Session |-> [k \in Slot |-> "idle"]]
  /\ ending = [s \in Session |-> [k \in Slot |-> "no"]]
  /\ active = [s \in Session |-> {}]
  /\ recovery = [s \in Session |-> NoRun]
  /\ sent = [k \in Slot |-> 0]

(***************************************************************************)
(* Helpers                                                                 *)
(***************************************************************************)

Goto(k, from, to) == pc[k] = from /\ pc' = [pc EXCEPT ![k] = to]

\* transition(): compare-and-set of a slot record under its lock.  It does nothing when
\* the record has another status, or when the session has no configuration.
Cas(k, s, expected, status) ==
  slot' = IF up[s] # "down" /\ slot[k] \in expected
            THEN [slot EXCEPT ![k] = status] ELSE slot

CasSucceeds(k, s, expected) == up[s] # "down" /\ slot[k] \in expected

SaveRunState(status, k) == runState' = [status |-> status, run |-> k]

\* The prompt of the run is handed to the host; a call that throws may have done so.
HandOver(k)    == sent' = [sent EXCEPT ![k] = @ + 1]
MayHandOver(k) == HandOver(k) \/ UNCHANGED sent

\* appendRunHistory keeps the newest MaxHistory entries.
Newest(h, n) == IF Len(h) <= n THEN h ELSE SubSeq(h, Len(h) - n + 1, Len(h))
RecordOutcome(o) == history' = Append(Newest(history, MaxHistory - 1), o)

\* A quota refusal is recorded under a name isScheduleRunOutcome rejects
\* ("budget_exhausted", "pending_approval", ...): it takes a place in the file, and
\* no reader ever sees it.
RecordRefusal == history' = Newest(history, MaxHistory - 1)

(***************************************************************************)
(* A scheduled run                                                         *)
(***************************************************************************)

HasNewerDelivered(k) == \E j \in Slot : j > k /\ slot[j] = "host_call_returned"

\* Mistake: an abandoned slot is taken again.
ClaimCheckTakesOver(s, k) ==
  /\ up[s] # "down"
  /\ slot[k] \in {"none", "reserved", "admitted"} /\ ~HasNewerDelivered(k)
  /\ Goto(k, "idle", "checked")
  /\ at' = [at EXCEPT ![k] = s]
  /\ UNCHANGED <<files, up, drain, rpc, ending, active, recovery, sent>>

\* claimScheduleSlot holds the slot's lock from the look at newer slots to the write.
ClaimCheck(s, k) ==
  /\ up[s] # "down"
  /\ slot[k] = "none" /\ ~HasNewerDelivered(k)
  /\ Goto(k, "idle", "checked")
  /\ at' = [at EXCEPT ![k] = s]
  /\ UNCHANGED <<files, up, drain, rpc, ending, active, recovery, sent>>

ClaimWrite(k) ==
  /\ Goto(k, "checked", "claimed")
  /\ slot' = [slot EXCEPT ![k] = "reserved"]
  /\ UNCHANGED <<approval, runState, history, up, drain, at, rpc, ending, active, recovery, sent>>

\* shouldDeliver: target agent, scope and workspace of the session match the schedule.
Delivers(s) == s \in Target

\* execute: without a configuration nothing is dispatched, and the marks that follow
\* fail as well; a session that is no target drops the run it claimed.
DeliveryGuard(k) ==
  /\ \/ up[at[k]] = "down" /\ Goto(k, "claimed", "idle") /\ UNCHANGED history
     \/ /\ up[at[k]] # "down" /\ ~Delivers(at[k])
        /\ Goto(k, "claimed", "idle") /\ RecordOutcome("dropped")
     \/ /\ up[at[k]] # "down" /\ Delivers(at[k])
        /\ Goto(k, "claimed", "quota") /\ UNCHANGED history
  /\ UNCHANGED <<slot, approval, runState, up, drain, at, rpc, ending, active, recovery, sent>>

BudgetExhausted ==
  RunBudget > 0 /\ Cardinality({i \in DOMAIN history : history[i] = "queued"}) >= RunBudget

ApprovalPending == \E j \in Slot : approval[j] \in {"awaiting-approval", "deferred"}

Diminishing ==
  \E o \in {"awaiting-approval", "interrupted"} :
    /\ Len(history) >= Lookback
    /\ \A i \in 1 .. Lookback : history[Len(history) + 1 - i] = o

ShouldRun == ~BudgetExhausted /\ ~ApprovalPending /\ ~Diminishing

Quota(k) ==
  /\ \/ ~ShouldRun /\ Goto(k, "quota", "idle") /\ RecordRefusal
     \/ ShouldRun /\ TRUE \in Gating /\ Goto(k, "quota", "park") /\ UNCHANGED history
     \/ ShouldRun /\ FALSE \in Gating /\ Goto(k, "quota", "start") /\ UNCHANGED history
  /\ UNCHANGED <<slot, approval, runState, up, drain, at, rpc, ending, active, recovery, sent>>

\* openApprovalGate: a fresh request id has no artifact, so the run is parked.
ParkArtifact(k) ==
  /\ Goto(k, "park", "park_state")
  /\ approval' = [approval EXCEPT ![k] = "awaiting-approval"]
  /\ UNCHANGED <<slot, runState, history, up, drain, at, rpc, ending, active, recovery, sent>>

ParkRunState(k) ==
  /\ Goto(k, "park_state", "park_history")
  /\ SaveRunState("awaiting-approval", k)
  /\ UNCHANGED <<slot, approval, history, up, drain, at, rpc, ending, active, recovery, sent>>

ParkHistory(k) ==
  /\ Goto(k, "park_history", "park_slot")
  /\ RecordOutcome("awaiting-approval")
  /\ UNCHANGED <<slot, approval, runState, up, drain, at, rpc, ending, active, recovery, sent>>

ParkSlot(k) ==
  /\ Goto(k, "park_slot", "idle")
  /\ Cas(k, at[k], {"reserved"}, "approval_pending")
  /\ UNCHANGED <<approval, runState, history, up, drain, at, rpc, ending, active, recovery, sent>>

StartRun(k) ==
  /\ Goto(k, "start", "dispatch")
  /\ IF Continuation
       THEN /\ SaveRunState("running", k)
            /\ active' = [active EXCEPT ![at[k]] = @ \cup {k}]
       ELSE UNCHANGED <<runState, active>>
  /\ UNCHANGED <<slot, approval, history, up, drain, at, rpc, ending, recovery, sent>>

\* canDispatch: a stopping scheduler pauses, and leaves the slot reserved.
CanDispatch(k) ==
  /\ \/ up[at[k]] = "running" /\ Goto(k, "dispatch", "admit")
     \/ up[at[k]] # "running" /\ Goto(k, "dispatch", "idle")
  /\ UNCHANGED <<files, up, drain, at, rpc, ending, active, recovery, sent>>

Admit(k) ==
  /\ \/ CasSucceeds(k, at[k], {"reserved"}) /\ Goto(k, "admit", "send")
     \/ ~CasSucceeds(k, at[k], {"reserved"}) /\ Goto(k, "admit", "idle")
  /\ Cas(k, at[k], {"reserved"}, "admitted")
  /\ UNCHANGED <<approval, runState, history, up, drain, at, rpc, ending, active, recovery, sent>>

\* sendUserMessage returns, or throws with the prompt handed over or not.
Send(k) ==
  /\ \/ Goto(k, "send", "record") /\ HandOver(k)
     \/ Goto(k, "send", "ambiguous") /\ MayHandOver(k)
  /\ UNCHANGED <<files, up, drain, at, rpc, ending, active, recovery>>

RecordAmbiguous(k) ==
  /\ Goto(k, "ambiguous", "uncertain")
  /\ RecordOutcome("interrupted")
  /\ UNCHANGED <<slot, approval, runState, up, drain, at, rpc, ending, active, recovery, sent>>

RecordQueued(k) ==
  /\ Goto(k, "record", "called")
  /\ RecordOutcome("queued")
  /\ UNCHANGED <<slot, approval, runState, up, drain, at, rpc, ending, active, recovery, sent>>

\* The three marks of claimAndExecute.
Mark(k) ==
  /\ \/ Goto(k, "called", "returned") /\ Cas(k, at[k], {"admitted"}, "host_called")
     \/ Goto(k, "returned", "idle") /\ Cas(k, at[k], {"host_called"}, "host_call_returned")
     \/ Goto(k, "uncertain", "idle") /\ Cas(k, at[k], {"admitted", "host_called"}, "uncertain")
  /\ UNCHANGED <<approval, runState, history, up, drain, at, rpc, ending, active, recovery, sent>>

\* Any awaited call may reject: dispatchScheduledRun reports an unknown handoff.  Only a
\* failing admission, which may have written its record, is caught and recorded first.
Fails(k) ==
  /\ \/ /\ pc[k] \in {"claimed", "quota", "park", "park_state", "park_history", "park_slot",
                      "start", "record", "ambiguous"}
        /\ pc' = [pc EXCEPT ![k] = "uncertain"]
        /\ UNCHANGED slot
     \/ /\ Goto(k, "admit", "ambiguous")
        /\ Cas(k, at[k], {"reserved"}, "admitted") \/ UNCHANGED slot
  /\ UNCHANGED <<approval, runState, history, up, drain, at, rpc, ending, active, recovery, sent>>

(***************************************************************************)
(* Decisions and resumes                                                   *)
(***************************************************************************)

RGoto(s, k, from, to) == rpc[s][k] = from /\ rpc' = [rpc EXCEPT ![s][k] = to]

\* decide(): completed and rejected are final, an approval cannot be withdrawn.
Frozen(status, d) == status \in {"completed", "rejected"} \/ (status = "approved" /\ d # "approved")
Decided(k, d) == IF Frozen(approval[k], d) THEN approval[k] ELSE d

\* The approve, reject and defer tools decide, then act on what the artifact now says.
DecideTool(s, k, d) ==
  /\ up[s] # "down" /\ approval[k] # "none"
  /\ approval' = [approval EXCEPT ![k] = Decided(k, d)]
  /\ \/ Decided(k, d) = "approved" /\ RGoto(s, k, "idle", "approved")
     \/ Decided(k, d) \in {"rejected", "deferred"} /\ RGoto(s, k, "idle", "closing")
     \/ Decided(k, d) = "completed" /\ RGoto(s, k, "idle", "idle")
  /\ UNCHANGED <<slot, runState, history, up, drain, pc, at, ending, active, recovery, sent>>

Awaits(k) == runState = [status |-> "awaiting-approval", run |-> k]

\* A rejected or deferred run that still waits is recorded as failed.
Close(s, k) ==
  /\ \/ Awaits(k) /\ RGoto(s, k, "closing", "close_save") /\ UNCHANGED runState
     \/ ~Awaits(k) /\ RGoto(s, k, "closing", "idle") /\ UNCHANGED runState
     \/ RGoto(s, k, "close_save", "idle") /\ SaveRunState("failed", k)
  /\ UNCHANGED <<slot, approval, history, up, drain, pc, at, ending, active, recovery, sent>>

\* resumeApprovedRunTracked: the checks, then the two slot transitions.
ResumeLoad(s, k) ==
  /\ \/ /\ up[s] = "running" /\ approval[k] = "approved" /\ Awaits(k)
        /\ RGoto(s, k, "approved", "loaded")
     \/ /\ ~(up[s] = "running" /\ approval[k] = "approved" /\ Awaits(k))
        /\ RGoto(s, k, "approved", "idle")
  /\ UNCHANGED <<files, up, drain, pc, at, ending, active, recovery, sent>>

ResumeSlot(s, k) ==
  /\ \/ /\ CasSucceeds(k, s, {"approval_pending"})
        /\ RGoto(s, k, "loaded", "slot_ok")
        /\ Cas(k, s, {"approval_pending"}, "admitted")
     \/ /\ ~CasSucceeds(k, s, {"approval_pending"})
        /\ RGoto(s, k, "loaded", "idle")
        /\ UNCHANGED slot
     \/ /\ CasSucceeds(k, s, {"admitted"})
        /\ RGoto(s, k, "slot_ok", "called")
        /\ Cas(k, s, {"admitted"}, "host_called")
  /\ UNCHANGED <<approval, runState, history, up, drain, pc, at, ending, active, recovery, sent>>

ResumeSave(s, k) ==
  /\ RGoto(s, k, "called", "saved")
  /\ SaveRunState("running", k)
  /\ UNCHANGED <<slot, approval, history, up, drain, pc, at, ending, active, recovery, sent>>

\* The run is registered before the last check; then the prompt goes to the host.
ResumeSend(s, k) ==
  /\ active' = [active EXCEPT ![s] = @ \cup {k}]
  /\ \/ up[s] # "running" /\ RGoto(s, k, "saved", "idle") /\ UNCHANGED sent
     \/ /\ up[s] = "running" /\ RGoto(s, k, "saved", "returning")
        /\ HandOver(k)
     \/ /\ up[s] = "running" /\ RGoto(s, k, "saved", "unsure")
        /\ MayHandOver(k)
  /\ UNCHANGED <<files, up, drain, pc, at, ending, recovery>>

ResumeReturn(s, k) ==
  /\ \/ CasSucceeds(k, s, {"host_called"}) /\ RGoto(s, k, "returning", "idle")
     \/ ~CasSucceeds(k, s, {"host_called"}) /\ RGoto(s, k, "returning", "unsure")
  /\ Cas(k, s, {"host_called"}, "host_call_returned")
  /\ UNCHANGED <<approval, runState, history, up, drain, pc, at, ending, active, recovery, sent>>

ResumeUnsure(s, k) ==
  /\ RGoto(s, k, "unsure", "interrupt")
  /\ Cas(k, s, {"admitted", "host_called"}, "uncertain")
  /\ UNCHANGED <<approval, runState, history, up, drain, pc, at, ending, active, recovery, sent>>

ResumeInterrupt(s, k) ==
  /\ RGoto(s, k, "interrupt", "idle")
  /\ SaveRunState("interrupted", k)
  /\ active' = [active EXCEPT ![s] = @ \ {k}]
  /\ UNCHANGED <<slot, approval, history, up, drain, pc, at, ending, recovery, sent>>

\* Mistake: the hub overwrites whatever the artifact says.
DecideHubAlways(s, k, d) ==
  /\ up[s] # "down" /\ approval[k] # "none"
  /\ approval' = [approval EXCEPT ![k] = d]
  /\ IF d = "approved" /\ HubResume
       THEN RGoto(s, k, "idle", "hub_approved")
       ELSE rpc[s][k] = "idle" /\ UNCHANGED rpc
  /\ UNCHANGED <<slot, runState, history, up, drain, pc, at, ending, active, recovery, sent>>

\* The Agent Hub decides with decideAgentApproval, acts only on a decision that changed
\* the artifact, and resumes an approved run without looking at its slot.
DecideHub(s, k, d) ==
  /\ up[s] # "down" /\ approval[k] # "none"
  /\ ~Frozen(approval[k], d) /\ approval[k] # d
  /\ approval' = [approval EXCEPT ![k] = d]
  /\ IF d = "approved" /\ HubResume
       THEN RGoto(s, k, "idle", "hub_approved")
       ELSE rpc[s][k] = "idle" /\ UNCHANGED rpc
  /\ UNCHANGED <<slot, runState, history, up, drain, pc, at, ending, active, recovery, sent>>

HubLoad(s, k) ==
  /\ \/ approval[k] = "approved" /\ Awaits(k) /\ RGoto(s, k, "hub_approved", "hub_loaded")
     \/ ~(approval[k] = "approved" /\ Awaits(k)) /\ RGoto(s, k, "hub_approved", "idle")
  /\ UNCHANGED <<files, up, drain, pc, at, ending, active, recovery, sent>>

HubSave(s, k) ==
  /\ \/ RGoto(s, k, "hub_loaded", "hub_saved") /\ SaveRunState("running", k)
     \/ RGoto(s, k, "hub_interrupt", "idle") /\ SaveRunState("interrupted", k)
  /\ UNCHANGED <<slot, approval, history, up, drain, pc, at, ending, active, recovery, sent>>

HubSend(s, k) ==
  /\ \/ RGoto(s, k, "hub_saved", "idle") /\ HandOver(k)
     \/ RGoto(s, k, "hub_saved", "hub_interrupt") /\ MayHandOver(k)
  /\ UNCHANGED <<files, up, drain, pc, at, ending, active, recovery>>

(***************************************************************************)
(* The end of the agent's turn, and the life of a session                  *)
(***************************************************************************)

\* handleAgentEnd, once agent_settled finds the run's marker in the messages.
AgentEnd(s, k, status) ==
  /\ up[s] # "down" /\ k \in active[s] /\ sent[k] > 0
  /\ ending[s][k] = "no"
  /\ ending' = [ending EXCEPT ![s][k] = status]
  /\ SaveRunState(status, k)
  /\ UNCHANGED <<slot, approval, history, up, drain, pc, at, rpc, active, recovery, sent>>

\* finalizeApproval: an approved run is completed, or deferred when it was interrupted.
Finalize(s, k) ==
  /\ ending[s][k] # "no"
  /\ approval' = IF approval[k] # "approved" THEN approval
                 ELSE [approval EXCEPT ![k] = IF ending[s][k] = "complete"
                                                THEN "completed" ELSE "deferred"]
  /\ ending' = [ending EXCEPT ![s][k] = "no"]
  /\ active' = [active EXCEPT ![s] = @ \ {k}]
  /\ UNCHANGED <<slot, runState, history, up, drain, pc, at, rpc, recovery, sent>>

\* stop(): no new work, and the work tracked at this moment is waited for.
BeginStop(s) ==
  /\ up[s] = "running"
  /\ up' = [up EXCEPT ![s] = "stopping"]
  /\ drain' = [drain EXCEPT ![s] = {k \in Slot : at[k] = s /\ pc[k] # "idle"}]
  /\ UNCHANGED <<files, pc, at, rpc, ending, active, recovery, sent>>

\* resetAfterStop: the runs this session started are interrupted, its memory is cleared.
FinishStop(s) ==
  /\ up[s] = "stopping" /\ recovery[s] = NoRun
  /\ \A k \in drain[s] : at[k] # s \/ pc[k] = "idle"
  /\ \A k \in Slot : rpc[s][k] \notin ResumeSteps
  /\ up' = [up EXCEPT ![s] = "down"]
  /\ drain' = [drain EXCEPT ![s] = {}]
  /\ active' = [active EXCEPT ![s] = {}]
  /\ runState' = IF runState.status = "running" /\ runState.run \in active[s]
                   THEN [runState EXCEPT !.status = "interrupted"] ELSE runState
  /\ UNCHANGED <<slot, approval, history, pc, at, rpc, ending, recovery, sent>>

\* start(): recoverInterruptedRuns runs beside everything else.
Restart(s) ==
  /\ up[s] = "down"
  /\ up' = [up EXCEPT ![s] = "running"]
  /\ recovery' = [recovery EXCEPT ![s] = IF Continuation THEN -1 ELSE NoRun]
  /\ UNCHANGED <<files, drain, pc, at, rpc, ending, active, sent>>

RecoverLoad(s) ==
  /\ recovery[s] = -1
  /\ recovery' = [recovery EXCEPT ![s] = IF runState.status = "running" THEN runState.run ELSE NoRun]
  /\ UNCHANGED <<files, up, drain, pc, at, rpc, ending, active, sent>>

RecoverWrite(s) ==
  /\ recovery[s] > 0
  /\ SaveRunState("interrupted", recovery[s])
  /\ recovery' = [recovery EXCEPT ![s] = NoRun]
  /\ UNCHANGED <<slot, approval, history, up, drain, pc, at, rpc, ending, active, sent>>

\* The process dies.  A crash inside claimScheduleSlot leaves the slot's lock behind;
\* a slot nobody takes again is one of the behaviours of the slot it leaves unclaimed.
Crash(s) ==
  /\ up[s] # "down"
  /\ up' = [up EXCEPT ![s] = "down"]
  /\ drain' = [drain EXCEPT ![s] = {}]
  /\ pc' = [k \in Slot |-> IF at[k] = s THEN "idle" ELSE pc[k]]
  /\ rpc' = [rpc EXCEPT ![s] = [k \in Slot |-> "idle"]]
  /\ ending' = [ending EXCEPT ![s] = [k \in Slot |-> "no"]]
  /\ active' = [active EXCEPT ![s] = {}]
  /\ recovery' = [recovery EXCEPT ![s] = NoRun]
  /\ UNCHANGED <<files, at, sent>>

RunStep(k) ==
  \/ ClaimWrite(k) \/ DeliveryGuard(k) \/ Quota(k)
  \/ ParkArtifact(k) \/ ParkRunState(k) \/ ParkHistory(k) \/ ParkSlot(k)
  \/ StartRun(k) \/ CanDispatch(k) \/ Admit(k) \/ Send(k)
  \/ RecordAmbiguous(k) \/ RecordQueued(k) \/ Mark(k) \/ Fails(k)

ResumeStep(s, k) ==
  \/ ResumeLoad(s, k) \/ ResumeSlot(s, k) \/ ResumeSave(s, k) \/ ResumeSend(s, k)
  \/ ResumeReturn(s, k) \/ ResumeUnsure(s, k) \/ ResumeInterrupt(s, k)

HubStep(s, k) == HubLoad(s, k) \/ HubSave(s, k) \/ HubSend(s, k)

SessionStep(s) ==
  \/ BeginStop(s) \/ FinishStop(s) \/ Restart(s) \/ RecoverLoad(s) \/ RecoverWrite(s) \/ Crash(s)

Decision == {"approved", "rejected", "deferred"}

Next ==
  \/ \E k \in Slot : RunStep(k)
  \/ \E s \in Session : SessionStep(s)
  \/ \E s \in Session, k \in Slot :
       \/ ClaimCheck(s, k)
       \/ \E d \in Decision : DecideTool(s, k, d) \/ DecideHub(s, k, d)
       \/ Close(s, k) \/ ResumeStep(s, k) \/ HubStep(s, k)
       \/ \E status \in {"complete", "interrupted"} : AgentEnd(s, k, status)
       \/ Finalize(s, k)

Spec == Init /\ [][Next]_vars

(***************************************************************************)
(* Properties                                                              *)
(***************************************************************************)

\* A due minute reaches the host at most once, whatever sessions race for it, crash,
\* restart, stop or resume it ("the run can never double-fire",
\* extensions/pi-automations/scheduler-run-once.ts:122).
AtMostOneSend == \A k \in Slot : sent[k] <= 1

\* A prompt that may have reached the host leaves its slot in a status no claim, no
\* admission and no approval accepts ("anything uncertain after admission blocks retry",
\* docs/decisions.md:71).
SentIsBlocked ==
  \A k \in Slot : sent[k] > 0 =>
     slot[k] \in {"admitted", "host_called", "host_call_returned", "uncertain"}

\* Whoever resumes it, a run that was parked for approval first reaches the host while its
\* artifact says approved.
ApprovedBeforeFirstSend ==
  [][\A k \in Slot : sent[k] = 0 /\ sent'[k] > 0 /\ approval[k] # "none"
        => approval[k] = "approved"]_vars

\* An approval is never withdrawn: what a rejected or completed artifact says is final, and
\* an approved one becomes completed, or deferred when the agent's turn was interrupted
\* after the prompt was sent.
DecisionsAreFinal ==
  [][\A k \in Slot :
       /\ approval[k] \in {"rejected", "completed"} => approval'[k] = approval[k]
       /\ approval[k] = "approved" /\ approval'[k] # "approved" =>
            approval'[k] \in {"completed", "deferred"} /\ sent[k] > 0]_vars
=============================================================================
