---------------------------- MODULE InboxProofs ----------------------------
(***************************************************************************)
(* Proofs about what reaches agents from outside their sessions.  First    *)
(* scheduled runs, for every number of sessions, of due minutes and every  *)
(* schedule configuration: one invariant holds with and without the Agent  *)
(* Hub's resume, another needs every resume to go through the slot record. *)
(* Then the Matrix channel, for every number of events and every limit.    *)
(***************************************************************************)
EXTENDS MCInbox, SequenceTheorems, TLAPS

\* What a run has not reached yet decides what its files can say.
BeforeAdmit == {"claimed", "quota", "park", "park_state", "park_history", "park_slot",
                "start", "dispatch", "admit"}
BeforePark  == {"checked", "claimed", "quota", "park", "start", "dispatch", "admit", "send"}
Blocked     == {"admitted", "host_called", "host_call_returned", "uncertain"}

\* No artifact exists before the run parks, and a turn ends only after its prompt was sent.
ApprovalFact(k) ==
  /\ slot[k] = "none" => pc[k] \in {"idle", "checked"} /\ approval[k] = "none"
  /\ pc[k] \in BeforePark => approval[k] = "none"
  /\ pc[k] = "checked" => slot[k] = "none"
  /\ \A s \in Session : ending[s][k] # "no" => sent[k] > 0

ApprovalFacts == \A k \in Slot : ApprovalFact(k)

IInv == TypeOK /\ ApprovalFacts

(***************************************************************************)
(* What the helpers do to one variable, for every slot and session.        *)
(***************************************************************************)

LEMMA GotoEffect ==
  ASSUME RunsTyped, NEW k \in Slot, NEW to \in RunSteps, NEW from, Goto(k, from, to)
  PROVE  /\ pc' \in [Slot -> RunSteps] /\ pc[k] = from
         /\ \A j \in Slot : pc'[j] = IF j = k THEN to ELSE pc[j]
  BY DEF Goto, RunsTyped

Moved(s, k, from, to) ==
  /\ rpc[s][k] = from
  /\ \A t \in Session, j \in Slot : rpc'[t][j] = IF t = s /\ j = k THEN to ELSE rpc[t][j]

\* What a step of a run's program counter changes.
LEMMA RGotoEffect ==
  ASSUME RunsTyped, NEW s \in Session, NEW k \in Slot,
         NEW to \in ResumeSteps \cup HubSteps \cup DecisionSteps, NEW from, RGoto(s, k, from, to)
  PROVE  /\ rpc' \in [Session -> [Slot -> ResumeSteps \cup HubSteps \cup DecisionSteps]]
         /\ Moved(s, k, from, to)
  BY DEF RGoto, RunsTyped, Moved

\* What a compare-and-set of a slot record changes.
LEMMA CasEffect ==
  ASSUME FilesTyped, NEW k \in Slot, NEW s, NEW expected, NEW status \in SlotStatus,
         Cas(k, s, expected, status)
  PROVE  /\ slot' \in [Slot -> SlotStatus]
         /\ \A j \in Slot : slot'[j] = IF j = k /\ CasSucceeds(k, s, expected) THEN status ELSE slot[j]
  BY DEF Cas, CasSucceeds, FilesTyped

\* What writing the run state changes.
LEMMA SaveEffect ==
  ASSUME NEW status \in RunStatus, NEW k \in Slot, SaveRunState(status, k)
  PROVE  runState' \in [status : RunStatus, run : Slot \cup {NoRun}]
  BY DEF SaveRunState

\* What a send changes.
LEMMA HandOverEffect ==
  ASSUME RunsTyped, NEW k \in Slot, HandOver(k) \/ MayHandOver(k)
  PROVE  /\ sent' \in [Slot -> Nat]
         /\ sent[k] \in Nat /\ (sent'[k] = sent[k] \/ sent'[k] = sent[k] + 1)
         /\ \A j \in Slot : j # k => sent'[j] = sent[j]
  BY DEF HandOver, MayHandOver, RunsTyped

\* The invariant holds before any minute is due.
LEMMA InitIInv == Init => IInv
<1> SUFFICES ASSUME Init PROVE IInv
  OBVIOUS
<1> USE RunAssumption DEF Init, Slot, NoRun
<1>1. (CHOOSE s \in Session : TRUE) \in Session
  OBVIOUS
<1>2. TypeOK
  BY <1>1 DEF TypeOK, FilesTyped, RunsTyped, SessionsTyped, SlotStatus, ApprovalStatus, RunStatus, Outcome, RunSteps, ResumeSteps, HubSteps, DecisionSteps
<1>3. ApprovalFacts
  BY DEF ApprovalFacts, ApprovalFact, BeforePark
<1> QED
  BY <1>2, <1>3 DEF IInv

\* The history file stays a sequence of outcomes.
LEMMA NewestType ==
  ASSUME NEW h \in Seq(Outcome), NEW n \in Nat
  PROVE  Newest(h, n) \in Seq(Outcome)
<1>1. CASE Len(h) <= n
  BY <1>1 DEF Newest
<1>2. CASE ~(Len(h) <= n)
  <2>1. \A i \in Len(h) - n + 1 .. Len(h) : h[i] \in Outcome
    BY <1>2
  <2> QED
    BY <1>2, <2>1, SubSeqProperties DEF Newest
<1> QED
  BY <1>1, <1>2

\* The history keeps its type.
LEMMA HistoryType ==
  ASSUME FilesTyped
  PROVE  /\ \A o \in Outcome : RecordOutcome(o) => history' \in Seq(Outcome)
         /\ RecordRefusal => history' \in Seq(Outcome)
<1>1. MaxHistory \in Nat /\ MaxHistory - 1 \in Nat
  BY RunAssumption
<1>2. Newest(history, MaxHistory) \in Seq(Outcome) /\ Newest(history, MaxHistory - 1) \in Seq(Outcome)
  BY <1>1, NewestType DEF FilesTyped
<1> QED
  BY <1>2 DEF RecordOutcome, RecordRefusal

\* A step that changes no variable of a group keeps the group typed.
LEMMA FilesFrame == FilesTyped /\ UNCHANGED <<slot, approval, runState, history>> => FilesTyped'
  BY DEF FilesTyped

\* What is left alone keeps its type.
LEMMA RunsFrame == RunsTyped /\ UNCHANGED <<pc, at, rpc, sent>> => RunsTyped'
  BY DEF RunsTyped

\* So do the sessions.
LEMMA SessionsFrame == SessionsTyped /\ UNCHANGED <<up, drain, ending, active, recovery>> => SessionsTyped'
  BY DEF SessionsTyped

\* A run belongs to a session.
LEMMA RunOwner == RunsTyped => \A k \in Slot : at[k] \in Session
  BY DEF RunsTyped

\* Every step keeps the types.
LEMMA StepTypeOK == TypeOK /\ [Next]_vars => TypeOK'
<1> SUFFICES ASSUME TypeOK, [Next]_vars PROVE TypeOK'
  OBVIOUS
<1>1. CASE UNCHANGED vars
  BY <1>1, FilesFrame, RunsFrame, SessionsFrame DEF vars, files, memory, TypeOK
<1>2. ASSUME NEW k \in Slot, ClaimWrite(k) PROVE TypeOK'
  <2>1. FilesTyped'
    BY <1>2 DEF ClaimWrite, TypeOK, FilesTyped, SlotStatus
  <2>2. RunsTyped'
    BY <1>2, GotoEffect DEF ClaimWrite, TypeOK, RunsTyped, RunSteps
  <2> QED
    BY <1>2, <2>1, <2>2, SessionsFrame DEF ClaimWrite, TypeOK, files
<1>3. ASSUME NEW k \in Slot, DeliveryGuard(k) PROVE TypeOK'
  <2>1. FilesTyped'
    BY <1>3, HistoryType DEF DeliveryGuard, TypeOK, FilesTyped, Outcome
  <2>2. RunsTyped'
    BY <1>3, GotoEffect DEF DeliveryGuard, TypeOK, RunsTyped, RunSteps
  <2> QED
    BY <1>3, <2>1, <2>2, SessionsFrame DEF DeliveryGuard, TypeOK, files
<1>4. ASSUME NEW k \in Slot, Quota(k) PROVE TypeOK'
  <2>1. FilesTyped'
    BY <1>4, HistoryType DEF Quota, TypeOK, FilesTyped, Outcome
  <2>2. RunsTyped'
    BY <1>4, GotoEffect DEF Quota, TypeOK, RunsTyped, RunSteps
  <2> QED
    BY <1>4, <2>1, <2>2, SessionsFrame DEF Quota, TypeOK, files
<1>5. ASSUME NEW k \in Slot, ParkArtifact(k) PROVE TypeOK'
  <2>1. FilesTyped'
    BY <1>5 DEF ParkArtifact, TypeOK, FilesTyped, ApprovalStatus, Decision
  <2>2. RunsTyped'
    BY <1>5, GotoEffect DEF ParkArtifact, TypeOK, RunsTyped, RunSteps
  <2> QED
    BY <1>5, <2>1, <2>2, SessionsFrame DEF ParkArtifact, TypeOK, files
<1>6. ASSUME NEW k \in Slot, ParkRunState(k) PROVE TypeOK'
  <2>1. FilesTyped'
    BY <1>6, SaveEffect DEF ParkRunState, TypeOK, FilesTyped, RunStatus
  <2>2. RunsTyped'
    BY <1>6, GotoEffect DEF ParkRunState, TypeOK, RunsTyped, RunSteps
  <2> QED
    BY <1>6, <2>1, <2>2, SessionsFrame DEF ParkRunState, TypeOK, files
<1>7. ASSUME NEW k \in Slot, ParkHistory(k) PROVE TypeOK'
  <2>1. FilesTyped'
    BY <1>7, HistoryType DEF ParkHistory, TypeOK, FilesTyped, Outcome
  <2>2. RunsTyped'
    BY <1>7, GotoEffect DEF ParkHistory, TypeOK, RunsTyped, RunSteps
  <2> QED
    BY <1>7, <2>1, <2>2, SessionsFrame DEF ParkHistory, TypeOK, files
<1>8. ASSUME NEW k \in Slot, ParkSlot(k) PROVE TypeOK'
  <2>1. FilesTyped'
    BY <1>8, CasEffect DEF ParkSlot, TypeOK, FilesTyped, SlotStatus
  <2>2. RunsTyped'
    BY <1>8, GotoEffect DEF ParkSlot, TypeOK, RunsTyped, RunSteps
  <2> QED
    BY <1>8, <2>1, <2>2, SessionsFrame DEF ParkSlot, TypeOK, files
<1>9. ASSUME NEW k \in Slot, StartRun(k) PROVE TypeOK'
  <2>1. FilesTyped'
    BY <1>9, SaveEffect DEF StartRun, TypeOK, FilesTyped, RunStatus
  <2>2. RunsTyped'
    BY <1>9, GotoEffect DEF StartRun, TypeOK, RunsTyped, RunSteps
  <2>3. SessionsTyped'
    BY <1>9, RunOwner DEF StartRun, TypeOK, SessionsTyped
  <2> QED
    BY <1>9, <2>1, <2>2, <2>3 DEF StartRun, TypeOK, files
<1>10. ASSUME NEW k \in Slot, CanDispatch(k) PROVE TypeOK'
  <2>2. RunsTyped'
    BY <1>10, GotoEffect DEF CanDispatch, TypeOK, RunsTyped, RunSteps
  <2> QED
    BY <1>10, <2>2, FilesFrame, SessionsFrame DEF CanDispatch, TypeOK, files
<1>11. ASSUME NEW k \in Slot, Admit(k) PROVE TypeOK'
  <2>1. FilesTyped'
    BY <1>11, CasEffect DEF Admit, TypeOK, FilesTyped, SlotStatus
  <2>2. RunsTyped'
    BY <1>11, GotoEffect DEF Admit, TypeOK, RunsTyped, RunSteps
  <2> QED
    BY <1>11, <2>1, <2>2, SessionsFrame DEF Admit, TypeOK, files
<1>12. ASSUME NEW k \in Slot, Send(k) PROVE TypeOK'
  <2>2. RunsTyped'
    BY <1>12, GotoEffect, HandOverEffect DEF Send, TypeOK, RunsTyped, RunSteps
  <2> QED
    BY <1>12, <2>2, FilesFrame, SessionsFrame DEF Send, TypeOK, files
<1>13. ASSUME NEW k \in Slot, RecordAmbiguous(k) PROVE TypeOK'
  <2>1. FilesTyped'
    BY <1>13, HistoryType DEF RecordAmbiguous, TypeOK, FilesTyped, Outcome
  <2>2. RunsTyped'
    BY <1>13, GotoEffect DEF RecordAmbiguous, TypeOK, RunsTyped, RunSteps
  <2> QED
    BY <1>13, <2>1, <2>2, SessionsFrame DEF RecordAmbiguous, TypeOK, files
<1>14. ASSUME NEW k \in Slot, RecordQueued(k) PROVE TypeOK'
  <2>1. FilesTyped'
    BY <1>14, HistoryType DEF RecordQueued, TypeOK, FilesTyped, Outcome
  <2>2. RunsTyped'
    BY <1>14, GotoEffect DEF RecordQueued, TypeOK, RunsTyped, RunSteps
  <2> QED
    BY <1>14, <2>1, <2>2, SessionsFrame DEF RecordQueued, TypeOK, files
<1>15. ASSUME NEW k \in Slot, Mark(k) PROVE TypeOK'
  <2>1. FilesTyped'
    BY <1>15, CasEffect DEF Mark, TypeOK, FilesTyped, SlotStatus
  <2>2. RunsTyped'
    BY <1>15, GotoEffect DEF Mark, TypeOK, RunsTyped, RunSteps
  <2> QED
    BY <1>15, <2>1, <2>2, SessionsFrame DEF Mark, TypeOK, files
<1>16. ASSUME NEW k \in Slot, Fails(k) PROVE TypeOK'
  <2>1. FilesTyped'
    BY <1>16, CasEffect DEF Fails, TypeOK, FilesTyped, SlotStatus
  <2>2. RunsTyped'
    BY <1>16, GotoEffect DEF Fails, TypeOK, RunsTyped, RunSteps
  <2> QED
    BY <1>16, <2>1, <2>2, SessionsFrame DEF Fails, TypeOK, files
<1>17. ASSUME NEW s \in Session, BeginStop(s) PROVE TypeOK'
  <2>3. SessionsTyped'
    BY <1>17 DEF BeginStop, TypeOK, SessionsTyped
  <2> QED
    BY <1>17, <2>3, FilesFrame, RunsFrame DEF BeginStop, TypeOK, files
<1>18. ASSUME NEW s \in Session, FinishStop(s) PROVE TypeOK'
  <2>1. FilesTyped'
    BY <1>18 DEF FinishStop, TypeOK, FilesTyped, RunStatus
  <2>3. SessionsTyped'
    BY <1>18 DEF FinishStop, TypeOK, SessionsTyped
  <2> QED
    BY <1>18, <2>1, <2>3, RunsFrame DEF FinishStop, TypeOK, files
<1>19. ASSUME NEW s \in Session, Restart(s) PROVE TypeOK'
  <2>3. SessionsTyped'
    BY <1>19, RunAssumption DEF Restart, TypeOK, SessionsTyped, Slot, NoRun
  <2> QED
    BY <1>19, <2>3, FilesFrame, RunsFrame DEF Restart, TypeOK, files
<1>20. ASSUME NEW s \in Session, RecoverLoad(s) PROVE TypeOK'
  <2>3. SessionsTyped'
    BY <1>20, RunAssumption DEF RecoverLoad, TypeOK, SessionsTyped, FilesTyped, Slot, NoRun
  <2> QED
    BY <1>20, <2>3, FilesFrame, RunsFrame DEF RecoverLoad, TypeOK, files
<1>21. ASSUME NEW s \in Session, RecoverWrite(s) PROVE TypeOK'
  <2>1. FilesTyped'
    BY <1>21, SaveEffect, RunAssumption DEF RecoverWrite, TypeOK, FilesTyped, RunStatus,
       SessionsTyped, SaveRunState, Slot, NoRun
  <2>3. SessionsTyped'
    BY <1>21, RunAssumption DEF RecoverWrite, TypeOK, SessionsTyped, Slot, NoRun
  <2> QED
    BY <1>21, <2>1, <2>3, RunsFrame DEF RecoverWrite, TypeOK, files
<1>22. ASSUME NEW s \in Session, Crash(s) PROVE TypeOK'
  <2>2. RunsTyped'
    BY <1>22 DEF Crash, TypeOK, RunsTyped, RunSteps, ResumeSteps, HubSteps, DecisionSteps
  <2>3. SessionsTyped'
    BY <1>22, RunAssumption DEF Crash, TypeOK, SessionsTyped, Slot, NoRun
  <2> QED
    BY <1>22, <2>2, <2>3, FilesFrame DEF Crash, TypeOK, files
<1>23. ASSUME NEW s \in Session, NEW k \in Slot, ClaimCheck(s, k) PROVE TypeOK'
  <2>2. RunsTyped'
    BY <1>23, GotoEffect DEF ClaimCheck, TypeOK, RunsTyped, RunSteps
  <2> QED
    BY <1>23, <2>2, FilesFrame, SessionsFrame DEF ClaimCheck, TypeOK, files
<1>24. ASSUME NEW s \in Session, NEW k \in Slot, NEW d \in Decision,
            DecideTool(s, k, d)
     PROVE  TypeOK'
  <2>1. FilesTyped'
    BY <1>24 DEF DecideTool, TypeOK, FilesTyped, ApprovalStatus, Decision, Decided
  <2>2. RunsTyped'
    BY <1>24, RGotoEffect DEF DecideTool, TypeOK, RunsTyped, ResumeSteps, HubSteps,
       DecisionSteps
  <2> QED
    BY <1>24, <2>1, <2>2, SessionsFrame DEF DecideTool, TypeOK, files
<1>25. ASSUME NEW s \in Session, NEW k \in Slot, NEW d \in Decision,
            DecideHub(s, k, d)
     PROVE  TypeOK'
  <2>1. FilesTyped'
    BY <1>25 DEF DecideHub, TypeOK, FilesTyped, ApprovalStatus, Decision
  <2>2. RunsTyped'
    BY <1>25, RGotoEffect DEF DecideHub, TypeOK, RunsTyped, ResumeSteps, HubSteps, DecisionSteps
  <2> QED
    BY <1>25, <2>1, <2>2, SessionsFrame DEF DecideHub, TypeOK, files
<1>26. ASSUME NEW s \in Session, NEW k \in Slot, Close(s, k) PROVE TypeOK'
  <2>1. FilesTyped'
    BY <1>26, SaveEffect DEF Close, TypeOK, FilesTyped, RunStatus
  <2>2. RunsTyped'
    BY <1>26, RGotoEffect DEF Close, TypeOK, RunsTyped, ResumeSteps, HubSteps, DecisionSteps
  <2> QED
    BY <1>26, <2>1, <2>2, SessionsFrame DEF Close, TypeOK, files
<1>27. ASSUME NEW s \in Session, NEW k \in Slot, ResumeLoad(s, k) PROVE TypeOK'
  <2>2. RunsTyped'
    BY <1>27, RGotoEffect DEF ResumeLoad, TypeOK, RunsTyped, ResumeSteps, HubSteps,
       DecisionSteps
  <2> QED
    BY <1>27, <2>2, FilesFrame, SessionsFrame DEF ResumeLoad, TypeOK, files
<1>28. ASSUME NEW s \in Session, NEW k \in Slot, ResumeSlot(s, k) PROVE TypeOK'
  <2>1. FilesTyped'
    BY <1>28, CasEffect DEF ResumeSlot, TypeOK, FilesTyped, SlotStatus
  <2>2. RunsTyped'
    BY <1>28, RGotoEffect DEF ResumeSlot, TypeOK, RunsTyped, ResumeSteps, HubSteps,
       DecisionSteps
  <2> QED
    BY <1>28, <2>1, <2>2, SessionsFrame DEF ResumeSlot, TypeOK, files
<1>29. ASSUME NEW s \in Session, NEW k \in Slot, ResumeSave(s, k) PROVE TypeOK'
  <2>1. FilesTyped'
    BY <1>29, SaveEffect DEF ResumeSave, TypeOK, FilesTyped, RunStatus
  <2>2. RunsTyped'
    BY <1>29, RGotoEffect DEF ResumeSave, TypeOK, RunsTyped, ResumeSteps, HubSteps,
       DecisionSteps
  <2> QED
    BY <1>29, <2>1, <2>2, SessionsFrame DEF ResumeSave, TypeOK, files
<1>30. ASSUME NEW s \in Session, NEW k \in Slot, ResumeSend(s, k) PROVE TypeOK'
  <2>2. RunsTyped'
    BY <1>30, RGotoEffect, HandOverEffect DEF ResumeSend, TypeOK, RunsTyped, ResumeSteps,
       HubSteps, DecisionSteps
  <2>3. SessionsTyped'
    BY <1>30 DEF ResumeSend, TypeOK, SessionsTyped
  <2> QED
    BY <1>30, <2>2, <2>3, FilesFrame DEF ResumeSend, TypeOK, files
<1>31. ASSUME NEW s \in Session, NEW k \in Slot, ResumeReturn(s, k) PROVE TypeOK'
  <2>1. FilesTyped'
    BY <1>31, CasEffect DEF ResumeReturn, TypeOK, FilesTyped, SlotStatus
  <2>2. RunsTyped'
    BY <1>31, RGotoEffect DEF ResumeReturn, TypeOK, RunsTyped, ResumeSteps, HubSteps,
       DecisionSteps
  <2> QED
    BY <1>31, <2>1, <2>2, SessionsFrame DEF ResumeReturn, TypeOK, files
<1>32. ASSUME NEW s \in Session, NEW k \in Slot, ResumeUnsure(s, k) PROVE TypeOK'
  <2>1. FilesTyped'
    BY <1>32, CasEffect DEF ResumeUnsure, TypeOK, FilesTyped, SlotStatus
  <2>2. RunsTyped'
    BY <1>32, RGotoEffect DEF ResumeUnsure, TypeOK, RunsTyped, ResumeSteps, HubSteps,
       DecisionSteps
  <2> QED
    BY <1>32, <2>1, <2>2, SessionsFrame DEF ResumeUnsure, TypeOK, files
<1>33. ASSUME NEW s \in Session, NEW k \in Slot, ResumeInterrupt(s, k) PROVE TypeOK'
  <2>1. FilesTyped'
    BY <1>33, SaveEffect DEF ResumeInterrupt, TypeOK, FilesTyped, RunStatus
  <2>2. RunsTyped'
    BY <1>33, RGotoEffect DEF ResumeInterrupt, TypeOK, RunsTyped, ResumeSteps, HubSteps,
       DecisionSteps
  <2>3. SessionsTyped'
    BY <1>33 DEF ResumeInterrupt, TypeOK, SessionsTyped
  <2> QED
    BY <1>33, <2>1, <2>2, <2>3 DEF ResumeInterrupt, TypeOK, files
<1>34. ASSUME NEW s \in Session, NEW k \in Slot, HubLoad(s, k) PROVE TypeOK'
  <2>2. RunsTyped'
    BY <1>34, RGotoEffect DEF HubLoad, TypeOK, RunsTyped, ResumeSteps, HubSteps, DecisionSteps
  <2> QED
    BY <1>34, <2>2, FilesFrame, SessionsFrame DEF HubLoad, TypeOK, files
<1>35. ASSUME NEW s \in Session, NEW k \in Slot, HubSave(s, k) PROVE TypeOK'
  <2>1. FilesTyped'
    BY <1>35, SaveEffect DEF HubSave, TypeOK, FilesTyped, RunStatus
  <2>2. RunsTyped'
    BY <1>35, RGotoEffect DEF HubSave, TypeOK, RunsTyped, ResumeSteps, HubSteps, DecisionSteps
  <2> QED
    BY <1>35, <2>1, <2>2, SessionsFrame DEF HubSave, TypeOK, files
<1>36. ASSUME NEW s \in Session, NEW k \in Slot, HubSend(s, k) PROVE TypeOK'
  <2>2. RunsTyped'
    BY <1>36, RGotoEffect, HandOverEffect DEF HubSend, TypeOK, RunsTyped, ResumeSteps, HubSteps,
       DecisionSteps
  <2> QED
    BY <1>36, <2>2, FilesFrame, SessionsFrame DEF HubSend, TypeOK, files
<1>37. ASSUME NEW s \in Session, NEW k \in Slot, NEW status \in {"complete", "interrupted"},
            AgentEnd(s, k, status)
     PROVE  TypeOK'
  <2>1. FilesTyped'
    BY <1>37, SaveEffect DEF AgentEnd, TypeOK, FilesTyped, RunStatus
  <2>3. SessionsTyped'
    BY <1>37 DEF AgentEnd, TypeOK, SessionsTyped
  <2> QED
    BY <1>37, <2>1, <2>3, RunsFrame DEF AgentEnd, TypeOK, files
<1>38. ASSUME NEW s \in Session, NEW k \in Slot, Finalize(s, k) PROVE TypeOK'
  <2>1. FilesTyped'
    BY <1>38 DEF Finalize, TypeOK, FilesTyped, ApprovalStatus, Decision
  <2>3. SessionsTyped'
    BY <1>38 DEF Finalize, TypeOK, SessionsTyped
  <2> QED
    BY <1>38, <2>1, <2>3, RunsFrame DEF Finalize, TypeOK, files
<1> QED
  BY <1>1, <1>2, <1>3, <1>4, <1>5, <1>6, <1>7, <1>8, <1>9, <1>10, <1>11, <1>12, <1>13,
     <1>14, <1>15, <1>16, <1>17, <1>18, <1>19, <1>20, <1>21, <1>22, <1>23, <1>24, <1>25,
     <1>26, <1>27, <1>28, <1>29, <1>30, <1>31, <1>32, <1>33, <1>34, <1>35, <1>36, <1>37,
     <1>38
     DEF Next, RunStep, SessionStep, ResumeStep, HubStep

\* Every step keeps the facts about approvals.
LEMMA StepApprovalFacts == IInv /\ [Next]_vars => ApprovalFacts'
<1> SUFFICES ASSUME IInv, [Next]_vars, NEW j \in Slot PROVE ApprovalFact(j)'
  BY DEF ApprovalFacts
<1> USE DEF IInv, TypeOK, ApprovalFacts, ApprovalFact, BeforePark, files
<1>1. CASE UNCHANGED vars
  BY <1>1 DEF vars, memory
<1>2. ASSUME NEW k \in Slot, ClaimWrite(k) PROVE ApprovalFact(j)'
  BY <1>2, GotoEffect DEF ClaimWrite, FilesTyped, RunSteps
<1>3. ASSUME NEW k \in Slot, DeliveryGuard(k) PROVE ApprovalFact(j)'
  BY <1>3, GotoEffect DEF DeliveryGuard, RunSteps
<1>4. ASSUME NEW k \in Slot, Quota(k) PROVE ApprovalFact(j)'
  <2>1. /\ Goto(k, "quota", "idle") \/ Goto(k, "quota", "park") \/ Goto(k, "quota", "start")
        /\ UNCHANGED <<slot, approval, ending, sent, rpc>>
    BY <1>4, Zenon DEF Quota
  <2> QED
    BY <2>1, GotoEffect DEF RunSteps
<1>5. ASSUME NEW k \in Slot, ParkArtifact(k) PROVE ApprovalFact(j)'
  BY <1>5, GotoEffect DEF ParkArtifact, FilesTyped, RunSteps
<1>6. ASSUME NEW k \in Slot, ParkRunState(k) PROVE ApprovalFact(j)'
  BY <1>6, GotoEffect DEF ParkRunState, RunSteps
<1>7. ASSUME NEW k \in Slot, ParkHistory(k) PROVE ApprovalFact(j)'
  BY <1>7, GotoEffect DEF ParkHistory, RunSteps
<1>8. ASSUME NEW k \in Slot, ParkSlot(k) PROVE ApprovalFact(j)'
  BY <1>8, GotoEffect, CasEffect DEF ParkSlot, RunSteps, SlotStatus, CasSucceeds
<1>9. ASSUME NEW k \in Slot, StartRun(k) PROVE ApprovalFact(j)'
  BY <1>9, GotoEffect DEF StartRun, RunSteps
<1>10. ASSUME NEW k \in Slot, CanDispatch(k) PROVE ApprovalFact(j)'
  BY <1>10, GotoEffect DEF CanDispatch, RunSteps
<1>11. ASSUME NEW k \in Slot, Admit(k) PROVE ApprovalFact(j)'
  BY <1>11, GotoEffect, CasEffect DEF Admit, RunSteps, SlotStatus, CasSucceeds
<1>12. ASSUME NEW k \in Slot, Send(k) PROVE ApprovalFact(j)'
  BY <1>12, GotoEffect, HandOverEffect DEF Send, RunSteps
<1>13. ASSUME NEW k \in Slot, RecordAmbiguous(k) PROVE ApprovalFact(j)'
  BY <1>13, GotoEffect DEF RecordAmbiguous, RunSteps
<1>14. ASSUME NEW k \in Slot, RecordQueued(k) PROVE ApprovalFact(j)'
  BY <1>14, GotoEffect DEF RecordQueued, RunSteps
<1>15. ASSUME NEW k \in Slot, Mark(k) PROVE ApprovalFact(j)'
  BY <1>15, GotoEffect, CasEffect DEF Mark, RunSteps, SlotStatus, CasSucceeds
<1>16. ASSUME NEW k \in Slot, Fails(k) PROVE ApprovalFact(j)'
  BY <1>16, GotoEffect, CasEffect DEF Fails, RunsTyped, RunSteps, SlotStatus, CasSucceeds
<1>17. ASSUME NEW s \in Session, BeginStop(s) PROVE ApprovalFact(j)'
  BY <1>17 DEF BeginStop
<1>18. ASSUME NEW s \in Session, FinishStop(s) PROVE ApprovalFact(j)'
  BY <1>18 DEF FinishStop
<1>19. ASSUME NEW s \in Session, Restart(s) PROVE ApprovalFact(j)'
  BY <1>19 DEF Restart
<1>20. ASSUME NEW s \in Session, RecoverLoad(s) PROVE ApprovalFact(j)'
  BY <1>20 DEF RecoverLoad
<1>21. ASSUME NEW s \in Session, RecoverWrite(s) PROVE ApprovalFact(j)'
  BY <1>21 DEF RecoverWrite
<1>22. ASSUME NEW s \in Session, Crash(s) PROVE ApprovalFact(j)'
  BY <1>22 DEF Crash, RunsTyped, SessionsTyped
<1>23. ASSUME NEW s \in Session, NEW k \in Slot, ClaimCheck(s, k) PROVE ApprovalFact(j)'
  BY <1>23, GotoEffect DEF ClaimCheck, RunSteps
<1>24. ASSUME NEW s \in Session, NEW k \in Slot, NEW d \in Decision,
            DecideTool(s, k, d)
     PROVE  ApprovalFact(j)'
  BY <1>24 DEF DecideTool, FilesTyped, Decided, Frozen
<1>25. ASSUME NEW s \in Session, NEW k \in Slot, NEW d \in Decision,
            DecideHub(s, k, d)
     PROVE  ApprovalFact(j)'
  BY <1>25 DEF DecideHub, FilesTyped
<1>26. ASSUME NEW s \in Session, NEW k \in Slot, Close(s, k) PROVE ApprovalFact(j)'
  BY <1>26 DEF Close
<1>27. ASSUME NEW s \in Session, NEW k \in Slot, ResumeLoad(s, k) PROVE ApprovalFact(j)'
  BY <1>27 DEF ResumeLoad
<1>28. ASSUME NEW s \in Session, NEW k \in Slot, ResumeSlot(s, k) PROVE ApprovalFact(j)'
  BY <1>28, CasEffect DEF ResumeSlot, SlotStatus, CasSucceeds
<1>29. ASSUME NEW s \in Session, NEW k \in Slot, ResumeSave(s, k) PROVE ApprovalFact(j)'
  BY <1>29 DEF ResumeSave
<1>30. ASSUME NEW s \in Session, NEW k \in Slot, ResumeSend(s, k) PROVE ApprovalFact(j)'
  BY <1>30, HandOverEffect DEF ResumeSend
<1>31. ASSUME NEW s \in Session, NEW k \in Slot, ResumeReturn(s, k) PROVE ApprovalFact(j)'
  BY <1>31, CasEffect DEF ResumeReturn, SlotStatus, CasSucceeds
<1>32. ASSUME NEW s \in Session, NEW k \in Slot, ResumeUnsure(s, k) PROVE ApprovalFact(j)'
  BY <1>32, CasEffect DEF ResumeUnsure, SlotStatus, CasSucceeds
<1>33. ASSUME NEW s \in Session, NEW k \in Slot, ResumeInterrupt(s, k) PROVE ApprovalFact(j)'
  BY <1>33 DEF ResumeInterrupt
<1>34. ASSUME NEW s \in Session, NEW k \in Slot, HubLoad(s, k) PROVE ApprovalFact(j)'
  BY <1>34 DEF HubLoad
<1>35. ASSUME NEW s \in Session, NEW k \in Slot, HubSave(s, k) PROVE ApprovalFact(j)'
  BY <1>35 DEF HubSave
<1>36. ASSUME NEW s \in Session, NEW k \in Slot, HubSend(s, k) PROVE ApprovalFact(j)'
  BY <1>36, HandOverEffect DEF HubSend
<1>37. ASSUME NEW s \in Session, NEW k \in Slot, NEW status \in {"complete", "interrupted"},
            AgentEnd(s, k, status)
     PROVE  ApprovalFact(j)'
  BY <1>37 DEF AgentEnd, SessionsTyped
<1>38. ASSUME NEW s \in Session, NEW k \in Slot, Finalize(s, k) PROVE ApprovalFact(j)'
  BY <1>38 DEF Finalize, FilesTyped, SessionsTyped
<1> QED
  BY <1>1, <1>2, <1>3, <1>4, <1>5, <1>6, <1>7, <1>8, <1>9, <1>10, <1>11, <1>12, <1>13,
     <1>14, <1>15, <1>16, <1>17, <1>18, <1>19, <1>20, <1>21, <1>22, <1>23, <1>24, <1>25,
     <1>26, <1>27, <1>28, <1>29, <1>30, <1>31, <1>32, <1>33, <1>34, <1>35, <1>36, <1>37,
     <1>38
     DEF Next, RunStep, SessionStep, ResumeStep, HubStep

\* The files and the memory of every session stay well-typed, whatever resumes the runs.
THEOREM RunTypeOK == Spec => []TypeOK
<1>1. Init => TypeOK
  BY InitIInv DEF IInv
<1>2. TypeOK /\ [Next]_vars => TypeOK'
  BY StepTypeOK
<1> QED
  BY <1>1, <1>2, PTL DEF Spec

\* The invariant of types and approvals.
LEMMA RunInvariant == Spec => []IInv
<1>1. IInv /\ [Next]_vars => IInv'
  BY StepTypeOK, StepApprovalFacts DEF IInv
<1> QED
  BY InitIInv, <1>1, PTL DEF Spec

\* What a step may do to one approval artifact.
FinalStep(k) ==
  /\ approval[k] \in {"rejected", "completed"} => approval'[k] = approval[k]
  /\ approval[k] = "approved" /\ approval'[k] # "approved" =>
       approval'[k] \in {"completed", "deferred"} /\ sent[k] > 0

\* No step changes a decision.
LEMMA StepFinal == ASSUME IInv, [Next]_vars, NEW j \in Slot PROVE FinalStep(j)
<1> USE DEF FinalStep
<1>1. CASE UNCHANGED vars
  BY <1>1 DEF vars, files
<1>2. ASSUME NEW k \in Slot, ClaimWrite(k) PROVE FinalStep(j)
  BY <1>2 DEF ClaimWrite, files
<1>3. ASSUME NEW k \in Slot, DeliveryGuard(k) PROVE FinalStep(j)
  BY <1>3 DEF DeliveryGuard, files
<1>4. ASSUME NEW k \in Slot, Quota(k) PROVE FinalStep(j)
  BY <1>4 DEF Quota, files
<1>5. ASSUME NEW k \in Slot, ParkArtifact(k) PROVE FinalStep(j)
  BY <1>5, GotoEffect DEF ParkArtifact, RunSteps, IInv, TypeOK, FilesTyped, ApprovalFacts, ApprovalFact, BeforePark
<1>6. ASSUME NEW k \in Slot, ParkRunState(k) PROVE FinalStep(j)
  BY <1>6 DEF ParkRunState, files
<1>7. ASSUME NEW k \in Slot, ParkHistory(k) PROVE FinalStep(j)
  BY <1>7 DEF ParkHistory, files
<1>8. ASSUME NEW k \in Slot, ParkSlot(k) PROVE FinalStep(j)
  BY <1>8 DEF ParkSlot, files
<1>9. ASSUME NEW k \in Slot, StartRun(k) PROVE FinalStep(j)
  BY <1>9 DEF StartRun, files
<1>10. ASSUME NEW k \in Slot, CanDispatch(k) PROVE FinalStep(j)
  BY <1>10 DEF CanDispatch, files
<1>11. ASSUME NEW k \in Slot, Admit(k) PROVE FinalStep(j)
  BY <1>11 DEF Admit, files
<1>12. ASSUME NEW k \in Slot, Send(k) PROVE FinalStep(j)
  BY <1>12 DEF Send, files
<1>13. ASSUME NEW k \in Slot, RecordAmbiguous(k) PROVE FinalStep(j)
  BY <1>13 DEF RecordAmbiguous, files
<1>14. ASSUME NEW k \in Slot, RecordQueued(k) PROVE FinalStep(j)
  BY <1>14 DEF RecordQueued, files
<1>15. ASSUME NEW k \in Slot, Mark(k) PROVE FinalStep(j)
  BY <1>15 DEF Mark, files
<1>16. ASSUME NEW k \in Slot, Fails(k) PROVE FinalStep(j)
  BY <1>16 DEF Fails, files
<1>17. ASSUME NEW s \in Session, BeginStop(s) PROVE FinalStep(j)
  BY <1>17 DEF BeginStop, files
<1>18. ASSUME NEW s \in Session, FinishStop(s) PROVE FinalStep(j)
  BY <1>18 DEF FinishStop, files
<1>19. ASSUME NEW s \in Session, Restart(s) PROVE FinalStep(j)
  BY <1>19 DEF Restart, files
<1>20. ASSUME NEW s \in Session, RecoverLoad(s) PROVE FinalStep(j)
  BY <1>20 DEF RecoverLoad, files
<1>21. ASSUME NEW s \in Session, RecoverWrite(s) PROVE FinalStep(j)
  BY <1>21 DEF RecoverWrite, files
<1>22. ASSUME NEW s \in Session, Crash(s) PROVE FinalStep(j)
  BY <1>22 DEF Crash, files
<1>23. ASSUME NEW s \in Session, NEW k \in Slot, ClaimCheck(s, k) PROVE FinalStep(j)
  BY <1>23 DEF ClaimCheck, files
<1>24. ASSUME NEW s \in Session, NEW k \in Slot, NEW d \in Decision,
            DecideTool(s, k, d)
     PROVE  FinalStep(j)
  BY <1>24 DEF DecideTool, Decided, Frozen, IInv, TypeOK, FilesTyped, Decision
<1>25. ASSUME NEW s \in Session, NEW k \in Slot, NEW d \in Decision,
            DecideHub(s, k, d)
     PROVE  FinalStep(j)
  BY <1>25 DEF DecideHub, Frozen, IInv, TypeOK, FilesTyped
<1>26. ASSUME NEW s \in Session, NEW k \in Slot, Close(s, k) PROVE FinalStep(j)
  BY <1>26 DEF Close, files
<1>27. ASSUME NEW s \in Session, NEW k \in Slot, ResumeLoad(s, k) PROVE FinalStep(j)
  BY <1>27 DEF ResumeLoad, files
<1>28. ASSUME NEW s \in Session, NEW k \in Slot, ResumeSlot(s, k) PROVE FinalStep(j)
  BY <1>28 DEF ResumeSlot, files
<1>29. ASSUME NEW s \in Session, NEW k \in Slot, ResumeSave(s, k) PROVE FinalStep(j)
  BY <1>29 DEF ResumeSave, files
<1>30. ASSUME NEW s \in Session, NEW k \in Slot, ResumeSend(s, k) PROVE FinalStep(j)
  BY <1>30 DEF ResumeSend, files
<1>31. ASSUME NEW s \in Session, NEW k \in Slot, ResumeReturn(s, k) PROVE FinalStep(j)
  BY <1>31 DEF ResumeReturn, files
<1>32. ASSUME NEW s \in Session, NEW k \in Slot, ResumeUnsure(s, k) PROVE FinalStep(j)
  BY <1>32 DEF ResumeUnsure, files
<1>33. ASSUME NEW s \in Session, NEW k \in Slot, ResumeInterrupt(s, k) PROVE FinalStep(j)
  BY <1>33 DEF ResumeInterrupt, files
<1>34. ASSUME NEW s \in Session, NEW k \in Slot, HubLoad(s, k) PROVE FinalStep(j)
  BY <1>34 DEF HubLoad, files
<1>35. ASSUME NEW s \in Session, NEW k \in Slot, HubSave(s, k) PROVE FinalStep(j)
  BY <1>35 DEF HubSave, files
<1>36. ASSUME NEW s \in Session, NEW k \in Slot, HubSend(s, k) PROVE FinalStep(j)
  BY <1>36 DEF HubSend, files
<1>37. ASSUME NEW s \in Session, NEW k \in Slot, NEW status \in {"complete", "interrupted"},
            AgentEnd(s, k, status)
     PROVE  FinalStep(j)
  BY <1>37 DEF AgentEnd, files
<1>38. ASSUME NEW s \in Session, NEW k \in Slot, Finalize(s, k) PROVE FinalStep(j)
  <2>1. sent[k] > 0
    BY <1>38 DEF Finalize, IInv, ApprovalFacts, ApprovalFact
  <2>2. \A i \in Slot :
          approval'[i] = approval[i] \/ (i = k /\ approval[i] = "approved" /\ approval'[i] \in {"completed", "deferred"})
    BY <1>38 DEF Finalize, IInv, TypeOK, FilesTyped
  <2> QED
    BY <2>1, <2>2
<1> QED
  BY <1>1, <1>2, <1>3, <1>4, <1>5, <1>6, <1>7, <1>8, <1>9, <1>10, <1>11, <1>12, <1>13,
     <1>14, <1>15, <1>16, <1>17, <1>18, <1>19, <1>20, <1>21, <1>22, <1>23, <1>24, <1>25,
     <1>26, <1>27, <1>28, <1>29, <1>30, <1>31, <1>32, <1>33, <1>34, <1>35, <1>36, <1>37,
     <1>38
     DEF Next, RunStep, SessionStep, ResumeStep, HubStep

\* A rejected or completed artifact never changes again, and an approval ends only after
\* the prompt was sent: for every configuration, the hub's resume included.
THEOREM RunDecisionsAreFinal == Spec => DecisionsAreFinal
<1>1. IInv /\ [Next]_vars =>
        [\A k \in Slot :
           /\ approval[k] \in {"rejected", "completed"} => approval'[k] = approval[k]
           /\ approval[k] = "approved" /\ approval'[k] # "approved" =>
                approval'[k] \in {"completed", "deferred"} /\ sent[k] > 0]_vars
  BY StepFinal DEF FinalStep
<1> QED
  BY RunInvariant, <1>1, PTL DEF Spec, DecisionsAreFinal

\* Where every resume goes through the slot record: a slot says at most what its run did,
\* one session at a time executes or resumes a run, and a prompt about to be sent has not
\* been sent.
InResume == {"slot_ok", "called", "saved", "returning", "unsure", "interrupt"}

SlotFact(k) ==
  /\ pc[k] \in BeforeAdmit => slot[k] = "reserved"
  /\ pc[k] \in {"uncertain", "ambiguous"} => slot[k] \in Blocked \cup {"reserved"}
  /\ pc[k] \in {"send", "record", "called", "returned"} => slot[k] \in Blocked
  /\ pc[k] = "send" => sent[k] = 0
  /\ slot[k] = "approval_pending" => pc[k] = "idle"

ResumeFact(k) ==
  /\ \A s \in Session : rpc[s][k] \notin HubSteps
  /\ \A s \in Session : rpc[s][k] \in InResume => pc[k] = "idle" /\ slot[k] \in Blocked
  /\ \A s, t \in Session : rpc[s][k] \in InResume /\ rpc[t][k] \in InResume => s = t
  /\ \A s \in Session : rpc[s][k] \in {"slot_ok", "called", "saved"} => sent[k] = 0
  /\ \A s \in Session : rpc[s][k] \in {"loaded", "slot_ok", "called", "saved"} =>
                          approval[k] = "approved" \/ sent[k] > 0

SentFact(k) == sent[k] \in {0, 1} /\ (sent[k] > 0 => slot[k] \in Blocked)

SendInv == IInv /\ \A k \in Slot : SlotFact(k) /\ ResumeFact(k) /\ SentFact(k)

\* Nothing is sent at first.
LEMMA InitSendInv == Init => SendInv
<1> SUFFICES ASSUME Init PROVE SendInv
  OBVIOUS
<1> QED
  BY InitIInv DEF Init, SendInv, SlotFact, ResumeFact, SentFact, BeforeAdmit, HubSteps, InResume

\* Every step keeps the invariant of the sends.
LEMMA StepSendInv ==
  ASSUME ~HubResume, SendInv, [Next]_vars, NEW j \in Slot
  PROVE  SlotFact(j)' /\ ResumeFact(j)' /\ SentFact(j)'
<1> USE DEF SendInv, IInv, TypeOK, ApprovalFacts, files
<1>1. CASE UNCHANGED vars
  BY <1>1 DEF vars, memory, ApprovalFact, SlotFact, ResumeFact, SentFact
<1>2. ASSUME NEW k \in Slot, ClaimWrite(k) PROVE SlotFact(j)' /\ ResumeFact(j)' /\ SentFact(j)'
  <2>1. SlotFact(j)'
    BY <1>2, GotoEffect DEF ClaimWrite, FilesTyped, SlotFact, BeforeAdmit, Blocked, RunSteps,
       SentFact, ApprovalFact
  <2>2. ResumeFact(j)'
    BY <1>2, GotoEffect DEF ClaimWrite, FilesTyped, ResumeFact, InResume, HubSteps, Blocked,
       RunSteps, SlotFact, BeforeAdmit, SentFact, ApprovalFact
  <2>3. SentFact(j)'
    BY <1>2, GotoEffect DEF ClaimWrite, RunSteps, FilesTyped, SentFact, Blocked, ApprovalFact
  <2> QED
    BY <2>1, <2>2, <2>3
<1>3. ASSUME NEW k \in Slot, DeliveryGuard(k) PROVE SlotFact(j)' /\ ResumeFact(j)' /\ SentFact(j)'
  <2>1. SlotFact(j)'
    BY <1>3, GotoEffect DEF DeliveryGuard, SlotFact, BeforeAdmit, Blocked, RunSteps, SentFact
  <2>2. ResumeFact(j)'
    BY <1>3, GotoEffect DEF DeliveryGuard, ResumeFact, InResume, HubSteps, Blocked, RunSteps,
       SlotFact, BeforeAdmit, SentFact
  <2>3. SentFact(j)'
    BY <1>3 DEF DeliveryGuard, SentFact, Blocked
  <2> QED
    BY <2>1, <2>2, <2>3
<1>4. ASSUME NEW k \in Slot, Quota(k) PROVE SlotFact(j)' /\ ResumeFact(j)' /\ SentFact(j)'
  <2>1. SlotFact(j)'
    <3>1. /\ Goto(k, "quota", "idle") \/ Goto(k, "quota", "park") \/ Goto(k, "quota", "start")
          /\ UNCHANGED <<slot, approval, sent, rpc>>
      BY <1>4, Zenon DEF Quota
    <3> QED
      BY <3>1, GotoEffect DEF RunSteps, SlotFact, BeforeAdmit, Blocked
  <2>2. ResumeFact(j)'
    <3>1. /\ Goto(k, "quota", "idle") \/ Goto(k, "quota", "park") \/ Goto(k, "quota", "start")
          /\ UNCHANGED <<slot, approval, sent, rpc>>
      BY <1>4, Zenon DEF Quota
    <3> QED
      BY <3>1, GotoEffect DEF RunSteps, ResumeFact, InResume, HubSteps
  <2>3. SentFact(j)'
    BY <1>4 DEF Quota, SentFact, Blocked
  <2> QED
    BY <2>1, <2>2, <2>3
<1>5. ASSUME NEW k \in Slot, ParkArtifact(k) PROVE SlotFact(j)' /\ ResumeFact(j)' /\ SentFact(j)'
  <2>1. SlotFact(j)'
    BY <1>5, GotoEffect DEF ParkArtifact, SlotFact, BeforeAdmit, Blocked, RunSteps, SentFact,
       ApprovalFact
  <2>2. ResumeFact(j)'
    <3>1. /\ approval[k] = "none" /\ pc[k] = "park" /\ slot[k] = "reserved"
          /\ \A i \in Slot : i # k => approval'[i] = approval[i] /\ pc'[i] = pc[i]
          /\ UNCHANGED <<slot, sent, rpc>>
      BY <1>5, GotoEffect DEF ParkArtifact, FilesTyped, RunSteps, ApprovalFact, BeforePark, SlotFact, BeforeAdmit
    <3> QED
      BY <3>1 DEF ResumeFact, InResume, HubSteps, Blocked
  <2>3. SentFact(j)'
    BY <1>5 DEF ParkArtifact, SentFact, Blocked
  <2> QED
    BY <2>1, <2>2, <2>3
<1>6. ASSUME NEW k \in Slot, ParkRunState(k) PROVE SlotFact(j)' /\ ResumeFact(j)' /\ SentFact(j)'
  <2>1. SlotFact(j)'
    BY <1>6, GotoEffect DEF ParkRunState, SlotFact, BeforeAdmit, Blocked, RunSteps, SentFact
  <2>2. ResumeFact(j)'
    BY <1>6, GotoEffect DEF ParkRunState, ResumeFact, InResume, HubSteps, Blocked, RunSteps,
       SlotFact, BeforeAdmit, SentFact
  <2>3. SentFact(j)'
    BY <1>6 DEF ParkRunState, SentFact, Blocked
  <2> QED
    BY <2>1, <2>2, <2>3
<1>7. ASSUME NEW k \in Slot, ParkHistory(k) PROVE SlotFact(j)' /\ ResumeFact(j)' /\ SentFact(j)'
  <2>1. SlotFact(j)'
    BY <1>7, GotoEffect DEF ParkHistory, SlotFact, BeforeAdmit, Blocked, RunSteps, SentFact
  <2>2. ResumeFact(j)'
    BY <1>7, GotoEffect DEF ParkHistory, ResumeFact, InResume, HubSteps, Blocked, RunSteps,
       SlotFact, BeforeAdmit, SentFact
  <2>3. SentFact(j)'
    BY <1>7 DEF ParkHistory, SentFact, Blocked
  <2> QED
    BY <2>1, <2>2, <2>3
<1>8. ASSUME NEW k \in Slot, ParkSlot(k) PROVE SlotFact(j)' /\ ResumeFact(j)' /\ SentFact(j)'
  <2>1. SlotFact(j)'
    BY <1>8, GotoEffect, CasEffect DEF ParkSlot, SlotFact, BeforeAdmit, Blocked, RunSteps,
       SlotStatus, CasSucceeds, SentFact
  <2>2. ResumeFact(j)'
    BY <1>8, GotoEffect, CasEffect DEF ParkSlot, ResumeFact, InResume, HubSteps, Blocked,
       RunSteps, SlotStatus, CasSucceeds, SlotFact, BeforeAdmit, SentFact
  <2>3. SentFact(j)'
    BY <1>8, CasEffect DEF ParkSlot, SentFact, Blocked, SlotStatus, CasSucceeds, SlotFact,
       BeforeAdmit
  <2> QED
    BY <2>1, <2>2, <2>3
<1>9. ASSUME NEW k \in Slot, StartRun(k) PROVE SlotFact(j)' /\ ResumeFact(j)' /\ SentFact(j)'
  <2>1. SlotFact(j)'
    BY <1>9, GotoEffect DEF StartRun, SlotFact, BeforeAdmit, Blocked, RunSteps, SentFact
  <2>2. ResumeFact(j)'
    BY <1>9, GotoEffect DEF StartRun, ResumeFact, InResume, HubSteps, Blocked, RunSteps,
       SlotFact, BeforeAdmit, SentFact
  <2>3. SentFact(j)'
    BY <1>9 DEF StartRun, SentFact, Blocked
  <2> QED
    BY <2>1, <2>2, <2>3
<1>10. ASSUME NEW k \in Slot, CanDispatch(k) PROVE SlotFact(j)' /\ ResumeFact(j)' /\ SentFact(j)'
  <2>1. SlotFact(j)'
    BY <1>10, GotoEffect DEF CanDispatch, SlotFact, BeforeAdmit, Blocked, RunSteps, SentFact
  <2>2. ResumeFact(j)'
    BY <1>10, GotoEffect DEF CanDispatch, ResumeFact, InResume, HubSteps, Blocked, RunSteps,
       SlotFact, BeforeAdmit, SentFact
  <2>3. SentFact(j)'
    BY <1>10 DEF CanDispatch, SentFact, Blocked
  <2> QED
    BY <2>1, <2>2, <2>3
<1>11. ASSUME NEW k \in Slot, Admit(k) PROVE SlotFact(j)' /\ ResumeFact(j)' /\ SentFact(j)'
  <2>1. SlotFact(j)'
    BY <1>11, GotoEffect, CasEffect DEF Admit, SlotFact, BeforeAdmit, Blocked, RunSteps,
       SlotStatus, CasSucceeds, SentFact
  <2>2. ResumeFact(j)'
    BY <1>11, GotoEffect, CasEffect DEF Admit, ResumeFact, InResume, HubSteps, Blocked,
       RunSteps, SlotStatus, CasSucceeds, SlotFact, BeforeAdmit, SentFact
  <2>3. SentFact(j)'
    BY <1>11, CasEffect DEF Admit, SentFact, Blocked, SlotStatus, CasSucceeds, SlotFact,
       BeforeAdmit
  <2> QED
    BY <2>1, <2>2, <2>3
<1>12. ASSUME NEW k \in Slot, Send(k) PROVE SlotFact(j)' /\ ResumeFact(j)' /\ SentFact(j)'
  <2>1. SlotFact(j)'
    BY <1>12, GotoEffect, HandOverEffect DEF Send, SlotFact, BeforeAdmit, Blocked, RunSteps,
       SentFact, ApprovalFact
  <2>2. ResumeFact(j)'
    BY <1>12, GotoEffect, HandOverEffect DEF Send, ResumeFact, InResume, HubSteps, Blocked,
       RunSteps, SlotFact, BeforeAdmit, SentFact, ApprovalFact
  <2>3. SentFact(j)'
    <3>1. pc[k] = "send"
      BY <1>12 DEF Send, Goto
    <3> QED
      BY <1>12, <3>1, HandOverEffect DEF Send, SentFact, Blocked, SlotFact
  <2> QED
    BY <2>1, <2>2, <2>3
<1>13. ASSUME NEW k \in Slot,
            RecordAmbiguous(k)
     PROVE  SlotFact(j)' /\ ResumeFact(j)' /\ SentFact(j)'
  <2>1. SlotFact(j)'
    BY <1>13, GotoEffect DEF RecordAmbiguous, SlotFact, BeforeAdmit, Blocked, RunSteps, SentFact
  <2>2. ResumeFact(j)'
    BY <1>13, GotoEffect DEF RecordAmbiguous, ResumeFact, InResume, HubSteps, Blocked, RunSteps,
       SlotFact, BeforeAdmit, SentFact
  <2>3. SentFact(j)'
    BY <1>13 DEF RecordAmbiguous, SentFact, Blocked
  <2> QED
    BY <2>1, <2>2, <2>3
<1>14. ASSUME NEW k \in Slot, RecordQueued(k) PROVE SlotFact(j)' /\ ResumeFact(j)' /\ SentFact(j)'
  <2>1. SlotFact(j)'
    BY <1>14, GotoEffect DEF RecordQueued, SlotFact, BeforeAdmit, Blocked, RunSteps, SentFact
  <2>2. ResumeFact(j)'
    BY <1>14, GotoEffect DEF RecordQueued, ResumeFact, InResume, HubSteps, Blocked, RunSteps,
       SlotFact, BeforeAdmit, SentFact
  <2>3. SentFact(j)'
    BY <1>14 DEF RecordQueued, SentFact, Blocked
  <2> QED
    BY <2>1, <2>2, <2>3
<1>15. ASSUME NEW k \in Slot, Mark(k) PROVE SlotFact(j)' /\ ResumeFact(j)' /\ SentFact(j)'
  <2>1. SlotFact(j)'
    BY <1>15, GotoEffect, CasEffect DEF Mark, SlotFact, BeforeAdmit, Blocked, RunSteps,
       SlotStatus, CasSucceeds, SentFact
  <2>2. ResumeFact(j)'
    BY <1>15, GotoEffect, CasEffect DEF Mark, ResumeFact, InResume, HubSteps, Blocked, RunSteps,
       SlotStatus, CasSucceeds, SlotFact, BeforeAdmit, SentFact
  <2>3. SentFact(j)'
    BY <1>15, CasEffect DEF Mark, SentFact, Blocked, SlotStatus, CasSucceeds, SlotFact,
       BeforeAdmit
  <2> QED
    BY <2>1, <2>2, <2>3
<1>16. ASSUME NEW k \in Slot, Fails(k) PROVE SlotFact(j)' /\ ResumeFact(j)' /\ SentFact(j)'
  <2>1. SlotFact(j)'
    BY <1>16, GotoEffect, CasEffect DEF Fails, RunsTyped, SlotFact, BeforeAdmit, Blocked,
       RunSteps, SlotStatus, CasSucceeds, SentFact
  <2>2. ResumeFact(j)'
    BY <1>16, GotoEffect, CasEffect DEF Fails, RunsTyped, ResumeFact, InResume, HubSteps,
       Blocked, RunSteps, SlotStatus, CasSucceeds, SlotFact, BeforeAdmit, SentFact
  <2>3. SentFact(j)'
    BY <1>16, CasEffect DEF Fails, SentFact, Blocked, SlotStatus, CasSucceeds, SlotFact,
       BeforeAdmit
  <2> QED
    BY <2>1, <2>2, <2>3
<1>17. ASSUME NEW s \in Session, BeginStop(s) PROVE SlotFact(j)' /\ ResumeFact(j)' /\ SentFact(j)'
  <2>1. SlotFact(j)'
    BY <1>17 DEF BeginStop, SlotFact, BeforeAdmit, Blocked
  <2>2. ResumeFact(j)'
    BY <1>17 DEF BeginStop, ResumeFact, InResume, HubSteps, Blocked
  <2>3. SentFact(j)'
    BY <1>17 DEF BeginStop, SentFact, Blocked
  <2> QED
    BY <2>1, <2>2, <2>3
<1>18. ASSUME NEW s \in Session, FinishStop(s) PROVE SlotFact(j)' /\ ResumeFact(j)' /\ SentFact(j)'
  <2>1. SlotFact(j)'
    BY <1>18 DEF FinishStop, SlotFact, BeforeAdmit, Blocked
  <2>2. ResumeFact(j)'
    BY <1>18 DEF FinishStop, ResumeFact, InResume, HubSteps, Blocked
  <2>3. SentFact(j)'
    BY <1>18 DEF FinishStop, SentFact, Blocked
  <2> QED
    BY <2>1, <2>2, <2>3
<1>19. ASSUME NEW s \in Session, Restart(s) PROVE SlotFact(j)' /\ ResumeFact(j)' /\ SentFact(j)'
  <2>1. SlotFact(j)'
    BY <1>19 DEF Restart, SlotFact, BeforeAdmit, Blocked
  <2>2. ResumeFact(j)'
    BY <1>19 DEF Restart, ResumeFact, InResume, HubSteps, Blocked
  <2>3. SentFact(j)'
    BY <1>19 DEF Restart, SentFact, Blocked
  <2> QED
    BY <2>1, <2>2, <2>3
<1>20. ASSUME NEW s \in Session, RecoverLoad(s) PROVE SlotFact(j)' /\ ResumeFact(j)' /\ SentFact(j)'
  <2>1. SlotFact(j)'
    BY <1>20 DEF RecoverLoad, SlotFact, BeforeAdmit, Blocked
  <2>2. ResumeFact(j)'
    BY <1>20 DEF RecoverLoad, ResumeFact, InResume, HubSteps, Blocked
  <2>3. SentFact(j)'
    BY <1>20 DEF RecoverLoad, SentFact, Blocked
  <2> QED
    BY <2>1, <2>2, <2>3
<1>21. ASSUME NEW s \in Session,
            RecoverWrite(s)
     PROVE  SlotFact(j)' /\ ResumeFact(j)' /\ SentFact(j)'
  <2>1. SlotFact(j)'
    BY <1>21 DEF RecoverWrite, SlotFact, BeforeAdmit, Blocked
  <2>2. ResumeFact(j)'
    BY <1>21 DEF RecoverWrite, ResumeFact, InResume, HubSteps, Blocked
  <2>3. SentFact(j)'
    BY <1>21 DEF RecoverWrite, SentFact, Blocked
  <2> QED
    BY <2>1, <2>2, <2>3
<1>22. ASSUME NEW s \in Session, Crash(s) PROVE SlotFact(j)' /\ ResumeFact(j)' /\ SentFact(j)'
  <2>1. SlotFact(j)'
    BY <1>22 DEF Crash, RunsTyped, SlotFact, BeforeAdmit, Blocked, SentFact
  <2>2. ResumeFact(j)'
    BY <1>22 DEF Crash, RunsTyped, ResumeFact, InResume, HubSteps, Blocked, SlotFact,
       BeforeAdmit, SentFact
  <2>3. SentFact(j)'
    BY <1>22 DEF Crash, SentFact, Blocked
  <2> QED
    BY <2>1, <2>2, <2>3
<1>23. ASSUME NEW s \in Session, NEW k \in Slot,
            ClaimCheck(s, k)
     PROVE  SlotFact(j)' /\ ResumeFact(j)' /\ SentFact(j)'
  <2>1. SlotFact(j)'
    BY <1>23, GotoEffect DEF ClaimCheck, SlotFact, BeforeAdmit, Blocked, RunSteps, SentFact,
       ApprovalFact
  <2>2. ResumeFact(j)'
    BY <1>23, GotoEffect DEF ClaimCheck, ResumeFact, InResume, HubSteps, Blocked, RunSteps,
       SlotFact, BeforeAdmit, SentFact, ApprovalFact
  <2>3. SentFact(j)'
    BY <1>23 DEF ClaimCheck, SentFact, Blocked
  <2> QED
    BY <2>1, <2>2, <2>3
<1>24. ASSUME NEW s \in Session, NEW k \in Slot, NEW d \in Decision,
            DecideTool(s, k, d)
     PROVE  SlotFact(j)' /\ ResumeFact(j)' /\ SentFact(j)'
  <2>1. SlotFact(j)'
    BY <1>24 DEF DecideTool, SlotFact, BeforeAdmit, Blocked
  <2>2. ResumeFact(j)'
    <3>1. \/ Moved(s, k, "idle", "approved")
          \/ Moved(s, k, "idle", "closing")
          \/ Moved(s, k, "idle", "idle")
      BY <1>24, RGotoEffect DEF DecideTool, ResumeSteps, DecisionSteps
    <3>2. /\ \A i \in Slot : approval[i] = "approved" => approval'[i] = "approved"
          /\ UNCHANGED <<slot, pc, sent>>
      BY <1>24 DEF DecideTool, Decided, Frozen, FilesTyped
    <3> QED
      BY <3>1, <3>2 DEF Moved, ResumeFact, InResume, HubSteps, Blocked, SentFact
  <2>3. SentFact(j)'
    BY <1>24 DEF DecideTool, SentFact, Blocked
  <2> QED
    BY <2>1, <2>2, <2>3
<1>25. ASSUME NEW s \in Session, NEW k \in Slot, NEW d \in Decision,
            DecideHub(s, k, d)
     PROVE  SlotFact(j)' /\ ResumeFact(j)' /\ SentFact(j)'
  <2>1. SlotFact(j)'
    BY <1>25 DEF DecideHub, SlotFact, BeforeAdmit, Blocked
  <2>2. ResumeFact(j)'
    BY <1>25, RGotoEffect DEF DecideHub, FilesTyped, ResumeFact, InResume, HubSteps, Blocked,
       ResumeSteps, DecisionSteps, SentFact, Frozen
  <2>3. SentFact(j)'
    BY <1>25 DEF DecideHub, SentFact, Blocked
  <2> QED
    BY <2>1, <2>2, <2>3
<1>26. ASSUME NEW s \in Session, NEW k \in Slot,
            Close(s, k)
     PROVE  SlotFact(j)' /\ ResumeFact(j)' /\ SentFact(j)'
  <2>1. SlotFact(j)'
    BY <1>26 DEF Close, SlotFact, BeforeAdmit, Blocked
  <2>2. ResumeFact(j)'
    <3>1. \/ Moved(s, k, "closing", "close_save")
          \/ Moved(s, k, "closing", "idle")
          \/ Moved(s, k, "close_save", "idle")
      BY <1>26, RGotoEffect DEF Close, ResumeSteps, DecisionSteps
    <3>2. /\ UNCHANGED <<slot, pc, approval, sent>>
      BY <1>26 DEF Close
    <3> QED
      BY <3>1, <3>2 DEF Moved, ResumeFact, InResume, HubSteps, Blocked, SentFact
  <2>3. SentFact(j)'
    BY <1>26 DEF Close, SentFact, Blocked
  <2> QED
    BY <2>1, <2>2, <2>3
<1>27. ASSUME NEW s \in Session, NEW k \in Slot,
            ResumeLoad(s, k)
     PROVE  SlotFact(j)' /\ ResumeFact(j)' /\ SentFact(j)'
  <2>1. SlotFact(j)'
    BY <1>27 DEF ResumeLoad, SlotFact, BeforeAdmit, Blocked
  <2>2. ResumeFact(j)'
    <3>1. \/ Moved(s, k, "approved", "loaded") /\ approval[k] = "approved"
          \/ Moved(s, k, "approved", "idle")
      BY <1>27, RGotoEffect DEF ResumeLoad, ResumeSteps, DecisionSteps
    <3>2. /\ UNCHANGED <<slot, pc, approval, sent>>
      BY <1>27 DEF ResumeLoad
    <3> QED
      BY <3>1, <3>2 DEF Moved, ResumeFact, InResume, HubSteps, Blocked, SentFact
  <2>3. SentFact(j)'
    BY <1>27 DEF ResumeLoad, SentFact, Blocked
  <2> QED
    BY <2>1, <2>2, <2>3
<1>28. ASSUME NEW s \in Session, NEW k \in Slot,
            ResumeSlot(s, k)
     PROVE  SlotFact(j)' /\ ResumeFact(j)' /\ SentFact(j)'
  <2>1. SlotFact(j)'
    BY <1>28, CasEffect DEF ResumeSlot, SlotFact, BeforeAdmit, Blocked, SlotStatus, CasSucceeds,
       ResumeFact, InResume, HubSteps, SentFact
  <2>2. ResumeFact(j)'
    <3>1. \/ Moved(s, k, "loaded", "slot_ok") /\ slot[k] = "approval_pending" /\ slot'[k] = "admitted"
          \/ Moved(s, k, "loaded", "idle")
          \/ Moved(s, k, "slot_ok", "called")
      BY <1>28, RGotoEffect, CasEffect DEF ResumeSlot, CasSucceeds, SlotStatus, ResumeSteps,
         DecisionSteps
    <3>2. /\ \A i \in Slot : slot'[i] = slot[i] \/ slot'[i] \in Blocked
          /\ UNCHANGED <<pc, approval, sent>>
      BY <1>28, CasEffect DEF ResumeSlot, CasSucceeds, SlotStatus, Blocked
    <3> QED
      BY <3>1, <3>2 DEF Moved, ResumeFact, InResume, HubSteps, Blocked, SentFact, SlotFact,
         BeforeAdmit
  <2>3. SentFact(j)'
    BY <1>28, CasEffect DEF ResumeSlot, SentFact, Blocked, SlotStatus, CasSucceeds, ResumeFact,
       InResume, HubSteps
  <2> QED
    BY <2>1, <2>2, <2>3
<1>29. ASSUME NEW s \in Session, NEW k \in Slot,
            ResumeSave(s, k)
     PROVE  SlotFact(j)' /\ ResumeFact(j)' /\ SentFact(j)'
  <2>1. SlotFact(j)'
    BY <1>29 DEF ResumeSave, SlotFact, BeforeAdmit, Blocked
  <2>2. ResumeFact(j)'
    <3>1. Moved(s, k, "called", "saved")
      BY <1>29, RGotoEffect DEF ResumeSave, ResumeSteps, DecisionSteps
    <3>2. /\ UNCHANGED <<slot, pc, approval, sent>>
      BY <1>29 DEF ResumeSave
    <3> QED
      BY <3>1, <3>2 DEF Moved, ResumeFact, InResume, HubSteps, Blocked, SentFact
  <2>3. SentFact(j)'
    BY <1>29 DEF ResumeSave, SentFact, Blocked
  <2> QED
    BY <2>1, <2>2, <2>3
<1>30. ASSUME NEW s \in Session, NEW k \in Slot,
            ResumeSend(s, k)
     PROVE  SlotFact(j)' /\ ResumeFact(j)' /\ SentFact(j)'
  <2>1. SlotFact(j)'
    <3>1. rpc[s][k] = "saved"
      BY <1>30 DEF ResumeSend, RGoto
    <3> QED
      BY <1>30, <3>1, HandOverEffect DEF ResumeSend, SlotFact, BeforeAdmit, Blocked, ResumeFact, InResume
  <2>2. ResumeFact(j)'
    <3>1. \/ Moved(s, k, "saved", "idle")
          \/ Moved(s, k, "saved", "returning")
          \/ Moved(s, k, "saved", "unsure")
      BY <1>30, RGotoEffect DEF ResumeSend, ResumeSteps, DecisionSteps
    <3>2. /\ \A i \in Slot : i # k => sent'[i] = sent[i]
          /\ UNCHANGED <<slot, pc, approval>>
      BY <1>30, HandOverEffect DEF ResumeSend
    <3> QED
      BY <3>1, <3>2 DEF Moved, ResumeFact, InResume, HubSteps, Blocked, SentFact
  <2>3. SentFact(j)'
    <3>1. rpc[s][k] = "saved"
      BY <1>30 DEF ResumeSend, RGoto
    <3> QED
      BY <1>30, <3>1, HandOverEffect DEF ResumeSend, SentFact, Blocked, ResumeFact, InResume
  <2> QED
    BY <2>1, <2>2, <2>3
<1>31. ASSUME NEW s \in Session, NEW k \in Slot,
            ResumeReturn(s, k)
     PROVE  SlotFact(j)' /\ ResumeFact(j)' /\ SentFact(j)'
  <2>1. SlotFact(j)'
    BY <1>31, CasEffect DEF ResumeReturn, SlotFact, BeforeAdmit, Blocked, SlotStatus,
       CasSucceeds, ResumeFact, InResume, HubSteps, SentFact
  <2>2. ResumeFact(j)'
    <3>1. \/ Moved(s, k, "returning", "idle")
          \/ Moved(s, k, "returning", "unsure")
      BY <1>31, RGotoEffect DEF ResumeReturn, ResumeSteps, DecisionSteps
    <3>2. /\ \A i \in Slot : slot'[i] = slot[i] \/ (slot[i] \in Blocked /\ slot'[i] \in Blocked)
          /\ UNCHANGED <<pc, approval, sent>>
      BY <1>31, CasEffect DEF ResumeReturn, CasSucceeds, SlotStatus, Blocked
    <3> QED
      BY <3>1, <3>2 DEF Moved, ResumeFact, InResume, HubSteps, Blocked, SentFact
  <2>3. SentFact(j)'
    BY <1>31, CasEffect DEF ResumeReturn, SentFact, Blocked, SlotStatus, CasSucceeds,
       ResumeFact, InResume, HubSteps
  <2> QED
    BY <2>1, <2>2, <2>3
<1>32. ASSUME NEW s \in Session, NEW k \in Slot,
            ResumeUnsure(s, k)
     PROVE  SlotFact(j)' /\ ResumeFact(j)' /\ SentFact(j)'
  <2>1. SlotFact(j)'
    BY <1>32, CasEffect DEF ResumeUnsure, SlotFact, BeforeAdmit, Blocked, SlotStatus,
       CasSucceeds, ResumeFact, InResume, HubSteps, SentFact
  <2>2. ResumeFact(j)'
    <3>1. Moved(s, k, "unsure", "interrupt")
      BY <1>32, RGotoEffect DEF ResumeUnsure, ResumeSteps, DecisionSteps
    <3>2. /\ \A i \in Slot : slot'[i] = slot[i] \/ (slot[i] \in Blocked /\ slot'[i] \in Blocked)
          /\ UNCHANGED <<pc, approval, sent>>
      BY <1>32, CasEffect DEF ResumeUnsure, CasSucceeds, SlotStatus, Blocked
    <3> QED
      BY <3>1, <3>2 DEF Moved, ResumeFact, InResume, HubSteps, Blocked, SentFact
  <2>3. SentFact(j)'
    BY <1>32, CasEffect DEF ResumeUnsure, SentFact, Blocked, SlotStatus, CasSucceeds,
       ResumeFact, InResume, HubSteps
  <2> QED
    BY <2>1, <2>2, <2>3
<1>33. ASSUME NEW s \in Session, NEW k \in Slot,
            ResumeInterrupt(s, k)
     PROVE  SlotFact(j)' /\ ResumeFact(j)' /\ SentFact(j)'
  <2>1. SlotFact(j)'
    BY <1>33 DEF ResumeInterrupt, SlotFact, BeforeAdmit, Blocked
  <2>2. ResumeFact(j)'
    <3>1. Moved(s, k, "interrupt", "idle")
      BY <1>33, RGotoEffect DEF ResumeInterrupt, ResumeSteps, DecisionSteps
    <3>2. /\ UNCHANGED <<slot, pc, approval, sent>>
      BY <1>33 DEF ResumeInterrupt
    <3> QED
      BY <3>1, <3>2 DEF Moved, ResumeFact, InResume, HubSteps, Blocked, SentFact
  <2>3. SentFact(j)'
    BY <1>33 DEF ResumeInterrupt, SentFact, Blocked
  <2> QED
    BY <2>1, <2>2, <2>3
<1>34. ASSUME NEW s \in Session, NEW k \in Slot,
            HubLoad(s, k)
     PROVE  SlotFact(j)' /\ ResumeFact(j)' /\ SentFact(j)'
  <2>1. SlotFact(j)'
    BY <1>34 DEF HubLoad, SlotFact, BeforeAdmit, Blocked, RGoto
  <2>2. ResumeFact(j)'
    BY <1>34, RGotoEffect DEF HubLoad, ResumeFact, InResume, HubSteps, Blocked, ResumeSteps,
       DecisionSteps, SentFact, RGoto
  <2>3. SentFact(j)'
    BY <1>34 DEF HubLoad, SentFact, Blocked, RGoto
  <2> QED
    BY <2>1, <2>2, <2>3
<1>35. ASSUME NEW s \in Session, NEW k \in Slot,
            HubSave(s, k)
     PROVE  SlotFact(j)' /\ ResumeFact(j)' /\ SentFact(j)'
  <2>1. SlotFact(j)'
    BY <1>35 DEF HubSave, SlotFact, BeforeAdmit, Blocked, RGoto
  <2>2. ResumeFact(j)'
    BY <1>35, RGotoEffect DEF HubSave, ResumeFact, InResume, HubSteps, Blocked, ResumeSteps,
       DecisionSteps, SentFact, RGoto
  <2>3. SentFact(j)'
    BY <1>35 DEF HubSave, SentFact, Blocked, RGoto
  <2> QED
    BY <2>1, <2>2, <2>3
<1>36. ASSUME NEW s \in Session, NEW k \in Slot,
            HubSend(s, k)
     PROVE  SlotFact(j)' /\ ResumeFact(j)' /\ SentFact(j)'
  <2>1. SlotFact(j)'
    BY <1>36, HandOverEffect DEF HubSend, SlotFact, BeforeAdmit, Blocked, ResumeFact, InResume,
       HubSteps, SentFact, RGoto
  <2>2. ResumeFact(j)'
    BY <1>36, RGotoEffect, HandOverEffect DEF HubSend, ResumeFact, InResume, HubSteps, Blocked,
       ResumeSteps, DecisionSteps, SentFact, RGoto
  <2>3. SentFact(j)'
    BY <1>36, HandOverEffect DEF HubSend, SentFact, Blocked, ResumeFact, InResume, HubSteps,
       RGoto
  <2> QED
    BY <2>1, <2>2, <2>3
<1>37. ASSUME NEW s \in Session, NEW k \in Slot, NEW status \in {"complete", "interrupted"},
            AgentEnd(s, k, status)
     PROVE  SlotFact(j)' /\ ResumeFact(j)' /\ SentFact(j)'
  <2>1. SlotFact(j)'
    BY <1>37 DEF AgentEnd, SlotFact, BeforeAdmit, Blocked
  <2>2. ResumeFact(j)'
    BY <1>37 DEF AgentEnd, ResumeFact, InResume, HubSteps, Blocked
  <2>3. SentFact(j)'
    BY <1>37 DEF AgentEnd, SentFact, Blocked
  <2> QED
    BY <2>1, <2>2, <2>3
<1>38. ASSUME NEW s \in Session, NEW k \in Slot,
            Finalize(s, k)
     PROVE  SlotFact(j)' /\ ResumeFact(j)' /\ SentFact(j)'
  <2>1. SlotFact(j)'
    BY <1>38 DEF Finalize, SlotFact, BeforeAdmit, Blocked
  <2>2. ResumeFact(j)'
    BY <1>38 DEF Finalize, FilesTyped, ResumeFact, InResume, HubSteps, Blocked, SentFact,
       ApprovalFact
  <2>3. SentFact(j)'
    BY <1>38 DEF Finalize, SentFact, Blocked
  <2> QED
    BY <2>1, <2>2, <2>3
<1> QED
  BY <1>1, <1>2, <1>3, <1>4, <1>5, <1>6, <1>7, <1>8, <1>9, <1>10, <1>11, <1>12, <1>13,
     <1>14, <1>15, <1>16, <1>17, <1>18, <1>19, <1>20, <1>21, <1>22, <1>23, <1>24, <1>25,
     <1>26, <1>27, <1>28, <1>29, <1>30, <1>31, <1>32, <1>33, <1>34, <1>35, <1>36, <1>37,
     <1>38
     DEF Next, RunStep, SessionStep, ResumeStep, HubStep

\* The invariant of the sends, where every resume goes through the slot record.
LEMMA SendInvariant == ASSUME ~HubResume PROVE Spec => []SendInv
<1>1. SendInv /\ [Next]_vars => SendInv'
  BY StepTypeOK, StepApprovalFacts, StepSendInv DEF SendInv, IInv, Slot
<1> QED
  BY InitSendInv, <1>1, PTL DEF Spec

\* A due minute reaches the host at most once: for every number of sessions, with crashes,
\* restarts, failures and tool resumes.
THEOREM RunAtMostOneSend == ASSUME ~HubResume PROVE Spec => []AtMostOneSend
<1>1. SendInv => AtMostOneSend
  BY DEF SendInv, SentFact, AtMostOneSend
<1> QED
  BY SendInvariant, <1>1, PTL

\* A slot whose prompt may have reached the host is blocked for ever.
THEOREM RunSentIsBlocked == ASSUME ~HubResume PROVE Spec => []SentIsBlocked
<1>1. SendInv => SentIsBlocked
  BY DEF SendInv, SentFact, SentIsBlocked, Blocked
<1> QED
  BY SendInvariant, <1>1, PTL

\* What a step that first hands a prompt to the host finds in its artifact.
FirstSend(k) == sent[k] = 0 /\ sent'[k] > 0 /\ approval[k] # "none" => approval[k] = "approved"

\* Only an approved run is sent for the first time.
LEMMA StepFirstSend == ASSUME SendInv, [Next]_vars, NEW j \in Slot PROVE FirstSend(j)
<1> USE DEF FirstSend
<1>1. CASE UNCHANGED vars
  BY <1>1 DEF vars
<1>2. ASSUME NEW k \in Slot, ClaimWrite(k) PROVE FirstSend(j)
  BY <1>2 DEF ClaimWrite, files
<1>3. ASSUME NEW k \in Slot, DeliveryGuard(k) PROVE FirstSend(j)
  BY <1>3 DEF DeliveryGuard, files
<1>4. ASSUME NEW k \in Slot, Quota(k) PROVE FirstSend(j)
  BY <1>4 DEF Quota, files
<1>5. ASSUME NEW k \in Slot, ParkArtifact(k) PROVE FirstSend(j)
  BY <1>5 DEF ParkArtifact, files
<1>6. ASSUME NEW k \in Slot, ParkRunState(k) PROVE FirstSend(j)
  BY <1>6 DEF ParkRunState, files
<1>7. ASSUME NEW k \in Slot, ParkHistory(k) PROVE FirstSend(j)
  BY <1>7 DEF ParkHistory, files
<1>8. ASSUME NEW k \in Slot, ParkSlot(k) PROVE FirstSend(j)
  BY <1>8 DEF ParkSlot, files
<1>9. ASSUME NEW k \in Slot, StartRun(k) PROVE FirstSend(j)
  BY <1>9 DEF StartRun, files
<1>10. ASSUME NEW k \in Slot, CanDispatch(k) PROVE FirstSend(j)
  BY <1>10 DEF CanDispatch, files
<1>11. ASSUME NEW k \in Slot, Admit(k) PROVE FirstSend(j)
  BY <1>11 DEF Admit, files
<1>12. ASSUME NEW k \in Slot, Send(k) PROVE FirstSend(j)
  BY <1>12, GotoEffect, HandOverEffect DEF Send, RunSteps, SendInv, IInv, TypeOK, ApprovalFacts, ApprovalFact, BeforePark
<1>13. ASSUME NEW k \in Slot, RecordAmbiguous(k) PROVE FirstSend(j)
  BY <1>13 DEF RecordAmbiguous, files
<1>14. ASSUME NEW k \in Slot, RecordQueued(k) PROVE FirstSend(j)
  BY <1>14 DEF RecordQueued, files
<1>15. ASSUME NEW k \in Slot, Mark(k) PROVE FirstSend(j)
  BY <1>15 DEF Mark, files
<1>16. ASSUME NEW k \in Slot, Fails(k) PROVE FirstSend(j)
  BY <1>16 DEF Fails, files
<1>17. ASSUME NEW s \in Session, BeginStop(s) PROVE FirstSend(j)
  BY <1>17 DEF BeginStop, files
<1>18. ASSUME NEW s \in Session, FinishStop(s) PROVE FirstSend(j)
  BY <1>18 DEF FinishStop, files
<1>19. ASSUME NEW s \in Session, Restart(s) PROVE FirstSend(j)
  BY <1>19 DEF Restart, files
<1>20. ASSUME NEW s \in Session, RecoverLoad(s) PROVE FirstSend(j)
  BY <1>20 DEF RecoverLoad, files
<1>21. ASSUME NEW s \in Session, RecoverWrite(s) PROVE FirstSend(j)
  BY <1>21 DEF RecoverWrite, files
<1>22. ASSUME NEW s \in Session, Crash(s) PROVE FirstSend(j)
  BY <1>22 DEF Crash, files
<1>23. ASSUME NEW s \in Session, NEW k \in Slot, ClaimCheck(s, k) PROVE FirstSend(j)
  BY <1>23 DEF ClaimCheck, files
<1>24. ASSUME NEW s \in Session, NEW k \in Slot, NEW d \in Decision,
            DecideTool(s, k, d)
     PROVE  FirstSend(j)
  BY <1>24 DEF DecideTool, files
<1>25. ASSUME NEW s \in Session, NEW k \in Slot, NEW d \in Decision,
            DecideHub(s, k, d)
     PROVE  FirstSend(j)
  BY <1>25 DEF DecideHub, files
<1>26. ASSUME NEW s \in Session, NEW k \in Slot, Close(s, k) PROVE FirstSend(j)
  BY <1>26 DEF Close, files
<1>27. ASSUME NEW s \in Session, NEW k \in Slot, ResumeLoad(s, k) PROVE FirstSend(j)
  BY <1>27 DEF ResumeLoad, files
<1>28. ASSUME NEW s \in Session, NEW k \in Slot, ResumeSlot(s, k) PROVE FirstSend(j)
  BY <1>28 DEF ResumeSlot, files
<1>29. ASSUME NEW s \in Session, NEW k \in Slot, ResumeSave(s, k) PROVE FirstSend(j)
  BY <1>29 DEF ResumeSave, files
<1>30. ASSUME NEW s \in Session, NEW k \in Slot, ResumeSend(s, k) PROVE FirstSend(j)
  <2>1. rpc[s][k] = "saved"
    BY <1>30 DEF ResumeSend, RGoto
  <2>2. \A i \in Slot : i # k => sent'[i] = sent[i]
    BY <1>30, HandOverEffect DEF ResumeSend, SendInv, IInv, TypeOK
  <2> QED
    BY <2>1, <2>2 DEF SendInv, ResumeFact
<1>31. ASSUME NEW s \in Session, NEW k \in Slot, ResumeReturn(s, k) PROVE FirstSend(j)
  BY <1>31 DEF ResumeReturn, files
<1>32. ASSUME NEW s \in Session, NEW k \in Slot, ResumeUnsure(s, k) PROVE FirstSend(j)
  BY <1>32 DEF ResumeUnsure, files
<1>33. ASSUME NEW s \in Session, NEW k \in Slot, ResumeInterrupt(s, k) PROVE FirstSend(j)
  BY <1>33 DEF ResumeInterrupt, files
<1>34. ASSUME NEW s \in Session, NEW k \in Slot, HubLoad(s, k) PROVE FirstSend(j)
  BY <1>34 DEF HubLoad, files
<1>35. ASSUME NEW s \in Session, NEW k \in Slot, HubSave(s, k) PROVE FirstSend(j)
  BY <1>35 DEF HubSave, files
<1>36. ASSUME NEW s \in Session, NEW k \in Slot, HubSend(s, k) PROVE FirstSend(j)
  BY <1>36 DEF HubSend, RGoto, SendInv, ResumeFact, HubSteps
<1>37. ASSUME NEW s \in Session, NEW k \in Slot, NEW status \in {"complete", "interrupted"},
            AgentEnd(s, k, status)
     PROVE  FirstSend(j)
  BY <1>37 DEF AgentEnd, files
<1>38. ASSUME NEW s \in Session, NEW k \in Slot, Finalize(s, k) PROVE FirstSend(j)
  BY <1>38 DEF Finalize, files
<1> QED
  BY <1>1, <1>2, <1>3, <1>4, <1>5, <1>6, <1>7, <1>8, <1>9, <1>10, <1>11, <1>12, <1>13,
     <1>14, <1>15, <1>16, <1>17, <1>18, <1>19, <1>20, <1>21, <1>22, <1>23, <1>24, <1>25,
     <1>26, <1>27, <1>28, <1>29, <1>30, <1>31, <1>32, <1>33, <1>34, <1>35, <1>36, <1>37,
     <1>38
     DEF Next, RunStep, SessionStep, ResumeStep, HubStep

\* A parked run reaches the host only while its artifact says approved.
THEOREM RunApprovedBeforeFirstSend == ASSUME ~HubResume PROVE Spec => ApprovedBeforeFirstSend
<1>1. SendInv /\ [Next]_vars =>
        [\A k \in Slot : sent[k] = 0 /\ sent'[k] > 0 /\ approval[k] # "none"
            => approval[k] = "approved"]_vars
  BY StepFirstSend DEF FirstSend
<1> QED
  BY SendInvariant, <1>1, PTL DEF Spec, ApprovedBeforeFirstSend


(***************************************************************************)
(* The Matrix channel: what the saved cursor covers                        *)
(***************************************************************************)

\* A token, or none.
OrNone == M!Token \cup {None}

\* The shapes of the channel, of the cursor and of the sync loop.
ChannelTyped ==
  /\ channel \in [on : BOOLEAN, buffer : Seq(M!Event), recent : SUBSET M!Event, replyTo : M!Event \cup {None}]
  /\ ~channel.on => channel.buffer = <<>>
CursorTyped ==
  /\ cursor \in [latest : OrNone, persisted : OrNone, writes : Seq(M!Token)]
  /\ file \in OrNone /\ stale \in Seq(M!Token) /\ posted \in M!Token
LoopTyped == sdk \in [on : BOOLEAN, ready : BOOLEAN, since : M!Token, batch : Seq(M!Task), next : OrNone]

\* A cursor that was let go covers only what was read or was let past.
Covered(w) == \A n \in M!Event : n <= w => n \in late \cup read

CoveredAll ==
  /\ file # None => Covered(file)
  /\ \A i \in DOMAIN stale : Covered(stale[i])
  /\ \A i \in DOMAIN cursor.writes : Covered(cursor.writes[i])

CursorInv == ChannelTyped /\ CursorTyped /\ LoopTyped /\ CoveredAll

\* Events and tokens are numbers, and none of them is no event.
LEMMA MatrixBounds ==
  /\ MaxEvents \in Nat /\ None \notin Nat
  /\ M!Event \subseteq Nat /\ None \notin M!Event /\ None \notin M!Token
  /\ \A t \in M!Task : t[1] \in M!Event
  BY InboxAssumption DEF M!MatrixAssumption, M!Event, M!Token, M!Task

\* The empty line.
LEMMA NoLines == <<>> \in Seq(M!Token) /\ <<>> \in Seq(M!Event) /\ <<>> \in Seq(M!Task)
  OBVIOUS

\* The places of a sequence of tokens that loses its head or gains one at the end.
LEMMA TokenLines ==
  ASSUME NEW s \in Seq(M!Token)
  PROVE /\ s # <<>> => /\ Head(s) \in M!Token /\ Tail(s) \in Seq(M!Token) /\ Head(s) = s[1] /\ 1 \in DOMAIN s
                       /\ \A i \in DOMAIN Tail(s) : i + 1 \in DOMAIN s /\ Tail(s)[i] = s[i + 1]
        /\ \A k \in M!Token : /\ Append(s, k) \in Seq(M!Token) /\ Append(s, k) # s
                              /\ \A i \in DOMAIN Append(s, k) : Append(s, k)[i] = k \/ (i \in DOMAIN s /\ Append(s, k)[i] = s[i])
        /\ \A r \in Seq(M!Token) : /\ s \o r \in Seq(M!Token)
             /\ \A i \in DOMAIN (s \o r) :
                  \/ i \in DOMAIN s /\ (s \o r)[i] = s[i]
                  \/ i - Len(s) \in DOMAIN r /\ (s \o r)[i] = r[i - Len(s)]
<1>1. ASSUME s # <<>>
      PROVE /\ Head(s) \in M!Token /\ Tail(s) \in Seq(M!Token) /\ Head(s) = s[1] /\ 1 \in DOMAIN s
            /\ \A i \in DOMAIN Tail(s) : i + 1 \in DOMAIN s /\ Tail(s)[i] = s[i + 1]
  BY <1>1
<1>2. ASSUME NEW k \in M!Token
      PROVE /\ Append(s, k) \in Seq(M!Token) /\ Append(s, k) # s
            /\ \A i \in DOMAIN Append(s, k) : Append(s, k)[i] = k \/ (i \in DOMAIN s /\ Append(s, k)[i] = s[i])
  <2>1. Len(Append(s, k)) = Len(s) + 1
    OBVIOUS
  <2>2. Append(s, k) # s
    BY <2>1
  <2>3. \A i \in DOMAIN Append(s, k) : Append(s, k)[i] = k \/ (i \in DOMAIN s /\ Append(s, k)[i] = s[i])
    OBVIOUS
  <2> QED BY <2>2, <2>3
<1>3. ASSUME NEW r \in Seq(M!Token)
      PROVE /\ s \o r \in Seq(M!Token)
            /\ \A i \in DOMAIN (s \o r) :
                  \/ i \in DOMAIN s /\ (s \o r)[i] = s[i]
                  \/ i - Len(s) \in DOMAIN r /\ (s \o r)[i] = r[i - Len(s)]
  OBVIOUS
<1> QED BY <1>1, <1>2, <1>3

\* No cursor covers anything at first but the empty one.
LEMMA InitCursor == ASSUME M!Init PROVE CursorInv
  BY MatrixBounds
  DEF M!Init, M!NoChannel, M!Stopped, CursorInv, ChannelTyped, CursorTyped, LoopTyped, CoveredAll, Covered,
      M!Token, OrNone

\* Covering outlasts every step: what was read or let past stays so.
LEMMA CoverGrows ==
  ASSUME read \subseteq read', late \subseteq late', NEW w, Covered(w) PROVE Covered(w)'
  BY DEF Covered

\* The head of the line of writes is dropped, or nothing is.
LEMMA FrameCovered ==
  ASSUME CursorTyped, CoveredAll, read \subseteq read', late \subseteq late', file' = file, stale' = stale,
         cursor'.writes = cursor.writes
  PROVE CoveredAll'
  BY CoverGrows DEF CoveredAll

\* A token is appended only when nothing is buffered, and then what it passes is let past.
LEMMA PersistCovers ==
  ASSUME CursorInv, NEW token \in OrNone, NEW c, c \in [latest : OrNone, persisted : OrNone, writes : Seq(M!Token)],
         c.writes = cursor.writes, NEW ch
  PROVE LET r == M!Persist(c, token, ch)
        IN /\ r \in [latest : OrNone, persisted : OrNone, writes : Seq(M!Token)]
           /\ r = c \/ /\ token \in M!Token /\ ~(ch.on /\ ch.buffer # <<>>) /\ r.writes = Append(cursor.writes, token)
                       /\ r.writes # cursor.writes
<1>1. CASE token \in {c.persisted, None} \/ (ch.on /\ ch.buffer # <<>>)
  BY <1>1 DEF M!Persist
<1>2. CASE ~(token \in {c.persisted, None} \/ (ch.on /\ ch.buffer # <<>>))
  <2>1. token \in M!Token /\ Append(cursor.writes, token) \in Seq(M!Token) /\ Append(cursor.writes, token) # cursor.writes
    BY <1>2, TokenLines DEF OrNone, CursorInv, CursorTyped
  <2>2. PICK w : w = Append(cursor.writes, token)
    OBVIOUS
  <2>3. M!Persist(c, token, ch) = [c EXCEPT !.writes = w]
    BY <1>2, <2>2 DEF M!Persist
  <2> QED BY <1>2, <2>1, <2>2, <2>3
<1> QED BY <1>1, <1>2

\* What an event in hand does to the buffer, and to what else it touches.
LEMMA PushTyped ==
  ASSUME ChannelTyped, NEW n \in M!Event, M!Push(n)
  PROVE ChannelTyped'
<1>1. PICK c : c = [channel EXCEPT !.recent = @ \cup {n}]
  OBVIOUS
<1>2. /\ c \in [on : BOOLEAN, buffer : Seq(M!Event), recent : SUBSET M!Event, replyTo : M!Event \cup {None}]
      /\ c.on = channel.on /\ c.buffer = channel.buffer
  BY <1>1 DEF ChannelTyped
<1>3. \/ channel' = channel \/ channel' = c
      \/ /\ channel.on
         /\ \/ channel' = [c EXCEPT !.buffer = Append(@, n), !.replyTo = n]
            \/ channel' = [[c EXCEPT !.buffer = Append(@, n), !.replyTo = n] EXCEPT !.buffer = Tail(@)]
  BY <1>1 DEF M!Push
<1>4. CASE channel' = channel \/ channel' = c
  BY <1>2, <1>4 DEF ChannelTyped
<1>5. ASSUME NEW q, channel' = [c EXCEPT !.buffer = q, !.replyTo = n], q \in Seq(M!Event), channel.on
      PROVE ChannelTyped'
  <2>1. channel'.on = c.on
    BY <1>2, <1>5
  <2>2. channel' \in [on : BOOLEAN, buffer : Seq(M!Event), recent : SUBSET M!Event, replyTo : M!Event \cup {None}]
    <3>1. PICK es : es = Seq(M!Event)
      OBVIOUS
    <3>2. c \in [on : BOOLEAN, buffer : es, recent : SUBSET M!Event, replyTo : M!Event \cup {None}] /\ q \in es
      BY <1>2, <1>5, <3>1
    <3>3. channel' \in [on : BOOLEAN, buffer : es, recent : SUBSET M!Event, replyTo : M!Event \cup {None}]
      BY <1>5, <3>2
    <3> QED BY <3>1, <3>3
  <2> QED BY <1>2, <1>5, <2>1, <2>2 DEF ChannelTyped
<1>6. PICK q : q = Append(channel.buffer, n)
  OBVIOUS
<1>7. q \in Seq(M!Event) /\ Tail(q) \in Seq(M!Event)
  <2>1. channel.buffer \in Seq(M!Event)
    BY DEF ChannelTyped
  <2>2. Len(q) = Len(channel.buffer) + 1 /\ q \in Seq(M!Event)
    BY <1>6, <2>1
  <2>3. q # <<>>
    BY <2>1, <2>2
  <2> QED BY <2>2, <2>3
<1>8. CASE channel' = [c EXCEPT !.buffer = Append(@, n), !.replyTo = n] /\ channel.on
  <2>1. channel' = [c EXCEPT !.buffer = q, !.replyTo = n]
    BY <1>2, <1>6, <1>8
  <2> QED BY <1>5, <1>7, <1>8, <2>1
<1>9. CASE /\ channel' = [[c EXCEPT !.buffer = Append(@, n), !.replyTo = n] EXCEPT !.buffer = Tail(@)]
           /\ channel.on
  <2>1. PICK d : d = [c EXCEPT !.buffer = q, !.replyTo = n]
    OBVIOUS
  <2>2. channel' = [d EXCEPT !.buffer = Tail(@)]
    BY <1>2, <1>6, <1>9, <2>1
  <2>3. d.buffer = q
    BY <1>2, <2>1
  <2>4. channel' = [c EXCEPT !.buffer = Tail(q), !.replyTo = n]
    BY <1>2, <2>1, <2>2, <2>3
  <2> QED BY <1>5, <1>7, <1>9, <2>4
<1> QED
  BY <1>3, <1>4, <1>8, <1>9

\* So does a delivery, which pushes the event or drops it.
LEMMA DeliverTyped ==
  ASSUME ChannelTyped, NEW n \in M!Event, NEW cl, M!Deliver(n, cl) PROVE ChannelTyped'
<1>1. CASE n \in Unmentioned
  BY <1>1 DEF M!Deliver, ChannelTyped
<1> QED BY <1>1, PushTyped DEF M!Deliver


\* A client starts: what is saved, and the writes the last one left, are behind it.
LEMMA StartCovers == ASSUME CursorInv, M!Start PROVE CursorInv'
<1>1. /\ stale' = stale \o cursor.writes /\ UNCHANGED <<posted, file, read, late>>
      /\ cursor' = [latest |-> file, persisted |-> file, writes |-> <<>>]
  BY DEF M!Start
<1>2. ChannelTyped'
  <2>1. channel' = [on |-> TRUE, buffer |-> <<>>, recent |-> {}, replyTo |-> None]
    BY DEF M!Start, M!NoChannel
  <2> QED BY <2>1 DEF ChannelTyped
<1>3. CursorTyped'
  BY <1>1, TokenLines DEF CursorInv, CursorTyped
<1>4. LoopTyped'
  <2>1. PICK last \in {<<>>, <<<<posted, 1>>>>}, since \in {posted, file}, next \in {posted, None} :
           /\ sdk' = [on |-> TRUE, ready |-> FALSE, since |-> since, batch |-> last, next |-> next]
           /\ last # <<>> => posted > 0
           /\ since \in M!Token
    BY DEF M!Start, CursorInv, CursorTyped, OrNone
  <2>2. next \in OrNone
    BY DEF CursorInv, CursorTyped, OrNone
  <2>3. last \in Seq(M!Task)
    <3>1. posted > 0 => <<posted, 1>> \in M!Task
      BY MatrixBounds DEF M!Task, M!Token, M!Event, CursorInv, CursorTyped
    <3>2. CASE last = <<>>
      BY <3>2
    <3>3. CASE last = <<<<posted, 1>>>>
      <4>1. PICK t : t = <<posted, 1>>
        OBVIOUS
      <4>2. last = <<t>> /\ t \in M!Task
        BY <2>1, <3>1, <3>3, <4>1
      <4> QED BY <4>2
    <3> QED BY <3>2, <3>3
  <2> QED BY <2>1, <2>2, <2>3 DEF LoopTyped
<1>5. CoveredAll'
  <2>1. \A i \in DOMAIN stale' : Covered(stale'[i])
    <3>1. stale \in Seq(M!Token) /\ cursor.writes \in Seq(M!Token)
      BY DEF CursorInv, CursorTyped
    <3> QED BY <1>1, <3>1, TokenLines DEF CursorInv, CoveredAll
  <2> QED BY <1>1, <2>1, CoverGrows DEF CursorInv, CoveredAll
<1> QED BY <1>2, <1>3, <1>4, <1>5 DEF CursorInv

\* The response of a sync brings the events the server has beyond the last one.
LEMMA SyncCovers == ASSUME CursorInv, M!Sync PROVE CursorInv'
<1>1. /\ sdk' = [sdk EXCEPT !.batch = [i \in 1 .. posted - sdk.since |-> <<sdk.since + i, 1>>], !.next = posted]
      /\ UNCHANGED <<posted, file, stale, cursor, channel, read, late>>
  BY DEF M!Sync
<1>2. PICK b : b = [i \in 1 .. posted - sdk.since |-> <<sdk.since + i, 1>>]
  OBVIOUS
<1>3. b \in Seq(M!Task)
  <2>1. posted \in Nat /\ sdk.since \in Nat /\ posted <= MaxEvents /\ sdk.since <= MaxEvents
    BY MatrixBounds DEF CursorInv, CursorTyped, LoopTyped, M!Token
  <2>2. \A i \in 1 .. posted - sdk.since : <<sdk.since + i, 1>> \in M!Task
    BY <2>1, MatrixBounds DEF M!Task, M!Event
  <2>3. CASE posted - sdk.since \in Nat
    BY <1>2, <2>2, <2>3
  <2>4. CASE posted - sdk.since \notin Nat
    <3>1. b = <<>>
      BY <1>2, <2>1, <2>4
    <3> QED BY <3>1
  <2> QED BY <2>3, <2>4
<1>4. sdk' = [sdk EXCEPT !.batch = b, !.next = posted]
  BY <1>1, <1>2
<1>5. LoopTyped'
  BY <1>3, <1>4 DEF CursorInv, CursorTyped, LoopTyped, OrNone
<1> QED BY <1>1, <1>5, FrameCovered DEF CursorInv, ChannelTyped, CursorTyped

\* An event is taken from the response.
LEMMA TimelineCovers == ASSUME CursorInv, M!Timeline PROVE CursorInv'
<1>1. UNCHANGED <<posted, file, stale, cursor, channel, read, late>>
  BY DEF M!Timeline
<1>2. PICK b : b \in Seq(M!Task) /\ sdk' = [sdk EXCEPT !.batch = b]
  <2>1. /\ Tail(sdk.batch) \in Seq(M!Task) /\ Head(sdk.batch) \in M!Task
    BY DEF M!Timeline, CursorInv, LoopTyped
  <2>2. Append(Tail(sdk.batch), <<Head(sdk.batch)[1], 2>>) \in Seq(M!Task)
    BY <2>1 DEF M!Task
  <2> QED BY <2>1, <2>2 DEF M!Timeline
<1>3. LoopTyped'
  BY <1>2 DEF CursorInv, LoopTyped
<1> QED BY <1>1, <1>3, FrameCovered DEF CursorInv, ChannelTyped, CursorTyped

\* What is let past at a token is all it covers, where nothing is buffered.
LEMMA PassedCovers ==
  ASSUME ChannelTyped, NEW w \in M!Token, late' = late \cup M!Passed(w),
         read' = read \cup M!Range(channel.buffer) \/ (channel.buffer = <<>> /\ read' = read)
  PROVE Covered(w)'
<1>1. channel.buffer = <<>> => M!Range(channel.buffer) = {}
  BY DEF M!Range
<1> QED BY <1>1 DEF Covered, M!Passed

\* The end of a response moves the cursor.
LEMMA SyncEventCovers == ASSUME CursorInv, M!SyncEvent PROVE CursorInv'
<1>1. /\ sdk.next # None /\ UNCHANGED <<posted, file, stale, channel, read>>
      /\ sdk' = [sdk EXCEPT !.since = sdk.next, !.next = None, !.ready = TRUE]
      /\ cursor' = M!Persist([cursor EXCEPT !.latest = sdk.next], sdk.next, channel)
      /\ late' = IF cursor'.writes = cursor.writes THEN late ELSE late \cup M!Passed(sdk.next)
  BY DEF M!SyncEvent
<1>2. PICK w : w = sdk.next /\ w \in M!Token
  BY <1>1 DEF CursorInv, LoopTyped, OrNone
<1>3. PICK c : c = [cursor EXCEPT !.latest = w]
  OBVIOUS
<1>4. c \in [latest : OrNone, persisted : OrNone, writes : Seq(M!Token)] /\ c.writes = cursor.writes
  BY <1>2, <1>3 DEF CursorInv, CursorTyped, OrNone
<1>5. cursor' = M!Persist(c, w, channel)
  BY <1>1, <1>2, <1>3
<1>6. /\ cursor' \in [latest : OrNone, persisted : OrNone, writes : Seq(M!Token)]
      /\ \/ cursor'.writes = cursor.writes
         \/ /\ ~(channel.on /\ channel.buffer # <<>>) /\ cursor'.writes = Append(cursor.writes, w)
            /\ cursor'.writes # cursor.writes
  <2>1. w \in OrNone
    BY <1>2 DEF OrNone
  <2> QED BY <1>4, <1>5, <2>1, PersistCovers
<1>7. CursorTyped' /\ ChannelTyped' /\ late \subseteq late'
  BY <1>1, <1>6 DEF CursorInv, CursorTyped, ChannelTyped
<1>8. LoopTyped'
  <2>1. sdk' = [sdk EXCEPT !.since = w, !.next = None, !.ready = TRUE]
    BY <1>1, <1>2
  <2> QED BY <1>2, <2>1 DEF CursorInv, LoopTyped, OrNone
<1>9. CASE cursor'.writes = cursor.writes
  BY <1>1, <1>7, <1>8, <1>9, FrameCovered DEF CursorInv
<1>10. CASE cursor'.writes # cursor.writes
  <2>1. /\ channel.buffer = <<>> /\ cursor'.writes = Append(cursor.writes, w)
        /\ late' = late \cup M!Passed(w)
    BY <1>1, <1>2, <1>6, <1>10 DEF CursorInv, ChannelTyped
  <2>2. Covered(w)'
    BY <1>1, <1>2, <2>1, PassedCovers DEF CursorInv
  <2>3. \A i \in DOMAIN cursor'.writes :
           cursor'.writes[i] = w \/ (i \in DOMAIN cursor.writes /\ cursor'.writes[i] = cursor.writes[i])
    BY <1>2, <2>1, TokenLines DEF CursorInv, CursorTyped
  <2>4. CoveredAll'
    BY <1>1, <1>7, <2>2, <2>3, CoverGrows DEF CursorInv, CoveredAll
  <2> QED BY <1>7, <1>8, <2>4 DEF CursorInv
<1> QED BY <1>9, <1>10

\* The agent reads what is buffered, and a cursor that was held back goes.
LEMMA ReceiveCovers == ASSUME CursorInv, M!Receive PROVE CursorInv'
<1>1. /\ UNCHANGED <<posted, file, stale, sdk>>
      /\ read' = read \cup M!Range(channel.buffer) /\ channel' = [channel EXCEPT !.buffer = <<>>]
      /\ cursor' = M!Persist(cursor, cursor.latest, channel')
      /\ late' = IF cursor' = cursor THEN late ELSE late \cup M!Passed(cursor.latest)
  BY DEF M!Receive
<1>2. /\ cursor' \in [latest : OrNone, persisted : OrNone, writes : Seq(M!Token)]
      /\ \/ cursor' = cursor
         \/ /\ cursor.latest \in M!Token /\ cursor'.writes = Append(cursor.writes, cursor.latest)
            /\ cursor' # cursor
  <2>1. cursor.latest \in OrNone /\ cursor \in [latest : OrNone, persisted : OrNone, writes : Seq(M!Token)]
    BY DEF CursorInv, CursorTyped
  <2> QED BY <1>1, <2>1, PersistCovers
<1>3. CursorTyped' /\ LoopTyped' /\ ChannelTyped' /\ late \subseteq late' /\ read \subseteq read'
  <2>1. CursorTyped' /\ LoopTyped'
    BY <1>1, <1>2 DEF CursorInv, CursorTyped, LoopTyped
  <2>2. ChannelTyped'
    <3>1. PICK e : e = <<>> /\ e \in Seq(M!Event)
      BY NoLines
    <3>2. channel' = [channel EXCEPT !.buffer = e]
      BY <1>1, <3>1
    <3> QED BY <3>1, <3>2 DEF CursorInv, ChannelTyped
  <2> QED BY <1>1, <2>1, <2>2
<1>4. CASE cursor' = cursor
  BY <1>1, <1>3, <1>4, FrameCovered DEF CursorInv
<1>5. CASE cursor' # cursor
  <2>1. PICK w \in M!Token : w = cursor.latest
    BY <1>2, <1>5
  <2>2. cursor'.writes = Append(cursor.writes, w) /\ late' = late \cup M!Passed(w)
    BY <1>1, <1>2, <1>5, <2>1
  <2>3. Covered(w)'
    BY <1>1, <2>1, <2>2, PassedCovers DEF CursorInv
  <2>4. \A i \in DOMAIN cursor'.writes :
           cursor'.writes[i] = w \/ (i \in DOMAIN cursor.writes /\ cursor'.writes[i] = cursor.writes[i])
    BY <2>1, <2>2, TokenLines DEF CursorInv, CursorTyped
  <2>5. CoveredAll'
    BY <1>1, <1>3, <2>3, <2>4, CoverGrows DEF CursorInv, CoveredAll
  <2> QED BY <1>3, <2>5 DEF CursorInv
<1> QED BY <1>4, <1>5

\* A queued write is made, skipped or fails, by this client or by one that was stopped.
LEMMA WriteCovers == ASSUME CursorInv, M!WriteCursor \/ M!StaleWrite PROVE CursorInv'
<1>1. UNCHANGED <<posted, sdk, channel, read, late>>
  BY DEF M!WriteCursor, M!StaleWrite
<1>2. ASSUME M!WriteCursor PROVE CursorTyped' /\ CoveredAll'
  <2>1. PICK w, rest : /\ w = Head(cursor.writes) /\ rest = Tail(cursor.writes)
    OBVIOUS
  <2>2. /\ w \in M!Token /\ rest \in Seq(M!Token) /\ Covered(w) /\ \A i \in DOMAIN rest : Covered(rest[i])
    BY <1>2, <2>1, TokenLines DEF M!WriteCursor, CursorInv, CursorTyped, CoveredAll
  <2>3. /\ stale' = stale
        /\ \/ file' = w /\ cursor' = [[cursor EXCEPT !.writes = rest] EXCEPT !.persisted = w]
           \/ file' = file /\ cursor' = [cursor EXCEPT !.writes = rest]
    BY <1>2, <2>1 DEF M!WriteCursor
  <2>4. CursorTyped' /\ cursor'.writes = rest
    BY <1>1, <2>2, <2>3 DEF CursorInv, CursorTyped, OrNone
  <2> QED BY <1>1, <2>2, <2>3, <2>4, CoverGrows DEF CursorInv, CoveredAll
<1>3. ASSUME M!StaleWrite PROVE CursorTyped' /\ CoveredAll'
  <2>1. stale # <<>> /\ file' = Head(stale) /\ stale' = Tail(stale) /\ cursor' = cursor
    BY <1>3 DEF M!StaleWrite
  <2>2. /\ file' \in M!Token /\ stale' \in Seq(M!Token) /\ Covered(file') /\ \A i \in DOMAIN stale' : Covered(stale'[i])
    BY <2>1, TokenLines DEF CursorInv, CursorTyped, CoveredAll
  <2>3. CursorTyped'
    BY <1>1, <2>1, <2>2 DEF CursorInv, CursorTyped, OrNone
  <2> QED BY <1>1, <2>1, <2>2, <2>3, CoverGrows DEF CursorInv, CoveredAll
<1> QED BY <1>1, <1>2, <1>3 DEF CursorInv, ChannelTyped, LoopTyped

\* The session stops or dies, and what its stop leaves.
LEMMA StopCovers ==
  ASSUME CursorInv, M!StartFails \/ M!Replace \/ M!Shutdown \/ M!StopEnds \/ M!Crash PROVE CursorInv'
<1>1. /\ UNCHANGED <<posted, file, read, late>> /\ channel' \in {channel, M!NoChannel}
      /\ sdk' = [sdk EXCEPT !.on = FALSE] \/ sdk' = M!Stopped
      /\ \/ UNCHANGED <<cursor, stale>>
         \/ stale' = <<>> /\ cursor' = [cursor EXCEPT !.writes = <<>>]
  BY DEF M!StartFails, M!Replace, M!Shutdown, M!StopEnds, M!Crash, M!Stop
<1>2. ChannelTyped'
  <2>1. CASE channel' = channel
    BY <2>1 DEF CursorInv, ChannelTyped
  <2>2. CASE channel' = M!NoChannel
    BY <2>2 DEF ChannelTyped, M!NoChannel
  <2> QED BY <1>1, <2>1, <2>2
<1>3. LoopTyped'
  <2>1. CASE sdk' = [sdk EXCEPT !.on = FALSE]
    BY <2>1 DEF CursorInv, LoopTyped
  <2>2. CASE sdk' = M!Stopped
    <3>1. 0 \in M!Token /\ None \in OrNone
      BY MatrixBounds DEF M!Token, OrNone
    <3> QED BY <2>2, <3>1 DEF LoopTyped, M!Stopped
  <2> QED BY <1>1, <2>1, <2>2
<1>4. CursorTyped' /\ CoveredAll'
  <2>1. CASE UNCHANGED <<cursor, stale>>
    <3>1. CursorTyped'
      BY <1>1, <2>1 DEF CursorInv, CursorTyped
    <3> QED BY <1>1, <2>1, <3>1, FrameCovered DEF CursorInv
  <2>2. CASE stale' = <<>> /\ cursor' = [cursor EXCEPT !.writes = <<>>]
    <3>1. CursorTyped' /\ cursor'.writes = <<>>
      <4>1. PICK e : e = <<>> /\ e \in Seq(M!Token)
        BY NoLines
      <4>2. stale' = e /\ cursor' = [cursor EXCEPT !.writes = e]
        BY <2>2, <4>1
      <4>3. /\ cursor' \in [latest : OrNone, persisted : OrNone, writes : Seq(M!Token)]
            /\ cursor'.writes = e
        BY <4>1, <4>2 DEF CursorInv, CursorTyped
      <4> QED BY <1>1, <4>1, <4>2, <4>3 DEF CursorInv, CursorTyped
    <3> QED BY <1>1, <2>2, <3>1, CoverGrows DEF CursorInv, CoveredAll
  <2> QED BY <1>1, <2>1, <2>2
<1> QED BY <1>2, <1>3, <1>4 DEF CursorInv

\* Every other step of the channel.
LEMMA ChannelCovers ==
  ASSUME CursorInv,
         \/ \E t \in M!Task : M!Run(t) \/ M!DownloadEnds(t) \/ M!WaitEnds(t)
         \/ M!Prepared \/ M!SomebodyWrites \/ M!WindowPasses \/ M!Send \/ M!SendEnds \/ UNCHANGED chatting
  PROVE CursorInv'
<1>1. UNCHANGED <<file, stale, sdk, cursor, read, late>>
  BY DEF M!Run, M!DownloadEnds, M!WaitEnds, M!Prepared, M!SomebodyWrites, M!WindowPasses, M!Send, M!SendEnds, chatting
<1>2. posted' \in M!Token
  <2>1. CASE M!SomebodyWrites
    BY <2>1, MatrixBounds DEF M!SomebodyWrites, CursorInv, CursorTyped, M!Token
  <2>2. CASE ~M!SomebodyWrites
    BY <2>2 DEF M!Run, M!DownloadEnds, M!WaitEnds, M!Prepared, M!WindowPasses, M!Send, M!SendEnds, chatting,
       CursorInv, CursorTyped
  <2> QED BY <2>1, <2>2
<1>3. ChannelTyped'
  <2>1. ASSUME NEW t \in M!Task, M!Run(t) \/ M!DownloadEnds(t) \/ M!WaitEnds(t) PROVE ChannelTyped'
    <3>1. channel' = channel \/ \E cl : M!Deliver(t[1], cl)
      BY <2>1 DEF M!Run, M!DownloadEnds, M!WaitEnds
    <3> QED BY <3>1, DeliverTyped, MatrixBounds DEF CursorInv, ChannelTyped
  <2>2. CASE channel' = channel
    BY <2>2 DEF CursorInv, ChannelTyped
  <2>3. CASE channel' = [channel EXCEPT !.recent = {}] \/ channel' = [channel EXCEPT !.replyTo = None]
    BY <2>3 DEF CursorInv, ChannelTyped
  <2> QED BY <2>1, <2>2, <2>3 DEF M!Prepared, M!SomebodyWrites, M!WindowPasses, M!Send, M!SendEnds, chatting
<1>4. CursorTyped' /\ LoopTyped'
  BY <1>1, <1>2 DEF CursorInv, CursorTyped, LoopTyped
<1> QED BY <1>1, <1>3, <1>4, FrameCovered DEF CursorInv

\* Every step of the channel.
LEMMA MatrixCovers == ASSUME CursorInv, [M!Next]_chatting PROVE CursorInv'
BY StartCovers, SyncCovers, TimelineCovers, SyncEventCovers, ReceiveCovers, WriteCovers, StopCovers, ChannelCovers
DEF M!Next


(***************************************************************************)
(* The Matrix channel: an event reaches a client's buffer once             *)
(***************************************************************************)

Stages == {"none", "ready", "wait", "fetch"}
TaskSets == [open : BOOLEAN, pending : Seq(M!Task), waiters : Seq(M!Task), stage : [M!Task -> Stages]]
Clients == [seen : SUBSET M!Event, aborted : BOOLEAN, room : {"shared", "private", None}, history : Nat]

\* A task that waits for a download, or is at one.
InHand(ts, t) == ts.stage[t] \in {"wait", "fetch"} \/ \E i \in DOMAIN ts.waiters : ts.waiters[i] = t

\* Who waits is in the line once, and no longer once its download has begun.
Apart(ts) ==
  /\ ts \in TaskSets
  /\ \A i, j \in DOMAIN ts.waiters : ts.waiters[i] = ts.waiters[j] => i = j
  /\ \A i \in DOMAIN ts.waiters : ts.stage[ts.waiters[i]] # "fetch"

\* An event that was seen is in one hand or was delivered once, never both.
OnceInv ==
  /\ Apart(tasks) /\ client \in Clients /\ delivered \in [M!Event -> Nat]
  /\ \A t, u \in M!Task : InHand(tasks, t) /\ InHand(tasks, u) /\ t[1] = u[1] => t = u
  /\ \A t \in M!Task : InHand(tasks, t) => t[1] \in client.seen /\ delivered[t[1]] = 0
  /\ \A n \in M!Event : delivered[n] <= 1 /\ (delivered[n] > 0 => n \in client.seen)

\* No task is in hand at first.
LEMMA InitOnce == ASSUME M!Init PROVE OnceInv
<1>1. tasks = [open |-> TRUE, pending |-> <<>>, waiters |-> <<>>, stage |-> [t \in M!Task |-> "none"]]
  BY DEF M!Init, M!NoTasks
<1>2. tasks \in TaskSets
  BY <1>1 DEF TaskSets, Stages
<1>3. Apart(tasks) /\ \A t \in M!Task : ~InHand(tasks, t)
  BY <1>1, <1>2 DEF Apart, InHand
<1>4. client \in Clients /\ delivered = [n \in M!Event |-> 0]
  BY DEF M!Init, M!NoClient, Clients
<1> QED BY <1>3, <1>4 DEF OnceInv

\* A task's end makes room for one that was pending; nobody else's place changes.
LEMMA EndedEffect ==
  ASSUME NEW ts \in TaskSets, NEW t \in M!Task
  PROVE /\ M!Ended(ts, t) \in TaskSets /\ M!Ended(ts, t).waiters = ts.waiters
        /\ \A u \in M!Task : M!Ended(ts, t).stage[u] \in {"wait", "fetch"} =>
             u # t /\ M!Ended(ts, t).stage[u] = ts.stage[u]
<1>1. PICK free : free = [ts EXCEPT !.stage[t] = "none"]
  OBVIOUS
<1>2. /\ free \in TaskSets /\ free.waiters = ts.waiters /\ free.pending = ts.pending
      /\ \A u \in M!Task : free.stage[u] = IF u = t THEN "none" ELSE ts.stage[u]
  BY <1>1 DEF TaskSets, Stages
<1>3. CASE free.pending = <<>>
  BY <1>1, <1>2, <1>3 DEF M!Ended
<1>4. CASE free.pending # <<>>
  <2>1. PICK p, q : p = Head(free.pending) /\ q = Tail(free.pending)
    OBVIOUS
  <2>2. p \in M!Task /\ q \in Seq(M!Task)
    BY <1>2, <1>4, <2>1 DEF TaskSets
  <2>3. M!Ended(ts, t) = [free EXCEPT !.pending = q, !.stage[p] = "ready"]
    BY <1>1, <1>4, <2>1 DEF M!Ended
  <2>4. /\ M!Ended(ts, t) \in TaskSets /\ M!Ended(ts, t).waiters = ts.waiters
        /\ \A u \in M!Task : M!Ended(ts, t).stage[u] = IF u = p THEN "ready" ELSE free.stage[u]
    <3>1. PICK st : st = [free.stage EXCEPT ![p] = "ready"]
      OBVIOUS
    <3>2. /\ st \in [M!Task -> Stages]
          /\ \A u \in M!Task : st[u] = IF u = p THEN "ready" ELSE free.stage[u]
      BY <1>2, <2>2, <3>1 DEF TaskSets, Stages
    <3>3. M!Ended(ts, t) = [free EXCEPT !.pending = q, !.stage = st]
      BY <2>3, <3>1
    <3> QED BY <1>2, <2>2, <3>2, <3>3 DEF TaskSets
  <2> QED BY <1>2, <2>4
<1> QED BY <1>3, <1>4

\* So it takes nothing in hand, and leaves nobody in two places.
LEMMA EndedApart ==
  ASSUME NEW ts, Apart(ts), NEW t \in M!Task
  PROVE /\ Apart(M!Ended(ts, t))
        /\ \A u \in M!Task : InHand(M!Ended(ts, t), u) => InHand(ts, u)
        /\ (\A i \in DOMAIN ts.waiters : ts.waiters[i] # t) => ~InHand(M!Ended(ts, t), t)
<1>1. ts \in TaskSets /\ \A i \in DOMAIN ts.waiters : ts.waiters[i] \in M!Task
  BY DEF Apart, TaskSets
<1>2. PICK r : r = M!Ended(ts, t)
  OBVIOUS
<1>3. /\ r \in TaskSets /\ r.waiters = ts.waiters
      /\ \A u \in M!Task : r.stage[u] \in {"wait", "fetch"} => u # t /\ r.stage[u] = ts.stage[u]
  BY <1>1, <1>2, EndedEffect
<1> QED BY <1>1, <1>2, <1>3 DEF Apart, InHand

\* The first waiter takes a place that is free.
LEMMA ReleasedApart ==
  ASSUME NEW ts, Apart(ts)
  PROVE /\ Apart(M!Released(ts))
        /\ \A u \in M!Task : InHand(M!Released(ts), u) => InHand(ts, u)
        /\ \A u \in M!Task : ts.stage[u] = "fetch" => M!Released(ts).stage[u] = "fetch"
<1>1. CASE ts.waiters = <<>>
  BY <1>1 DEF M!Released
<1>2. CASE ts.waiters # <<>>
  <2>1. PICK h, q : h = Head(ts.waiters) /\ q = Tail(ts.waiters)
    OBVIOUS
  <2>2. /\ h \in M!Task /\ q \in Seq(M!Task) /\ h = ts.waiters[1] /\ 1 \in DOMAIN ts.waiters
        /\ \A i \in DOMAIN q : i + 1 \in DOMAIN ts.waiters /\ i \in Nat /\ i >= 1 /\ q[i] = ts.waiters[i + 1]
    BY <1>2, <2>1 DEF Apart, TaskSets
  <2>3. PICK r : r = M!Released(ts) /\ r = [ts EXCEPT !.waiters = q, !.stage[h] = "fetch"]
    BY <1>2, <2>1 DEF M!Released
  <2>4. /\ r \in TaskSets /\ r.waiters = q
        /\ \A u \in M!Task : r.stage[u] = IF u = h THEN "fetch" ELSE ts.stage[u]
    <3>1. PICK st : st = [ts.stage EXCEPT ![h] = "fetch"]
      OBVIOUS
    <3>2. /\ st \in [M!Task -> Stages]
          /\ \A u \in M!Task : st[u] = IF u = h THEN "fetch" ELSE ts.stage[u]
      BY <2>2, <3>1 DEF Apart, TaskSets, Stages
    <3>3. r = [ts EXCEPT !.waiters = q, !.stage = st]
      BY <2>3, <3>1
    <3> QED BY <2>2, <3>2, <3>3 DEF Apart, TaskSets
  <2>5. \A i \in DOMAIN q : q[i] # h /\ q[i] \in M!Task
    BY <2>2 DEF Apart
  <2>6. \A i, j \in DOMAIN q : q[i] = q[j] => i = j
    BY <2>2 DEF Apart
  <2>7. Apart(r)
    BY <2>2, <2>4, <2>5, <2>6 DEF Apart
  <2>8. \A u \in M!Task : InHand(r, u) => InHand(ts, u)
    BY <2>2, <2>4 DEF InHand
  <2> QED BY <2>3, <2>4, <2>7, <2>8
<1> QED BY <1>1, <1>2

\* A waiter that gives up leaves the line.
LEMMA LeftApart ==
  ASSUME NEW ts, Apart(ts), NEW k \in DOMAIN ts.waiters
  PROVE LET r == [ts EXCEPT !.waiters = M!RemoveAt(@, k)]
        IN /\ Apart(r)
           /\ \A u \in M!Task : InHand(r, u) => InHand(ts, u)
           /\ \A i \in DOMAIN r.waiters : r.waiters[i] # ts.waiters[k]
<1>1. PICK s \in Seq(M!Task) : s = ts.waiters
  BY DEF Apart, TaskSets
<1>2. PICK q : q = M!RemoveAt(s, k)
  OBVIOUS
<1>3. /\ q \in Seq(M!Task)
      /\ \A i \in DOMAIN q : \E j \in DOMAIN s : j # k /\ q[i] = s[j] /\ j = IF i < k THEN i ELSE i + 1
  <2>1. k \in 1 .. Len(s)
    BY <1>1
  <2>2. PICK a, b : a = SubSeq(s, 1, k - 1) /\ b = SubSeq(s, k + 1, Len(s))
    OBVIOUS
  <2>3. /\ a \in Seq(M!Task) /\ Len(a) = k - 1 /\ \A i \in 1 .. k - 1 : a[i] = s[i]
    BY <1>1, <2>1, <2>2
  <2>4. /\ b \in Seq(M!Task) /\ Len(b) = Len(s) - k /\ \A i \in 1 .. Len(s) - k : b[i] = s[k + i]
    BY <1>1, <2>1, <2>2
  <2>5. q = a \o b
    BY <1>2, <2>2 DEF M!RemoveAt
  <2>6. /\ q \in Seq(M!Task) /\ Len(q) = Len(s) - 1
        /\ \A i \in 1 .. Len(q) : q[i] = IF i < k THEN s[i] ELSE s[i + 1]
    BY <2>1, <2>3, <2>4, <2>5
  <2>7. DOMAIN q = 1 .. Len(q) /\ DOMAIN s = 1 .. Len(s)
    BY <1>1, <2>6
  <2> QED BY <2>1, <2>6, <2>7
<1>4. PICK r : r = [ts EXCEPT !.waiters = q]
  OBVIOUS
<1>5. r \in TaskSets /\ r.waiters = q /\ r.stage = ts.stage
  BY <1>3, <1>4 DEF Apart, TaskSets
<1>6. \A i, j \in DOMAIN q : q[i] = q[j] => i = j
  <2>1. ASSUME NEW i \in DOMAIN q, NEW j \in DOMAIN q, q[i] = q[j] PROVE i = j
    <3>1. i \in Nat /\ j \in Nat /\ k \in Nat
      BY <1>1, <1>3
    <3>2. (IF i < k THEN i ELSE i + 1) = (IF j < k THEN j ELSE j + 1)
      BY <1>1, <1>3, <2>1 DEF Apart
    <3> QED BY <3>1, <3>2
  <2> QED BY <2>1
<1>7. Apart(r)
  BY <1>1, <1>3, <1>5, <1>6 DEF Apart
<1>8. \A u \in M!Task : InHand(r, u) => InHand(ts, u)
  BY <1>1, <1>3, <1>5 DEF InHand
<1>9. \A i \in DOMAIN q : q[i] # ts.waiters[k]
  BY <1>1, <1>3 DEF Apart
<1> QED BY <1>1, <1>2, <1>4, <1>5, <1>7, <1>8, <1>9

\* A step that takes nothing in hand and delivers at most one event that is in no hand.
LEMMA FewerKeeps ==
  ASSUME OnceInv, Apart(tasks'), \A t \in M!Task : InHand(tasks', t) => InHand(tasks, t),
         client' \in Clients, client.seen \subseteq client'.seen,
         \/ delivered' = delivered
         \/ \E n \in client'.seen :
              /\ delivered[n] = 0 /\ delivered' = [delivered EXCEPT ![n] = @ + 1]
              /\ \A t \in M!Task : t[1] = n => ~InHand(tasks', t)
  PROVE OnceInv'
<1>1. client.seen \subseteq M!Event /\ client'.seen \subseteq M!Event
  BY DEF OnceInv, Clients
<1>2. CASE delivered' = delivered
  BY <1>1, <1>2 DEF OnceInv
<1>3. ASSUME NEW n \in client'.seen, delivered[n] = 0, delivered' = [delivered EXCEPT ![n] = @ + 1],
             \A t \in M!Task : t[1] = n => ~InHand(tasks', t)
      PROVE OnceInv'
  <2>1. /\ delivered' \in [M!Event -> Nat] /\ delivered'[n] = 1
        /\ \A m \in M!Event : m # n => delivered'[m] = delivered[m]
    BY <1>1, <1>3 DEF OnceInv
  <2>2. \A t \in M!Task : InHand(tasks', t) => t[1] \in client'.seen /\ delivered'[t[1]] = 0
    BY <1>3, <2>1, MatrixBounds DEF OnceInv
  <2>3. \A m \in M!Event : delivered'[m] <= 1 /\ (delivered'[m] > 0 => m \in client'.seen)
    BY <1>3, <2>1 DEF OnceInv
  <2> QED BY <2>1, <2>2, <2>3 DEF OnceInv
<1> QED BY <1>2, <1>3

\* What a delivery does to the client and to the counts.
LEMMA DeliverEffect ==
  ASSUME NEW n \in M!Event, NEW cl \in Clients, M!Deliver(n, cl)
  PROVE /\ client' \in Clients /\ client'.seen = cl.seen
        /\ delivered' = delivered \/ delivered' = [delivered EXCEPT ![n] = @ + 1]
<1>1. client' = cl \/ client' = [cl EXCEPT !.room = M!Room(n)]
  BY DEF M!Deliver
<1>2. M!Room(n) \in {"shared", "private"}
  BY DEF M!Room
<1>3. client' \in Clients /\ client'.seen = cl.seen
  BY <1>1, <1>2 DEF Clients
<1> QED BY <1>3 DEF M!Deliver, M!Push

\* A download or the wait for one ends: its event is delivered, and in no hand any more.
LEMMA EndsKeep ==
  ASSUME OnceInv, NEW t \in M!Task, M!DownloadEnds(t) \/ M!WaitEnds(t) PROVE OnceInv'
<1>1. PICK ts : /\ Apart(ts) /\ tasks' = M!Ended(ts, t)
                /\ \A u \in M!Task : InHand(ts, u) => InHand(tasks, u)
                /\ \A i \in DOMAIN ts.waiters : ts.waiters[i] # t
  <2>1. CASE M!DownloadEnds(t)
    <3>1. Apart(M!Released(tasks)) /\ M!Released(tasks).stage[t] = "fetch"
      BY <2>1, ReleasedApart DEF M!DownloadEnds, OnceInv
    <3> QED BY <2>1, <3>1, ReleasedApart DEF M!DownloadEnds, OnceInv, Apart
  <2>2. CASE M!WaitEnds(t)
    <3>1. PICK k \in DOMAIN tasks.waiters :
             tasks.waiters[k] = t /\ tasks' = M!Ended([tasks EXCEPT !.waiters = M!RemoveAt(@, k)], t)
      BY <2>2 DEF M!WaitEnds
    <3> QED BY <3>1, LeftApart DEF OnceInv
  <2> QED BY <2>1, <2>2
<1>2. /\ Apart(tasks') /\ ~InHand(tasks', t)
      /\ \A u \in M!Task : InHand(tasks', u) => InHand(tasks, u)
  BY <1>1, EndedApart
<1>3. InHand(tasks, t) /\ t[1] \in M!Event
  BY MatrixBounds DEF M!DownloadEnds, M!WaitEnds, InHand
<1>4. /\ client' \in Clients /\ client'.seen = client.seen
      /\ delivered' = delivered \/ delivered' = [delivered EXCEPT ![t[1]] = @ + 1]
  BY <1>3, DeliverEffect DEF M!DownloadEnds, M!WaitEnds, OnceInv
<1>5. t[1] \in client.seen /\ delivered[t[1]] = 0
  BY <1>3 DEF OnceInv
<1>6. \A u \in M!Task : u[1] = t[1] => ~InHand(tasks', u)
  BY <1>2, <1>3 DEF OnceInv
<1> QED BY <1>2, <1>4, <1>5, <1>6, FewerKeeps

\* An event is handled up to its download: it goes on only when it was not seen.
LEMMA RunKeeps == ASSUME OnceInv, NEW t \in M!Task, M!Run(t) PROVE OnceInv'
<1>1. PICK cl : cl = [client EXCEPT !.seen = @ \cup {t[1]}]
  OBVIOUS
<1>2. /\ cl \in Clients /\ cl.seen = client.seen \cup {t[1]} /\ t[1] \in M!Event
  BY <1>1, MatrixBounds DEF OnceInv, Clients
<1>3. /\ Apart(M!Ended(tasks, t))
      /\ \A u \in M!Task : InHand(M!Ended(tasks, t), u) => InHand(tasks, u)
  BY EndedApart DEF OnceInv
<1>4. CASE t[1] <= client.history \/ t[1] \in client.seen
  <2>1. tasks' = M!Ended(tasks, t) /\ UNCHANGED <<client, delivered>>
    BY <1>4 DEF M!Run
  <2> QED BY <1>3, <2>1, FewerKeeps DEF OnceInv
<1>5. CASE ~(t[1] <= client.history \/ t[1] \in client.seen)
  <2>1. /\ delivered[t[1]] = 0 /\ \A u \in M!Task : u[1] = t[1] => ~InHand(tasks, u)
    BY <1>2, <1>5 DEF OnceInv
  <2>2. \/ tasks' = M!Ended(tasks, t) /\ client' = cl /\ delivered' = delivered
        \/ tasks' = M!Ended(tasks, t) /\ M!Deliver(t[1], cl)
        \/ /\ client' = cl /\ delivered' = delivered
           /\ tasks' = [tasks EXCEPT !.stage[t] = "fetch"]
        \/ /\ client' = cl /\ delivered' = delivered
           /\ tasks' = [tasks EXCEPT !.stage[t] = "wait", !.waiters = Append(@, t)]
    BY <1>1, <1>5 DEF M!Run, M!Seen
  <2>3. CASE tasks' = M!Ended(tasks, t) /\ client' = cl /\ delivered' = delivered
    BY <1>2, <1>3, <2>3, FewerKeeps
  <2>4. CASE tasks' = M!Ended(tasks, t) /\ M!Deliver(t[1], cl)
    <3>1. /\ client' \in Clients /\ client'.seen = cl.seen
          /\ delivered' = delivered \/ delivered' = [delivered EXCEPT ![t[1]] = @ + 1]
      BY <1>2, <2>4, DeliverEffect
    <3> QED BY <1>2, <1>3, <2>1, <2>4, <3>1, FewerKeeps
  <2>5. ASSUME client' = cl, delivered' = delivered, Apart(tasks'),
               \A u \in M!Task : InHand(tasks', u) => InHand(tasks, u) \/ u = t
        PROVE OnceInv'
    <3>1. \A u \in M!Task : InHand(tasks', u) => u[1] \in client'.seen /\ delivered'[u[1]] = 0
      BY <1>2, <2>1, <2>5 DEF OnceInv
    <3>2. \A u, v \in M!Task : InHand(tasks', u) /\ InHand(tasks', v) /\ u[1] = v[1] => u = v
      BY <2>1, <2>5 DEF OnceInv
    <3> QED BY <1>2, <2>5, <3>1, <3>2 DEF OnceInv
  <2>6. CASE tasks' = [tasks EXCEPT !.stage[t] = "fetch"]
    <3>1. /\ tasks' \in TaskSets /\ tasks'.waiters = tasks.waiters
          /\ \A u \in M!Task : tasks'.stage[u] = IF u = t THEN "fetch" ELSE tasks.stage[u]
      BY <2>6 DEF OnceInv, Apart, TaskSets, Stages
    <3>2. \A i \in DOMAIN tasks.waiters : tasks.waiters[i] # t /\ tasks.waiters[i] \in M!Task
      BY <2>1 DEF InHand, OnceInv, Apart, TaskSets
    <3>3. Apart(tasks')
      BY <3>1, <3>2 DEF OnceInv, Apart
    <3>4. \A u \in M!Task : InHand(tasks', u) => InHand(tasks, u) \/ u = t
      BY <3>1 DEF InHand
    <3> QED BY <2>2, <2>3, <2>4, <2>5, <3>3, <3>4
  <2>7. CASE tasks' = [tasks EXCEPT !.stage[t] = "wait", !.waiters = Append(@, t)]
    <3>1. PICK s \in Seq(M!Task) : s = tasks.waiters
      BY DEF OnceInv, Apart, TaskSets
    <3>2. /\ tasks' \in TaskSets /\ tasks'.waiters = Append(s, t)
          /\ \A u \in M!Task : tasks'.stage[u] = IF u = t THEN "wait" ELSE tasks.stage[u]
      <4>1. PICK st : st = [tasks.stage EXCEPT ![t] = "wait"]
        OBVIOUS
      <4>2. /\ st \in [M!Task -> Stages]
            /\ \A u \in M!Task : st[u] = IF u = t THEN "wait" ELSE tasks.stage[u]
        BY <4>1 DEF OnceInv, Apart, TaskSets, Stages
      <4>3. PICK q : q = Append(s, t)
        OBVIOUS
      <4>4. q \in Seq(M!Task) /\ tasks' = [tasks EXCEPT !.stage = st, !.waiters = q]
        BY <2>7, <3>1, <4>1, <4>3
      <4>5. tasks' \in TaskSets /\ tasks'.waiters = q /\ tasks'.stage = st
        BY <4>2, <4>4 DEF OnceInv, Apart, TaskSets
      <4> QED BY <4>2, <4>3, <4>5
    <3>3. \A i \in DOMAIN s : s[i] # t /\ s[i] \in M!Task
      BY <2>1, <3>1 DEF InHand
    <3>4. \A i \in DOMAIN Append(s, t) : (i \in DOMAIN s /\ Append(s, t)[i] = s[i]) \/ (i = Len(s) + 1 /\ Append(s, t)[i] = t)
      BY <3>1
    <3>5. Apart(tasks')
      BY <3>1, <3>2, <3>3, <3>4 DEF OnceInv, Apart
    <3>6. \A u \in M!Task : InHand(tasks', u) => InHand(tasks, u) \/ u = t
      BY <3>1, <3>2, <3>4 DEF InHand
    <3> QED BY <2>2, <2>3, <2>4, <2>5, <3>5, <3>6
  <2> QED BY <2>2, <2>3, <2>4, <2>6, <2>7
<1> QED BY <1>4, <1>5

\* A new client has seen nothing and has nothing in hand.
LEMMA StartKeeps == ASSUME OnceInv, CursorInv, M!Start PROVE OnceInv'
<1>1. /\ tasks' = [open |-> TRUE, pending |-> <<>>, waiters |-> <<>>, stage |-> [t \in M!Task |-> "none"]]
      /\ delivered' = [n \in M!Event |-> 0]
      /\ client' = [M!NoClient EXCEPT !.history = IF file = None THEN posted ELSE 0]
  BY DEF M!Start, M!NoTasks
<1>2. tasks' \in TaskSets
  BY <1>1 DEF TaskSets, Stages
<1>3. Apart(tasks') /\ \A t \in M!Task : ~InHand(tasks', t)
  BY <1>1, <1>2 DEF Apart, InHand
<1>4. client' \in Clients
  <2>1. posted \in Nat
    BY MatrixBounds DEF CursorInv, CursorTyped, M!Token
  <2>2. client' = [seen |-> {}, aborted |-> FALSE, room |-> None, history |-> IF file = None THEN posted ELSE 0]
    BY <1>1 DEF M!NoClient
  <2>3. PICK h \in Nat : h = IF file = None THEN posted ELSE 0
    BY <2>1
  <2>4. client' = [seen |-> {}, aborted |-> FALSE, room |-> None, history |-> h]
    BY <2>2, <2>3
  <2> QED BY <2>4 DEF Clients
<1>5. delivered' \in [M!Event -> Nat] /\ \A n \in M!Event : delivered'[n] = 0
  BY <1>1
<1>6. \A n \in M!Event : delivered'[n] <= 1 /\ (delivered'[n] > 0 => n \in client'.seen)
  BY <1>5
<1> QED BY <1>3, <1>4, <1>5, <1>6 DEF OnceInv

\* The tasks are closed or gone, or one is started or put in line.
LEMMA LoopKeeps ==
  ASSUME OnceInv, CursorInv,
         M!Timeline \/ M!StartFails \/ M!Replace \/ M!Shutdown \/ M!Crash
  PROVE OnceInv'
<1>1. delivered' = delivered /\ (client' = client \/ client' = [client EXCEPT !.aborted = TRUE])
  BY DEF M!Timeline, M!StartFails, M!Replace, M!Shutdown, M!Crash, M!Stop
<1>2. client' \in Clients /\ client'.seen = client.seen
  BY <1>1 DEF OnceInv, Clients
<1>3. \/ tasks' = tasks \/ tasks' = M!NoTasks \/ tasks' = [tasks EXCEPT !.open = FALSE]
      \/ \E t \in M!Task : \/ tasks' = [tasks EXCEPT !.stage[t] = "ready"]
                           \/ tasks' = [tasks EXCEPT !.pending = Append(@, t)]
  <2>1. CASE M!Timeline
    <3>1. Head(sdk.batch) \in M!Task
      BY <2>1 DEF M!Timeline, CursorInv, LoopTyped
    <3> QED BY <2>1, <3>1 DEF M!Timeline
  <2> QED BY <2>1 DEF M!StartFails, M!Replace, M!Shutdown, M!Crash, M!Stop
<1>4. Apart(tasks') /\ \A t \in M!Task : InHand(tasks', t) => InHand(tasks, t)
  <2>1. CASE tasks' = tasks
    BY <2>1 DEF OnceInv
  <2>2. CASE tasks' = M!NoTasks
    <3>1. tasks' \in TaskSets /\ tasks'.waiters = <<>> /\ \A t \in M!Task : tasks'.stage[t] = "none"
      BY <2>2 DEF M!NoTasks, TaskSets, Stages
    <3> QED BY <3>1 DEF Apart, InHand
  <2>3. CASE tasks' = [tasks EXCEPT !.open = FALSE]
    <3>1. tasks' \in TaskSets /\ tasks'.waiters = tasks.waiters /\ tasks'.stage = tasks.stage
      BY <2>3 DEF OnceInv, Apart, TaskSets
    <3> QED BY <3>1 DEF OnceInv, Apart, InHand
  <2>4. ASSUME NEW t \in M!Task, tasks' = [tasks EXCEPT !.stage[t] = "ready"]
        PROVE Apart(tasks') /\ \A u \in M!Task : InHand(tasks', u) => InHand(tasks, u)
    <3>1. /\ tasks' \in TaskSets /\ tasks'.waiters = tasks.waiters
          /\ \A u \in M!Task : tasks'.stage[u] = IF u = t THEN "ready" ELSE tasks.stage[u]
      BY <2>4 DEF OnceInv, Apart, TaskSets, Stages
    <3>2. \A i \in DOMAIN tasks.waiters : tasks.waiters[i] \in M!Task
      BY DEF OnceInv, Apart, TaskSets
    <3> QED BY <3>1, <3>2 DEF OnceInv, Apart, InHand
  <2>5. ASSUME NEW t \in M!Task, tasks' = [tasks EXCEPT !.pending = Append(@, t)]
        PROVE Apart(tasks') /\ \A u \in M!Task : InHand(tasks', u) => InHand(tasks, u)
    <3>1. tasks' \in TaskSets /\ tasks'.waiters = tasks.waiters /\ tasks'.stage = tasks.stage
      <4>1. PICK p : p = Append(tasks.pending, t)
        OBVIOUS
      <4>2. p \in Seq(M!Task) /\ tasks' = [tasks EXCEPT !.pending = p]
        BY <2>5, <4>1 DEF OnceInv, Apart, TaskSets
      <4> QED BY <4>2 DEF OnceInv, Apart, TaskSets
    <3> QED BY <3>1 DEF OnceInv, Apart, InHand
  <2> QED BY <1>3, <2>1, <2>2, <2>3, <2>4, <2>5
<1> QED BY <1>1, <1>2, <1>4, FewerKeeps

\* Every step of the channel.
LEMMA MatrixOnce == ASSUME OnceInv, CursorInv, [M!Next]_chatting PROVE OnceInv'
<1>1. CASE UNCHANGED <<tasks, client, delivered>>
  BY <1>1 DEF OnceInv
<1> QED
  BY <1>1, StartKeeps, LoopKeeps, RunKeeps, EndsKeep
  DEF M!Next, M!Prepared, M!StopEnds, M!SomebodyWrites, M!Sync, M!SyncEvent, M!WriteCursor, M!StaleWrite,
      M!WindowPasses, M!Receive, M!Send, M!SendEnds, chatting

(***************************************************************************)
(* Both, in the sum                                                        *)
(***************************************************************************)

\* A step of the sum is one of the channel, or leaves it alone.
LEMMA ChannelSteps == ASSUME [SumNext]_<<part, chatting, vars>> PROVE [M!Next]_chatting
<1>1. CASE InRuns \/ InHub \/ UNCHANGED <<part, chatting, vars>>
  BY <1>1 DEF InRuns, InHub
<1>2. CASE InMatrix
  BY <1>2 DEF SumNext, InRuns, InHub, InMatrix, InMatrixLater, M!Next
<1> QED BY <1>1, <1>2 DEF SumNext, InMatrixLater

\* A step of a schedule without the hub's resume is one of the schedule, or leaves it alone.
LEMMA ScheduleSteps == ASSUME part = "runs", [SumNext]_<<part, chatting, vars>> PROVE [Next]_vars
BY DEF SumNext, InRuns, InHub, InMatrix, InMatrixLater

\* A due minute reaches the host at most once where the hub leaves the resume to a session, whatever
\* sessions race for it, crash, restart, stop or resume it.
THEOREM InboxSentAtMostOnce == ASSUME ~HubResume PROVE SumSpec => []SentAtMostOnce
<1> DEFINE J == part = "runs" => SendInv
<1>1. SumInit => J
  BY InitSendInv DEF SumInit
<1>2. ASSUME J, [SumNext]_<<part, chatting, vars>> PROVE J'
  <2>1. part' = part
    BY <1>2 DEF SumNext, InRuns, InHub, InMatrix, InMatrixLater
  <2>2. ASSUME part = "runs" PROVE SendInv'
    BY <1>2, <2>2, ScheduleSteps, StepTypeOK, StepApprovalFacts, StepSendInv DEF SendInv, IInv, Slot
  <2> QED BY <2>1, <2>2
<1>3. J => SentAtMostOnce
  BY DEF SendInv, SentFact, AtMostOneSend, SentAtMostOnce
<1> QED BY <1>1, <1>2, <1>3, PTL DEF SumSpec

\* A message that was buffered before its cursor was let go is not passed by the saved cursor until
\* it was read, however writes fail, wait or are left behind by a client that was stopped.
THEOREM InboxBufferedIsHeld == SumSpec => []BufferedIsHeld
<1>1. SumInit => CursorInv
  BY InitCursor DEF SumInit
<1>2. CursorInv /\ [SumNext]_<<part, chatting, vars>> => CursorInv'
  BY ChannelSteps, MatrixCovers
<1>3. CursorInv => BufferedIsHeld
  <2>1. CursorInv => M!Range(channel.buffer) \subseteq M!Event
    BY DEF CursorInv, ChannelTyped, M!Range
  <2> QED BY <2>1 DEF CursorInv, CoveredAll, Covered, BufferedIsHeld, M!BufferedIsHeld
<1> QED BY <1>1, <1>2, <1>3, PTL DEF SumSpec

\* No event reaches the buffer of one client twice, although it is emitted again while its
\* attachment is loaded or waits for that.
THEOREM InboxDeliveredOnce == SumSpec => []DeliveredOnce
<1>1. SumInit => CursorInv /\ OnceInv
  BY InitCursor, InitOnce DEF SumInit
<1>2. CursorInv /\ OnceInv /\ [SumNext]_<<part, chatting, vars>> => CursorInv' /\ OnceInv'
  BY ChannelSteps, MatrixCovers, MatrixOnce
<1>3. OnceInv => DeliveredOnce
  BY DEF OnceInv, DeliveredOnce, M!DeliveredOnce
<1> QED BY <1>1, <1>2, <1>3, PTL DEF SumSpec
=============================================================================
