------------------------------- MODULE MCDesk -------------------------------
(***************************************************************************)
(* What works beside the conversation of a session: the timer that starts  *)
(* scheduled runs, and the Agent Hub side pane.  They share no state, so a *)
(* behaviour runs one of them and leaves the other where it began.         *)
(***************************************************************************)
EXTENDS ScheduleTimer, TLC

CONSTANTS Agent, Lead, Newcomer, Foreign, Terminal, Capacity, QueueCap, MaxChanges   \* of AgentsPane

VARIABLES part,
  registry, panes, focus, jam, panel, checking, generation, queue, replaying, paused, stopped, did, changes

showing == <<registry, panes, focus, jam, panel, checking, generation, queue, replaying, paused, stopped,
             did, changes>>

A == INSTANCE AgentsPane

ASSUME DeskAssumption == A!PaneAssumption

SumInit ==
  /\ part \in {"timer", "pane"} /\ Init /\ A!Init
  /\ IF part = "timer" THEN ~paused ELSE env = "none"

InTimer == part = "timer"
InPane  == part = "pane"
PaneRests  == UNCHANGED <<part, showing>>
TimerRests == UNCHANGED <<part, vars>>

SumNext ==
  \/ InTimer /\ MinutePasses /\ PaneRests
  \/ InTimer /\ Registry /\ PaneRests
  \/ \E p \in Process : InTimer /\ Scheduler(p) /\ PaneRests
  \/ \E l \in lists : InTimer /\ ReadEnv(l) /\ PaneRests
  \/ \E l \in lists : InTimer /\ Spawn(l) /\ PaneRests
  \/ \E r \in runs : InTimer /\ RunStep(r) /\ PaneRests
  \/ InPane /\ A!Refresh /\ TimerRests
  \/ InPane /\ A!StartupOver /\ TimerRests
  \/ \E answer \in {"none", "here", "away"} : InPane /\ A!Inspected(answer) /\ TimerRests
  \/ \E key \in A!Key : InPane /\ A!Queue(key) /\ TimerRests
  \/ \E key \in A!Key, replay \in BOOLEAN : InPane /\ A!Refused(key, replay) /\ TimerRests
  \/ \E key \in A!Key, replay \in BOOLEAN : InPane /\ A!Idle(key, replay) /\ TimerRests
  \/ InPane /\ A!Close /\ TimerRests
  \/ \E replay \in BOOLEAN : InPane /\ A!Cancel(replay) /\ TimerRests
  \/ \E key \in A!Key, ok \in BOOLEAN : InPane /\ A!Confirm(key, ok) /\ TimerRests
  \/ \E replay \in BOOLEAN : InPane /\ A!Lead_(replay) /\ TimerRests
  \/ \E key \in A!Key, replay \in BOOLEAN : InPane /\ A!Move(key, replay) /\ TimerRests
  \/ \E key \in A!Key, replay, ok \in BOOLEAN : InPane /\ A!Focus(key, replay, ok) /\ TimerRests
  \/ \E key \in A!Key, replay \in BOOLEAN : InPane /\ A!ClickBelow(key, replay) /\ TimerRests
  \/ \E valid \in BOOLEAN : InPane /\ A!Named(valid) /\ TimerRests
  \/ InPane /\ A!NotNamed /\ TimerRests
  \/ \E key \in A!Key, replay, ok \in BOOLEAN : InPane /\ A!Create(key, replay, ok) /\ TimerRests
  \/ InPane /\ A!Quit /\ TimerRests
  \/ \E a \in Agent : InPane /\ A!Dies(a) /\ TimerRests
  \/ \E a \in Agent : InPane /\ A!Reaped(a) /\ TimerRests
  \/ \E a \in Agent, t \in Terminal : InPane /\ A!Starts(a, t) /\ TimerRests
  \/ \E a \in Agent : InPane /\ A!Reloads(a) /\ TimerRests
  \/ \E a \in Agent : InPane /\ A!Works(a) /\ TimerRests
  \/ InPane /\ A!UserMoves /\ TimerRests
  \/ InPane /\ A!OutputJams /\ TimerRests
  \/ InPane /\ A!PromptAges /\ TimerRests

SumSpec == SumInit /\ [][SumNext]_<<part, vars, showing>>

Symmetry == Permutations(Process)

\* The property of the pane, by the name it has there.
ActsAsAsked == A!ActsAsAsked
=============================================================================
