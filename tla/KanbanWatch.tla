---------------------------- MODULE KanbanWatch ----------------------------
(***************************************************************************)
(* The board watcher of a session: it counts the events of the log after   *)
(* each change, takes the lines past the last count for new, leaves out    *)
(* those this process wrote, and wakes the agent for the others.           *)
(***************************************************************************)
EXTENDS Naturals, Sequences

CONSTANTS MaxInjects,  \* MAX_CONSECUTIVE_INJECTS, 3 in the code
          MaxLines     \* bound on the lines ever written

VARIABLES
  log,         \* the lines, each with its number and whether it can be decoded
  born,        \* how many lines were written
  self,        \* selfAppendedLines
  attached,    \* the watch is on the file that is the log
  state,       \* WatcherState, and whether follow-ups are on
  updates,     \* updateWidget calls that wait for the board, with the total they will find
  busy,        \* a turn is under way
  others,      \* how many lines somebody else wrote
  woken        \* how many follow-ups were injected

watchVars == <<log, born, self, attached, state, updates, busy, others, woken>>

TypeOK ==
  /\ log \in Seq([n : 1 .. MaxLines, ok : BOOLEAN]) /\ born \in 0 .. MaxLines /\ self \subseteq 1 .. MaxLines
  /\ {attached, busy, state.on, state.enabled, state.pending, state.cooling} \subseteq BOOLEAN
  /\ state.count \in 0 .. MaxLines /\ state.injects \in 0 .. MaxInjects /\ updates \subseteq 0 .. MaxLines
  /\ others \in 0 .. MaxLines /\ woken \in Nat

Off == [on |-> FALSE, enabled |-> FALSE, pending |-> FALSE, cooling |-> FALSE, count |-> 0, injects |-> 0]

Init ==
  /\ log = <<[n |-> 1, ok |-> TRUE]>> /\ born = 1 /\ self = {} /\ attached = FALSE /\ state = Off
  /\ updates = {} /\ busy = FALSE /\ others = 0 /\ woken = 0

Total == Len(SelectSeq(log, LAMBDA l : l.ok))

\* onFileChange
Changed(s) == [s EXCEPT !.pending = @ \/ attached]

Written(own, ok) ==
  /\ born < MaxLines /\ born' = born + 1
  /\ log' = log \o <<[n |-> born + 1, ok |-> ok]>>
  /\ self' = IF own THEN self \cup {born + 1} ELSE self
  /\ others' = IF own THEN others ELSE others + 1
  /\ state' = Changed(state)
  /\ UNCHANGED <<attached, updates, busy, woken>>

\* appendBoardEventsLocked by this process; by another one; a line nobody can decode.
OwnAppend == Written(TRUE, TRUE)
OtherAppend == Written(FALSE, TRUE)
TornAppend == Written(FALSE, FALSE)

\* A compaction renames a shorter log over this one.
Compact ==
  /\ born < MaxLines /\ born' = born + 1 /\ log' = <<[n |-> born + 1, ok |-> TRUE]>>
  /\ state' = Changed(state) /\ attached' = FALSE /\ others' = others + 1
  /\ UNCHANGED <<self, updates, busy, woken>>

Update == updates' = updates \cup {Total}

SessionStart ==
  /\ ~state.on /\ state' = [Off EXCEPT !.on = TRUE, !.enabled = TRUE]
  /\ attached' = TRUE /\ Update
  /\ UNCHANGED <<log, born, self, busy, others, woken>>

SessionShutdown ==
  /\ state.on /\ ~busy
  /\ state' = [state EXCEPT !.on = FALSE, !.pending = FALSE] /\ attached' = FALSE
  /\ UNCHANGED <<log, born, self, updates, busy, others, woken>>

Toggle ==
  /\ state.on /\ state' = [state EXCEPT !.enabled = ~@]
  /\ UNCHANGED <<log, born, self, attached, updates, busy, others, woken>>

\* The debounce timer.
Debounced ==
  /\ state.pending /\ state' = [state EXCEPT !.pending = FALSE] /\ Update
  /\ UNCHANGED <<log, born, self, attached, busy, others, woken>>

\* detectNewEvents
NewLines == IF state.count = 0 THEN {} ELSE {log[i].n : i \in state.count + 1 .. Len(log)}

MayInject == state.enabled /\ ~busy /\ ~state.cooling /\ state.injects < MaxInjects

\* updateWidget goes on with the board it read: the log is read once more for the
\* lines past the count of the update before.
Updated(total) ==
  /\ total \in updates /\ updates' = updates \ {total}
  /\ IF ~state.on THEN UNCHANGED <<self, state, busy, woken>>
     ELSE LET external == NewLines \ self
              looked == {n \in NewLines : \A e \in external : n <= e}
              injects == external # {} /\ MayInject
          IN /\ self' = self \ looked
             /\ state' = [state EXCEPT !.count = total,
                                       !.cooling = @ \/ injects, !.injects = IF injects THEN @ + 1 ELSE @]
             /\ busy' = (busy \/ injects) /\ woken' = IF injects THEN woken + 1 ELSE woken
  /\ UNCHANGED <<log, born, attached, others>>

CooldownOver ==
  /\ state.cooling /\ state' = [state EXCEPT !.cooling = FALSE]
  /\ UNCHANGED <<log, born, self, attached, updates, busy, others, woken>>

UserTypes ==
  /\ state.on /\ busy' = TRUE
  /\ UNCHANGED <<log, born, self, attached, state, updates, others, woken>>

\* agent_end, of a turn the user began or a follow-up.
AgentEnd ==
  /\ busy /\ busy' = FALSE
  /\ state' = [state EXCEPT !.injects = 0] /\ Update
  /\ UNCHANGED <<log, born, self, attached, others, woken>>

Next ==
  \/ OwnAppend \/ OtherAppend \/ TornAppend \/ Compact
  \/ SessionStart \/ SessionShutdown \/ Toggle
  \/ Debounced \/ CooldownOver \/ UserTypes \/ AgentEnd
  \/ \E total \in updates : Updated(total)

Spec == Init /\ [][Next]_watchVars

-----------------------------------------------------------------------------
(* "Slow path (external update + idle + cooldown): injects a followUp message" *)
(* (watcher.ts:6): what nobody else wrote to the log wakes nobody, and what    *)
(* somebody did wakes the agent once.                                          *)
WakesOnlyForOthers == woken <= others
=============================================================================
