------------------------------ MODULE MCKanban ------------------------------
(***************************************************************************)
(* The board of pi-kanban with two tasks, the overlay that shows one, and  *)
(* the lock of its log, which somebody may remove by hand.  The            *)
(* transactions on the log are KanbanBoard's, each under the lock; the     *)
(* overlay's module keeps of the log only what it draws; so a behaviour    *)
(* runs one of the three and leaves the others where they began.           *)
(***************************************************************************)
EXTENDS KanbanBoard, Sequences

CONSTANTS Order, Columns, Query, MaxChanges,   \* of KanbanOverlay
  Call, Inode, MaxRetries   \* of AdvisoryLock

VARIABLES part, file, shown, ui, aim, op, watch, reads, open, changes,
  lock, pc, temp, mine, seen, retries

boardVars == <<task, torn, tears, attempt>>
viewVars == <<file, shown, ui, aim, op, watch, reads, open, changes>>
lockVars == <<lock, pc, temp, mine, seen, retries>>

V == INSTANCE KanbanOverlay

L == INSTANCE AdvisoryLock WITH ForeignRemoval <- TRUE

\* Two tasks of this board, two columns, and a filter that matches the first task.
TwoTasks == <<1, 2>>
TwoColumns == <<"todo", "in-progress">>
FirstTask == {{1}}

SumInit ==
  /\ part \in {"board", "overlay", "lock"}
  /\ Init
  /\ L!Init
  /\ V!Init /\ \A t \in V!Task : file.board[t] = "todo"

InBoard   == part = "board" /\ UNCHANGED <<part, viewVars, lockVars>>
InOverlay == part = "overlay" /\ UNCHANGED <<part, boardVars, lockVars>>
InLock    == part = "lock" /\ UNCHANGED <<part, boardVars, viewVars>>

SumNext ==
  \/ \E a \in Agent \ {Operator} : InBoard /\ Tool(a)
  \/ InBoard /\ Overlay
  \/ \E a \in Agent : InBoard /\ Completion(a)
  \/ \E t \in Id : InBoard /\ Anyone(t)
  \/ InBoard /\ runCompactionLocked
  \/ InOverlay /\ V!Navigate
  \/ InOverlay /\ V!KeyActs
  \/ InOverlay /\ V!KeyAsks
  \/ InOverlay /\ V!Dialog
  \/ InOverlay /\ V!Search
  \/ InOverlay /\ V!Close
  \/ InOverlay /\ V!Other
  \/ InOverlay /\ V!Replaced
  \/ InOverlay /\ V!OperationEnds
  \/ InOverlay /\ V!FileEvent
  \/ InOverlay /\ V!Restart
  \/ \E t \in watch.timers : InOverlay /\ V!TimerFires(t)
  \/ \E r \in reads : InOverlay /\ V!ParseEnds(r)
  \/ InLock /\ L!Next

SumSpec == /\ SumInit /\ [][SumNext]_<<part, boardVars, viewVars, lockVars>>
           /\ WF_viewVars(part = "overlay" /\ V!FileEvent) /\ WF_viewVars(part = "overlay" /\ V!Restart)
           /\ WF_viewVars(part = "overlay" /\ \E t \in watch.timers : V!TimerFires(t))
           /\ WF_viewVars(part = "overlay" /\ \E r \in reads : V!ParseEnds(r))
           /\ \A c \in Call : WF_lockVars(part = "lock" /\ L!Step(c))

\* The properties of the overlay and the lock, by the names they have there.
ActsOnItsTask == V!ActsOnItsTask
OutageEnds == V!OutageEnds
EveryCallEnds == L!EveryCallEnds
=============================================================================
