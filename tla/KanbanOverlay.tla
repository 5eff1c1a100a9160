--------------------------- MODULE KanbanOverlay ---------------------------
(***************************************************************************)
(* The board overlay: what its keys and dialogs do to the selection and to *)
(* the one operation under way, while the log is changed by others,        *)
(* replaced or missing, and the watcher reads it again after each event.   *)
(***************************************************************************)
EXTENDS Naturals, Sequences, SequencesExt, FiniteSets

CONSTANTS Order,       \* the tasks, as the board lists them
          Columns,     \* the columns, from left to right
          Query,       \* the sets of tasks a filter may match
          None,
          MaxChanges   \* bound on changes of the log

VARIABLES
  file,      \* the log: the board it holds, and whether it can be read
  shown,     \* the board of the last refresh
  ui,        \* OverlayInputState
  aim,       \* the tasks that were selected when the dialog was asked for, and for the operation under way
  op,        \* the operation under way
  watch,     \* BoardLogWatcher: its handle, flags and timer
  reads,     \* parses under way, with what they read
  open,      \* the overlay is not disposed
  changes

overlayVars == <<file, shown, ui, aim, op, watch, reads, open, changes>>

Task == Range(Order)
Column == {"backlog", "todo", "in-progress", "blocked", "done"}
Board == [Task -> Column \cup {"none", "deleted"}]
Empty(b) == \A t \in Task : b[t] = "none"
Modes == {"board", "detail", "confirm-delete", "move-picker", "search", "new-task", "block-reason"}
NoOp == [kind |-> "none", task |-> None]

TypeOK ==
  /\ file.board \in Board /\ shown \in Board /\ file.missing \in BOOLEAN
  /\ ui.mode \in Modes /\ ui.col \in 1 .. Len(Columns) /\ ui.row \in 0 .. Len(Order)
  /\ ui.query \in Query \cup {Task} /\ {ui.pending, ui.kept, aim.dialog, aim.op, op.task} \subseteq Task \cup {None}
  /\ watch.handle \in {"off", "on", "dead"} /\ watch.timers \subseteq [recheck : BOOLEAN, sel : Task \cup {None}]
  /\ {watch.live, watch.retry, watch.event, open} \subseteq BOOLEAN /\ changes \in 0 .. MaxChanges

\* tasksInColumn
TasksIn(b, u) ==
  LET at == SelectSeq(Order, LAMBDA t : b[t] = Columns[u.col] /\ t \in u.query)
  IN IF Columns[u.col] = "done" THEN Reverse(at) ELSE at

Selected(b, u) == LET s == TasksIn(b, u) IN IF u.row < Len(s) THEN s[u.row + 1] ELSE None

\* restoreSelectedRow
RestoredRow(s, preferred, row) ==
  IF \E i \in DOMAIN s : s[i] = preferred THEN (CHOOSE i \in DOMAIN s : s[i] = preferred) - 1
  ELSE IF s = <<>> THEN 0 ELSE IF row < Len(s) THEN row ELSE Len(s) - 1

\* restoreOverlaySelection: an empty column gives way to the first that is not.
Restored(b, u, preferred) ==
  LET s == TasksIn(b, u)
      full == {i \in 1 .. Len(Columns) : TasksIn(b, [u EXCEPT !.col = i]) # <<>>}
  IN IF s # <<>> THEN [u EXCEPT !.row = RestoredRow(s, preferred, u.row)]
     ELSE [u EXCEPT !.row = 0,
                    !.col = IF full = {} THEN @ ELSE CHOOSE i \in full : \A j \in full : i <= j]

Refiltered(u, q) ==
  LET v == [u EXCEPT !.query = q] IN [v EXCEPT !.row = RestoredRow(TasksIn(shown, v), u.kept, u.row)]

\* captureSelection
Captured == IF ui.mode = "search" /\ ui.kept # None THEN ui.kept ELSE Selected(shown, ui)

Init ==
  /\ file \in {[board |-> b, missing |-> FALSE] : b \in [Task -> {"none", "todo", "in-progress"}]}
  /\ shown = file.board
  /\ ui = [mode |-> "board", col |-> IF Len(Columns) < 3 THEN 1 ELSE 3, row |-> 0, query |-> Task,
           kept |-> None, pending |-> None, was |-> None]
  /\ aim = [dialog |-> None, op |-> None] /\ op = NoOp /\ reads = {} /\ open = TRUE /\ changes = 0
  /\ watch = [handle |-> "on", live |-> TRUE, retry |-> FALSE, event |-> FALSE, timers |-> {}]

-----------------------------------------------------------------------------
(* Keys.                                                                       *)

Press(mode) == open /\ ui.mode = mode
Rest == <<file, watch, reads, open, changes>>

\* runOperation: one at a time, others are answered busy.
RunOperation(kind, task) == op' = IF op = NoOp THEN [kind |-> kind, task |-> task] ELSE op

\* Arrow keys, in the board.
Navigate ==
  /\ Press("board")
  /\ LET n == Len(Columns) IN
     \/ ui' = [ui EXCEPT !.col = ((@ + n - 2) % n) + 1, !.row = 0]
     \/ ui' = [ui EXCEPT !.col = (@ % n) + 1, !.row = 0]
     \/ ui.row > 0 /\ ui' = [ui EXCEPT !.row = @ - 1]
     \/ ui.row + 1 < Len(TasksIn(shown, ui)) /\ ui' = [ui EXCEPT !.row = @ + 1]
  /\ UNCHANGED <<shown, aim, op, Rest>>

\* c, x and u act at once.
KeyActs ==
  /\ Press("board")
  /\ LET t == Selected(shown, ui) IN
     /\ \/ RunOperation("claim", IF t # None /\ shown[t] = "todo" THEN t ELSE None)
        \/ t # None /\ RunOperation("complete", t)
        \/ t # None /\ shown[t] = "blocked" /\ RunOperation("unblock", t)
     /\ aim' = IF op = NoOp THEN [aim EXCEPT !.op = t] ELSE aim
  /\ UNCHANGED <<shown, ui, Rest>>

\* d, m, b, n and enter ask first, or show the task.
KeyAsks ==
  /\ Press("board")
  /\ LET t == Selected(shown, ui)
         ask(mode, task) == ui' = [ui EXCEPT !.mode = mode, !.pending = task,
                                             !.was = IF task = None THEN None ELSE shown[task]]
     IN /\ \/ t # None /\ shown[t] # "in-progress" /\ ask("confirm-delete", t)
           \/ t # None /\ shown[t] \in {"backlog", "todo"} /\ ask("move-picker", t)
           \/ t # None /\ ask("block-reason", t)
           \/ ask("new-task", None)
           \/ t # None /\ ask("detail", None)
        /\ aim' = [aim EXCEPT !.dialog = IF ui'.mode = "detail" THEN None ELSE t]
  /\ UNCHANGED <<shown, op, Rest>>

\* Mistake: what is selected when the answer comes is what is meant.
AnswerSelected(kind) ==
  LET t == Selected(shown, ui) IN
  /\ ui' = [ui EXCEPT !.mode = "board", !.pending = None, !.was = None]
  /\ IF kind = "none" \/ t = None THEN UNCHANGED op ELSE RunOperation(kind, t)
  /\ aim' = [dialog |-> None, op |-> IF op = NoOp /\ op' # NoOp THEN aim.dialog ELSE aim.op]
  /\ UNCHANGED <<shown, Rest>>

\* The answer of a dialog: an operation on the task it was opened for, or none.  What
\* the column was then decides whether it is tried.
Answer(kind) ==
  /\ ui' = [ui EXCEPT !.mode = "board", !.pending = None, !.was = None]
  /\ IF kind \in {"none", ui.was} \/ (kind = "block" /\ ui.was # "in-progress") THEN UNCHANGED op
     ELSE RunOperation(kind, ui.pending)
  /\ aim' = [dialog |-> None, op |-> IF op = NoOp /\ op' # NoOp THEN aim.dialog ELSE aim.op]
  /\ UNCHANGED <<shown, Rest>>

Dialog ==
  \/ Press("confirm-delete") /\ (Answer("delete") \/ Answer("none"))
  \/ Press("move-picker") /\ (Answer("backlog") \/ Answer("todo") \/ Answer("none"))
  \/ Press("block-reason") /\ (Answer("block") \/ Answer("none"))
  \/ Press("new-task") /\ (Answer("create") \/ Answer("none"))
  \/ Press("detail") /\ Answer("none")

\* "/": what is typed narrows the tasks, and the selection is kept where it can be.
Search ==
  /\ open
  /\ \/ ui.mode = "board" /\ ui' = [ui EXCEPT !.mode = "search", !.kept = Selected(shown, ui)]
     \/ ui.mode = "search" /\ \E q \in Query : ui' = Refiltered(ui, q)
     \/ ui.mode = "search" /\ ui' = [Refiltered(ui, Task) EXCEPT !.mode = "board", !.kept = None]
     \/ ui.mode = "search" /\ ui' = [Refiltered(ui, ui.query) EXCEPT !.mode = "board", !.kept = None]
  /\ UNCHANGED <<shown, aim, op, Rest>>

\* Closing aborts a completion; other operations go on.
Close ==
  /\ Press("board") /\ open' = FALSE
  /\ op' = IF op.kind = "complete" THEN NoOp ELSE op
  /\ watch' = [watch EXCEPT !.handle = "off", !.retry = FALSE, !.event = FALSE, !.timers = {}]
  /\ UNCHANGED <<file, shown, ui, aim, reads, changes>>

-----------------------------------------------------------------------------
(* The log.                                                                    *)

\* What a transaction may make of the column of a task.
After(kind, from) ==
  CASE kind = "claim" /\ from = "todo" -> {"in-progress"}
    [] kind = "complete" /\ from = "in-progress" -> {"done"}
    [] kind = "block" /\ from = "in-progress" -> {"blocked"}
    [] kind = "unblock" /\ from = "blocked" -> {"todo"}
    [] kind = "delete" /\ from \in Column \ {"in-progress"} -> {"deleted"}
    [] kind = "backlog" /\ from = "todo" -> {"backlog"}
    [] kind = "todo" /\ from = "backlog" -> {"todo"}
    [] kind = "create" /\ from = "none" -> {"backlog"}
    [] OTHER -> {}

Kinds == {"claim", "complete", "block", "unblock", "delete", "backlog", "todo", "create"}

Appended(kind, t) ==
  /\ changes < MaxChanges /\ changes' = changes + 1 /\ ~file.missing
  /\ \E c \in After(kind, file.board[t]) \cap (Range(Columns) \cup {"deleted"}) :
       file' = [file EXCEPT !.board[t] = c]

Signalled(w) == [w EXCEPT !.event = @ \/ w.handle = "on"]

Other ==
  /\ \E kind \in Kinds, t \in Task : Appended(kind, t)
  /\ watch' = Signalled(watch)
  /\ UNCHANGED <<shown, ui, aim, op, reads, open>>

\* A compaction renames a new file over the log: the handle stays with the old one.
\* The log may also be taken away, and come back.
Replaced ==
  /\ changes < MaxChanges /\ changes' = changes + 1
  /\ file' \in {file, [file EXCEPT !.missing = ~@]}
  /\ watch' = [Signalled(watch) EXCEPT !.handle = IF @ = "on" THEN "dead" ELSE @]
  /\ UNCHANGED <<shown, ui, aim, op, reads, open>>

Reading(sel, recheck, own) ==
  [sel |-> sel, recheck |-> recheck, own |-> own, got |-> IF file.missing THEN None ELSE file.board]

\* The transaction of the operation commits or is denied.  A view that is not live
\* reads the board for itself then.
OperationEnds ==
  /\ op # NoOp
  /\ \/ \E t \in Task : /\ op.task \in {t, None} /\ Appended(op.kind, t)
                        /\ watch' = Signalled(watch)
     \/ UNCHANGED <<file, watch, changes>>
  /\ op' = NoOp /\ aim' = [aim EXCEPT !.op = None]
  /\ reads' = IF open /\ ~watch.live
              THEN reads \cup {[Reading(None, FALSE, TRUE) EXCEPT
                     !.got = IF file'.missing THEN None ELSE file'.board]}
              ELSE reads
  /\ UNCHANGED <<shown, ui, open>>

-----------------------------------------------------------------------------
(* BoardLogWatcher.                                                            *)

\* scheduleParse: the timer begins anew.
Parse == {[recheck |-> FALSE, sel |-> Captured]}

\* A file event: what is selected now is to be selected after the refresh.
FileEvent ==
  /\ watch.event
  /\ watch' = [watch EXCEPT !.event = FALSE, !.timers = Parse]
  /\ UNCHANGED <<file, shown, ui, aim, op, reads, open, changes>>

TimerFires(t) ==
  /\ t \in watch.timers
  /\ reads' = reads \cup {Reading(t.sel, t.recheck, FALSE)}
  /\ watch' = [watch EXCEPT !.timers = @ \ {t}]
  /\ UNCHANGED <<file, shown, ui, aim, op, open, changes>>

Unavailable(w) == [w EXCEPT !.live = FALSE, !.retry = TRUE]

ParseEnds(r) ==
  /\ r \in reads /\ reads' = reads \ {r}
  /\ IF r.own
     THEN /\ shown' = IF r.got = None \/ Empty(r.got) THEN shown ELSE r.got
          /\ UNCHANGED <<ui, watch>>
     ELSE IF r.got = None THEN watch' = Unavailable(watch) /\ UNCHANGED <<shown, ui>>
     ELSE IF Empty(r.got) /\ ~r.recheck
     THEN /\ watch' = [watch EXCEPT !.live = TRUE, !.timers = @ \cup {[recheck |-> TRUE, sel |-> r.sel]}]
          /\ UNCHANGED <<shown, ui>>
     ELSE /\ shown' = r.got /\ ui' = Restored(r.got, ui, r.sel)
          /\ watch' = [watch EXCEPT !.live = TRUE]
  /\ UNCHANGED <<file, aim, op, open, changes>>

\* Mistake: a retry that fails is the last.
RestartOnce ==
  /\ watch.retry
  /\ watch' = IF file.missing
              THEN [watch EXCEPT !.handle = "off", !.event = FALSE, !.retry = FALSE]
              ELSE [watch EXCEPT !.handle = "on", !.event = FALSE, !.retry = FALSE, !.live = TRUE,
                                 !.timers = Parse]
  /\ UNCHANGED <<file, shown, ui, aim, op, reads, open, changes>>

\* restart, a second after the view was found unavailable.
Restart ==
  /\ watch.retry
  /\ watch' = IF file.missing
              THEN Unavailable([watch EXCEPT !.handle = "off", !.event = FALSE])
              ELSE [watch EXCEPT !.handle = "on", !.event = FALSE, !.retry = FALSE, !.live = TRUE,
                                 !.timers = Parse]
  /\ UNCHANGED <<file, shown, ui, aim, op, reads, open, changes>>

Next ==
  \/ Navigate \/ KeyActs \/ KeyAsks \/ Dialog \/ Search \/ Close
  \/ Other \/ Replaced \/ OperationEnds
  \/ FileEvent \/ Restart
  \/ \E t \in watch.timers : TimerFires(t)
  \/ \E r \in reads : ParseEnds(r)

\* Events, timers and reads come; keys are pressed or not.
Fairness == /\ WF_overlayVars(FileEvent) /\ WF_overlayVars(Restart)
            /\ WF_overlayVars(\E t \in watch.timers : TimerFires(t))
            /\ WF_overlayVars(\E r \in reads : ParseEnds(r))

Spec == Init /\ [][Next]_overlayVars /\ Fairness

-----------------------------------------------------------------------------
(* An operation is on the task that was selected when its key was pressed,     *)
(* whatever a refresh selected while a dialog was open; a claim without a todo *)
(* task selected takes the next.  A key pressed while one is under way changes *)
(* nothing (overlay-input.ts, runOperation).                                   *)
ActsOnItsTask == op # NoOp /\ op.kind \notin {"claim", "create"} => op.task = aim.op

(* A view that says it is not live becomes live again, unless it is closed or  *)
(* the log is missing still: its retry is never lost (overlay-watcher.ts).     *)
OutageEnds == (open /\ ~watch.live) ~> (watch.live \/ ~open \/ file.missing)
=============================================================================
