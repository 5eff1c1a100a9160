----------------------------- MODULE KanbanBoard -----------------------------
(***************************************************************************)
(* The Kanban board of pi-kanban: agents' tools and the operator's overlay *)
(* append events to one log under its advisory lock, and every transaction *)
(* parses the log first.  The model keeps what parsing gives, so appending *)
(* an event applies it.  A transaction is one step: AdvisoryLock shows     *)
(* that two never overlap.  Completion is not: it validates, runs a gate   *)
(* command without the lock, and validates again when it commits.          *)
(* Titles, priorities, reasons, notes and times are left out.              *)
(***************************************************************************)
EXTENDS Integers, FiniteSets

CONSTANTS Agent,            \* names that claim and complete
          Operator,         \* the overlay's identity, one of them
          None,             \* no name: empty, or the "unknown" that a compaction writes for it
          MaxId,            \* bound: task ids are T-001 .. T-MaxId
          WipLimit,         \* WIP_LIMIT
          Gate,             \* KANBAN_GATE_COMMAND is set
          RequireEvidence,  \* KANBAN_REQUIRE_CHECK_EVIDENCE
          MaxTears          \* bound: appends cut in the middle of a line

ASSUME BoardAssumption ==
  /\ Operator \in Agent /\ None \notin Agent
  /\ MaxId \in Nat /\ WipLimit \in Nat /\ MaxTears \in Nat
  /\ Gate \in BOOLEAN /\ RequireEvidence \in BOOLEAN

VARIABLES
  task,     \* board.tasks: the state of each task, Absent if the log does not name it
  torn,     \* the log ends in an incomplete line
  tears,    \* how often that happened
  attempt   \* the completion each agent has in progress

vars == <<task, torn, tears, attempt>>

Id == 1 .. MaxId
Column == {"backlog", "todo", "in-progress", "blocked", "done"}
Checks == {"none", "pass", "fail"}

\* past: the column that the block and unblock events of a task alone would leave it in.
TaskState == [col : Column, deleted : BOOLEAN,
              claimed : BOOLEAN, claimAgent : Agent \cup {None}, doneAgent : Agent \cup {None},
              verificationRequired : BOOLEAN, past : {"backlog", "blocked", "todo"}]
Absent == [col |-> "absent"]
NewTask == [col |-> "backlog", deleted |-> FALSE,
            claimed |-> FALSE, claimAgent |-> None, doneAgent |-> None,
            verificationRequired |-> FALSE, past |-> "backlog"]

Attempt == [step : {"gate", "commit"}, id : Id, checks : Checks, aborted : {"no", "gate", "late"}]
Idle == [step |-> "idle"]

TypeOK ==
  /\ task \in [Id -> TaskState \cup {Absent}]
  /\ torn \in BOOLEAN
  /\ tears \in 0 .. MaxTears
  /\ attempt \in [Agent -> Attempt \cup {Idle}]

Init ==
  /\ task = [t \in Id |-> Absent]
  /\ torn = FALSE
  /\ tears = 0
  /\ attempt = [a \in Agent |-> Idle]

Exists(t) == task[t] # Absent
In(t, col) == Exists(t) /\ task[t].col = col
Deleted(t) == Exists(t) /\ task[t].deleted
Wip == {t \in Id : In(t, "in-progress")}

(***************************************************************************)
(* Events                                                                  *)
(***************************************************************************)

Create == [type |-> "create"]
MoveTo(col) == [type |-> "move", to |-> col]
Claim(a) == [type |-> "claim", agent |-> a]
Unclaim == [type |-> "unclaim"]
Complete(a, v) == [type |-> "complete", agent |-> a, verified |-> v]
Block == [type |-> "block"]
Unblock == [type |-> "unblock"]
Note == [type |-> "note"]  \* or edit
Delete == [type |-> "delete"]
Skipped == [type |-> "skipped"]  \* no line, or one that does not parse

\* Mistake: the owner is cleared, the claim is not.
ReleasedPartly(x) == [x EXCEPT !.claimAgent = None]
Released(x) == [x EXCEPT !.claimed = FALSE, !.claimAgent = None]

applyEvent(x, e) ==
  CASE e.type = "move" -> [x EXCEPT !.col = e.to]
    [] e.type = "claim" ->
         IF x.claimed THEN x
         ELSE [x EXCEPT !.claimed = TRUE, !.claimAgent = e.agent, !.col = "in-progress"]
    [] e.type = "unclaim" -> Released(x)
    [] e.type = "complete" ->
         [Released(x) EXCEPT !.col = "done", !.doneAgent = e.agent,
                             !.verificationRequired = @ \/ e.verified]
    [] e.type = "block" -> [Released(x) EXCEPT !.col = "blocked", !.past = "blocked"]
    [] e.type = "unblock" -> [x EXCEPT !.col = "todo", !.past = "todo"]
    [] e.type = "delete" -> [x EXCEPT !.deleted = TRUE]
    [] OTHER -> x

\* parseBoard on one more line; the first line of an unknown id makes a new task.
Line(x, e) ==
  CASE e = Skipped -> x
    [] e # Skipped /\ x = Absent -> applyEvent(NewTask, e)
    [] OTHER -> applyEvent(x, e)

\* appendUnlocked of a batch of one or two events of task t.  An incomplete line at
\* the end of the log runs into the first line of the batch, and neither parses.  A
\* write that fails may leave the lines it completed and part of the next.  (A cut just
\* before a newline, which shows the event until the next append loses it, is left out.)
First(e) == IF torn THEN Skipped ELSE e
AppendEvents(t, e1, e2) ==
  \/ /\ task' = [task EXCEPT ![t] = Line(Line(@, First(e1)), e2)]
     /\ torn' = FALSE
     /\ UNCHANGED tears
  \/ /\ tears < MaxTears
     /\ tears' = tears + 1
     /\ torn' = TRUE
     /\ \/ UNCHANGED task
        \/ e2 # Skipped /\ task' = [task EXCEPT ![t] = Line(@, First(e1))]

(***************************************************************************)
(* Transactions                                                            *)
(***************************************************************************)

\* discovered_from, which must name a task on the board, is left out.
createTask(t) ==
  /\ ~Exists(t)
  /\ AppendEvents(t, Create, Skipped)
  /\ UNCHANGED attempt

\* nextTaskId: one above the highest id.
nextTaskId(t) == (t > 1 => Exists(t - 1)) /\ \A u \in Id : u >= t => ~Exists(u)

createTaskWithNextId ==
  /\ \E t \in Id : nextTaskId(t) /\ AppendEvents(t, Create, Skipped)
  /\ UNCHANGED attempt

moveTask(t, to) ==
  /\ Exists(t) /\ task[t].col \in {"backlog", "todo"} \ {to}
  /\ AppendEvents(t, MoveTo(to), Skipped)
  /\ UNCHANGED attempt

deleteTask(t) ==
  /\ Exists(t) /\ ~Deleted(t) /\ ~In(t, "in-progress")
  /\ AppendEvents(t, Delete, Skipped)
  /\ UNCHANGED attempt

\* performEdit: an edit in backlog or todo, a note at any time, or both.
performEdit(t) ==
  /\ Exists(t)
  /\ \/ AppendEvents(t, Note, Skipped)
     \/ task[t].col \in {"backlog", "todo"} /\ AppendEvents(t, Note, Note)
  /\ UNCHANGED attempt

\* Mistakes: the limit is compared with >; a claim with a target skips it.
WipFreeOffByOne == Cardinality(Wip) <= WipLimit
WipFree == Cardinality(Wip) < WipLimit

ClaimTodo(a, t) == WipFree /\ AppendEvents(t, Claim(a), MoveTo("in-progress"))

\* claimTask with a target: from todo, or from its owner unless claimOnly.
claimTarget(a, t, claimOnly) ==
  /\ Exists(t) /\ ~Deleted(t)
  /\ \/ In(t, "todo") /\ ClaimTodo(a, t)
     \/ In(t, "in-progress") /\ ~claimOnly /\ AppendEvents(t, Unclaim, Claim(a))
  /\ UNCHANGED attempt

\* claimTask without a target: an unclaimed task in todo, whichever priorities and ids
\* prefer.  Deleted tasks are not left out.
claimNext(a) ==
  /\ \E t \in Id : In(t, "todo") /\ ~task[t].claimed /\ ClaimTodo(a, t)
  /\ UNCHANGED attempt

blockTask(t) ==
  /\ In(t, "in-progress")
  /\ AppendEvents(t, Block, MoveTo("blocked"))
  /\ UNCHANGED attempt

unblockTask(t) ==
  /\ In(t, "blocked")
  /\ AppendEvents(t, Unblock, MoveTo("todo"))
  /\ UNCHANGED attempt

(***************************************************************************)
(* Completion: orchestrateTaskCompletion                                   *)
(***************************************************************************)

taskRequiresVerification(x, checks) == x.verificationRequired \/ RequireEvidence \/ checks # "none"
validateTaskComplete(x, a, checks) ==
  /\ x # Absent /\ x.col = "in-progress" /\ x.claimAgent = a
  /\ taskRequiresVerification(x, checks) => checks = "pass"

\* The preflight reads the log without the lock; the gate, if there is one, starts.
Preflight(a, t, checks) ==
  /\ attempt[a] = Idle
  /\ validateTaskComplete(task[t], a, checks)
  /\ attempt' = [attempt EXCEPT ![a] = [step |-> IF Gate THEN "gate" ELSE "commit",
                                        id |-> t, checks |-> checks, aborted |-> "no"]]
  /\ UNCHANGED <<task, torn, tears>>

\* The caller's signal, or the overlay closing.
Abort(a) ==
  /\ attempt[a] # Idle /\ attempt[a].aborted = "no"
  /\ attempt' = [attempt EXCEPT ![a].aborted = IF attempt[a].step = "gate" THEN "gate" ELSE "late"]
  /\ UNCHANGED <<task, torn, tears>>

\* The gate exits.
GateExits(a) ==
  /\ attempt[a] # Idle /\ attempt[a].step = "gate"
  /\ \/ attempt[a].aborted = "no" /\ attempt' = [attempt EXCEPT ![a].step = "commit"]
     \/ attempt' = [attempt EXCEPT ![a] = Idle]
  /\ UNCHANGED <<task, torn, tears>>

\* Mistake: the preflight is trusted.
completeTaskUnchecked(a) ==
  /\ attempt[a] # Idle /\ attempt[a].step = "commit"
  /\ attempt' = [attempt EXCEPT ![a] = Idle]
  /\ Exists(attempt[a].id) /\ AppendEvents(attempt[a].id, Complete(a, FALSE), MoveTo("done"))

completeTask(a) ==
  LET t == attempt[a].id
      checks == attempt[a].checks
  IN /\ attempt[a] # Idle /\ attempt[a].step = "commit"
     /\ attempt' = [attempt EXCEPT ![a] = Idle]
     /\ \/ /\ validateTaskComplete(task[t], a, checks)
           /\ AppendEvents(t, Complete(a, taskRequiresVerification(task[t], checks)), MoveTo("done"))
        \/ UNCHANGED <<task, torn, tears>>  \* refused, or nothing could be written

(***************************************************************************)
(* Compaction: runCompactionLocked                                         *)
(***************************************************************************)

\* create and the task's block and unblock events, replayed.
Rebuilt(x) == [NewTask EXCEPT !.col = x.past, !.past = x.past]

\* The events that bring it to its column.  Mistakes: every column is reached by a
\* move, which forgets owners; finished tasks are dropped.
CompactedUnclaimed(x) ==
  IF x = Absent \/ x.deleted THEN Absent ELSE applyEvent(Rebuilt(x), MoveTo(x.col))

Compacted(x) ==
  IF x = Absent \/ x.deleted THEN Absent
  ELSE CASE x.col = "backlog" -> Rebuilt(x)
         [] x.col = "in-progress" /\ x.claimed ->
              applyEvent(applyEvent(Rebuilt(x), MoveTo("in-progress")), Claim(x.claimAgent))
         [] x.col = "done" ->
              applyEvent(Rebuilt(x), Complete(x.doneAgent, x.verificationRequired))
         [] OTHER -> applyEvent(Rebuilt(x), MoveTo(x.col))

runCompactionLocked ==
  /\ task' = [t \in Id |-> Compacted(task[t])]
  /\ torn' = FALSE
  /\ UNCHANGED <<tears, attempt>>

(***************************************************************************)
(* The specification                                                       *)
(***************************************************************************)

\* The overlay acts on the task selected in the board it last drew, which may be any,
\* and has one operation at a time until it is closed, which aborts it.  Tools claim
\* under other names than its.
Tool(a) ==
  \/ \E t \in Id : claimTarget(a, t, FALSE)
  \/ claimNext(a)
Overlay ==
  /\ attempt[Operator] # Idle => attempt[Operator].aborted # "no"
  /\ \/ \E t \in Id : claimTarget(Operator, t, TRUE)
     \/ claimNext(Operator)
     \/ createTaskWithNextId
Completion(a) ==
  \/ \E t \in Id, checks \in Checks : Preflight(a, t, checks)
  \/ Abort(a)
  \/ GateExits(a)
  \/ completeTask(a)
Anyone(t) ==
  \/ createTask(t)
  \/ \E to \in {"backlog", "todo"} : moveTask(t, to)
  \/ deleteTask(t)
  \/ performEdit(t)
  \/ blockTask(t)
  \/ unblockTask(t)

Next ==
  \/ \E a \in Agent \ {Operator} : Tool(a)
  \/ Overlay
  \/ \E a \in Agent : Completion(a)
  \/ \E t \in Id : Anyone(t)
  \/ runCompactionLocked

Spec == Init /\ [][Next]_vars

(***************************************************************************)
(* Properties                                                              *)
(***************************************************************************)

\* The limit on work in progress holds after any mix of claims, reassignments,
\* completions, torn appends and compactions (claimTask, board-actions.ts).
WipBound == Cardinality(Wip) <= WipLimit

\* As long as no append was torn, the tasks in progress are those that have an owner: a
\* claim that reports success is not ignored by the replay, and none survives the column.
ClaimedIsInProgress ==
  tears = 0 => \A t \in Id : Exists(t) =>
    /\ task[t].claimed <=> task[t].col = "in-progress"
    /\ task[t].claimed <=> task[t].claimAgent # None

\* Closing the overlay or cancelling the tool while the gate runs keeps the completion
\* from its commit (README: "aborts an in-flight gate without committing").
AbortedNeverCommits == \A a \in Agent : attempt[a] # Idle /\ attempt[a].aborted = "gate" => attempt[a].step = "gate"

Moves(t, u) == Exists(t) /\ Exists(t)' /\ task[t].col # task'[t].col /\ u = <<task[t].col, task'[t].col>>

\* Transactions move tasks only along the README's diagram, even when an event of a
\* batch is lost; done is final.
ColumnsFollowDiagram ==
  [][~runCompactionLocked => \A t \in Id : \A u \in Column \X Column : Moves(t, u) =>
       u \in {<<"backlog", "todo">>, <<"todo", "backlog">>, <<"todo", "in-progress">>,
              <<"in-progress", "blocked">>, <<"in-progress", "done">>, <<"blocked", "todo">>}]_vars

\* A task is completed by the agent that owns it at that moment, whatever happened to
\* it while the gate ran.
OwnerCompletes ==
  [][\A t \in Id : Exists(t) /\ task[t].col # "done" /\ (In(t, "done") /\ tears = 0)' =>
       task'[t].doneAgent = task[t].claimAgent]_vars

\* The overlay never takes a task from an agent, however old the selection it acts on.
OverlayNeverSteals ==
  [][\A t \in Id : Exists(t) /\ Exists(t)' /\ task[t].claimAgent \notin {None, Operator} =>
       task'[t].claimAgent # Operator]_vars

\* Only what was deleted disappears, and only by a compaction.
OnlyDeletedVanish == [][\A t \in Id : Exists(t) /\ ~Exists(t)' => Deleted(t)]_vars

\* A compaction keeps the column, owner and evidence of work that was started.
CompactionKeepsWork ==
  tears = 0 => \A t \in Id : Exists(t) /\ ~Deleted(t) /\ task[t].col \notin {"backlog", "todo"} =>
                 Compacted(task[t]) = task[t]
=============================================================================
