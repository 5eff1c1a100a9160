----------------------------- MODULE KanbanProofs -----------------------------
(***************************************************************************)
(* Theorems about KanbanBoard, for every set of agents, number of tasks,   *)
(* limit and number of torn appends.  Every transaction is a batch of at   *)
(* most two events of one task, of which a torn append keeps any part: the *)
(* lemmas say what each event does to a task, then what each transaction   *)
(* may leave of it (TransactionOutcome), and every theorem follows from    *)
(* that and from what a compaction does.  The last part is about the       *)
(* overlay, for every list of tasks and columns.                           *)
(***************************************************************************)
EXTENDS MCKanban, FiniteSetTheorems, TLAPS

MaybeTask == TaskState \cup {Absent}
Name == Agent \cup {None}

(***************************************************************************)
(* Events                                                                  *)
(***************************************************************************)

\* The task a create makes has a type, and no task is Absent.
LEMMA NewTaskType == NewTask \in TaskState
BY DEF NewTask, TaskState, Column

\* No task is Absent.
LEMMA TaskIsNotAbsent == \A x \in TaskState : x # Absent /\ x.col # "absent"
<1>1. SUFFICES ASSUME NEW x \in TaskState PROVE x # Absent /\ x.col # "absent"
  OBVIOUS
<1>2. x.col \in Column
  BY DEF TaskState
<1>3. x.col # "absent"
  BY <1>2 DEF Column
<1> QED
  BY <1>3 DEF Absent

\* What one line does to a task that is on the board.
LEMMA LineOnTask ==
  ASSUME NEW x \in TaskState
  PROVE /\ Line(x, Skipped) = x
        /\ Line(x, Create) = x
        /\ Line(x, Note) = x
        /\ Line(x, Delete) = [x EXCEPT !.deleted = TRUE]
        /\ Line(x, Unclaim) = Released(x)
        /\ Line(x, Block) = [Released(x) EXCEPT !.col = "blocked", !.past = "blocked"]
        /\ Line(x, Unblock) = [x EXCEPT !.col = "todo", !.past = "todo"]
BY TaskIsNotAbsent
   DEF Line, applyEvent, Skipped, Create, Note, Delete, Unclaim, Block, Unblock

\* A move sets the column.
LEMMA MoveOnTask ==
  ASSUME NEW x \in TaskState, NEW c \in Column
  PROVE Line(x, MoveTo(c)) = [x EXCEPT !.col = c]
BY TaskIsNotAbsent DEF Line, applyEvent, Skipped, MoveTo

\* A claim takes a task that has no owner, and is ignored otherwise.
LEMMA ClaimOnTask ==
  ASSUME NEW x \in TaskState, NEW a
  PROVE Line(x, Claim(a)) =
          IF x.claimed THEN x
          ELSE [x EXCEPT !.claimed = TRUE, !.claimAgent = a, !.col = "in-progress"]
BY TaskIsNotAbsent DEF Line, applyEvent, Skipped, Claim

\* A complete releases the task and records who completed it.
LEMMA CompleteOnTask ==
  ASSUME NEW x \in TaskState, NEW a \in Name, NEW v \in BOOLEAN,
         NEW y, y = Line(x, Complete(a, v))
  PROVE /\ y \in TaskState /\ y.col = "done" /\ y.doneAgent = a
        /\ ~y.claimed /\ y.claimAgent = None
<1>1. PICK r : r = Released(x)
  OBVIOUS
<1>2. r \in TaskState /\ ~r.claimed /\ r.claimAgent = None
  BY <1>1 DEF TaskState, Released
<1>3. Complete(a, v) # Skipped /\ x # Absent
  BY TaskIsNotAbsent DEF Complete, Skipped
<1>4. y = [r EXCEPT !.col = "done", !.doneAgent = a,
                    !.verificationRequired = @ \/ v]
  BY <1>1, <1>3 DEF Line, applyEvent, Complete
<1>5. PICK b \in BOOLEAN : b = (r.verificationRequired \/ v)
  OBVIOUS
<1>6. y = [r EXCEPT !.col = "done", !.doneAgent = a, !.verificationRequired = b]
  BY <1>4, <1>5
<1> QED
  BY <1>2, <1>5, <1>6 DEF TaskState, Column, Name

\* A create makes a new task of an id the log does not name yet.
LEMMA LineOnAbsent == Line(Absent, Skipped) = Absent /\ Line(Absent, Create) = NewTask
BY DEF Line, applyEvent, Skipped, Create

(***************************************************************************)
(* What a transaction leaves of its batch                                  *)
(***************************************************************************)

Results(x, e1, e2) == {x, Line(x, e1), Line(x, e2), Line(Line(x, e1), e2)}

\* A batch changes one task, to one of the results; to the whole batch if nothing was torn.
AppendOutcome(t, e1, e2) ==
  /\ \A u \in Id \ {t} : task'[u] = task[u]
  /\ task' = [task EXCEPT ![t] = task'[t]]
  /\ task'[t] \in Results(task[t], e1, e2)
  /\ torn' \in BOOLEAN
  /\ tears' \in 0 .. MaxTears
  /\ tears' = 0 => tears = 0
  /\ tears' = 0 /\ torn = FALSE =>
       torn' = FALSE /\ task'[t] = Line(Line(task[t], e1), e2)

\* A line that does not parse changes nothing, on the board or not.
LEMMA LineSkipped == ASSUME NEW x PROVE Line(x, Skipped) = x
BY DEF Line

\* AppendEvents leaves what AppendOutcome says.
LEMMA AppendLeaves ==
  ASSUME TypeOK, NEW t \in Id, NEW e1, NEW e2, AppendEvents(t, e1, e2)
  PROVE AppendOutcome(t, e1, e2)
<1>1. MaxTears \in Nat /\ tears \in 0 .. MaxTears /\ torn \in BOOLEAN /\ task \in [Id -> MaybeTask]
  BY BoardAssumption DEF TypeOK, MaybeTask
<1>2. First(e1) \in {e1, Skipped} /\ (torn = FALSE => First(e1) = e1)
  BY DEF First
<1>3. Line(task[t], First(e1)) \in {task[t], Line(task[t], e1)}
  BY <1>2, LineSkipped
<1>4. Line(Line(task[t], First(e1)), e2) \in Results(task[t], e1, e2)
  BY <1>2, LineSkipped DEF Results
<1>5. CASE /\ task' = [task EXCEPT ![t] = Line(Line(@, First(e1)), e2)]
           /\ torn' = FALSE
           /\ UNCHANGED tears
  BY <1>1, <1>2, <1>4, <1>5 DEF AppendOutcome
<1>6. CASE /\ tears < MaxTears
           /\ tears' = tears + 1
           /\ torn' = TRUE
           /\ \/ UNCHANGED task
              \/ e2 # Skipped /\ task' = [task EXCEPT ![t] = Line(@, First(e1))]
  <2>1. task' = task \/ task' = [task EXCEPT ![t] = Line(@, First(e1))]
    BY <1>6
  <2>2. /\ \A u \in Id \ {t} : task'[u] = task[u]
        /\ task' = [task EXCEPT ![t] = task'[t]]
        /\ task'[t] \in {task[t], Line(task[t], First(e1))}
    BY <2>1, <1>1
  <2>3. tears' \in 0 .. MaxTears /\ tears' # 0
    BY <1>1, <1>6
  <2> QED
    BY <2>2, <2>3, <1>3, <1>6 DEF AppendOutcome, Results
<1> QED
  BY <1>5, <1>6 DEF AppendEvents

(***************************************************************************)
(* Which batches are harmless                                              *)
(***************************************************************************)

Diagram == {<<"backlog", "todo">>, <<"todo", "backlog">>, <<"todo", "in-progress">>,
            <<"in-progress", "blocked">>, <<"in-progress", "done">>, <<"blocked", "todo">>}

SameEvidence(x, y) == y.doneAgent = x.doneAgent /\ y.verificationRequired = x.verificationRequired
Paired(x) == x.claimed <=> x.claimAgent # None
Consistent(x) == x.claimed <=> x.col = "in-progress"

\* What any part of a batch may do to a task, and what all of it must.
Follows(x, y) ==
  /\ y \in TaskState
  /\ x.col # y.col => <<x.col, y.col>> \in Diagram
  /\ y.col # "done" => SameEvidence(x, y)
  /\ Paired(x) => /\ Paired(y)
                  /\ y.claimAgent = Operator => x.claimAgent \in {None, Operator}
Whole(x, y) ==
  /\ Paired(x) /\ Consistent(x) => Consistent(y)
  /\ x.col # "done" /\ y.col = "done" => y.doneAgent = x.claimAgent
Legal(x, e1, e2) ==
  /\ \A y \in Results(x, e1, e2) : Follows(x, y)
  /\ Whole(x, Line(Line(x, e1), e2))
StartsNothing(x, e1, e2) ==
  \A y \in Results(x, e1, e2) : y.col = "in-progress" => x.col = "in-progress"

\* The part of Follows that the owners' theorems need.
LEMMA FollowsPaired ==
  ASSUME NEW x \in TaskState, NEW y, Follows(x, y), Paired(x)
  PROVE Paired(y) /\ (y.claimAgent = Operator => x.claimAgent \in {None, Operator})
<1>1. y \in TaskState
  BY DEF Follows
<1>2. x.claimed \in BOOLEAN /\ y.claimed \in BOOLEAN
  BY <1>1 DEF TaskState
<1> QED
  BY <1>2 DEF Follows, SameEvidence, Paired

\* moveTask's batch.
LEMMA MoveIsLegal ==
  ASSUME NEW x \in TaskState, NEW to \in {"backlog", "todo"} \ {x.col}, x.col \in {"backlog", "todo"}
  PROVE Legal(x, MoveTo(to), Skipped) /\ StartsNothing(x, MoveTo(to), Skipped)
<1>1. to \in Column
  BY DEF Column
<1>2. PICK y : y = [x EXCEPT !.col = to]
  OBVIOUS
<1>3. /\ y \in TaskState /\ y.col = to /\ y.claimed = x.claimed /\ y.claimAgent = x.claimAgent
      /\ SameEvidence(x, y)
  BY <1>1, <1>2 DEF TaskState, SameEvidence
<1>4. Line(x, MoveTo(to)) = y /\ Line(x, Skipped) = x /\ Line(y, Skipped) = y
  BY <1>1, <1>2, MoveOnTask, LineSkipped
<1>5. Follows(x, x) /\ Follows(x, y) /\ Whole(x, y)
  BY <1>3 DEF Follows, SameEvidence, Whole, Paired, Consistent, Diagram
<1> QED
  BY <1>3, <1>4, <1>5 DEF Legal, StartsNothing, Results

\* deleteTask's batch.
LEMMA DeleteIsLegal ==
  ASSUME NEW x \in TaskState, x.col # "in-progress"
  PROVE Legal(x, Delete, Skipped) /\ StartsNothing(x, Delete, Skipped)
<1>1. PICK y : y = [x EXCEPT !.deleted = TRUE]
  OBVIOUS
<1>2. /\ y \in TaskState /\ y.col = x.col /\ y.claimed = x.claimed /\ y.claimAgent = x.claimAgent
      /\ SameEvidence(x, y)
  BY <1>1 DEF TaskState, SameEvidence
<1>3. Line(x, Delete) = y /\ Line(x, Skipped) = x /\ Line(y, Skipped) = y
  BY <1>1, LineOnTask, LineSkipped
<1>4. Follows(x, x) /\ Follows(x, y) /\ Whole(x, y)
  BY <1>2 DEF Follows, SameEvidence, Whole, Paired, Consistent
<1> QED
  BY <1>2, <1>3, <1>4 DEF Legal, StartsNothing, Results

\* performEdit's batches.
LEMMA NoteIsLegal ==
  ASSUME NEW x \in TaskState, NEW e \in {Note, Skipped}
  PROVE Legal(x, Note, e) /\ StartsNothing(x, Note, e)
<1>1. Line(x, Note) = x /\ Line(x, e) = x
  BY LineOnTask
<1>2. Follows(x, x) /\ Whole(x, x)
  BY DEF Follows, SameEvidence, Whole
<1> QED
  BY <1>1, <1>2 DEF Legal, StartsNothing, Results

\* blockTask's batch.
LEMMA BlockIsLegal ==
  ASSUME NEW x \in TaskState, x.col = "in-progress"
  PROVE Legal(x, Block, MoveTo("blocked")) /\ StartsNothing(x, Block, MoveTo("blocked"))
<1>1. PICK y : y = [Released(x) EXCEPT !.col = "blocked", !.past = "blocked"]
  OBVIOUS
<1>2. PICK z : z = [x EXCEPT !.col = "blocked"]
  OBVIOUS
<1>3. /\ y \in TaskState /\ y.col = "blocked" /\ ~y.claimed /\ y.claimAgent = None
      /\ SameEvidence(x, y)
  BY <1>1 DEF TaskState, Column, Released, SameEvidence
<1>4. /\ z \in TaskState /\ z.col = "blocked" /\ z.claimed = x.claimed /\ z.claimAgent = x.claimAgent
      /\ SameEvidence(x, z)
  BY <1>2 DEF TaskState, Column, SameEvidence
<1>5. Line(x, Block) = y /\ Line(x, MoveTo("blocked")) = z
  BY <1>1, <1>2, LineOnTask, MoveOnTask DEF Column
<1>6. Line(y, MoveTo("blocked")) = [y EXCEPT !.col = "blocked"]
  BY <1>3, MoveOnTask DEF Column
<1>7. [y EXCEPT !.col = "blocked"] = y
  BY <1>3 DEF TaskState
<1>8. Follows(x, x) /\ Follows(x, y) /\ Follows(x, z) /\ Whole(x, y)
  BY <1>3, <1>4, BoardAssumption DEF Follows, SameEvidence, Whole, Paired, Consistent, Diagram
<1> QED
  BY <1>3, <1>4, <1>5, <1>6, <1>7, <1>8 DEF Legal, StartsNothing, Results

\* unblockTask's batch.
LEMMA UnblockIsLegal ==
  ASSUME NEW x \in TaskState, x.col = "blocked"
  PROVE Legal(x, Unblock, MoveTo("todo")) /\ StartsNothing(x, Unblock, MoveTo("todo"))
<1>1. PICK y : y = [x EXCEPT !.col = "todo", !.past = "todo"]
  OBVIOUS
<1>2. PICK z : z = [x EXCEPT !.col = "todo"]
  OBVIOUS
<1>3. /\ y \in TaskState /\ y.col = "todo" /\ y.claimed = x.claimed /\ y.claimAgent = x.claimAgent
      /\ z \in TaskState /\ z.col = "todo" /\ z.claimed = x.claimed /\ z.claimAgent = x.claimAgent
      /\ SameEvidence(x, y) /\ SameEvidence(x, z)
  BY <1>1, <1>2 DEF TaskState, Column, SameEvidence
<1>4. Line(x, Unblock) = y /\ Line(x, MoveTo("todo")) = z
  BY <1>1, <1>2, LineOnTask, MoveOnTask DEF Column
<1>5. Line(y, MoveTo("todo")) = [y EXCEPT !.col = "todo"]
  BY <1>3, MoveOnTask DEF Column
<1>6. [y EXCEPT !.col = "todo"] = y
  BY <1>3 DEF TaskState
<1>7. Follows(x, x) /\ Follows(x, y) /\ Follows(x, z) /\ Whole(x, y)
  BY <1>3 DEF Follows, SameEvidence, Whole, Paired, Consistent, Diagram
<1> QED
  BY <1>3, <1>4, <1>5, <1>6, <1>7 DEF Legal, StartsNothing, Results

\* The batch of a claim, which only WipFree allows: it starts work.
LEMMA ClaimIsLegal ==
  ASSUME NEW x \in TaskState, x.col = "todo", NEW a \in Agent
  PROVE Legal(x, Claim(a), MoveTo("in-progress"))
<1>1. PICK y : y = IF x.claimed THEN x
                   ELSE [x EXCEPT !.claimed = TRUE, !.claimAgent = a, !.col = "in-progress"]
  OBVIOUS
<1>2. PICK z : z = [x EXCEPT !.col = "in-progress"]
  OBVIOUS
<1>3. PICK w : w = [y EXCEPT !.col = "in-progress"]
  OBVIOUS
<1>4. a # None /\ a \in Name
  BY BoardAssumption DEF Name
<1>5. x.claimed \in BOOLEAN /\ x.claimAgent \in Name
  BY DEF TaskState, Name
<1>6. /\ y \in TaskState /\ y.claimed
      /\ IF x.claimed THEN y.claimAgent = x.claimAgent /\ y.col = x.col
         ELSE y.claimAgent = a /\ y.col = "in-progress"
      /\ SameEvidence(x, y)
  BY <1>1, <1>4, <1>5 DEF TaskState, Column, Name, SameEvidence
<1>7. /\ z \in TaskState /\ z.col = "in-progress"
      /\ z.claimed = x.claimed /\ z.claimAgent = x.claimAgent /\ SameEvidence(x, z)
  BY <1>2 DEF TaskState, Column, SameEvidence
<1>8. /\ w \in TaskState /\ w.col = "in-progress"
      /\ w.claimed = y.claimed /\ w.claimAgent = y.claimAgent /\ SameEvidence(x, w)
  BY <1>3, <1>6 DEF TaskState, Column, SameEvidence
<1>9. Line(x, Claim(a)) = y /\ Line(x, MoveTo("in-progress")) = z /\ Line(y, MoveTo("in-progress")) = w
  <2>1. Line(x, Claim(a)) = y
    BY <1>1, ClaimOnTask
  <2>2. Line(x, MoveTo("in-progress")) = z /\ Line(y, MoveTo("in-progress")) = w
    BY <1>2, <1>3, <1>6, MoveOnTask DEF Column
  <2> QED
    BY <2>1, <2>2
<1>10. Follows(x, x) /\ Follows(x, z)
  BY <1>7 DEF Follows, SameEvidence, Paired, Diagram
<1>11. Follows(x, y) /\ Follows(x, w)
  BY <1>4, <1>5, <1>6, <1>8 DEF Follows, SameEvidence, Paired, Diagram
<1>12. Whole(x, w)
  BY <1>6, <1>8 DEF Whole, Paired, Consistent
<1> QED
  BY <1>9, <1>10, <1>11, <1>12 DEF Legal, Results

\* A reassignment, which only tools make: the new owner is not the overlay.
LEMMA ReassignIsLegal ==
  ASSUME NEW x \in TaskState, x.col = "in-progress", NEW a \in Agent \ {Operator}
  PROVE Legal(x, Unclaim, Claim(a)) /\ StartsNothing(x, Unclaim, Claim(a))
<1>1. PICK y : y = Released(x)
  OBVIOUS
<1>2. PICK z : z = IF x.claimed THEN x
                   ELSE [x EXCEPT !.claimed = TRUE, !.claimAgent = a, !.col = "in-progress"]
  OBVIOUS
<1>3. PICK w : w = [y EXCEPT !.claimed = TRUE, !.claimAgent = a, !.col = "in-progress"]
  OBVIOUS
<1>4. a # None /\ a # Operator /\ a \in Name /\ Operator # None
  BY BoardAssumption DEF Name
<1>5. x.claimed \in BOOLEAN /\ x.claimAgent \in Name
  BY DEF TaskState, Name
<1>6. /\ y \in TaskState /\ y.col = "in-progress" /\ ~y.claimed /\ y.claimAgent = None
      /\ SameEvidence(x, y)
  BY <1>1 DEF TaskState, Released, SameEvidence
<1>7. /\ z \in TaskState /\ z.col = "in-progress" /\ z.claimed
      /\ (z.claimAgent = IF x.claimed THEN x.claimAgent ELSE a)
      /\ SameEvidence(x, z)
  BY <1>2, <1>4, <1>5 DEF TaskState, Column, Name, SameEvidence
<1>8. /\ w \in TaskState /\ w.col = "in-progress" /\ w.claimed /\ w.claimAgent = a
      /\ SameEvidence(x, w)
  BY <1>3, <1>4, <1>6 DEF TaskState, Column, Name, SameEvidence
<1>9. Line(x, Unclaim) = y /\ Line(x, Claim(a)) = z /\ Line(y, Claim(a)) = w
  <2>1. Line(x, Unclaim) = y
    BY <1>1, LineOnTask
  <2>2. Line(x, Claim(a)) = z
    BY <1>2, ClaimOnTask
  <2>3. Line(y, Claim(a)) = w
    BY <1>3, <1>6, ClaimOnTask
  <2> QED
    BY <2>1, <2>2, <2>3
<1>10. Follows(x, x) /\ Follows(x, y) /\ Follows(x, z) /\ Follows(x, w)
  BY <1>4, <1>5, <1>6, <1>7, <1>8 DEF Follows, SameEvidence, Paired
<1>11. Whole(x, w)
  BY <1>8 DEF Whole, Paired, Consistent
<1> QED
  BY <1>6, <1>7, <1>8, <1>9, <1>10, <1>11 DEF Legal, StartsNothing, Results

\* completeTask's batch, by the owner.
LEMMA CompleteIsLegal ==
  ASSUME NEW x \in TaskState, x.col = "in-progress", NEW v \in BOOLEAN, x.claimAgent \in Agent
  PROVE /\ Legal(x, Complete(x.claimAgent, v), MoveTo("done"))
        /\ StartsNothing(x, Complete(x.claimAgent, v), MoveTo("done"))
<1>1. PICK a : a = x.claimAgent
  OBVIOUS
<1>2. PICK y : y = Line(x, Complete(a, v))
  OBVIOUS
<1>3. PICK z : z = [x EXCEPT !.col = "done"]
  OBVIOUS
<1>4. /\ y \in TaskState /\ y.col = "done" /\ y.doneAgent = a
      /\ ~y.claimed /\ y.claimAgent = None
  BY <1>1, <1>2, CompleteOnTask DEF Name
<1>5. z \in TaskState /\ z.col = "done" /\ z.claimed = x.claimed /\ z.claimAgent = x.claimAgent
  BY <1>3 DEF TaskState, Column
<1>6. Line(x, Complete(a, v)) = y /\ Line(x, MoveTo("done")) = z
  BY <1>2, <1>3, MoveOnTask DEF Column
<1>7. Line(y, MoveTo("done")) = [y EXCEPT !.col = "done"]
  BY <1>4, MoveOnTask DEF Column
<1>8. [y EXCEPT !.col = "done"] = y
  BY <1>4 DEF TaskState
<1>9. Follows(x, x) /\ Follows(x, y) /\ Follows(x, z) /\ Whole(x, y)
  BY <1>1, <1>4, <1>5, BoardAssumption DEF Follows, SameEvidence, Whole, Paired, Consistent, Diagram
<1> QED
  BY <1>1, <1>4, <1>5, <1>6, <1>7, <1>8, <1>9 DEF Legal, StartsNothing, Results

(***************************************************************************)
(* What a transaction does to the board                                    *)
(***************************************************************************)

TransactionOutcome(t) ==
  /\ \A u \in Id \ {t} : task'[u] = task[u]
  /\ task' = [task EXCEPT ![t] = task'[t]]
  /\ torn' \in BOOLEAN /\ tears' \in 0 .. MaxTears
  /\ IF Exists(t)
     THEN /\ Follows(task[t], task'[t])
          /\ task'[t].col = "in-progress" => task[t].col = "in-progress" \/ WipFree
     ELSE task'[t] \in {Absent, NewTask}
  /\ tears' = 0 => tears = 0
  /\ tears' = 0 /\ torn = FALSE =>
       torn' = FALSE /\ (Exists(t) => Whole(task[t], task'[t]))

\* A legal batch of a task on the board.
LEMMA BatchOutcome ==
  ASSUME TypeOK, NEW t \in Id, NEW e1, NEW e2, Exists(t), AppendEvents(t, e1, e2),
         Legal(task[t], e1, e2), WipFree \/ StartsNothing(task[t], e1, e2)
  PROVE TransactionOutcome(t)
<1>1. AppendOutcome(t, e1, e2)
  BY AppendLeaves
<1>2. Follows(task[t], task'[t])
  BY <1>1 DEF AppendOutcome, Legal
<1>3. task'[t].col = "in-progress" => task[t].col = "in-progress" \/ WipFree
  BY <1>1 DEF AppendOutcome, StartsNothing
<1>4. tears' = 0 /\ torn = FALSE => torn' = FALSE /\ Whole(task[t], task'[t])
  BY <1>1 DEF AppendOutcome, Legal
<1> QED
  BY <1>1, <1>2, <1>3, <1>4 DEF TransactionOutcome, AppendOutcome

\* The batch of a create.
LEMMA CreateOutcome ==
  ASSUME TypeOK, NEW t \in Id, ~Exists(t), AppendEvents(t, Create, Skipped)
  PROVE TransactionOutcome(t)
<1>1. AppendOutcome(t, Create, Skipped)
  BY AppendLeaves
<1>2. task'[t] \in {Absent, NewTask}
  BY <1>1, LineOnAbsent, LineSkipped DEF AppendOutcome, Results, Exists
<1> QED
  BY <1>1, <1>2 DEF TransactionOutcome, AppendOutcome

\* What the board names is a task.
LEMMA ExistingTask == ASSUME TypeOK, NEW t \in Id, Exists(t) PROVE task[t] \in TaskState
BY DEF TypeOK, Exists

\* One step per transaction.
LEMMA ToolOutcome ==
  ASSUME TypeOK, NEW a \in Agent \ {Operator}, Tool(a)
  PROVE \E t \in Id : TransactionOutcome(t)
<1>1. ASSUME NEW t \in Id, claimTarget(a, t, FALSE) PROVE TransactionOutcome(t)
  <2>1. Exists(t) /\ task[t] \in TaskState
    BY <1>1, ExistingTask DEF claimTarget
  <2>2. CASE In(t, "todo") /\ ClaimTodo(a, t)
    BY <2>1, <2>2, ClaimIsLegal, BatchOutcome DEF In, ClaimTodo
  <2>3. CASE In(t, "in-progress") /\ AppendEvents(t, Unclaim, Claim(a))
    BY <2>1, <2>3, ReassignIsLegal, BatchOutcome DEF In
  <2> QED
    BY <1>1, <2>2, <2>3 DEF claimTarget
<1>2. ASSUME claimNext(a) PROVE \E t \in Id : TransactionOutcome(t)
  <2>1. PICK t \in Id : In(t, "todo") /\ ClaimTodo(a, t)
    BY <1>2 DEF claimNext
  <2> QED
    BY <2>1, ExistingTask, ClaimIsLegal, BatchOutcome DEF In, ClaimTodo
<1> QED
  BY <1>1, <1>2 DEF Tool

\* The overlay's claims are never reassignments.
LEMMA OverlayOutcome ==
  ASSUME TypeOK, Overlay
  PROVE \E t \in Id : TransactionOutcome(t)
<1>0. Operator \in Agent
  BY BoardAssumption
<1>1. ASSUME NEW t \in Id, claimTarget(Operator, t, TRUE) PROVE TransactionOutcome(t)
  <2>1. In(t, "todo") /\ ClaimTodo(Operator, t)
    BY <1>1 DEF claimTarget
  <2> QED
    BY <1>0, <2>1, ExistingTask, ClaimIsLegal, BatchOutcome DEF In, ClaimTodo
<1>2. ASSUME claimNext(Operator) PROVE \E t \in Id : TransactionOutcome(t)
  <2>1. PICK t \in Id : In(t, "todo") /\ ClaimTodo(Operator, t)
    BY <1>2 DEF claimNext
  <2> QED
    BY <1>0, <2>1, ExistingTask, ClaimIsLegal, BatchOutcome DEF In, ClaimTodo
<1>3. ASSUME createTaskWithNextId PROVE \E t \in Id : TransactionOutcome(t)
  <2>1. PICK t \in Id : nextTaskId(t) /\ AppendEvents(t, Create, Skipped)
    BY <1>3 DEF createTaskWithNextId
  <2>2. ~Exists(t)
    BY <2>1 DEF nextTaskId, Id
  <2> QED
    BY <2>1, <2>2, CreateOutcome
<1> QED
  BY <1>1, <1>2, <1>3 DEF Overlay

\* The transactions that anyone makes.
LEMMA AnyoneOutcome ==
  ASSUME TypeOK, NEW t \in Id, Anyone(t)
  PROVE TransactionOutcome(t)
<1>1. CASE createTask(t)
  BY <1>1, CreateOutcome DEF createTask
<1>2. ASSUME NEW to \in {"backlog", "todo"}, moveTask(t, to) PROVE TransactionOutcome(t)
  BY <1>2, ExistingTask, MoveIsLegal, BatchOutcome DEF moveTask
<1>3. CASE deleteTask(t)
  BY <1>3, ExistingTask, DeleteIsLegal, BatchOutcome DEF deleteTask, In
<1>4. CASE performEdit(t)
  BY <1>4, ExistingTask, NoteIsLegal, BatchOutcome DEF performEdit
<1>5. CASE blockTask(t)
  BY <1>5, ExistingTask, BlockIsLegal, BatchOutcome DEF blockTask, In
<1>6. CASE unblockTask(t)
  BY <1>6, ExistingTask, UnblockIsLegal, BatchOutcome DEF unblockTask, In
<1> QED
  BY <1>1, <1>2, <1>3, <1>4, <1>5, <1>6 DEF Anyone

\* A completion that commits.
LEMMA CompleteOutcome ==
  ASSUME TypeOK, NEW a \in Agent, completeTask(a), task' # task \/ torn' # torn \/ tears' # tears
  PROVE \E t \in Id : TransactionOutcome(t)
<1>1. PICK t : t = attempt[a].id
  OBVIOUS
<1>2. PICK v : v = taskRequiresVerification(task[t], attempt[a].checks)
  OBVIOUS
<1>3. /\ validateTaskComplete(task[t], a, attempt[a].checks)
      /\ AppendEvents(t, Complete(a, v), MoveTo("done"))
  BY <1>1, <1>2 DEF completeTask
<1>4. attempt[a] \in Attempt
  BY DEF completeTask, TypeOK
<1>5. t \in Id
  BY <1>1, <1>4 DEF Attempt
<1>6. Exists(t) /\ task[t] \in TaskState /\ task[t].col = "in-progress" /\ task[t].claimAgent = a
  BY <1>3, <1>5, ExistingTask DEF validateTaskComplete, Exists
<1>7. v \in BOOLEAN
  BY <1>2 DEF taskRequiresVerification
<1> QED
  BY <1>3, <1>5, <1>6, <1>7, CompleteIsLegal, BatchOutcome

(***************************************************************************)
(* What a compaction does to a task                                        *)
(***************************************************************************)

\* A compaction drops deleted tasks and neither starts, finishes nor hands over another.
LEMMA CompactionOutcome ==
  ASSUME NEW x \in TaskState, NEW y, y = Compacted(x)
  PROVE IF x.deleted THEN y = Absent
        ELSE /\ y \in TaskState
             /\ y.col = "in-progress" => x.col = "in-progress"
             /\ y.col = "done" <=> x.col = "done"
             /\ Paired(x) => Paired(y)
             /\ Paired(x) /\ Consistent(x) => Consistent(y)
             /\ y.claimAgent \in {x.claimAgent, None}
             /\ y.doneAgent \in {x.doneAgent, None}
             /\ y.col # "done" => y.doneAgent = None /\ ~y.verificationRequired
<1>1. x # Absent /\ x.col \in Column /\ x.past \in {"backlog", "blocked", "todo"} /\ x.claimed \in BOOLEAN
      /\ x.claimAgent \in Name /\ x.doneAgent \in Name /\ x.verificationRequired \in BOOLEAN
      /\ x.deleted \in BOOLEAN
  BY TaskIsNotAbsent DEF TaskState, Name
<1>2. ASSUME x.deleted PROVE y = Absent
  BY <1>2, <1>1 DEF Compacted
<1>3. ASSUME ~x.deleted
      PROVE /\ y \in TaskState
            /\ y.col = "in-progress" => x.col = "in-progress"
            /\ y.col = "done" <=> x.col = "done"
            /\ Paired(x) => Paired(y)
            /\ Paired(x) /\ Consistent(x) => Consistent(y)
            /\ y.claimAgent \in {x.claimAgent, None}
            /\ y.doneAgent \in {x.doneAgent, None}
            /\ y.col # "done" => y.doneAgent = None /\ ~y.verificationRequired
  <2>1. PICK r : r = Rebuilt(x)
    OBVIOUS
  <2>2. /\ r \in TaskState /\ r.col = x.past /\ ~r.claimed /\ r.claimAgent = None
        /\ r.doneAgent = None /\ ~r.verificationRequired
    BY <2>1, <1>1, NewTaskType DEF Rebuilt, NewTask, TaskState, Column
  <2>3. r # Absent
    BY <2>2, TaskIsNotAbsent
  <2>4. CASE x.col = "backlog"
    <3>1. y = r
      BY <1>1, <1>3, <2>1, <2>4 DEF Compacted
    <3> QED
      BY <3>1, <2>2, <2>4, <1>1 DEF Paired, Consistent
  <2>5. CASE x.col = "in-progress" /\ x.claimed
    <3>1. PICK m : m = [r EXCEPT !.col = "in-progress"]
      OBVIOUS
    <3>2. /\ m \in TaskState /\ ~m.claimed /\ m.col = "in-progress"
          /\ m.doneAgent = None /\ ~m.verificationRequired
      BY <3>1, <2>2 DEF TaskState, Column
    <3>3. y = applyEvent(m, Claim(x.claimAgent))
      BY <1>1, <1>3, <2>1, <2>5, <3>1 DEF Compacted, applyEvent, MoveTo
    <3>4. y = [m EXCEPT !.claimed = TRUE, !.claimAgent = x.claimAgent, !.col = "in-progress"]
      BY <3>3, <3>2 DEF applyEvent, Claim
    <3>5. /\ y \in TaskState /\ y.col = "in-progress" /\ y.claimed
          /\ y.claimAgent = x.claimAgent /\ y.doneAgent = None /\ ~y.verificationRequired
      BY <3>4, <3>2, <1>1 DEF TaskState, Column, Name
    <3> QED
      BY <3>5, <2>5 DEF Paired, Consistent
  <2>6. CASE x.col = "done"
    <3>1. y = applyEvent(r, Complete(x.doneAgent, x.verificationRequired))
      BY <1>1, <1>3, <2>1, <2>6 DEF Compacted
    <3>2. y = Line(r, Complete(x.doneAgent, x.verificationRequired))
      BY <3>1, <2>3 DEF Line, Skipped, Complete
    <3>3. r \in TaskState /\ x.doneAgent \in Name /\ x.verificationRequired \in BOOLEAN
      BY <2>2, <1>1
    <3>4. /\ y \in TaskState /\ y.col = "done" /\ y.doneAgent = x.doneAgent
          /\ ~y.claimed /\ y.claimAgent = None
      BY <3>2, <3>3, CompleteOnTask
    <3> QED
      BY <3>4, <2>6 DEF Paired, Consistent
  <2>7. CASE /\ x.col \in {"todo", "blocked", "in-progress"}
             /\ ~(x.col = "in-progress" /\ x.claimed)
    <3>1. y = applyEvent(r, MoveTo(x.col))
      BY <1>1, <1>3, <2>1, <2>7 DEF Compacted
    <3>2. y = [r EXCEPT !.col = x.col]
      BY <3>1 DEF applyEvent, MoveTo
    <3>3. /\ y \in TaskState /\ y.col = x.col /\ ~y.claimed
          /\ y.claimAgent = None /\ y.doneAgent = None /\ ~y.verificationRequired
      BY <3>2, <2>2, <1>1 DEF TaskState
    <3> QED
      BY <3>3, <2>7, <1>1 DEF Paired, Consistent
  <2> QED
    BY <2>4, <2>5, <2>6, <2>7, <1>1 DEF Column
<1> QED
  BY <1>2, <1>3

(***************************************************************************)
(* Steps                                                                   *)
(***************************************************************************)

\* Every step of the specification is one of three kinds.
LEMMA StepOutcome ==
  ASSUME TypeOK, [Next]_vars
  PROVE \/ UNCHANGED <<task, torn, tears>>
        \/ runCompactionLocked
        \/ \E t \in Id : TransactionOutcome(t)
<1>1. CASE \E a \in Agent \ {Operator} : Tool(a)
  BY <1>1, ToolOutcome
<1>2. CASE Overlay
  BY <1>2, OverlayOutcome
<1>3. ASSUME NEW a \in Agent, Completion(a)
      PROVE UNCHANGED <<task, torn, tears>> \/ \E t \in Id : TransactionOutcome(t)
  <2>1. CASE \E t \in Id, checks \in Checks : Preflight(a, t, checks)
    BY <2>1 DEF Preflight
  <2>2. CASE Abort(a) \/ GateExits(a)
    BY <2>2 DEF Abort, GateExits
  <2>3. CASE completeTask(a)
    BY <2>3, CompleteOutcome
  <2> QED
    BY <1>3, <2>1, <2>2, <2>3 DEF Completion
<1>4. CASE \E t \in Id : Anyone(t)
  BY <1>4, AnyoneOutcome
<1>5. CASE UNCHANGED vars
  BY <1>5 DEF vars
<1> QED
  BY <1>1, <1>2, <1>3, <1>4, <1>5 DEF Next

\* Only completions change attempts.
LEMMA AttemptStep ==
  ASSUME TypeOK, [Next]_vars
  PROVE attempt' \in [Agent -> Attempt \cup {Idle}]
<1>0. attempt \in [Agent -> Attempt \cup {Idle}]
  BY DEF TypeOK
<1>1. ASSUME NEW a \in Agent, Completion(a) PROVE attempt' \in [Agent -> Attempt \cup {Idle}]
  <2>1. ASSUME NEW t \in Id, NEW checks \in Checks, Preflight(a, t, checks)
        PROVE attempt' \in [Agent -> Attempt \cup {Idle}]
    <3>1. [step |-> IF Gate THEN "gate" ELSE "commit", id |-> t, checks |-> checks, aborted |-> "no"] \in Attempt
      BY BoardAssumption DEF Attempt
    <3> QED
      BY <1>0, <2>1, <3>1 DEF Preflight
  <2>2. attempt[a] # Idle => attempt[a] \in Attempt
    BY <1>0
  <2>3. CASE Abort(a)
    BY <1>0, <2>2, <2>3 DEF Abort, Attempt
  <2>4. CASE GateExits(a)
    BY <1>0, <2>2, <2>4 DEF GateExits, Attempt
  <2>5. CASE completeTask(a)
    BY <1>0, <2>5 DEF completeTask
  <2> QED
    BY <1>1, <2>1, <2>3, <2>4, <2>5 DEF Completion
<1>2. ASSUME NEW a \in Agent, Tool(a) PROVE UNCHANGED attempt
  BY <1>2 DEF Tool, claimTarget, claimNext
<1>3. ASSUME Overlay PROVE UNCHANGED attempt
  BY <1>3 DEF Overlay, claimTarget, claimNext, createTaskWithNextId
<1>4. ASSUME NEW t \in Id, Anyone(t) PROVE UNCHANGED attempt
  BY <1>4 DEF Anyone, createTask, moveTask, deleteTask, performEdit, blockTask, unblockTask
<1> QED
  BY <1>0, <1>1, <1>2, <1>3, <1>4 DEF Next, runCompactionLocked, vars

\* What a compaction does to the board.
LEMMA CompactionStep ==
  ASSUME TypeOK, runCompactionLocked, NEW t \in Id
  PROVE /\ ~Exists(t) => task'[t] = Absent
        /\ Exists(t) => task[t] \in TaskState /\ task'[t] = Compacted(task[t])
BY ExistingTask DEF runCompactionLocked, Compacted, Exists

(***************************************************************************)
(* Theorems                                                                *)
(***************************************************************************)

\* Every step keeps the type.
LEMMA TypeStep == ASSUME TypeOK, [Next]_vars PROVE TypeOK'
<1>0. task \in [Id -> MaybeTask]
  BY DEF TypeOK, MaybeTask
<1>1. CASE UNCHANGED <<task, torn, tears>>
  BY <1>1, AttemptStep DEF TypeOK
<1>2. CASE runCompactionLocked
  <2>1. ASSUME NEW t \in Id PROVE Compacted(task[t]) \in MaybeTask
    <3>1. CASE Exists(t)
      BY <3>1, ExistingTask, CompactionOutcome DEF MaybeTask
    <3>2. CASE ~Exists(t)
      BY <3>2 DEF Exists, Compacted, MaybeTask
    <3> QED
      BY <3>1, <3>2
  <2>2. task' \in [Id -> MaybeTask]
    BY <1>2, <2>1 DEF runCompactionLocked
  <2> QED
    BY <1>2, <2>2, AttemptStep DEF TypeOK, runCompactionLocked, MaybeTask
<1>3. ASSUME NEW t \in Id, TransactionOutcome(t) PROVE TypeOK'
  <2>1. task'[t] \in MaybeTask
    BY <1>3, NewTaskType DEF TransactionOutcome, Follows, MaybeTask
  <2>2. task' \in [Id -> MaybeTask]
    BY <1>0, <1>3, <2>1 DEF TransactionOutcome
  <2> QED
    BY <1>3, <2>2, AttemptStep DEF TypeOK, TransactionOutcome, MaybeTask
<1> QED
  BY <1>1, <1>2, <1>3, StepOutcome

\* The empty board has the type.
LEMMA InitType == Init => TypeOK
<1>1. 0 \in 0 .. MaxTears
  BY BoardAssumption
<1>2. Init => task \in [Id -> TaskState \cup {Absent}] /\ attempt \in [Agent -> Attempt \cup {Idle}]
  BY DEF Init
<1> QED
  BY <1>1, <1>2 DEF Init, TypeOK

\* The board keeps its type, whatever is torn, aborted or compacted.
THEOREM BoardTypeOK == Spec => []TypeOK
<1>1. TypeOK /\ [Next]_vars => TypeOK'
  BY TypeStep
<1> QED
  BY InitType, <1>1, PTL DEF Spec

\* A completion whose gate was aborted never reaches its commit.
THEOREM BoardAbortedNeverCommits == Spec => []AbortedNeverCommits
<1>1. Init => AbortedNeverCommits
  BY DEF Init, AbortedNeverCommits
<1>2. ASSUME TypeOK, AbortedNeverCommits, [Next]_vars PROVE AbortedNeverCommits'
  <2>0. attempt \in [Agent -> Attempt \cup {Idle}]
    BY <1>2 DEF TypeOK
  <2>1. ASSUME NEW a \in Agent, Completion(a) PROVE AbortedNeverCommits'
    <3>1. CASE \E t \in Id, checks \in Checks : Preflight(a, t, checks)
      BY <1>2, <2>0, <3>1 DEF AbortedNeverCommits, Preflight
    <3>2. attempt[a] # Idle => attempt[a] \in Attempt
      BY <2>0
    <3>3. CASE Abort(a)
      BY <1>2, <2>0, <3>2, <3>3 DEF AbortedNeverCommits, Abort, Attempt
    <3>4. CASE GateExits(a)
      BY <1>2, <2>0, <3>2, <3>4 DEF AbortedNeverCommits, GateExits, Attempt
    <3>5. CASE completeTask(a)
      BY <1>2, <2>0, <3>5 DEF AbortedNeverCommits, completeTask
    <3> QED
      BY <2>1, <3>1, <3>3, <3>4, <3>5 DEF Completion
  <2>2. ASSUME NEW a \in Agent, Tool(a) PROVE UNCHANGED attempt
    BY <2>2 DEF Tool, claimTarget, claimNext
  <2>3. ASSUME Overlay PROVE UNCHANGED attempt
    BY <2>3 DEF Overlay, claimTarget, claimNext, createTaskWithNextId
  <2>4. ASSUME NEW t \in Id, Anyone(t) PROVE UNCHANGED attempt
    BY <2>4 DEF Anyone, createTask, moveTask, deleteTask, performEdit, blockTask, unblockTask
  <2>5. (UNCHANGED attempt) => AbortedNeverCommits'
    BY <1>2 DEF AbortedNeverCommits
  <2> QED
    BY <1>2, <2>1, <2>2, <2>3, <2>4, <2>5 DEF Next, runCompactionLocked, vars
<1> QED
  BY <1>1, <1>2, BoardTypeOK, PTL DEF Spec

(***************************************************************************)
(* Work in progress: only a claim adds to it, and below the limit          *)
(***************************************************************************)

\* There are finitely many tasks.
LEMMA WipIsFinite == IsFiniteSet(Wip)
<1>1. IsFiniteSet(Id)
  BY BoardAssumption, FS_Interval DEF Id
<1> QED
  BY <1>1, FS_Subset DEF Wip

\* Only a claim below the limit adds to the work in progress, and only one task.
LEMMA WipStep ==
  ASSUME TypeOK, [Next]_vars
  PROVE Wip' \subseteq Wip \/ (WipFree /\ \E t \in Id : Wip' \subseteq Wip \cup {t})
<1>1. CASE UNCHANGED <<task, torn, tears>>
  BY <1>1 DEF Wip, In, Exists
<1>2. CASE runCompactionLocked
  <2>1. ASSUME NEW t \in Id, In(t, "in-progress")' PROVE In(t, "in-progress")
    <3>1. Exists(t)
      BY <1>2, <2>1, CompactionStep DEF In, Exists
    <3>2. task[t] \in TaskState /\ task'[t] = Compacted(task[t]) /\ task'[t] # Absent
      BY <1>2, <2>1, <3>1, CompactionStep DEF In, Exists
    <3>3. task'[t].col = "in-progress" => task[t].col = "in-progress"
      BY <3>2, CompactionOutcome
    <3> QED
      BY <2>1, <3>1, <3>3 DEF In
  <2> QED
    BY <2>1 DEF Wip
<1>3. ASSUME NEW t \in Id, TransactionOutcome(t)
      PROVE Wip' \subseteq Wip \/ (WipFree /\ Wip' \subseteq Wip \cup {t})
  <2>1. ASSUME NEW u \in Id \ {t}, In(u, "in-progress")' PROVE In(u, "in-progress")
    BY <1>3, <2>1 DEF TransactionOutcome, In, Exists
  <2>2. ASSUME In(t, "in-progress")' PROVE In(t, "in-progress") \/ WipFree
    <3>1. task'[t] # Absent /\ task'[t].col = "in-progress"
      BY <2>2 DEF In, Exists
    <3>2. task'[t] # NewTask
      BY <3>1 DEF NewTask
    <3> QED
      BY <1>3, <3>1, <3>2 DEF TransactionOutcome, In
  <2> QED
    BY <2>1, <2>2 DEF Wip
<1> QED
  BY <1>1, <1>2, <1>3, StepOutcome

\* No interleaving of claims, reassignments, completions, torn appends and compactions
\* puts more tasks in progress than the limit.
THEOREM BoardWipBound == Spec => []WipBound
<1>1. Init => WipBound
  <2>1. ASSUME Init PROVE Wip = {}
    BY <2>1 DEF Init, Wip, In, Exists
  <2> QED
    BY <2>1, FS_EmptySet, BoardAssumption DEF WipBound
<1>2. ASSUME TypeOK, WipBound, [Next]_vars PROVE WipBound'
  <2>1. IsFiniteSet(Wip) /\ Cardinality(Wip) \in Nat /\ WipLimit \in Nat
    BY WipIsFinite, FS_CardinalityType, BoardAssumption
  <2>2. CASE Wip' \subseteq Wip
    <3>1. Cardinality(Wip') <= Cardinality(Wip) /\ Cardinality(Wip') \in Nat
      BY <2>1, <2>2, FS_Subset, FS_CardinalityType
    <3> QED
      BY <1>2, <2>1, <3>1 DEF WipBound
  <2>3. ASSUME WipFree, NEW t \in Id, Wip' \subseteq Wip \cup {t} PROVE WipBound'
    <3>0. /\ IsFiniteSet(Wip \cup {t})
          /\ \/ Cardinality(Wip \cup {t}) = Cardinality(Wip)
             \/ Cardinality(Wip \cup {t}) = Cardinality(Wip) + 1
      BY <2>1, FS_AddElement
    <3>1. IsFiniteSet(Wip \cup {t}) /\ Cardinality(Wip \cup {t}) <= Cardinality(Wip) + 1
          /\ Cardinality(Wip \cup {t}) \in Nat
      BY <2>1, <3>0
    <3>2. Cardinality(Wip') <= Cardinality(Wip \cup {t}) /\ Cardinality(Wip') \in Nat
      BY <2>3, <3>1, FS_Subset, FS_CardinalityType
    <3> QED
      BY <2>1, <2>3, <3>1, <3>2 DEF WipBound, WipFree
  <2> QED
    BY <1>2, <2>2, <2>3, WipStep
<1> QED
  BY <1>1, <1>2, BoardTypeOK, PTL DEF Spec

(***************************************************************************)
(* Owners                                                                  *)
(***************************************************************************)

\* A claim and its owner come and go together, also when appends are torn; while none was,
\* there is nothing torn at the end of the log and exactly the tasks in progress are claimed.
Claims ==
  /\ \A t \in Id : Exists(t) => Paired(task[t])
  /\ tears = 0 => torn = FALSE /\ \A t \in Id : Exists(t) => Consistent(task[t])

\* A new task has no owner.
LEMMA NewTaskIsFree == Paired(NewTask) /\ Consistent(NewTask)
BY DEF NewTask, Paired, Consistent

\* The empty board satisfies Claims.
LEMMA InitClaims == Init => Claims
BY DEF Init, Claims, Exists

\* Claims is inductive under the type.
LEMMA ClaimsStep == ASSUME TypeOK, Claims, [Next]_vars PROVE Claims'
<1>1. CASE UNCHANGED <<task, torn, tears>>
  BY <1>1 DEF Claims, Exists
<1>2. CASE runCompactionLocked
  <2>1. torn' = FALSE /\ tears' = tears
    BY <1>2 DEF runCompactionLocked
  <2>2. ASSUME NEW t \in Id, Exists(t)'
        PROVE Paired(task'[t]) /\ (tears = 0 => Consistent(task'[t]))
    <3>1. Exists(t)
      BY <1>2, <2>2, CompactionStep DEF Exists
    <3>2. task[t] \in TaskState /\ task'[t] = Compacted(task[t]) /\ task'[t] # Absent
      BY <1>2, <2>2, <3>1, CompactionStep DEF Exists
    <3>3. /\ Paired(task[t]) => Paired(task'[t])
          /\ Paired(task[t]) /\ Consistent(task[t]) => Consistent(task'[t])
      BY <3>2, CompactionOutcome
    <3> QED
      BY <3>1, <3>3 DEF Claims
  <2> QED
    BY <2>1, <2>2 DEF Claims
<1>3. ASSUME NEW t \in Id, TransactionOutcome(t) PROVE Claims'
  <2>1. ASSUME NEW u \in Id, Exists(u)' PROVE Paired(task'[u])
    <3>1. CASE u # t
      BY <1>3, <2>1, <3>1 DEF Claims, TransactionOutcome, Exists
    <3>2. CASE u = t /\ Exists(t)
      <4>1. Paired(task[t])
        BY <3>2 DEF Claims
      <4>2. Follows(task[t], task'[t])
        BY <1>3, <3>2 DEF TransactionOutcome
      <4> QED
        BY <3>2, <4>1, <4>2, ExistingTask, FollowsPaired
    <3>3. CASE u = t /\ ~Exists(t)
      BY <1>3, <2>1, <3>3, NewTaskIsFree DEF TransactionOutcome, Exists
    <3> QED
      BY <3>1, <3>2, <3>3
  <2>2. ASSUME tears' = 0
        PROVE torn' = FALSE /\ \A u \in Id : Exists(u)' => Consistent(task'[u])
    <3>1. tears = 0 /\ torn = FALSE
      BY <1>3, <2>2 DEF TransactionOutcome, Claims
    <3>2. torn' = FALSE /\ (Exists(t) => Whole(task[t], task'[t]))
      BY <1>3, <2>2, <3>1 DEF TransactionOutcome
    <3>3. Exists(t)' => Consistent(task'[t])
      <4>1. CASE Exists(t)
        BY <3>1, <3>2, <4>1 DEF Claims, Whole
      <4>2. CASE ~Exists(t)
        BY <1>3, <4>2, NewTaskIsFree DEF TransactionOutcome, Exists
      <4> QED
        BY <4>1, <4>2
    <3>4. ASSUME NEW u \in Id \ {t}, Exists(u)' PROVE Consistent(task'[u])
      BY <1>3, <3>1, <3>4 DEF TransactionOutcome, Claims, Exists
    <3> QED
      BY <3>2, <3>3, <3>4
  <2> QED
    BY <2>1, <2>2 DEF Claims
<1> QED
  BY <1>1, <1>2, <1>3, StepOutcome

\* Claims is an invariant.
LEMMA ClaimsHold == Spec => []Claims
<1>1. TypeOK /\ Claims /\ [Next]_vars => Claims'
  BY ClaimsStep
<1> QED
  BY <1>1, InitClaims, BoardTypeOK, PTL DEF Spec

\* As long as no append was torn, the tasks in progress are exactly those that are claimed
\* and have an owner: no claim that reports success is ignored by the replay.
THEOREM BoardClaimedIsInProgress == Spec => []ClaimedIsInProgress
<1>1. Claims => ClaimedIsInProgress
  BY DEF Claims, ClaimedIsInProgress, Paired, Consistent
<1> QED
  BY <1>1, ClaimsHold, PTL

\* Every transaction, whole or torn, moves a task along the documented diagram.
THEOREM BoardColumnsFollowDiagram == Spec => ColumnsFollowDiagram
<1> DEFINE A == ~runCompactionLocked => \A t \in Id : \A u \in Column \X Column : Moves(t, u) => u \in Diagram
<1>1. ASSUME TypeOK, [Next]_vars PROVE A
  <2>1. SUFFICES ASSUME ~runCompactionLocked, NEW u \in Id, Exists(u), Exists(u)', task[u].col # task'[u].col
                 PROVE <<task[u].col, task'[u].col>> \in Diagram
    BY DEF Moves
  <2>2. task' # task
    BY <2>1
  <2>3. PICK t \in Id : TransactionOutcome(t)
    BY <1>1, <2>1, <2>2, StepOutcome
  <2>4. u = t
    BY <2>1, <2>3 DEF TransactionOutcome
  <2>5. Follows(task[u], task'[u])
    BY <2>1, <2>3, <2>4 DEF TransactionOutcome
  <2> QED
    BY <2>1, <2>5 DEF Follows
<1>2. TypeOK /\ [Next]_vars => [A]_vars
  BY <1>1
<1>3. Spec => [][A]_vars
  BY <1>2, BoardTypeOK, PTL DEF Spec
<1> QED
  BY <1>3 DEF ColumnsFollowDiagram, Diagram

\* While no append was torn, a task is completed only in the name of its owner at that step.
THEOREM BoardOwnerCompletes == Spec => OwnerCompletes
<1> DEFINE A == \A t \in Id : Exists(t) /\ task[t].col # "done" /\ (In(t, "done") /\ tears = 0)' =>
                  task'[t].doneAgent = task[t].claimAgent
<1>1. ASSUME TypeOK, Claims, [Next]_vars PROVE A
  <2>1. SUFFICES ASSUME NEW u \in Id, Exists(u), task[u].col # "done", In(u, "done")', tears' = 0
                 PROVE task'[u].doneAgent = task[u].claimAgent
    OBVIOUS
  <2>2. task'[u] # Absent /\ task'[u].col = "done" /\ task' # task
    BY <2>1 DEF In, Exists
  <2>3. ~runCompactionLocked
    <3>1. ASSUME runCompactionLocked PROVE FALSE
      <4>1. task[u] \in TaskState /\ task'[u] = Compacted(task[u])
        BY <1>1, <2>1, <3>1, CompactionStep
      <4> QED
        BY <2>1, <2>2, <4>1, CompactionOutcome
    <3> QED
      BY <3>1
  <2>4. PICK t \in Id : TransactionOutcome(t)
    BY <1>1, <2>2, <2>3, StepOutcome
  <2>5. u = t
    BY <2>1, <2>2, <2>4 DEF TransactionOutcome
  <2>6. tears = 0 /\ torn = FALSE
    BY <1>1, <2>1, <2>4 DEF TransactionOutcome, Claims
  <2>7. Whole(task[u], task'[u])
    BY <2>1, <2>4, <2>5, <2>6 DEF TransactionOutcome
  <2> QED
    BY <2>1, <2>2, <2>7 DEF Whole
<1>2. TypeOK /\ Claims /\ [Next]_vars => [A]_vars
  BY <1>1
<1>3. Spec => [][A]_vars
  BY <1>2, BoardTypeOK, ClaimsHold, PTL DEF Spec
<1> QED
  BY <1>3 DEF OwnerCompletes

\* The overlay never becomes the owner of a task that has another owner.
THEOREM BoardOverlayNeverSteals == Spec => OverlayNeverSteals
<1> DEFINE A == \A t \in Id : Exists(t) /\ Exists(t)' /\ task[t].claimAgent \notin {None, Operator} =>
                  task'[t].claimAgent # Operator
<1>1. ASSUME TypeOK, Claims, [Next]_vars PROVE A
  <2>1. SUFFICES ASSUME NEW u \in Id, Exists(u), Exists(u)', task[u].claimAgent \notin {None, Operator}
                 PROVE task'[u].claimAgent # Operator
    OBVIOUS
  <2>2. CASE UNCHANGED <<task, torn, tears>>
    BY <2>1, <2>2
  <2>3. CASE runCompactionLocked
    <3>1. task[u] \in TaskState /\ task'[u] = Compacted(task[u]) /\ task'[u] # Absent
      BY <1>1, <2>1, <2>3, CompactionStep DEF Exists
    <3>2. task'[u].claimAgent \in {task[u].claimAgent, None}
      BY <3>1, CompactionOutcome
    <3> QED
      BY <2>1, <3>2, BoardAssumption
  <2>4. ASSUME NEW t \in Id, TransactionOutcome(t) PROVE task'[u].claimAgent # Operator
    <3>1. CASE u # t
      BY <2>1, <2>4, <3>1 DEF TransactionOutcome
    <3>2. CASE u = t
      <4>1. Follows(task[u], task'[u])
        BY <2>1, <2>4, <3>2 DEF TransactionOutcome
      <4>2. Paired(task[u])
        BY <1>1, <2>1 DEF Claims
      <4> QED
        BY <1>1, <2>1, <4>1, <4>2, ExistingTask, FollowsPaired
    <3> QED
      BY <3>1, <3>2
  <2> QED
    BY <1>1, <2>2, <2>3, <2>4, StepOutcome
<1>2. TypeOK /\ Claims /\ [Next]_vars => [A]_vars
  BY <1>1
<1>3. Spec => [][A]_vars
  BY <1>2, BoardTypeOK, ClaimsHold, PTL DEF Spec
<1> QED
  BY <1>3 DEF OverlayNeverSteals

\* Only deleted tasks vanish: no transaction and no compaction loses another.
THEOREM BoardOnlyDeletedVanish == Spec => OnlyDeletedVanish
<1> DEFINE A == \A t \in Id : Exists(t) /\ ~Exists(t)' => Deleted(t)
<1>1. ASSUME TypeOK, [Next]_vars PROVE A
  <2>1. SUFFICES ASSUME NEW u \in Id, Exists(u), ~Exists(u)' PROVE task[u].deleted
    BY DEF Deleted
  <2>2. task'[u] = Absent /\ task' # task
    BY <2>1 DEF Exists
  <2>3. CASE runCompactionLocked
    <3>1. task[u] \in TaskState /\ task'[u] = Compacted(task[u])
      BY <1>1, <2>1, <2>3, CompactionStep
    <3>2. task'[u] \notin TaskState
      BY <2>2, TaskIsNotAbsent
    <3> QED
      BY <3>1, <3>2, CompactionOutcome
  <2>4. ASSUME NEW t \in Id, TransactionOutcome(t) PROVE FALSE
    <3>1. CASE u # t
      BY <2>1, <2>4, <3>1 DEF TransactionOutcome, Exists
    <3>2. CASE u = t
      <4>1. Follows(task[u], task'[u])
        BY <2>1, <2>4, <3>2 DEF TransactionOutcome
      <4> QED
        BY <2>2, <4>1, TaskIsNotAbsent DEF Follows
    <3> QED
      BY <3>1, <3>2
  <2> QED
    BY <1>1, <2>2, <2>3, <2>4, StepOutcome
<1>2. TypeOK /\ [Next]_vars => [A]_vars
  BY <1>1
<1>3. Spec => [][A]_vars
  BY <1>2, BoardTypeOK, PTL DEF Spec
<1> QED
  BY <1>3 DEF OnlyDeletedVanish

(***************************************************************************)
(* What a compaction keeps                                                 *)
(***************************************************************************)

\* Evidence of completion is found on completed tasks only, torn appends included.
Evidence ==
  \A t \in Id : Exists(t) /\ task[t].col # "done" =>
                task[t].doneAgent = None /\ ~task[t].verificationRequired

\* Evidence is inductive under the type: done is final, and only a complete records any.
LEMMA EvidenceStep == ASSUME TypeOK, Evidence, [Next]_vars PROVE Evidence'
<1>1. SUFFICES ASSUME NEW u \in Id, Exists(u)', task'[u].col # "done"
               PROVE task'[u].doneAgent = None /\ ~task'[u].verificationRequired
  BY DEF Evidence
<1>2. CASE task'[u] = task[u]
  BY <1>1, <1>2 DEF Evidence, Exists
<1>3. CASE runCompactionLocked
  <2>1. Exists(u)
    BY <1>1, <1>3, CompactionStep DEF Exists
  <2>2. task[u] \in TaskState /\ task'[u] = Compacted(task[u]) /\ task'[u] # Absent
    BY <1>1, <1>3, <2>1, CompactionStep DEF Exists
  <2> QED
    BY <1>1, <2>2, CompactionOutcome
<1>4. ASSUME TransactionOutcome(u), Exists(u)
      PROVE task'[u].doneAgent = None /\ ~task'[u].verificationRequired
  <2>1. Follows(task[u], task'[u])
    BY <1>4 DEF TransactionOutcome
  <2>2. task[u].col # "done"
    BY <1>1, <2>1 DEF Follows, Diagram
  <2> QED
    BY <1>1, <1>4, <2>1, <2>2 DEF Follows, SameEvidence, Evidence
<1>5. ASSUME TransactionOutcome(u), ~Exists(u)
      PROVE task'[u].doneAgent = None /\ ~task'[u].verificationRequired
  BY <1>1, <1>5 DEF TransactionOutcome, Exists, NewTask
<1>6. ASSUME NEW t \in Id, TransactionOutcome(t), t # u PROVE task'[u] = task[u]
  BY <1>6 DEF TransactionOutcome
<1> QED
  BY <1>2, <1>3, <1>4, <1>5, <1>6, StepOutcome

\* Evidence is an invariant.
LEMMA EvidenceHolds == Spec => []Evidence
<1>1. Init => Evidence
  BY DEF Init, Evidence, Exists
<1>2. TypeOK /\ Evidence /\ [Next]_vars => Evidence'
  BY EvidenceStep
<1> QED
  BY <1>1, <1>2, BoardTypeOK, PTL DEF Spec

\* The events a compaction writes for a task in progress, blocked or done bring it back as it was.
LEMMA StartedIsKept ==
  ASSUME NEW x \in TaskState, ~x.deleted, x.col \in {"in-progress", "blocked", "done"},
         Paired(x), Consistent(x),
         x.col # "done" => x.doneAgent = None /\ ~x.verificationRequired
  PROVE Compacted(x) = x
<1>1. /\ x # Absent /\ x.past \in {"backlog", "blocked", "todo"} /\ x.claimAgent \in Name
      /\ x.doneAgent \in Name /\ x.verificationRequired \in BOOLEAN /\ x.claimed \in BOOLEAN
      /\ x.deleted = FALSE
  BY TaskIsNotAbsent DEF TaskState, Name
<1>2. PICK r : r = Rebuilt(x)
  OBVIOUS
<1>3. r = [col |-> x.past, deleted |-> FALSE, claimed |-> FALSE, claimAgent |-> None,
           doneAgent |-> None, verificationRequired |-> FALSE, past |-> x.past]
  BY <1>2 DEF Rebuilt, NewTask
<1>4. x = [col |-> x.col, deleted |-> x.deleted, claimed |-> x.claimed, claimAgent |-> x.claimAgent,
           doneAgent |-> x.doneAgent, verificationRequired |-> x.verificationRequired, past |-> x.past]
  BY DEF TaskState
<1>5. CASE x.col = "in-progress"
  <2>1. x.claimed = TRUE /\ x.doneAgent = None /\ x.verificationRequired = FALSE
    BY <1>1, <1>5 DEF Consistent
  <2>2. PICK m : m = [r EXCEPT !.col = "in-progress"]
    OBVIOUS
  <2>3. Compacted(x) = applyEvent(m, Claim(x.claimAgent))
    BY <1>1, <1>2, <1>5, <2>1, <2>2 DEF Compacted, applyEvent, MoveTo
  <2>4. Compacted(x) = [m EXCEPT !.claimed = TRUE, !.claimAgent = x.claimAgent, !.col = "in-progress"]
    BY <2>2, <2>3, <1>3 DEF applyEvent, Claim
  <2> QED
    BY <1>1, <1>3, <1>4, <1>5, <2>1, <2>2, <2>4
<1>6. CASE x.col = "blocked"
  <2>1. /\ x.claimed = FALSE /\ x.claimAgent = None
        /\ x.doneAgent = None /\ x.verificationRequired = FALSE
    BY <1>1, <1>6 DEF Consistent, Paired
  <2>2. Compacted(x) = [r EXCEPT !.col = "blocked"]
    BY <1>1, <1>2, <1>6 DEF Compacted, applyEvent, MoveTo
  <2> QED
    BY <1>1, <1>3, <1>4, <1>6, <2>1, <2>2
<1>7. CASE x.col = "done"
  <2>1. x.claimed = FALSE /\ x.claimAgent = None
    BY <1>1, <1>7 DEF Consistent, Paired
  <2>2. Compacted(x) = applyEvent(r, Complete(x.doneAgent, x.verificationRequired))
    BY <1>1, <1>2, <1>7 DEF Compacted
  <2>3. PICK q : q = Released(r)
    OBVIOUS
  <2>4. q = r
    <3>1. q = [r EXCEPT !.claimed = FALSE, !.claimAgent = None]
      BY <2>3 DEF Released
    <3>2. q = [col |-> x.past, deleted |-> FALSE, claimed |-> FALSE, claimAgent |-> None,
               doneAgent |-> None, verificationRequired |-> FALSE, past |-> x.past]
      BY <3>1, <1>3
    <3> QED
      BY <3>2, <1>3
  <2>5. Compacted(x) = [q EXCEPT !.col = "done", !.doneAgent = x.doneAgent,
                                 !.verificationRequired = @ \/ x.verificationRequired]
    BY <2>2, <2>3 DEF applyEvent, Complete
  <2>6. (r.verificationRequired \/ x.verificationRequired) = x.verificationRequired
    BY <1>1, <1>3
  <2>7. Compacted(x) = [r EXCEPT !.col = "done", !.doneAgent = x.doneAgent,
                                 !.verificationRequired = x.verificationRequired]
    BY <2>4, <2>5, <2>6
  <2> QED
    BY <1>1, <1>3, <1>4, <1>7, <2>1, <2>7
<1> QED
  BY <1>5, <1>6, <1>7

\* While no append was torn, a compaction keeps the column, the owner and the evidence of
\* every task that was started and not deleted.
THEOREM BoardCompactionKeepsWork == Spec => []CompactionKeepsWork
<1>1. ASSUME TypeOK, Claims, Evidence PROVE CompactionKeepsWork
  <2>1. SUFFICES ASSUME tears = 0, NEW t \in Id, Exists(t), ~Deleted(t),
                        task[t].col \notin {"backlog", "todo"}
                 PROVE Compacted(task[t]) = task[t]
    BY DEF CompactionKeepsWork
  <2>2. task[t] \in TaskState /\ ~task[t].deleted
    BY <1>1, <2>1, ExistingTask DEF Deleted
  <2>3. task[t].col \in {"in-progress", "blocked", "done"}
    BY <2>1, <2>2 DEF TaskState, Column
  <2>4. /\ Paired(task[t]) /\ Consistent(task[t])
        /\ task[t].col # "done" => task[t].doneAgent = None /\ ~task[t].verificationRequired
    BY <1>1, <2>1 DEF Claims, Evidence
  <2> QED
    BY <2>2, <2>3, <2>4, StartedIsKept
<1> QED
  BY <1>1, BoardTypeOK, ClaimsHold, EvidenceHolds, PTL

(***************************************************************************)
(* The overlay                                                             *)
(***************************************************************************)

\* The records of the overlay have their fields and no more.
IsView(u) == u = [mode |-> u.mode, col |-> u.col, row |-> u.row, query |-> u.query, kept |-> u.kept,
                  pending |-> u.pending, was |-> u.was]
IsAim(a) == a = [dialog |-> a.dialog, op |-> a.op]

\* A dialog about a task remembers the one that was selected when it was asked for.
Asking == {"confirm-delete", "move-picker", "block-reason"}
AimInv ==
  /\ IsView(ui) /\ IsAim(aim)
  /\ ui.mode \in Asking => ui.pending = aim.dialog
  /\ V!ActsOnItsTask

\* A refresh moves the selection, and nothing else of the view.
LEMMA RestoredView ==
  ASSUME NEW b, NEW u, NEW p, IsView(u)
  PROVE LET v == V!Restored(b, u, p) IN IsView(v) /\ v.mode = u.mode /\ v.pending = u.pending
<1>1. PICK s : s = V!TasksIn(b, u)
  OBVIOUS
<1>2. CASE s # <<>>
  <2>1. PICK n : n = V!RestoredRow(s, p, u.row)
    OBVIOUS
  <2>2. V!Restored(b, u, p) = [u EXCEPT !.row = n]
    BY <1>1, <1>2, <2>1 DEF V!Restored
  <2> QED BY <2>2 DEF IsView
<1>3. CASE s = <<>>
  <2>1. \E c : V!Restored(b, u, p) = [u EXCEPT !.row = 0, !.col = c]
    BY <1>1, <1>3, Zenon DEF V!Restored
  <2> QED BY <2>1 DEF IsView
<1> QED BY <1>2, <1>3

\* So does a filter.
LEMMA RefilteredView ==
  ASSUME NEW u, NEW q, IsView(u)
  PROVE LET v == V!Refiltered(u, q) IN IsView(v) /\ v.mode = u.mode /\ v.pending = u.pending
<1>1. PICK v : v = [u EXCEPT !.query = q]
  OBVIOUS
<1>2. PICK n : n = V!RestoredRow(V!TasksIn(shown, v), v.kept, v.row)
  OBVIOUS
<1>3. IsView(v) /\ v.mode = u.mode /\ v.pending = u.pending /\ v.kept = u.kept /\ v.row = u.row
  BY <1>1 DEF IsView
<1>4. V!Refiltered(u, q) = [v EXCEPT !.row = n]
  BY <1>1, <1>2, <1>3 DEF V!Refiltered
<1> QED BY <1>3, <1>4 DEF IsView

\* A key that acts at once acts on what is selected.
LEMMA KeyActsAimed == ASSUME AimInv, V!KeyActs PROVE AimInv'
<1>1. PICK t : t = V!Selected(shown, ui)
  OBVIOUS
<1>2. /\ ui' = ui
      /\ aim' = IF op = V!NoOp THEN [aim EXCEPT !.op = t] ELSE aim
      /\ \/ \E x : V!RunOperation("claim", x)
         \/ V!RunOperation("complete", t) \/ V!RunOperation("unblock", t)
  BY <1>1 DEF V!KeyActs
<1>3. IsAim(aim') /\ aim'.dialog = aim.dialog /\ (op = V!NoOp => aim'.op = t)
  BY <1>2 DEF AimInv, IsAim
<1>4. V!ActsOnItsTask'
  <2>1. CASE op = V!NoOp
    BY <1>2, <1>3, <2>1 DEF V!RunOperation, V!ActsOnItsTask
  <2>2. CASE op # V!NoOp
    BY <1>2, <2>2 DEF V!RunOperation, V!ActsOnItsTask, AimInv
  <2> QED BY <2>1, <2>2
<1> QED BY <1>2, <1>3, <1>4 DEF AimInv, IsView

\* A key that asks remembers what is selected.
LEMMA KeyAsksAimed == ASSUME AimInv, V!KeyAsks PROVE AimInv'
<1>1. PICK t : t = V!Selected(shown, ui)
  OBVIOUS
<1>2. PICK m, p, w : ui' = [ui EXCEPT !.mode = m, !.pending = p, !.was = w] /\ (m \in Asking => p = t)
  <2>1. PICK w : w = [p \in {t, None} |-> IF p = None THEN None ELSE shown[p]]
    OBVIOUS
  <2>2. \/ ui' = [ui EXCEPT !.mode = "confirm-delete", !.pending = t, !.was = w[t]]
        \/ ui' = [ui EXCEPT !.mode = "move-picker", !.pending = t, !.was = w[t]]
        \/ ui' = [ui EXCEPT !.mode = "block-reason", !.pending = t, !.was = w[t]]
        \/ ui' = [ui EXCEPT !.mode = "new-task", !.pending = None, !.was = w[None]]
        \/ ui' = [ui EXCEPT !.mode = "detail", !.pending = None, !.was = w[None]]
    BY <1>1, <2>1 DEF V!KeyAsks
  <2>3. "new-task" \notin Asking /\ "detail" \notin Asking
    BY DEF Asking
  <2> QED BY <2>2, <2>3
<1>3. IsView(ui') /\ ui'.mode = m /\ ui'.pending = p
  BY <1>2 DEF AimInv, IsView
<1>4. op' = op /\ aim' = [aim EXCEPT !.dialog = IF ui'.mode = "detail" THEN None ELSE t]
  BY <1>1 DEF V!KeyAsks
<1>5. IsAim(aim') /\ aim'.op = aim.op /\ (m \in Asking => aim'.dialog = t)
  BY <1>3, <1>4 DEF AimInv, IsAim, Asking
<1> QED BY <1>2, <1>3, <1>4, <1>5 DEF AimInv, V!ActsOnItsTask

\* The answer of a dialog is about what the dialog was opened for.
LEMMA AnswerAimed ==
  ASSUME AimInv, NEW kind, V!Answer(kind), ui.mode \in Asking \/ kind \in {"none", "create"}
  PROVE AimInv'
<1>1. ui' = [ui EXCEPT !.mode = "board", !.pending = None, !.was = None]
  BY DEF V!Answer
<1>2. IsView(ui') /\ ui'.mode = "board"
  BY <1>1 DEF AimInv, IsView
<1>3. aim' = [dialog |-> None, op |-> IF op = V!NoOp /\ op' # V!NoOp THEN aim.dialog ELSE aim.op]
  BY DEF V!Answer
<1>4. IsAim(aim') /\ aim'.op = IF op = V!NoOp /\ op' # V!NoOp THEN aim.dialog ELSE aim.op
  BY <1>3 DEF IsAim
<1>5. V!ActsOnItsTask'
  <2>1. CASE op' = op
    BY <1>4, <2>1 DEF AimInv, V!ActsOnItsTask
  <2>2. CASE op' # op
    <3>1. op = V!NoOp /\ op' = [kind |-> kind, task |-> ui.pending] /\ kind # "none"
      BY <2>2 DEF V!Answer, V!RunOperation
    <3>2. op'.kind = kind /\ op'.task = ui.pending /\ aim'.op = aim.dialog
      BY <1>4, <2>2, <3>1
    <3> QED BY <3>1, <3>2 DEF AimInv, V!ActsOnItsTask
  <2> QED BY <2>1, <2>2
<1> QED BY <1>2, <1>4, <1>5 DEF AimInv, Asking

\* Answers.
LEMMA DialogAimed == ASSUME AimInv, V!Dialog PROVE AimInv'
BY AnswerAimed DEF V!Dialog, V!Press, Asking

\* A search asks nothing.
LEMMA SearchAimed == ASSUME AimInv, V!Search PROVE AimInv'
<1>1. aim' = aim /\ op' = op
  BY DEF V!Search
<1>2. IsView(ui)
  BY DEF AimInv
<1>3. IsView(ui') /\ ui'.mode \in {"search", "board"}
  <2>1. CASE ui' = [ui EXCEPT !.mode = "search", !.kept = V!Selected(shown, ui)]
    BY <1>2, <2>1 DEF IsView
  <2>2. CASE ui.mode = "search" /\ \E q \in Query : ui' = V!Refiltered(ui, q)
    BY <1>2, <2>2, RefilteredView
  <2>3. CASE \E q : ui' = [V!Refiltered(ui, q) EXCEPT !.mode = "board", !.kept = None]
    <3>1. PICK q : ui' = [V!Refiltered(ui, q) EXCEPT !.mode = "board", !.kept = None]
      BY <2>3
    <3>2. PICK v : v = V!Refiltered(ui, q) /\ IsView(v)
      BY <1>2, RefilteredView
    <3> QED BY <3>1, <3>2 DEF IsView
  <2> QED BY <2>1, <2>2, <2>3 DEF V!Search
<1> QED BY <1>1, <1>3 DEF AimInv, Asking, V!ActsOnItsTask

\* A read that ends moves the selection at most.
LEMMA ParseEndsAimed == ASSUME AimInv, NEW r, V!ParseEnds(r) PROVE AimInv'
<1>1. aim' = aim /\ op' = op /\ (ui' = ui \/ ui' = V!Restored(r.got, ui, r.sel))
  BY DEF V!ParseEnds
<1>2. IsView(ui') /\ ui'.mode = ui.mode /\ ui'.pending = ui.pending
  BY <1>1, RestoredView DEF AimInv
<1> QED BY <1>1, <1>2 DEF AimInv, V!ActsOnItsTask

\* Every step of the overlay.
LEMMA OverlayKeeps == ASSUME AimInv, [V!Next]_viewVars PROVE AimInv'
<1>1. CASE V!Navigate
  <2>1. op' = op /\ aim' = aim
    BY <1>1 DEF V!Navigate
  <2>2. PICK n : n = Len(Columns)
    OBVIOUS
  <2>3. \/ ui' = [ui EXCEPT !.col = ((ui.col + n - 2) % n) + 1, !.row = 0]
        \/ ui' = [ui EXCEPT !.col = (ui.col % n) + 1, !.row = 0]
        \/ ui' = [ui EXCEPT !.row = ui.row - 1]
        \/ ui' = [ui EXCEPT !.row = ui.row + 1]
    BY <1>1, <2>2, Zenon DEF V!Navigate
  <2>4. IsView(ui') /\ ui'.mode = ui.mode /\ ui'.pending = ui.pending
    BY <2>3 DEF AimInv, IsView
  <2> QED BY <2>1, <2>4 DEF AimInv, V!ActsOnItsTask
<1>2. CASE V!OperationEnds
  <2>1. ui' = ui /\ op' = V!NoOp /\ aim' = [aim EXCEPT !.op = None]
    BY <1>2 DEF V!OperationEnds
  <2> QED BY <2>1 DEF AimInv, IsAim, V!ActsOnItsTask
<1>3. CASE V!Close
  <2>1. ui' = ui /\ aim' = aim /\ (op' = op \/ op' = V!NoOp)
    BY <1>3 DEF V!Close
  <2> QED BY <2>1 DEF AimInv, V!ActsOnItsTask
<1>4. CASE UNCHANGED <<ui, aim, op>>
  BY <1>4 DEF AimInv, V!ActsOnItsTask
<1>5. CASE V!Other \/ V!Replaced \/ V!FileEvent \/ V!Restart \/ \E t \in watch.timers : V!TimerFires(t)
  BY <1>4, <1>5 DEF V!Other, V!Replaced, V!FileEvent, V!Restart, V!TimerFires
<1> QED
  BY <1>1, <1>2, <1>3, <1>4, <1>5, KeyActsAimed, KeyAsksAimed, DialogAimed, SearchAimed, ParseEndsAimed
     DEF V!Next, viewVars

\* A step of the sum is a step of one part and leaves the others' state alone.
LEMMA StepsOfKanban ==
  ASSUME [SumNext]_<<part, boardVars, viewVars, lockVars>> PROVE [V!Next]_viewVars
<1>1. CASE InOverlay
  BY <1>1 DEF SumNext, InBoard, InOverlay, InLock, V!Next
<1>2. CASE InBoard
  BY <1>2 DEF InBoard
<1>3. CASE InLock
  BY <1>3 DEF InLock
<1>4. CASE UNCHANGED <<part, boardVars, viewVars, lockVars>>
  BY <1>4
<1> QED BY <1>1, <1>2, <1>3, <1>4 DEF SumNext

\* An operation of the overlay is on the task that was selected when its key was pressed, whatever
\* tasks the board has, however its log changes under a dialog and whatever a refresh selects.
THEOREM OverlayActsOnItsTask == SumSpec => []ActsOnItsTask
<1>1. SumInit => AimInv
  BY DEF SumInit, V!Init, AimInv, IsView, IsAim, Asking, V!ActsOnItsTask
<1>2. AimInv /\ [SumNext]_<<part, boardVars, viewVars, lockVars>> => AimInv'
  BY StepsOfKanban, OverlayKeeps
<1>3. AimInv => ActsOnItsTask
  BY DEF AimInv, ActsOnItsTask
<1> QED BY <1>1, <1>2, <1>3, PTL DEF SumSpec
=============================================================================
