------------------------------ MODULE TeamRun ------------------------------
(***************************************************************************)
(* A team run: a handler that starts nodes stage by stage (consult, debate,*)
(* research), nodes that are child processes or live agents with timeouts  *)
(* and retries, stops, the result that is written before the run is over,  *)
(* and the run's events in a session whose branch may be changed.          *)
(***************************************************************************)
EXTENDS Naturals, Sequences, FiniteSets, SequencesExt

CONSTANTS Run,
          Protocols,   \* which of "consult", "debate", "research" are run
          Member,      \* 1 .. the number of debate members
          MaxLoops,    \* boundedLoopCount: 1 to 5 research loops
          Retries,     \* maxRetries of each protocol's team
          None,
          MaxMoves     \* bound on changes of branch and restarts

VARIABLES
  run,      \* the handler of each run: where it is and what it decided
  node,     \* the nodes of the stage each run is in
  aborted,  \* runs whose AbortController fired
  branch,   \* the session entries of the current branch
  others,   \* branches that were left
  records,  \* sessionRecords: what the session knows of each run
  reasons,  \* stopReasons: runs asked to stop
  seqs,     \* sequenceByRun
  asked,    \* runs asked to stop before their end was decided, in this branch
  moves

TeamAssumption ==
  /\ MaxLoops \in Nat /\ None \notin {"completed", "stopped", "failed"}
  /\ Member = 1 .. Cardinality(Member) /\ Cardinality(Member) \in Nat \ {0}

teamVars == <<run, node, aborted, branch, others, records, reasons, seqs, asked, moves>>
session  == <<branch, others, records, reasons, seqs>>

Stages == {"begin", "consult", "generation", "critique", "explorer", "verifier", "synthesis"}
Event == [run : Run, kind : {"started", "phase", "node_started", "node_completed", "stop_requested",
                             "stopped", "completed", "failed"}, stage : Stages \cup {None},
          member : Member, seq : Nat, ok : BOOLEAN]

Status == {"pending", "running", "stopping", "stopped", "completed", "failed"}
Terminal == {"stopped", "completed", "failed"}

TypeOK ==
  /\ \A r \in Run : /\ run[r].at \in Stages \cup {"idle", "writing", "over", "gone"}
                    /\ run[r].loop \in 0 .. MaxLoops /\ run[r].end \in Terminal \cup {None}
                    /\ \A m \in Member : node[r][m].call \in {"none", "running", "aborting", "done"}
                    /\ records[r] = None \/ records[r].status \in Status
  /\ aborted \subseteq Run /\ reasons \subseteq Run /\ asked \subseteq Run
  /\ branch \in Seq(Event) /\ seqs \in [Run -> Nat] /\ moves \in 0 .. MaxMoves

Resting == [call |-> "none", ok |-> FALSE, tries |-> 0]

Init ==
  /\ run = [r \in Run |-> [at |-> "idle", protocol |-> None, loop |-> 0, end |-> None]]
  /\ node = [r \in Run |-> [m \in Member |-> Resting]]
  /\ aborted = {} /\ branch = <<>> /\ others = {}
  /\ records = [r \in Run |-> None] /\ reasons = {} /\ asked = {}
  /\ seqs = [r \in Run |-> 0] /\ moves = 0

-----------------------------------------------------------------------------
(* The record of a run, folded from its events.                                *)

Mark(nodes, from, to) == [k \in DOMAIN nodes |-> IF nodes[k] = from THEN to ELSE nodes[k]]

\* applyTeamRunEvent
Apply(rec, e) ==
  LET key == <<e.stage, e.member>> IN
  IF e.kind = "started" THEN [status |-> "pending", nodes |-> <<>>]
  ELSE IF rec = None THEN None
  ELSE CASE e.kind = "phase" -> [rec EXCEPT !.status = "running"]
         [] e.kind = "node_started" ->
              IF key \in DOMAIN rec.nodes THEN rec
              ELSE [rec EXCEPT !.nodes = [k \in {key} |-> "running"] @@ @]
         [] e.kind = "node_completed" ->
              [rec EXCEPT !.nodes = [k \in {key} |-> IF e.ok THEN "completed" ELSE "failed"] @@ @]
         [] e.kind = "stop_requested" ->
              [status |-> "stopping", nodes |-> Mark(rec.nodes, "running", "stopped")]
         [] e.kind = "failed" -> [status |-> "failed", nodes |-> Mark(rec.nodes, "running", "failed")]
         [] OTHER -> [rec EXCEPT !.status = e.kind]

\* The events of a run by their number, events of the same number in the order they came in.
InTurn(r, es, e) ==
  IF e.run # r THEN es
  ELSE InsertAt(es, 1 + Cardinality({i \in DOMAIN es : es[i].seq <= e.seq}), e)

EventsOf(r, b) == LET next(es, e) == InTurn(r, es, e) IN FoldLeft(next, <<>>, b)

\* reduceTeamRunEvents
Reduce(r, b) == FoldLeft(Apply, None, EventsOf(r, b))

LastSeq(r, b) == Max({0} \cup {b[i].seq : i \in {j \in DOMAIN b : b[j].run = r}})

\* The last stop of the run was not followed by its end.
StopPending(r, b) ==
  \E i \in DOMAIN b :
    /\ b[i].run = r /\ b[i].kind = "stop_requested"
    /\ \A j \in i + 1 .. Len(b) : b[j].run = r => b[j].kind \notin Terminal

Ev(kind, stage, member, ok) == [kind |-> kind, stage |-> stage, member |-> member, ok |-> ok]
Plain(kind) == Ev(kind, None, 1, FALSE)

\* appendEvent, for several events in turn.
Emit(r, es) ==
  LET numbered == [i \in DOMAIN es |-> [run |-> r, seq |-> seqs[r] + i, kind |-> es[i].kind,
                     stage |-> es[i].stage, member |-> es[i].member, ok |-> es[i].ok]]
  IN /\ branch' = branch \o numbered
     /\ seqs' = [seqs EXCEPT ![r] = @ + Len(es)]
     /\ records' = [records EXCEPT ![r] = FoldLeft(Apply, @, numbered)]
     /\ UNCHANGED others

-----------------------------------------------------------------------------
(* The handler: stage after stage, with a look for a stop between them.        *)

StopRequested(r) == r \in aborted \/ r \in reasons

Members(stage) == IF stage \in {"generation", "critique"} THEN Member ELSE {1}

First(p) == CASE p = "consult" -> "consult" [] p = "debate" -> "generation" [] OTHER -> "explorer"

\* Stages that record a phase of their own.
Phase(p, stage) ==
  IF stage \in {"consult", "generation", "explorer"} \/ (p = "research" /\ stage = "synthesis")
  THEN <<Plain("phase")>> ELSE <<>>

Starts(stage) == [m \in Members(stage) |-> Ev("node_started", stage, m, FALSE)]

\* All nodes of a stage are started at once.
Enter(r, stage, loop, events) ==
  /\ run' = [run EXCEPT ![r].at = stage, ![r].loop = loop]
  /\ node' = [node EXCEPT ![r] = [m \in Member |->
       IF m \in Members(stage) THEN [call |-> "running", ok |-> FALSE, tries |-> 1] ELSE Resting]]
  /\ Emit(r, events \o Starts(stage)) /\ UNCHANGED reasons

\* completeRun decides how the run ends, and writes the result first.
\* Mistake: only what the handler says counts.
FinishAsTold(r, stopped) ==
  run' = [run EXCEPT ![r].at = "writing", ![r].end = IF stopped THEN "stopped" ELSE "completed"]

Finish(r, stopped) ==
  run' = [run EXCEPT ![r].at = "writing",
                     ![r].end = IF stopped \/ r \in reasons THEN "stopped" ELSE "completed"]

Start(r, p) ==
  /\ run[r].at = "idle"
  /\ run' = [run EXCEPT ![r].at = "begin", ![r].protocol = p]
  /\ Emit(r, <<Plain("started")>>)
  /\ UNCHANGED <<node, aborted, reasons, asked, moves>>

\* A debate names its phase before it looks for a stop.
Begin(r) ==
  /\ run[r].at = "begin"
  /\ LET stage == First(run[r].protocol) IN
     IF StopRequested(r)
     THEN /\ Finish(r, TRUE)
          /\ IF run[r].protocol = "debate" THEN Emit(r, Phase("debate", stage))
             ELSE UNCHANGED <<branch, others, records, seqs>>
          /\ UNCHANGED <<node, reasons>>
     ELSE Enter(r, stage, 1, Phase(run[r].protocol, stage))
  /\ UNCHANGED <<aborted, asked, moves>>

\* No model is bound, a prompt is missing, and the like.
Fails(r) ==
  /\ run[r].at = "begin"
  /\ run' = [run EXCEPT ![r].at = "over", ![r].end = "failed"]
  /\ Emit(r, <<Plain("failed")>>) /\ reasons' = reasons \ {r}
  /\ UNCHANGED <<node, aborted, asked, moves>>

AllDone(r) == \A m \in Members(run[r].at) : node[r][m].call = "done"

\* The nodes of a stage are all through.  A research node that failed ends the run
\* before the stop is looked for.
StageOver(r) ==
  /\ run[r].at \in Stages \ {"begin"} /\ AllDone(r)
  /\ LET at == run[r].at
         loop == run[r].loop
         broken == at \in {"explorer", "verifier"} /\ ~node[r][1].ok
     IN IF broken \/ StopRequested(r) \/ at \in {"consult", "synthesis"}
        THEN Finish(r, StopRequested(r) /\ ~broken) /\ UNCHANGED <<node, session>>
        ELSE \/ at = "generation" /\ Enter(r, "critique", loop, <<>>)
             \/ at = "explorer" /\ Enter(r, "verifier", loop, <<>>)
             \/ at = "verifier" /\ loop < MaxLoops /\ Enter(r, "explorer", loop + 1, Phase("research", "explorer"))
             \/ at \in {"critique", "verifier"} /\ Enter(r, "synthesis", loop, Phase(run[r].protocol, "synthesis"))
  /\ UNCHANGED <<aborted, asked, moves>>

Over(r, end) ==
  /\ run' = [run EXCEPT ![r].at = "over", ![r].end = end]
  /\ Emit(r, <<Plain(end)>>) /\ reasons' = reasons \ {r}
  /\ UNCHANGED <<node, aborted, asked, moves>>

Written(r) == run[r].at = "writing" /\ Over(r, run[r].end)

ResultNotWritten(r) == run[r].at = "writing" /\ Over(r, "failed")

-----------------------------------------------------------------------------
(* A node: a child process or a request to a live agent.                       *)

Completes(r, m, ok) ==
  /\ node' = [node EXCEPT ![r][m].call = "done", ![r][m].ok = ok]
  /\ Emit(r, <<Ev("node_completed", run[r].at, m, ok)>>)

\* The call returns; one that failed is made again while retries are left.
NodeEnds(r, m, ok) ==
  /\ node[r][m].call = "running"
  /\ IF ~ok /\ node[r][m].tries <= Retries[run[r].protocol]
     THEN node' = [node EXCEPT ![r][m].tries = @ + 1] /\ UNCHANGED <<branch, others, records, seqs>>
     ELSE Completes(r, m, ok)
  /\ UNCHANGED <<run, aborted, reasons, asked, moves>>

Timeout(r, m) ==
  /\ node[r][m].call = "running"
  /\ node' = [node EXCEPT ![r][m].call = "aborting"]
  /\ UNCHANGED <<run, aborted, session, asked, moves>>

\* Mistake: an aborted child is waited for until it has closed.
GraceNeverOver(r, m) ==
  /\ node[r][m].call = "aborting" /\ node[r][m].tries = 0
  /\ Completes(r, m, FALSE)
  /\ UNCHANGED <<run, aborted, reasons, asked, moves>>

\* SIGTERM, a grace period, SIGKILL: the call fails whatever the child does, and is
\* not made again.
GraceOver(r, m) ==
  /\ node[r][m].call = "aborting"
  /\ Completes(r, m, FALSE)
  /\ UNCHANGED <<run, aborted, reasons, asked, moves>>

-----------------------------------------------------------------------------
(* Stops, and the session under the run.                                       *)

Active(r) == run[r].at \notin {"idle", "over", "gone"}

\* requestStop: refused for a run this branch does not know or knows to be over.
RequestStop(r) ==
  /\ records[r] # None /\ records[r].status \notin Terminal
  /\ IF r \in reasons THEN UNCHANGED session
     ELSE Emit(r, <<Plain("stop_requested")>>) /\ reasons' = reasons \cup {r}
  /\ aborted' = IF Active(r) THEN aborted \cup {r} ELSE aborted
  /\ node' = IF Active(r)
             THEN [node EXCEPT ![r] = [m \in Member |->
                     IF @[m].call = "running" THEN [@[m] EXCEPT !.call = "aborting"] ELSE @[m]]]
             ELSE node
  /\ asked' = IF Active(r) /\ run[r].at # "writing" THEN asked \cup {r} ELSE asked
  /\ UNCHANGED <<run, moves>>

\* Mistake: numbering begins anew.
RehydrateUnnumbered(b) ==
  /\ branch' = b /\ records' = [r \in Run |-> Reduce(r, b)]
  /\ reasons' = {r \in Run : StopPending(r, b)}
  /\ seqs' = [r \in Run |-> 0]

\* rehydrateFromSession
Rehydrate(b) ==
  /\ branch' = b /\ records' = [r \in Run |-> Reduce(r, b)]
  /\ reasons' = {r \in Run : StopPending(r, b)}
  /\ seqs' = [r \in Run |-> LastSeq(r, b)]

Move ==
  /\ moves < MaxMoves /\ moves' = moves + 1
  /\ \E b \in others \cup {branch} : \E n \in 0 .. Len(b) : Rehydrate(SubSeq(b, 1, n))
  /\ others' = others \cup {branch}

\* session_tree: the user goes to another place of the session; runs go on.
ChangeBranch ==
  /\ Move
  /\ asked' = {} /\ UNCHANGED <<run, node, aborted>>

Restart ==
  /\ Move
  /\ run' = [r \in Run |-> IF Active(r) THEN [run[r] EXCEPT !.at = "gone"] ELSE run[r]]
  /\ node' = [r \in Run |-> [m \in Member |-> Resting]]
  /\ aborted' = {} /\ asked' = {}

Next ==
  \/ \E r \in Run, p \in Protocols : Start(r, p)
  \/ \E r \in Run : \/ Begin(r) \/ Fails(r) \/ StageOver(r) \/ Written(r) \/ ResultNotWritten(r)
                    \/ RequestStop(r)
  \/ \E r \in Run, m \in Member : Timeout(r, m) \/ GraceOver(r, m)
  \/ \E r \in Run, m \in Member, ok \in BOOLEAN : NodeEnds(r, m, ok)
  \/ ChangeBranch \/ Restart

\* The handler goes on, and timers of the termination run out.  A node that is
\* neither stopped nor timed out may take for ever.
Fairness ==
  /\ \A r \in Run : WF_teamVars(Begin(r)) /\ WF_teamVars(StageOver(r)) /\ WF_teamVars(Written(r))
  /\ \A r \in Run, m \in Member : WF_teamVars(GraceOver(r, m))

Spec == Init /\ [][Next]_teamVars /\ Fairness

-----------------------------------------------------------------------------
(* What the session shows of the runs is what a restart on this branch would   *)
(* show, however branches were changed under a run (state.ts, reducer).        *)
ReplayAgrees == \A r \in Run : /\ records[r] = Reduce(r, branch)
                               /\ (r \in reasons) = StopPending(r, branch)

(* Once a stop has reached a run it starts no node and repeats no call.        *)
NothingStartsStopped == [][\A r \in Run, m \in Member : r \in aborted =>
  /\ node'[r][m].call = "running" => node[r][m].call = "running"
  /\ node'[r][m].tries <= node[r][m].tries]_teamVars

(* A run asked to stop before its end was decided does not end completed       *)
(* unless the session went to another place in between (completeRun).          *)
StoppedIsNotCompleted == \A r \in asked : run[r].end # "completed"

(* A stop ends the run, whatever its children do.                              *)
StopEndsRun == \A r \in Run : (r \in aborted) ~> (r \notin aborted \/ run[r].at \in {"over", "gone"})
=============================================================================
