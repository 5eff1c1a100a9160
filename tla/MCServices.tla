----------------------------- MODULE MCServices -----------------------------
(***************************************************************************)
(* Services beside the hub: the Fleet MCP gateway, the runs of teams, and  *)
(* the reconciler that watches the peers of a session.  They share no      *)
(* state, so a behaviour runs one of them and leaves the others where they *)
(* began.                                                                  *)
(***************************************************************************)
EXTENDS FleetGateway

CONSTANTS Run, Protocols, Member, MaxLoops, MaxMoves,                \* of TeamRun
          Watched, Mailboxes, Threshold, MaxInjects, MaxChanges      \* of PeerWatch

VARIABLES part,
  run, node, aborted, branch, others, records, reasons, seqs, asked, moves,
  rec, alive, log, errors, tracker, verdict, still, saved, on, idle, injects, cooling, fresh, resumed,
  look, told, changes

teaming == <<run, node, aborted, branch, others, records, reasons, seqs, asked, moves>>
watching == <<rec, alive, log, errors, tracker, verdict, still, saved, on, idle, injects, cooling, fresh,
              resumed, look, told, changes>>

\* Teams that debate have two nodes at once, the others try a call twice.
Retries == [p \in Protocols |-> IF p = "debate" THEN 0 ELSE 1]

T == INSTANCE TeamRun
W == INSTANCE PeerWatch WITH Peer <- Watched, External <- Mailboxes

ASSUME ServicesAssumption == T!TeamAssumption /\ W!PeerWatchAssumption

SumInit ==
  /\ part \in {"team", "fleet", "peers"} /\ T!Init /\ Init /\ W!Init
  /\ part # "peers" => saved /\ resumed

InTeam  == part = "team" /\ UNCHANGED <<part, fleetVars, watching>>
InFleet == part = "fleet" /\ UNCHANGED <<part, teaming, watching>>
InPeers == part = "peers" /\ UNCHANGED <<part, teaming, fleetVars>>

SumNext ==
  \/ \E r \in Run, p \in Protocols : InTeam /\ T!Start(r, p)
  \/ \E r \in Run : InTeam /\ T!Begin(r)
  \/ \E r \in Run : InTeam /\ T!Fails(r)
  \/ \E r \in Run : InTeam /\ T!StageOver(r)
  \/ \E r \in Run : InTeam /\ T!Written(r)
  \/ \E r \in Run : InTeam /\ T!ResultNotWritten(r)
  \/ \E r \in Run : InTeam /\ T!RequestStop(r)
  \/ \E r \in Run, m \in Member : InTeam /\ T!Timeout(r, m)
  \/ \E r \in Run, m \in Member : InTeam /\ T!GraceOver(r, m)
  \/ \E r \in Run, m \in Member, ok \in BOOLEAN : InTeam /\ T!NodeEnds(r, m, ok)
  \/ InTeam /\ T!ChangeBranch
  \/ InTeam /\ T!Restart
  \/ \E c \in Call, r \in Request : InFleet /\ Ask(c, r)
  \/ \E c \in Call : InFleet /\ ReadPeers(c)
  \/ \E c \in Call : InFleet /\ Write(c)
  \/ \E c \in Call : InFleet /\ WriteFails(c)
  \/ \E c \in Call : InFleet /\ Unavailable(c)
  \/ \E c \in Call : InFleet /\ Register(c)
  \/ \E c \in Call : InFleet /\ Unregister(c)
  \/ \E c \in Call : InFleet /\ Send(c)
  \/ \E c \in Call : InFleet /\ Broadcast(c)
  \/ \E c \in Call, t \in Peer : InFleet /\ BroadcastTo(c, t)
  \/ \E c \in Call : InFleet /\ Ack(c)
  \/ \E g \in Gen, m \in Message : InFleet /\ Receive(g, m)
  \/ \E n \in Native : InFleet /\ NativeChange(n)
  \/ InFleet /\ Crash
  \/ \E ps \in SUBSET Watched \ {{}} : InPeers /\ W!AgentStatus(ps)
  \/ \E again \in BOOLEAN : InPeers /\ W!Start(again)
  \/ \E b, kept \in BOOLEAN : InPeers /\ W!SetEnabled(b, kept)
  \/ InPeers /\ W!Input
  \/ InPeers /\ W!AgentEnd
  \/ InPeers /\ W!Look
  \/ InPeers /\ W!Judge
  \/ \E p \in Watched : InPeers /\ W!Works(p)
  \/ \E p \in Watched, s \in {"running", "waiting", "blocked", "done"} : InPeers /\ W!Reports(p, s)
  \/ \E p \in Watched, b \in {"fresh", "late", "silent"} : InPeers /\ W!Beats(p, b)
  \/ \E p \in Watched : InPeers /\ W!GetsMessage(p)
  \/ \E p \in Watched : InPeers /\ W!Fails(p)
  \/ \E p \in Watched : InPeers /\ W!Dies(p)
  \/ \E h \in {"input", "pending-messages", "blocked-agent", "silent-done", "stale-activity"} :
       InPeers /\ W!TimePasses(h)

\* The fairness of the parts, each in its own behaviours.
SumFairness ==
  /\ \A r \in Run : /\ WF_teaming(part = "team" /\ T!Begin(r)) /\ WF_teaming(part = "team" /\ T!StageOver(r))
                    /\ WF_teaming(part = "team" /\ T!Written(r))
  /\ \A r \in Run, m \in Member : WF_teaming(part = "team" /\ T!GraceOver(r, m))

SumSpec == SumInit /\ [][SumNext]_<<part, fleetVars, teaming, watching>> /\ SumFairness

\* The properties of the other parts, by the names they have there.
ReplayAgrees == T!ReplayAgrees
StoppedIsNotCompleted == T!StoppedIsNotCompleted
StopEndsRun == T!StopEndsRun
StalledIsSound == W!StalledIsSound
=============================================================================
