----------------------------- MODULE MCSession -----------------------------
(***************************************************************************)
(* What a session of pi has for itself: the mail its peers send it, its    *)
(* lease of the boosted model, and the files it watches.  They share no    *)
(* state, so a behaviour runs one of them and leaves the others where they *)
(* began.                                                                  *)
(***************************************************************************)
EXTENDS Mailbox

CONSTANTS a, b, None,
  Command, MaxYields, Ttl, MaxTime, MaxFailures, MaxResets, MaxEnds, MaxRuns, \* of BoostLease
  file, folder, child, Path, Parent, Link, Config,
  Loader, Inode, MaxPending, MaxBytes, MaxChanges                             \* of FileWatch

VARIABLES part,
  lease, model, clock, at, saved, asked, agent, waiting, ranOn, accepted, crossed, used,
  disk, config, watching, timers, batch, armed, overflow, loads, draft, saves, up, node, data,
  reading, sending, report, due, changes

boosting == <<lease, model, clock, at, saved, asked, agent, waiting, ranOn, accepted, crossed, used>>
observing == <<disk, config, watching, timers, batch, armed, overflow, loads, draft, saves, up, node,
               data, reading, sending, report, due, changes>>

\* Two messages of one peer, and one of another that cannot be read.
Messages == {<<a, 1>>, <<a, 2>>, <<b, 1>>}
Unreadable == {<<b, 1>>}
\* The later message of a has the smaller name within one millisecond.
SecondFirst == [m \in Messages |-> IF m[1] = b THEN 3 ELSE 3 - m[2]]

B == INSTANCE BoostLease WITH now <- clock, pc <- at, queue <- waiting

W == INSTANCE FileWatch

\* A file that is a link, and a folder with a file in it.
Paths == {file, folder, child}
Parents == [p \in Paths |-> IF p = child THEN folder ELSE None]
Links == {file}
Configs == {{file}, {file, folder}}

ASSUME SessionAssumption == B!BoostAssumption /\ W!FileWatchAssumption

SumInit ==
  /\ part \in {"mail", "boost", "watch"} /\ Init /\ B!Init /\ W!Init
  /\ part # "watch" => disk = CHOOSE c \in Config : TRUE

InMail  == part = "mail" /\ UNCHANGED <<part, boosting, observing>>
\* The lease is followed up to where a command crosses another handler: it promises nothing then.
Followed == part = "boost" /\ ~crossed
InBoost == Followed /\ UNCHANGED <<part, vars, observing>>
InWatch == part = "watch" /\ UNCHANGED <<part, vars, boosting>>

SumNext ==
  \/ \E m \in Msg : InMail /\ WriteTmp(m)
  \/ \E m \in Msg : InMail /\ Publish(m)
  \/ InMail /\ Millisecond
  \/ InMail /\ Check
  \/ InMail /\ TimerFires
  \/ InMail /\ RetryWindowEnds
  \/ InMail /\ UserTurn
  \/ InMail /\ TurnEnd
  \/ InMail /\ AgentEnd
  \/ InMail /\ Read
  \/ InMail /\ Ack
  \/ InMail /\ Prune
  \/ InMail /\ Return
  \/ InMail /\ Shutdown
  \/ InMail /\ Crash
  \/ \E c \in Command : InBoost /\ B!Begin(c)
  \/ \E c \in Command : InBoost /\ B!FollowUp(c)
  \/ \E c \in Command : InBoost /\ B!Renew(c)
  \/ \E c \in Command : InBoost /\ B!Check(c)
  \/ \E c \in Command : InBoost /\ B!Count(c)
  \/ \E c \in Command : InBoost /\ B!Pick(c)
  \/ \E c \in Command : InBoost /\ B!Switched(c)
  \/ \E c \in Command : InBoost /\ B!Refused(c)
  \/ \E c \in Command : InBoost /\ B!Dispatch(c)
  \/ \E h \in B!Handler : InBoost /\ B!SetModel(h)
  \/ \E h \in B!Handler : InBoost /\ B!Reverted(h)
  \/ \E h \in B!Handler : InBoost /\ B!RevertFailed(h)
  \/ InBoost /\ B!AgentSettled
  \/ InBoost /\ B!Reset
  \/ InBoost /\ B!Shutdown
  \/ InBoost /\ B!UserRun
  \/ InBoost /\ B!Tick
  \/ \E l \in Loader : InWatch /\ W!Reload(l)
  \/ \E l \in Loader : InWatch /\ W!Reloaded(l)
  \/ InWatch /\ W!OpenSettings
  \/ InWatch /\ W!CloseSettings
  \/ InWatch /\ W!Shutdown
  \/ \E c \in Config : InWatch /\ W!Edit(c)
  \/ \E ok \in BOOLEAN : InWatch /\ W!Saved(ok)
  \/ \E p \in Path : InWatch /\ W!Event(p)
  \/ \E p \in Path, i \in Inode \cup {None} : InWatch /\ W!LinkMoves(p, i)
  \/ \E p \in Path : InWatch /\ W!Debounced(p)
  \/ InWatch /\ W!SendBatch
  \/ \E p \in Path : InWatch /\ W!Open(p)
  \/ InWatch /\ W!Check
  \/ InWatch /\ W!ReadPart
  \/ InWatch /\ W!Hashed
  \/ \E i \in Inode, size \in {1, MaxBytes + 1} : InWatch /\ W!Write(i, size)
  \/ \E p \in Path, i \in Inode \cup {None} : InWatch /\ W!Replace(p, i)
  \/ \E c \in Config \cup {None} : InWatch /\ W!EditOutside(c)

\* The fairness of the parts, each in its own behaviours.
SumFairness ==
  /\ WF_vars(part = "mail" /\ Check) /\ WF_vars(part = "mail" /\ TimerFires) /\ WF_vars(part = "mail" /\ RetryWindowEnds)
  /\ SF_vars(part = "mail" /\ TurnEnd) /\ SF_vars(part = "mail" /\ AgentEnd) /\ WF_vars(part = "mail" /\ DrainStep)
  /\ \A c \in Command : WF_boosting(Followed /\ B!FollowUp(c))
  /\ \A h \in B!Handler : WF_boosting(Followed /\ B!Step(h))
  /\ WF_boosting(Followed /\ B!AgentSettled)

SumSpec == SumInit /\ [][SumNext]_<<part, vars, boosting, observing>> /\ SumFairness

\* The properties of the other parts, by the names they have there.
RunsBoosted == B!RunsBoosted
EventuallyRestored == B!EventuallyRestored
NoChangeIsStuck == W!NoChangeIsStuck
HashIsWhole == W!HashIsWhole
=============================================================================
