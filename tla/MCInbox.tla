------------------------------ MODULE MCInbox ------------------------------
(***************************************************************************)
(* What reaches agents from outside their sessions: the messages of a      *)
(* Matrix channel, and the prompts of a schedule, without and with the     *)
(* Agent Hub's resume.  Channel and schedule share no state, so a          *)
(* behaviour runs one of them and leaves the other where it began.         *)
(***************************************************************************)
EXTENDS ScheduledRun

CONSTANTS None, MaxStarts,
  MaxEvents, Media, Untrusted, Unmentioned, Shared, MaxActive, MaxPending, MaxDownloads, MaxWaiting,
  MaxBuffer, Burst, DropOldest, MaxStale, MaxOthers   \* of MatrixChannel

VARIABLES part,
  posted, file, stale, sdk, cursor, tasks, client, channel, sending, ext, read, refused, late, delivered,
  used

chatting == <<posted, file, stale, sdk, cursor, tasks, client, channel, sending, ext, read, refused,
              late, delivered, used>>

M == INSTANCE MatrixChannel WITH sent <- posted

\* The schedule where the hub resumes the runs it approves.
H == INSTANCE ScheduledRun WITH HubResume <- TRUE

ASSUME InboxAssumption == M!MatrixAssumption

SumInit ==
  /\ part \in {"matrix", "runs", "hub"} /\ M!Init /\ Init
  /\ part # "matrix" => file = None

InMatrix == part = "matrix" /\ UNCHANGED <<part, vars>>
InMatrixLater == InMatrix /\ M!NoneReady
InRuns == part = "runs" /\ UNCHANGED <<part, chatting>>
InHub == part = "hub" /\ UNCHANGED <<part, chatting>>

SumNext ==
  \/ InMatrixLater /\ M!Start
  \/ InMatrixLater /\ M!Prepared
  \/ InMatrixLater /\ M!StartFails
  \/ InMatrixLater /\ M!Replace
  \/ InMatrixLater /\ M!Shutdown
  \/ InMatrixLater /\ M!StopEnds
  \/ InMatrixLater /\ M!Crash
  \/ InMatrixLater /\ M!SomebodyWrites
  \/ InMatrixLater /\ M!Sync
  \/ InMatrix /\ M!Timeline
  \/ InMatrix /\ M!SyncEvent
  \/ InMatrixLater /\ M!WriteCursor
  \/ InMatrixLater /\ M!StaleWrite
  \/ \E t \in M!Task : InMatrix /\ M!Run(t)
  \/ \E t \in M!Task : InMatrixLater /\ M!DownloadEnds(t)
  \/ \E t \in M!Task : InMatrixLater /\ M!WaitEnds(t)
  \/ InMatrixLater /\ M!WindowPasses
  \/ InMatrixLater /\ M!Receive
  \/ InMatrixLater /\ M!Send
  \/ InMatrixLater /\ M!SendEnds
  \/ InRuns /\ Next
  \/ InHub /\ H!Next

SumSpec == SumInit /\ [][SumNext]_<<part, chatting, vars>>

\* A due minute reaches the host at most once ("the run can never double-fire",
\* extensions/pi-automations/scheduler-run-once.ts:122) where the hub leaves the resume to a session.
SentAtMostOnce == part = "runs" => AtMostOneSend

\* The properties of the channel, by the names they have there.
BufferedIsHeld == M!BufferedIsHeld
DeliveredOnce == M!DeliveredOnce
=============================================================================
