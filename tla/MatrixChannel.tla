--------------------------- MODULE MatrixChannel ---------------------------
(***************************************************************************)
(* The Matrix channel of a session.  The SDK syncs and calls back: timeline*)
(* events run as bounded tasks, download what is attached and reach an     *)
(* in-memory buffer the agent reads; sync events move the cursor, which is *)
(* saved unless mail is buffered.  Events are numbered as the server       *)
(* orders them; the cursor n covers the events up to n.                    *)
(***************************************************************************)
EXTENDS Naturals, Sequences, FiniteSets, SequencesExt

CONSTANTS
  MaxEvents, Media, Untrusted, Unmentioned, \* the events: with an attachment; dropped before or after its download
  Shared,        \* events of the shared room; the others are of the private one
  MaxActive, MaxPending,        \* BoundedTaskSet
  MaxDownloads, MaxWaiting,     \* AttachmentDownloadResources
  MaxBuffer, Burst, DropOldest, \* MatrixIngressConfig
  MaxStarts, MaxStale, MaxOthers, \* bounds: sessions; cursor writes an old client has left; failures,
                                  \* repeated events and replies together
  None

VARIABLES
  sent,      \* events the server has
  file,      \* sync.json
  stale,     \* cursor writes of a client that was stopped
  sdk,       \* the sync loop: running, its cursor, the response being emitted
  cursor,    \* latestToken, persistedToken, cursorWrites
  tasks,     \* callbackTasks with their stages, and the downloads that wait
  client,    \* seenEventIds, lifecycleController, lastInboundRoomId, and what counts as history
  channel,   \* the registered transport: buffer, window, pendingReplyTo
  sending,   \* a send under way: the event it answers and its room
  ext,       \* where the extension's handlers are
  read, refused, late, \* events read; dropped for good; let past by the cursor while in a callback
  delivered, \* how often each event reached this client's buffer
  used       \* how much of each bound

matrixVars == <<sent, file, stale, sdk, cursor, tasks, client, channel, sending, ext, read, refused,
                late, delivered, used>>

\* What the constants have to be.
MatrixAssumption == MaxEvents \in Nat /\ None \notin Nat

Event == 1 .. MaxEvents
Task == Event \X {1, 2}      \* an event, or its repetition
Token == 0 .. MaxEvents
Room(n) == IF n \in Shared THEN "shared" ELSE "private"

NoTasks == [open |-> TRUE, pending |-> <<>>, waiters |-> <<>>, stage |-> [t \in Task |-> "none"]]
NoClient == [seen |-> {}, aborted |-> FALSE, room |-> None, history |-> 0]
NoChannel == [on |-> FALSE, buffer |-> <<>>, recent |-> {}, replyTo |-> None]
Stopped == [on |-> FALSE, ready |-> FALSE, since |-> 0, batch |-> <<>>, next |-> None]

TypeOK ==
  /\ sent \in Token /\ file \in Token \cup {None} /\ {stale, cursor.writes} \subseteq Seq(Token)
  /\ sdk.batch \in Seq(Task) /\ {cursor.latest, cursor.persisted, sdk.next} \subseteq Token \cup {None}
  /\ tasks.stage \in [Task -> {"none", "ready", "wait", "fetch"}]
  /\ channel.buffer \in Seq(Event) /\ channel.replyTo \in Event \cup {None}
  /\ ext \in {"down", "starting", "up", "failing", "replacing", "stopping"}
  /\ read \cup refused \cup late \subseteq Event

Init ==
  /\ sent = 0 /\ file \in {None, 0} /\ stale = <<>> /\ sdk = Stopped
  /\ cursor = [latest |-> None, persisted |-> None, writes |-> <<>>]
  /\ tasks = NoTasks /\ client = NoClient /\ channel = NoChannel /\ sending = None /\ ext = "down"
  /\ read = {} /\ refused = {} /\ late = {} /\ delivered = [n \in Event |-> 0]
  /\ used = [starts |-> 0, others |-> 0]

Use(what, max) == used[what] < max /\ used' = [used EXCEPT ![what] = @ + 1]

-----------------------------------------------------------------------------
(* The extension.                                                              *)

\* The rest of session_start: the saved cursor is loaded, or none is and all there is counts
\* as history, of which the first sync brings the last event; the channel is registered.
Start ==
  /\ ext = "down" /\ Len(stale \o cursor.writes) <= MaxStale /\ Use("starts", MaxStarts)
  /\ LET last == IF file = None /\ sent > 0 THEN <<<<sent, 1>>>> ELSE <<>> IN
     /\ sdk' = [on |-> TRUE, ready |-> FALSE, since |-> IF file = None THEN sent ELSE file, batch |-> last,
                next |-> IF file = None THEN sent ELSE None]
     /\ client' = [NoClient EXCEPT !.history = IF file = None THEN sent ELSE 0]
  /\ cursor' = [latest |-> file, persisted |-> file, writes |-> <<>>]
  /\ stale' = stale \o cursor.writes
  /\ tasks' = NoTasks /\ channel' = [NoChannel EXCEPT !.on = TRUE] /\ ext' = "starting"
  /\ delivered' = [n \in Event |-> 0] /\ refused' = refused \cup 1 .. client'.history
  /\ UNCHANGED <<sent, file, sending, read, late>>

Prepared ==
  /\ ext = "starting" /\ sdk.ready /\ ext' = "up"
  /\ UNCHANGED <<sent, file, stale, sdk, cursor, tasks, client, channel, sending, read, refused, late,
                 delivered, used>>

\* client.stop: downloads are aborted, no callback is accepted any more, the sync loop is
\* stopped; a response it is at may still be emitted.
Stop(to) ==
  /\ ext' = to
  /\ client' = [client EXCEPT !.aborted = TRUE] /\ tasks' = [tasks EXCEPT !.open = FALSE]
  /\ sdk' = [sdk EXCEPT !.on = FALSE]

\* The sync did not get ready in time.
StartFails ==
  /\ ext = "starting" /\ Use("others", MaxOthers) /\ Stop("failing")
  /\ UNCHANGED <<sent, file, stale, cursor, channel, sending, read, refused, late, delivered>>

\* A replaced session: the channel goes first, then its client is stopped.
Replace ==
  /\ ext = "up" /\ used.starts < MaxStarts
  /\ channel' = NoChannel /\ Stop("replacing")
  /\ UNCHANGED <<sent, file, stale, cursor, sending, read, refused, late, delivered, used>>

Shutdown ==
  /\ ext = "up" /\ Stop("stopping")
  /\ UNCHANGED <<sent, file, stale, cursor, channel, sending, read, refused, late, delivered, used>>

\* closeAndDrain is over: every accepted callback has ended.
StopEnds ==
  /\ ext \in {"failing", "replacing", "stopping"}
  /\ tasks.pending = <<>> /\ \A t \in Task : tasks.stage[t] = "none"
  /\ ext' = "down" /\ channel' = NoChannel /\ sdk' = Stopped /\ sending' = None
  /\ UNCHANGED <<sent, file, stale, cursor, tasks, client, read, refused, late, delivered, used>>

\* The process dies.
Crash ==
  /\ ext # "down" /\ ext' = "down"
  /\ channel' = NoChannel /\ sdk' = Stopped /\ sending' = None /\ tasks' = NoTasks /\ stale' = <<>>
  /\ cursor' = [cursor EXCEPT !.writes = <<>>]
  /\ UNCHANGED <<sent, file, client, read, refused, late, delivered, used>>

-----------------------------------------------------------------------------
(* The sync loop and the cursor.                                               *)

SomebodyWrites ==
  /\ sent < MaxEvents /\ sent' = sent + 1
  /\ UNCHANGED <<file, stale, sdk, cursor, tasks, client, channel, sending, ext, read, refused, late,
                 delivered, used>>

Sync ==
  /\ sdk.on /\ sdk.next = None /\ (sdk.since < sent \/ ~sdk.ready)
  /\ sdk' = [sdk EXCEPT !.batch = [i \in 1 .. sent - sdk.since |-> <<sdk.since + i, 1>>], !.next = sent]
  /\ UNCHANGED <<sent, file, stale, cursor, tasks, client, channel, sending, ext, read, refused, late,
                 delivered, used>>

Active == {t \in Task : tasks.stage[t] # "none"}

\* runCallback for a timeline event: it starts, waits for a place, or is dropped.
Timeline ==
  /\ sdk.batch # <<>>
  /\ LET t == Head(sdk.batch)
         n == t[1]
     IN /\ \/ sdk' = [sdk EXCEPT !.batch = Tail(@)] /\ UNCHANGED used
           \/ /\ t[2] = 1 /\ Use("others", MaxOthers)
              /\ sdk' = [sdk EXCEPT !.batch = Append(Tail(@), <<n, 2>>)]
        /\ IF tasks.open /\ Cardinality(Active) < MaxActive
           THEN tasks' = [tasks EXCEPT !.stage[t] = "ready"] /\ UNCHANGED refused
           ELSE IF tasks.open /\ Len(tasks.pending) < MaxPending
           THEN tasks' = [tasks EXCEPT !.pending = Append(@, t)] /\ UNCHANGED refused
           ELSE UNCHANGED tasks /\ refused' = IF tasks.open THEN refused \cup {n} ELSE refused
  /\ UNCHANGED <<sent, file, stale, cursor, client, channel, sending, ext, read, late, delivered>>

\* Mistake: the cursor does not wait for the buffer.
PersistAlways(c, token, ch) ==
  IF token \in {c.persisted, None} THEN c ELSE [c EXCEPT !.writes = Append(@, token)]

\* canPersistCursor, persistCursor
Persist(c, token, ch) ==
  IF token \in {c.persisted, None} \/ (ch.on /\ ch.buffer # <<>>) THEN c
  ELSE [c EXCEPT !.writes = Append(@, token)]

\* What a cursor that is let go passes, though it was not read and no buffer has it.
Passed(token) == {n \in Event : n <= token} \ (read \cup Range(channel.buffer))

SyncEvent ==
  /\ sdk.next # None /\ sdk.batch = <<>>
  /\ sdk' = [sdk EXCEPT !.since = sdk.next, !.next = None, !.ready = TRUE]
  /\ cursor' = Persist([cursor EXCEPT !.latest = sdk.next], sdk.next, channel)
  /\ late' = IF cursor'.writes = cursor.writes THEN late ELSE late \cup Passed(sdk.next)
  /\ UNCHANGED <<sent, file, stale, tasks, client, channel, sending, ext, read, refused, delivered, used>>

\* A queued write: skipped if the cursor is saved already; it may fail.
WriteCursor ==
  /\ cursor.writes # <<>>
  /\ LET token == Head(cursor.writes)
         rest == [cursor EXCEPT !.writes = Tail(@)]
     IN \/ token # cursor.persisted /\ file' = token /\ cursor' = [rest EXCEPT !.persisted = token]
           /\ UNCHANGED used
        \/ token = cursor.persisted /\ cursor' = rest /\ UNCHANGED <<file, used>>
        \/ token # cursor.persisted /\ cursor' = rest /\ Use("others", MaxOthers) /\ UNCHANGED file
  /\ UNCHANGED <<sent, stale, sdk, tasks, client, channel, sending, ext, read, refused, late, delivered>>

\* stop does not wait for the writes of its client.
StaleWrite ==
  /\ stale # <<>> /\ file' = Head(stale) /\ stale' = Tail(stale)
  /\ UNCHANGED <<sent, sdk, cursor, tasks, client, channel, sending, ext, read, refused, late, delivered, used>>

-----------------------------------------------------------------------------
(* Callbacks.                                                                  *)

\* A task is over: the next that waits for a place starts.
Ended(ts, t) ==
  LET free == [ts EXCEPT !.stage[t] = "none"] IN
  IF free.pending = <<>> THEN free
  ELSE [free EXCEPT !.pending = Tail(@), !.stage[Head(free.pending)] = "ready"]

\* release, dispatch: the first waiter takes the place.
Released(ts) ==
  IF ts.waiters = <<>> THEN ts
  ELSE [ts EXCEPT !.waiters = Tail(@), !.stage[Head(ts.waiters)] = "fetch"]

\* pushInbound: the window, the buffer's limit, the buffer.
Push(n) ==
  LET c == [channel EXCEPT !.recent = @ \cup {n}]
      put == [c EXCEPT !.buffer = Append(@, n), !.replyTo = n]
  IN IF ~channel.on THEN UNCHANGED <<channel, refused, delivered>>
     ELSE IF Cardinality(channel.recent) >= Burst
     THEN refused' = refused \cup {n} /\ UNCHANGED <<channel, delivered>>
     ELSE IF Len(channel.buffer) < MaxBuffer
     THEN channel' = put /\ delivered' = [delivered EXCEPT ![n] = @ + 1] /\ UNCHANGED refused
     ELSE IF ~DropOldest
     THEN channel' = c /\ refused' = refused \cup {n} /\ UNCHANGED delivered
     ELSE /\ channel' = [put EXCEPT !.buffer = Tail(@)] /\ refused' = refused \cup {Head(channel.buffer)}
          /\ delivered' = [delivered EXCEPT ![n] = @ + 1]

\* The rest of handleMessage once the message is built.
Deliver(n, cl) ==
  IF n \in Unmentioned
  THEN refused' = refused \cup {n} /\ client' = cl /\ UNCHANGED <<channel, delivered>>
  ELSE client' = [cl EXCEPT !.room = Room(n)] /\ Push(n)

\* Mistake: an event is not remembered while its attachment is loaded.
SeenLate(cl, n) == IF n \in Media THEN cl ELSE [cl EXCEPT !.seen = @ \cup {n}]
Seen(cl, n) == [cl EXCEPT !.seen = @ \cup {n}]

\* handleMessage up to its download.
Run(t) ==
  /\ tasks.stage[t] = "ready"
  /\ LET n == t[1]
         cl == Seen(client, n)
         free == Cardinality({u \in Task : tasks.stage[u] = "fetch"}) < MaxDownloads
     IN IF n <= client.history \/ n \in client.seen
        THEN tasks' = Ended(tasks, t) /\ UNCHANGED <<client, channel, refused, delivered>>
        ELSE IF n \in Untrusted
        THEN /\ tasks' = Ended(tasks, t) /\ client' = cl /\ refused' = refused \cup {n}
             /\ UNCHANGED <<channel, delivered>>
        ELSE IF n \in Media /\ ~client.aborted /\ free /\ tasks.waiters = <<>>
        THEN /\ tasks' = [tasks EXCEPT !.stage[t] = "fetch"] /\ client' = cl
             /\ UNCHANGED <<channel, refused, delivered>>
        ELSE IF n \in Media /\ ~client.aborted /\ Len(tasks.waiters) < MaxWaiting
        THEN /\ tasks' = [tasks EXCEPT !.stage[t] = "wait", !.waiters = Append(@, t)] /\ client' = cl
             /\ UNCHANGED <<channel, refused, delivered>>
        ELSE tasks' = Ended(tasks, t) /\ Deliver(n, cl)
  /\ UNCHANGED <<sent, file, stale, sdk, cursor, sending, ext, read, late, used>>

\* A download ends, with the file or an error, after its deadline or with the client.
DownloadEnds(t) ==
  /\ tasks.stage[t] = "fetch"
  /\ tasks' = Ended(Released(tasks), t) /\ Deliver(t[1], client)
  /\ UNCHANGED <<sent, file, stale, sdk, cursor, sending, ext, read, late, used>>

\* So does the wait for one: the waiter leaves its place in the line.
WaitEnds(t) ==
  /\ tasks.stage[t] = "wait"
  /\ \E i \in DOMAIN tasks.waiters :
       tasks.waiters[i] = t /\ tasks' = Ended([tasks EXCEPT !.waiters = RemoveAt(@, i)], t)
  /\ Deliver(t[1], client)
  /\ UNCHANGED <<sent, file, stale, sdk, cursor, sending, ext, read, late, used>>

WindowPasses ==
  /\ channel.recent # {} /\ channel' = [channel EXCEPT !.recent = {}]
  /\ UNCHANGED <<sent, file, stale, sdk, cursor, tasks, client, sending, ext, read, refused, late,
                 delivered, used>>

-----------------------------------------------------------------------------
(* The agent.                                                                  *)

\* Agent Hub knows the channel.
Registered == ext \in {"starting", "up"}

\* message_read: the buffer is handed over, and a cursor that was held back is saved.
Receive ==
  /\ Registered /\ channel.buffer # <<>>
  /\ read' = read \cup Range(channel.buffer)
  /\ channel' = [channel EXCEPT !.buffer = <<>>]
  /\ cursor' = Persist(cursor, cursor.latest, channel')
  /\ late' = IF cursor' = cursor THEN late ELSE late \cup Passed(cursor.latest)
  /\ UNCHANGED <<sent, file, stale, sdk, tasks, client, sending, ext, refused, delivered, used>>

\* message_send: the event it answers and the room are taken first.
Send ==
  /\ Registered /\ sending = None /\ Use("others", MaxOthers)
  /\ sending' = [to |-> channel.replyTo, room |-> IF client.room = None THEN "private" ELSE client.room]
  /\ UNCHANGED <<sent, file, stale, sdk, cursor, tasks, client, channel, ext, read, refused, late, delivered>>

\* It is accepted, or it fails and can be tried again.
SendEnds ==
  /\ sending # None /\ sending' = None
  /\ channel' \in {channel, [channel EXCEPT !.replyTo = None]}
  /\ UNCHANGED <<sent, file, stale, sdk, cursor, tasks, client, ext, read, refused, late, delivered, used>>

\* Started tasks run, up to their download, before anything else the process waits for.
NoneReady == \A t \in Task : tasks.stage[t] # "ready"

Next ==
  \/ Timeline \/ SyncEvent \/ \E t \in Task : Run(t)
  \/ /\ NoneReady
     /\ \/ Start \/ Prepared \/ StartFails \/ Replace \/ Shutdown \/ StopEnds \/ Crash
        \/ SomebodyWrites \/ Sync \/ WriteCursor \/ StaleWrite
        \/ \E t \in Task : DownloadEnds(t) \/ WaitEnds(t)
        \/ WindowPasses \/ Receive \/ Send \/ SendEnds

Spec == Init /\ [][Next]_matrixVars

-----------------------------------------------------------------------------
(* A message that was buffered before its cursor was let go is not passed by   *)
(* the saved cursor until it was read ("do not advance the durable cursor past  *)
(* messages that only exist in this process's unread buffer",                  *)
(* js-sdk-adapter.ts:320).                                                     *)
BufferedIsHeld ==
  file # None => {n \in Range(channel.buffer) : n <= file} \subseteq late \cup read

(* No event reaches the buffer of one client twice, although the SDK may emit  *)
(* it again while its attachment is still being loaded (handleMessage).        *)
DeliveredOnce == \A n \in Event : delivered[n] <= 1

(* "so a restart during a long turn cannot skip them" (index.ts:119): when no  *)
(* client runs, whatever the saved cursor covers was read, or dropped for good.*)
RestartSkipsNothing ==
  ext = "down" /\ file # None => \A n \in 1 .. file : n \in read \cup refused

(* "a dropped/foreign room can never redirect a reply" (transport.ts:190): a   *)
(* reply goes to the room of the message it is marked as answering.            *)
RepliesGoHome == sending # None /\ sending.to # None => sending.room = Room(sending.to)
=============================================================================
