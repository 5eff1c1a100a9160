------------------------------- MODULE Mailbox -------------------------------
(***************************************************************************)
(* The Maildir inbox of one native agent: peers in other processes send to *)
(* it, its session announces unread mail to the model (MessagingCore),     *)
(* and message_read drains it.  Senders interleave with a drain at every   *)
(* file operation; timers, watch events and turn events run only between   *)
(* the session's own synchronous functions.                                *)
(***************************************************************************)
EXTENDS Integers, Sequences, FiniteSets

CONSTANTS Sender,          \* processes that send to this inbox
          Msg,             \* their messages: <<sender, 1>>, <<sender, 2>>, ...
          Corrupt,         \* those whose file does not parse
          Uuid,            \* the random part of each message's file name
          MaxClock,        \* bound: milliseconds that pass
          Keep,            \* inboxPruneCur's keep
          MaxPokeRetries,  \* MAX_POKE_RETRIES
          MaxLost,         \* bound: accepted prompts that never reach a turn
          MaxThrows,       \* bound: sendUserMessage calls that throw
          MaxUserTurns     \* bound: turns the user starts

ASSUME MailboxAssumption ==
  /\ IsFiniteSet(Msg) /\ Msg \subseteq Sender \X (Nat \ {0}) /\ Corrupt \subseteq Msg
  /\ Uuid \in [Msg -> Nat] /\ \A m, k \in Msg : Uuid[m] = Uuid[k] => m = k
  /\ MaxClock \in Nat /\ Keep \in Nat /\ MaxPokeRetries \in Nat
  /\ MaxLost \in Nat /\ MaxThrows \in Nat /\ MaxUserTurns \in Nat

VARIABLES
  now,       \* Date.now() of the senders
  stamp,     \* the millisecond in the file name of each message, -1 before it is sent
  tmp, new, cur,  \* the three directories
  held,      \* what the drain in progress received, oldest first
  step,      \* where the drain is
  returned,  \* what the agent was given, in that order
  poke,      \* MessagingCore: notifiedCount, turnSincePoke, pokeRetries, pokeTimeout, and
             \* whether POKE_RETRY_MS has yet to pass since lastPokeAt
  turn,      \* the agent run: started by the user or by an announcement, or in a later turn
  prompt,    \* the count stated by an announcement whose turn has not read the inbox yet
  announced, \* messages that accepted announcements counted since the last drain
  heard,     \* those of them that had a turn
  queued,    \* announcements since the last turn boundary, drain or empty inbox
  life,      \* the session
  faults     \* how many of each bounded fault happened

mail  == <<now, stamp, tmp, new>>
drain == <<cur, held, step, returned>>
core  == <<poke, turn, prompt, announced, heard, queued>>
vars  == <<mail, drain, core, life, faults>>

Timer == {"none", "debounce", "retry"}
Quiet == [notified |-> 0, since |-> FALSE, retries |-> 0, fresh |-> FALSE, timer |-> "none"]

TypeOK ==
  /\ now \in 0 .. MaxClock
  /\ stamp \in [Msg -> -1 .. MaxClock]
  /\ tmp \subseteq Msg /\ new \subseteq Msg /\ cur \subseteq Msg
  /\ tmp \cap new = {} /\ tmp \cap cur = {} /\ new \cap cur = {}
  /\ held \in Seq(Msg) /\ returned \in Seq(Msg)
  /\ step \in {"none", "ack", "prune", "return"}
  /\ poke \in [notified : Nat, since : BOOLEAN, retries : Nat, fresh : BOOLEAN, timer : Timer]
  /\ turn \in {"idle", "user", "announced", "later"} /\ prompt \in Nat
  /\ announced \subseteq Msg /\ heard \subseteq Msg /\ queued \in Nat
  /\ life \in {"up", "stopping", "down"}
  /\ faults \in [lost : 0 .. MaxLost, throws : 0 .. MaxThrows, turns : 0 .. MaxUserTurns]

Init ==
  /\ now = 0
  /\ stamp = [m \in Msg |-> -1]
  /\ tmp = {} /\ new = {} /\ cur = {}
  /\ held = <<>> /\ step = "none" /\ returned = <<>>
  /\ poke = Quiet /\ turn = "idle" /\ prompt = 0
  /\ announced = {} /\ heard = {} /\ queued = 0
  /\ life = "up"
  /\ faults = [lost |-> 0, throws |-> 0, turns |-> 0]

(***************************************************************************)
(* Sending                                                                 *)
(***************************************************************************)

Sent == {m \in Msg : stamp[m] # -1}
Before(m, k) == stamp[m] < stamp[k] \/ (stamp[m] = stamp[k] /\ Uuid[m] < Uuid[k])

\* durableWrite: the name is made of the time and a random part, the file written to tmp.
WriteTmp(m) ==
  /\ m \notin Sent
  /\ \A k \in Msg : k[1] = m[1] /\ k[2] < m[2] => k \in Sent \ tmp
  /\ stamp' = [stamp EXCEPT ![m] = now]
  /\ tmp' = tmp \cup {m}
  /\ UNCHANGED <<now, new, drain, core, life, faults>>

Publish(m) ==
  /\ m \in tmp
  /\ tmp' = tmp \ {m} /\ new' = new \cup {m}
  /\ UNCHANGED <<now, stamp, drain, core, life, faults>>

Millisecond ==
  /\ now < MaxClock /\ now' = now + 1
  /\ UNCHANGED <<stamp, tmp, new, drain, core, life, faults>>

(***************************************************************************)
(* Announcing: operators on the state of MessagingCore                     *)
(***************************************************************************)

\* totalPending counts files, whether they can be read or not.
Pending == Cardinality(new)

ResetPoke(p) == [Quiet EXCEPT !.timer = p.timer]

Delay(p) ==
  CASE p.notified = 0 -> "debounce"
    [] p.notified > 0 /\ p.since /\ Pending > p.notified -> "debounce"
    [] p.notified > 0 /\ p.since /\ Pending <= p.notified -> "none"
    [] p.notified > 0 /\ ~p.since /\ p.retries >= MaxPokeRetries -> "none"
    [] p.notified > 0 /\ ~p.since /\ p.retries < MaxPokeRetries -> "retry"

\* schedulePoke
Schedule(p) ==
  CASE Pending = 0 -> ResetPoke(p)
    [] Pending > 0 /\ p.timer # "none" -> p
    [] Pending > 0 /\ p.timer = "none" -> [p EXCEPT !.timer = Delay(p)]

\* noteTurnBoundary
Boundary(p) == [p EXCEPT !.since = @ \/ p.notified > 0]

\* pokeNow leaves an outstanding announcement alone.
Outstanding(p) ==
  /\ p.notified > 0
  /\ p.since => Pending <= p.notified
  /\ ~p.since => p.fresh \/ p.retries >= MaxPokeRetries

\* The state pokeNow records before it injects.
Announced(p) ==
  [notified |-> Pending, since |-> FALSE, fresh |-> TRUE, timer |-> "none",
   retries |-> IF p.notified > 0 THEN p.retries + 1 ELSE 0]

\* pokeNow while the agent is idle: the injected prompt starts a turn, or is lost after it
\* was accepted, or the call throws and the former state is restored.
Inject(p) ==
  /\ Pending > 0 /\ ~Outstanding(p)
  /\ \/ /\ poke' = Announced(p)
        /\ announced' = announced \cup new /\ queued' = queued + 1
        /\ \/ turn' = "announced" /\ prompt' = Pending /\ UNCHANGED faults
           \/ /\ faults.lost < MaxLost /\ faults' = [faults EXCEPT !.lost = @ + 1]
              /\ turn' = "idle" /\ prompt' = 0
     \/ /\ faults.throws < MaxThrows /\ faults' = [faults EXCEPT !.throws = @ + 1]
        /\ poke' = Schedule([p EXCEPT !.timer = "none"])
        /\ turn' = "idle" /\ prompt' = 0
        /\ UNCHANGED <<announced, queued>>

PokeIdle(p) ==
  \/ Inject(p)
  \/ /\ Pending > 0 /\ Outstanding(p)
     /\ poke' = Schedule(p) /\ turn' = "idle" /\ prompt' = 0
     /\ UNCHANGED <<announced, queued, faults>>
  \/ /\ Pending = 0
     /\ poke' = ResetPoke(p) /\ turn' = "idle" /\ prompt' = 0 /\ queued' = 0
     /\ UNCHANGED <<announced, faults>>

\* schedulePoke as called by a watch event, a channel, a busy pokeNow or the five-second
\* check: one action, since all of them do just this.
Reschedule(p) ==
  /\ poke' = Schedule(p)
  /\ queued' = IF Pending = 0 THEN 0 ELSE queued

Running == life = "up" /\ step = "none"

Check ==
  /\ Running
  /\ Reschedule(poke)
  /\ UNCHANGED <<mail, drain, turn, prompt, announced, heard, life, faults>>

\* Mistake: the idle gate is missing, so the prompt waits behind the running turn.
TimerFiresUngated ==
  /\ Running /\ turn # "idle"
  /\ poke.timer # "none" /\ (poke.timer = "retry" => ~poke.fresh)
  /\ Pending > 0 /\ ~Outstanding(poke)
  /\ poke' = Announced(poke) /\ prompt' = Pending
  /\ announced' = announced \cup new /\ queued' = queued + 1
  /\ UNCHANGED <<mail, drain, turn, heard, life, faults>>

TimerFires ==
  /\ Running
  /\ poke.timer # "none" /\ (poke.timer = "retry" => ~poke.fresh)
  /\ LET p == [poke EXCEPT !.timer = "none"] IN
       \/ turn = "idle" /\ PokeIdle(p)
       \/ /\ turn # "idle" /\ Reschedule(p)
          /\ UNCHANGED <<turn, prompt, announced, faults>>
  /\ UNCHANGED <<mail, drain, heard, life>>

\* POKE_RETRY_MS pass.
RetryWindowEnds ==
  /\ poke.fresh /\ poke' = [poke EXCEPT !.fresh = FALSE]
  /\ UNCHANGED <<mail, drain, turn, prompt, announced, heard, queued, life, faults>>

UserTurn ==
  /\ Running /\ turn = "idle" /\ faults.turns < MaxUserTurns
  /\ turn' = "user"
  /\ faults' = [faults EXCEPT !.turns = @ + 1]
  /\ UNCHANGED <<mail, drain, poke, prompt, announced, heard, queued, life>>

\* A prompt belongs to the turn its announcement started.
PromptAfter == IF turn = "announced" THEN 0 ELSE prompt

TurnEnd ==
  /\ Running /\ turn # "idle"
  /\ poke' = Boundary(poke)
  /\ turn' = "later" /\ prompt' = PromptAfter
  /\ heard' = announced /\ queued' = 0
  /\ UNCHANGED <<mail, drain, announced, life, faults>>

\* agent_end follows the last turn_end: pokePending notes the boundary and pokes; the host may
\* not be idle yet.
AgentEnd ==
  /\ Running /\ turn = "later"
  /\ \/ /\ Reschedule(Boundary(poke)) /\ turn' = "idle" /\ prompt' = 0
        /\ UNCHANGED <<announced, faults>>
     \/ PokeIdle(Boundary(poke))
  /\ UNCHANGED <<mail, drain, heard, life>>

(***************************************************************************)
(* Draining                                                                *)
(***************************************************************************)

InOrder(S) ==
  CHOOSE q \in [1 .. Cardinality(S) -> S] :
    \A i, j \in 1 .. Cardinality(S) : i < j => Before(q[i], q[j])

\* inboxReadNew sorts by file name and skips what does not parse.
Receive == InOrder(new \ Corrupt)

\* drainAllChannels starts by forgetting the outstanding announcement.
StartDrain ==
  /\ poke' = Quiet /\ announced' = {} /\ heard' = {} /\ queued' = 0
  /\ prompt' = PromptAfter
  /\ held' = Receive
  /\ step' = IF new \ Corrupt = {} THEN "return" ELSE "ack"

Read ==
  /\ Running /\ turn # "idle"
  /\ StartDrain
  /\ UNCHANGED <<mail, cur, returned, turn, life, faults>>

Unacked == {i \in DOMAIN held : held[i] \in new}

\* Mistake: everything in new/ is acknowledged, the mail that came meanwhile included.
AckEverything ==
  /\ step = "ack" /\ new' = {} /\ cur' = cur \cup new
  /\ step' = "prune"
  /\ UNCHANGED <<now, stamp, tmp, held, returned, core, life, faults>>

\* Mistake: the messages are not acknowledged.
AckSkipped ==
  /\ step = "ack" /\ step' = "prune"
  /\ UNCHANGED <<mail, cur, held, returned, core, life, faults>>

Ack ==
  /\ step = "ack"
  /\ \/ \E i \in Unacked :
          /\ \A j \in Unacked : i <= j
          /\ new' = new \ {held[i]} /\ cur' = cur \cup {held[i]}
          /\ step' = step
     \/ Unacked = {} /\ step' = "prune" /\ UNCHANGED <<new, cur>>
  /\ UNCHANGED <<now, stamp, tmp, held, returned, core, life, faults>>

\* files.slice(0, files.length - keep): a negative end counts from the back.
SliceEnd(n) == IF n >= Keep THEN n - Keep ELSE IF 2 * n > Keep THEN 2 * n - Keep ELSE 0

Prune ==
  LET q == InOrder(cur) IN
  /\ step = "prune" /\ step' = "return"
  /\ cur' = cur \ {q[i] : i \in 1 .. SliceEnd(Cardinality(cur))}
  /\ UNCHANGED <<mail, held, returned, core, life, faults>>

\* message_read returns its text; at shutdown drainAll offers it to a host that may be gone.
Return ==
  /\ step = "return" /\ step' = "none"
  /\ \/ returned' = returned \o held
     \/ life = "stopping" /\ UNCHANGED returned
  /\ held' = <<>>
  /\ life' = IF life = "stopping" THEN "down" ELSE life
  /\ UNCHANGED <<mail, cur, core, faults>>

Shutdown ==
  /\ Running
  /\ life' = "stopping"
  /\ StartDrain
  /\ UNCHANGED <<mail, cur, returned, turn, faults>>

Crash ==
  /\ life # "down"
  /\ life' = "down" /\ step' = "none" /\ held' = <<>>
  /\ poke' = Quiet /\ turn' = "idle" /\ prompt' = 0
  /\ announced' = {} /\ heard' = {} /\ queued' = 0
  /\ UNCHANGED <<mail, cur, returned, faults>>

DrainStep == Ack \/ Prune \/ Return

Next ==
  \/ \E m \in Msg : WriteTmp(m) \/ Publish(m)
  \/ Millisecond
  \/ Check \/ TimerFires \/ RetryWindowEnds
  \/ UserTurn \/ TurnEnd \/ AgentEnd
  \/ Read \/ DrainStep \/ Shutdown \/ Crash

\* Timers fire, time passes, a started function returns, and a turn ends however often it reads.
\* Nobody must send, and a watch event may be lost: Check is then the five-second interval.
Fairness ==
  /\ WF_vars(Check) /\ WF_vars(TimerFires) /\ WF_vars(RetryWindowEnds)
  /\ SF_vars(TurnEnd) /\ SF_vars(AgentEnd) /\ WF_vars(DrainStep)

Spec == Init /\ [][Next]_vars /\ Fairness

(***************************************************************************)
(* Properties                                                              *)
(***************************************************************************)

Given == {returned[i] : i \in DOMAIN returned}
InHand == {held[i] : i \in DOMAIN held}

\* While the session lives, a message that left new/ was given to the agent or is about to be
\* ("durable at-least-once delivery", lib/agent-api.ts:134).
AtLeastOnce == life = "up" => \A m \in Sent \ (tmp \cup new) : m \in Given \cup InHand

\* No message is given to the agent twice.
AtMostOnce == \A i, j \in DOMAIN returned : returned[i] = returned[j] => i = j

\* The agent gets the messages a sender sent at different times in that order (receive: "oldest
\* first", lib/message-transport.ts:125).
SenderOrder ==
  \A i, j \in DOMAIN returned :
    LET m == returned[i] k == returned[j] IN
      m[1] = k[1] /\ stamp[m] < stamp[k] => i < j

\* The inbox as its agent sees it (InboxService): a read gives what was sent before it began and
\* was not given, each message once and oldest first ("Return all pending inbound messages ...
\* oldest first", lib/message-transport.ts:125), whatever senders, pruning and crashes do.
Inbox == INSTANCE InboxService WITH
  Time  <- 0 .. MaxClock,
  sent  <- [m \in Msg |-> IF m \in tmp THEN -1 ELSE stamp[m]],
  phase <- IF life = "down" THEN "closed" ELSE IF step = "none" THEN "idle" ELSE "reading",
  taken <- InHand,
  given <- returned

ImplementsInbox == Inbox!Spec

\* While the turn an announcement started has not read, what it stated is there to be read
\* ("the prompt must state what is still unread", messaging-core.ts:156).
PromptIsTrue == life = "up" => prompt <= Pending

\* Whatever arrives, the whole inbox of a living session comes to be read, or stated to the agent in a
\* turn that begins with it or ends after it: also when injections throw, when turns ignore it, and
\* when the host loses a prompt it accepted, unless it loses the last retry too ("new arrivals or a
\* subsequent inbox drain rearm notifications", README.md:42 of pi-agent-hub; MAX_POKE_RETRIES,
\* messaging-core.ts:114).
Told    == new \subseteq heard \/ (turn = "announced" /\ new \subseteq announced)
GivenUp == poke.retries >= MaxPokeRetries /\ poke.notified > 0 /\ ~poke.since /\ turn = "idle"
=============================================================================
