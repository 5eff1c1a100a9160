---------------------------- MODULE FleetGateway ----------------------------
(***************************************************************************)
(* The Fleet MCP gateway: requests of authenticated principals, done one   *)
(* at a time on a draft of the stored state that is written when the       *)
(* request is through, over a manifest of external agents, native peers    *)
(* and mailboxes that are not written in the same step.                    *)
(***************************************************************************)
EXTENDS Naturals, Sequences, FiniteSets

CONSTANTS Principal,
          MaxGen,     \* bound on the registrations
          Native,     \* native peers
          Title,      \* display names
          Taken,      \* display names a native peer has or a lead has reserved
          Key, Text,  \* idempotency keys and payloads
          Message,    \* messages others send to an external agent
          Call,       \* requests that may be under way at once
          None,
          MaxCalls,   \* bound on the requests made
          MaxFaults   \* bound on crashes and failed writes of the state

VARIABLES
  stored,    \* state.json, and what the process holds of it
  manifest,  \* external-agents.json: id -> display name
  up,        \* native peers visible and with a usable inbox
  mail,      \* the messages published through the gateway
  born,      \* how many registrations got an id
  inbox,     \* the messages pending for each external agent
  read,      \* the messages moved out of each inbox
  line,      \* the requests that wait for their turn, the one that has it first
  call,      \* each request under way
  work,      \* what each request has done in its turn: peers seen, draft, answer
  answers,   \* successful answers given
  made,      \* how many requests were made
  faults     \* how many crashes and failed writes happened

fleetVars == <<stored, manifest, up, mail, born, inbox, read, line, call, work, answers, made, faults>>
boxes == <<born, inbox, read>>

Gen == 1 .. MaxGen
Peer == Gen \cup Native
Slot == Gen \X Key        \* a generation's idempotency key

Request ==
  [op : {"register"}, p : Principal, title : Title]
  \cup [op : {"unregister"}, p : Principal, id : Gen]
  \cup [op : {"send"}, p : Principal, key : Key, text : Text, to : Peer]
  \cup [op : {"broadcast"}, p : Principal, key : Key, text : Text]
  \cup [op : {"ack"}, p : Principal, ids : SUBSET Message \ {{}}]

Receipt == [op : {"send", "broadcast"}, ref : Nat, slot : Slot, text : Text, to : Peer]
Cast == [text : Text, targets : SUBSET Peer, got : [Peer -> Receipt \cup {None}]]
State == [reg      : [Principal -> [id : Gen, title : Title] \cup {None}],
          receipts : [Slot -> Receipt \cup {None}],
          casts    : [Slot -> Cast \cup {None}],
          left     : [Principal -> Gen \cup {None}],
          acked    : [Gen -> SUBSET Message]]
Answer == Receipt \cup [slot : Slot, targets : SUBSET Peer, complete : BOOLEAN]
          \cup [owner : Gen, acknowledged : SUBSET Message]
Work == [view : SUBSET Peer, draft : State \cup {None}, answer : Answer \cup {None}]
Asked == [req : Request, owner : Gen \cup {None}, todo : SUBSET Peer]

ASSUME FleetAssumption ==
  /\ MaxGen \in Nat /\ MaxCalls \in Nat /\ MaxFaults \in Nat
  /\ None \notin Gen \cup [id : Gen, title : Title] \cup Receipt \cup Cast \cup State \cup Answer \cup Work \cup Asked
  /\ None \notin Title

TypeOK ==
  /\ stored \in State /\ manifest \in [Gen -> Title \cup {None}] /\ up \subseteq Native
  /\ mail \subseteq Receipt /\ IsFiniteSet(mail) /\ answers \subseteq Answer
  /\ inbox \in [Gen -> SUBSET Message] /\ read \in [Gen -> SUBSET Message]
  /\ line \in Seq(Call)
  /\ call \in [Call -> Asked \cup {None}] /\ work \in [Call -> Work \cup {None}]
  /\ born \in 0 .. MaxGen /\ made \in 0 .. MaxCalls /\ faults \in 0 .. MaxFaults

Init ==
  /\ stored = [reg      |-> [p \in Principal |-> None],
               receipts |-> [s \in Slot |-> None],
               casts    |-> [s \in Slot |-> None],
               left     |-> [p \in Principal |-> None],
               acked    |-> [g \in Gen |-> {}]]
  /\ manifest = [g \in Gen |-> None] /\ up = Native /\ mail = {}
  /\ born = 0 /\ inbox = [g \in Gen |-> {}] /\ read = inbox
  /\ line = <<>> /\ call = [c \in Call |-> None] /\ work = call
  /\ answers = {} /\ made = 0 /\ faults = 0

-----------------------------------------------------------------------------
(* The turn of a request: the peers are read, the request is worked out on a   *)
(* draft, the draft is written, the answer is given.                           *)

Ask(c, r) ==
  /\ call[c] = None /\ made < MaxCalls /\ made' = made + 1
  /\ call' = [call EXCEPT ![c] = [req |-> r, owner |-> None, todo |-> {}]]
  /\ line' = Append(line, c)
  /\ UNCHANGED <<stored, manifest, up, mail, boxes, work, answers, faults>>

\* Mistake: a request does not wait for the ones before it.
TurnOfAny(c) == \E i \in DOMAIN line : line[i] = c

Turn(c) == line # <<>> /\ Head(line) = c

External == {g \in Gen : manifest[g] # None}

ReadPeers(c) ==
  /\ Turn(c) /\ work[c] = None
  /\ work' = [work EXCEPT ![c] = [view |-> External \cup up, draft |-> None, answer |-> None]]
  /\ UNCHANGED <<stored, manifest, up, mail, boxes, line, call, answers, made, faults>>

Acting(c, op) == Turn(c) /\ work[c] # None /\ work[c].draft = None /\ call[c].req.op = op

Own(c) == stored.reg[call[c].req.p]

Without(c) ==
  LET i == CHOOSE i \in DOMAIN line : line[i] = c
  IN SubSeq(line, 1, i - 1) \o SubSeq(line, i + 1, Len(line))

Leave(c) == /\ line' = Without(c)
            /\ call' = [call EXCEPT ![c] = None] /\ work' = [work EXCEPT ![c] = None]

\* An error: the draft is dropped, nothing is written.
Refuse(c) == Leave(c) /\ UNCHANGED <<stored, answers>>

\* The request is through with this draft, which is still to be written.
Draft(c, d, a) == work' = [work EXCEPT ![c].draft = d, ![c].answer = a]

Write(c) ==
  /\ Turn(c) /\ work[c] # None /\ work[c].draft # None
  /\ stored' = work[c].draft
  /\ answers' = answers \cup (IF call[c].todo = {} /\ work[c].answer # None THEN {work[c].answer} ELSE {})
  /\ IF call[c].todo = {} THEN Leave(c)
     ELSE /\ line' = Append(Without(c), c) /\ work' = [work EXCEPT ![c] = None] /\ UNCHANGED call
  /\ UNCHANGED <<manifest, up, mail, boxes, made, faults>>

Fault == faults < MaxFaults /\ faults' = faults + 1

WriteFails(c) ==
  /\ Turn(c) /\ work[c] # None /\ work[c].draft # None /\ Fault
  /\ Refuse(c)
  /\ UNCHANGED <<manifest, up, mail, boxes, made>>

\* The peers or the mailboxes cannot be read or written before anything was done.
Unavailable(c) ==
  /\ Turn(c) /\ (work[c] # None => work[c].draft = None)
  /\ Refuse(c)
  /\ UNCHANGED <<manifest, up, mail, boxes, made, faults>>

Crash ==
  /\ Fault /\ line' = <<>> /\ call' = [c \in Call |-> None] /\ work' = call'
  /\ UNCHANGED <<stored, manifest, up, mail, boxes, answers, made>>

-----------------------------------------------------------------------------
(* Registration.  The manifest is written before the state is.                 *)

Register(c) ==
  /\ Acting(c, "register")
  /\ LET r == call[c].req
         old == Own(c)
         free == r.title \notin Taken \cup {manifest[g] : g \in External}
     IN \/ /\ old # None /\ old.id \in work[c].view /\ old.title = r.title
           /\ Draft(c, stored, None) /\ UNCHANGED <<manifest, born, line, call, stored, answers>>
        \/ /\ IF old # None THEN old.id \notin work[c].view \/ old.title # r.title ELSE ~free
           /\ Refuse(c) /\ UNCHANGED <<manifest, born>>
        \/ /\ old = None /\ free
           /\ born < MaxGen /\ born' = born + 1
           /\ manifest' = [manifest EXCEPT ![born'] = r.title]
           /\ Draft(c, [stored EXCEPT !.reg[r.p] = [id |-> born', title |-> r.title], !.left[r.p] = None],
                    None)
           /\ UNCHANGED <<line, call, stored, answers>>
  /\ UNCHANGED <<up, mail, inbox, read, made, faults>>

Unregister(c) ==
  /\ Acting(c, "unregister")
  /\ LET r == call[c].req
         old == Own(c)
     IN \/ /\ IF old = None THEN stored.left[r.p] # r.id ELSE old.id # r.id
           /\ Refuse(c) /\ UNCHANGED manifest
        \/ /\ old = None /\ stored.left[r.p] = r.id
           /\ Draft(c, stored, None) /\ UNCHANGED <<manifest, line, call, stored, answers>>
        \/ /\ old # None /\ old.id = r.id
           /\ manifest' = [manifest EXCEPT ![r.id] = None]
           /\ Draft(c, [stored EXCEPT !.reg[r.p] = None, !.left[r.p] = r.id], None)
           /\ UNCHANGED <<line, call, stored, answers>>
  /\ UNCHANGED <<up, mail, boxes, made, faults>>

-----------------------------------------------------------------------------
(* Sending.  The message is published before its receipt is written.           *)

\* deliver: the owner and the recipient were listed, and a native inbox is usable.
Deliverable(c, owner, to) ==
  owner \in work[c].view /\ to \in work[c].view /\ (to \in Native => to \in up)

Post(op, s, text, to) ==
  [op |-> op, ref |-> Cardinality(mail) + 1, slot |-> s, text |-> text, to |-> to]

Send(c) ==
  /\ Acting(c, "send")
  /\ IF Own(c) = None THEN Refuse(c) /\ UNCHANGED mail
     ELSE LET r == call[c].req
              s == <<Own(c).id, r.key>>
              prior == stored.receipts[s]
              new == Post("send", s, r.text, r.to)
          IN IF prior # None
             THEN /\ IF prior.text = r.text /\ prior.to = r.to /\ s[1] \in work[c].view
                     THEN Draft(c, stored, prior) /\ UNCHANGED <<line, call, stored, answers>>
                     ELSE Refuse(c)
                  /\ UNCHANGED mail
             ELSE IF ~Deliverable(c, s[1], r.to) THEN Refuse(c) /\ UNCHANGED mail
             ELSE /\ mail' = mail \cup {new}
                  /\ Draft(c, [stored EXCEPT !.receipts[s] = new], new)
                  /\ UNCHANGED <<line, call, stored, answers>>
  /\ UNCHANGED <<manifest, up, boxes, made, faults>>

\* The targets are those seen first, however often the request is repeated.
Snapshot(c, s, r) ==
  IF stored.casts[s] # None THEN stored.casts[s]
  ELSE [text |-> r.text, targets |-> work[c].view \ {s[1]}, got |-> [t \in Peer |-> None]]

Outcome(s, cast) ==
  [slot |-> s, targets |-> cast.targets, complete |-> \A t \in cast.targets : cast.got[t] # None]

Broadcast(c) ==
  /\ Acting(c, "broadcast") /\ call[c].owner = None
  /\ IF Own(c) = None THEN Refuse(c)
     ELSE LET r == call[c].req
              s == <<Own(c).id, r.key>>
              cast == Snapshot(c, s, r)
          IN IF s[1] \notin work[c].view \/ cast.text # r.text THEN Refuse(c)
             ELSE /\ call' = [call EXCEPT ![c].owner = s[1], ![c].todo = cast.targets]
                  /\ Draft(c, [stored EXCEPT !.casts[s] = cast], Outcome(s, cast))
                  /\ UNCHANGED <<line, stored, answers>>
  /\ UNCHANGED <<manifest, up, mail, boxes, made, faults>>

\* The turn of one target: a failure is noted and the next target has its turn.
BroadcastTo(c, t) ==
  /\ Acting(c, "broadcast") /\ call[c].owner # None /\ t \in call[c].todo
  /\ IF Own(c) = None \/ (Own(c) # None /\ Own(c).id # call[c].owner)
     THEN Refuse(c) /\ UNCHANGED mail
     ELSE LET s == <<call[c].owner, call[c].req.key>>
              cast == stored.casts[s]
              new == Post("broadcast", s, cast.text, t)
              sends == cast.got[t] = None /\ Deliverable(c, s[1], t)
              after == IF sends THEN [cast EXCEPT !.got[t] = new] ELSE cast
          IN /\ call' = [call EXCEPT ![c].todo = @ \ {t}]
             /\ mail' = IF sends THEN mail \cup {new} ELSE mail
             /\ Draft(c, [stored EXCEPT !.casts[s] = after], Outcome(s, after))
             /\ UNCHANGED <<line, stored, answers>>
  /\ UNCHANGED <<manifest, up, boxes, made, faults>>

-----------------------------------------------------------------------------
(* The inbox.                                                                  *)

Receive(g, m) ==
  /\ g \in External /\ \A h \in Gen : m \notin inbox[h] \cup read[h]
  /\ inbox' = [inbox EXCEPT ![g] = @ \cup {m}]
  /\ UNCHANGED <<stored, manifest, up, mail, born, read, line, call, work, answers, made, faults>>

\* The ids one by one; when one cannot be moved, the ones before it have been.
Ack(c) ==
  /\ Acting(c, "ack")
  /\ IF Own(c) = None \/ (Own(c) # None /\ Own(c).id \notin work[c].view)
     THEN Refuse(c) /\ UNCHANGED <<inbox, read>>
     ELSE LET g == Own(c).id
              take == call[c].req.ids \cap inbox[g]
              told == call[c].req.ids \cap (inbox[g] \cup stored.acked[g])
              Move(ids) == /\ inbox' = [inbox EXCEPT ![g] = @ \ ids]
                           /\ read' = [read EXCEPT ![g] = @ \cup ids]
          IN \/ /\ Move(take)
                /\ Draft(c, [stored EXCEPT !.acked[g] = @ \cup take], [owner |-> g, acknowledged |-> told])
                /\ UNCHANGED <<line, call, stored, answers>>
             \/ \E some \in SUBSET take \ {take} : Move(some) /\ Refuse(c)
  /\ UNCHANGED <<manifest, up, mail, born, made, faults>>

\* A native peer ends, starts, or loses its grant.
NativeChange(n) ==
  /\ up' = IF n \in up THEN up \ {n} ELSE up \cup {n}
  /\ UNCHANGED <<stored, manifest, mail, boxes, line, call, work, answers, made, faults>>

Step(c) ==
  \/ ReadPeers(c) \/ Unavailable(c) \/ Write(c) \/ WriteFails(c)
  \/ Register(c) \/ Unregister(c) \/ Send(c) \/ Broadcast(c) \/ Ack(c)

Next ==
  \/ \E c \in Call, r \in Request : Ask(c, r)
  \/ \E c \in Call : Step(c)
  \/ \E c \in Call, t \in Peer : BroadcastTo(c, t)
  \/ \E g \in Gen, m \in Message : Receive(g, m)
  \/ \E n \in Native : NativeChange(n)
  \/ Crash

Spec == Init /\ [][Next]_fleetVars

-----------------------------------------------------------------------------
(* A message is published to a recipient at most once under one key, and once  *)
(* more at most for each crash or failed write of the state, however many      *)
(* requests repeat it at the same time (state-store.ts, gateway.ts send and    *)
(* broadcast).                                                                 *)
OncePerKey == \A op \in {"send", "broadcast"}, s \in Slot, t \in Peer :
  Cardinality({m \in mail : m.op = op /\ m.slot = s /\ m.to = t}) <= 1 + faults

(* What was answered is still so, after any crash, for whoever asks again: the *)
(* receipt, the acknowledgements.                                              *)
AnsweredIsStored == \A a \in answers :
  IF "acknowledged" \in DOMAIN a THEN a.acknowledged \subseteq stored.acked[a.owner]
  ELSE IF "complete" \in DOMAIN a THEN stored.casts[a.slot] # None
  ELSE stored.receipts[a.slot] = a /\ a \in mail

(* A broadcast has the targets it was first answered with, nobody else is sent *)
(* it, and one that is called complete reached each of them.                   *)
BroadcastIsFrozen == \A a \in {b \in answers : "complete" \in DOMAIN b} :
  /\ stored.casts[a.slot] # None => stored.casts[a.slot].targets = a.targets
  /\ a.complete => \A t \in a.targets : \E m \in mail : m.slot = a.slot /\ m.to = t
=============================================================================
