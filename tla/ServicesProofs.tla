---------------------------- MODULE ServicesProofs ----------------------------
(***************************************************************************)
(* Proofs about the services beside the hub, for every number of           *)
(* principals, peers, keys, requests, faults, runs and members.            *)
(* The Fleet MCP gateway: what a request drafts only adds to what is       *)
(* stored, one request at a time, so a message is published once under a   *)
(* key but for faults, and what was answered stays so.                     *)
(* The peer watch: a tracker counts looks at one activity.  Team runs: a   *)
(* run that was asked to stop has its reason until its end is decided, its *)
(* nodes start nothing any more, and what the session knows of a run is    *)
(* what its branch would tell it again.                                    *)
(***************************************************************************)
EXTENDS MCServices, FiniteSetTheorems, SequenceTheorems, WellFoundedInduction, TLAPS

Drafting(c) == work[c] # None /\ work[c].draft # None
Given(c) == IF Drafting(c) THEN work[c].draft ELSE stored

\* A message with this slot and recipient is on record.
Kept(st, op, s, t) ==
  IF op = "send" THEN st.receipts[s] # None
  ELSE st.casts[s] # None /\ st.casts[s].got[t] # None

Posts(op, s, t) == {m \in mail : m.op = op /\ m.slot = s /\ m.to = t}

\* One publication for the record, and one for each fault.
Counted(st) == \A op \in {"send", "broadcast"}, s \in Slot, t \in Peer :
  Cardinality(Posts(op, s, t)) <= faults + IF Kept(st, op, s, t) THEN 1 ELSE 0

\* What is on record was published, to whom it says.
Honest(st) ==
  /\ \A s \in Slot : st.receipts[s] # None => st.receipts[s] \in mail /\ st.receipts[s].slot = s
  /\ \A s \in Slot, t \in Peer : st.casts[s] # None /\ st.casts[s].got[t] # None =>
       st.casts[s].got[t] \in mail /\ st.casts[s].got[t].slot = s /\ st.casts[s].got[t].to = t

\* A state that only adds to another.
Extends(d, st) ==
  /\ \A s \in Slot : st.receipts[s] # None => d.receipts[s] = st.receipts[s]
  /\ \A s \in Slot : st.casts[s] # None =>
       /\ d.casts[s] # None /\ d.casts[s].targets = st.casts[s].targets
       /\ \A t \in Peer : st.casts[s].got[t] # None => d.casts[s].got[t] = st.casts[s].got[t]
  /\ \A g \in Gen : st.acked[g] \subseteq d.acked[g]

\* An answer that the state supports.
Backed(a, st) ==
  IF "acknowledged" \in DOMAIN a THEN a.acknowledged \subseteq st.acked[a.owner]
  ELSE IF "complete" \in DOMAIN a
  THEN /\ st.casts[a.slot] # None /\ st.casts[a.slot].targets = a.targets
       /\ a.complete => \A t \in a.targets : st.casts[a.slot].got[t] # None
  ELSE st.receipts[a.slot] = a

\* A broadcast under way has its targets on record.
Begun(c, st) ==
  call[c] # None /\ call[c].owner # None =>
    call[c].req.op = "broadcast" /\ st.casts[<<call[c].owner, call[c].req.key>>] # None

OneAtWork == \A c \in Call : work[c] # None => Turn(c)
StoredIsRight == Honest(stored) /\ \A a \in answers : Backed(a, stored)
DraftIsRight == \A c \in Call : Drafting(c) =>
  /\ Extends(work[c].draft, stored) /\ Honest(work[c].draft) /\ Counted(work[c].draft)
  /\ work[c].answer # None => Backed(work[c].answer, work[c].draft)
CountedAtRest == (\A c \in Call : ~Drafting(c)) => Counted(stored)
AllBegun == \A c \in Call : Begun(c, Given(c))

MemTypes ==
  /\ stored \in State /\ mail \subseteq Receipt /\ IsFiniteSet(mail) /\ answers \subseteq Answer
  /\ line \in Seq(Call)
  /\ call \in [Call -> Asked \cup {None}] /\ work \in [Call -> Work \cup {None}]
  /\ faults \in 0 .. MaxFaults
WorldTypes ==
  /\ manifest \in [Gen -> Title \cup {None}] /\ up \subseteq Native
  /\ inbox \in [Gen -> SUBSET Message] /\ read \in [Gen -> SUBSET Message]
  /\ born \in 0 .. MaxGen /\ made \in 0 .. MaxCalls

\* The requests in the line are under way, each once.
LineIsCalled ==
  /\ \A i \in DOMAIN line : call[line[i]] # None
  /\ \A i, j \in DOMAIN line : line[i] = line[j] => i = j
  /\ \A c \in Call : work[c] # None => call[c] # None

(***************************************************************************)
(* Types                                                                   *)
(***************************************************************************)

\* No name, no request and no record is None.
LEMMA NoneIsNothing ==
  /\ None \notin Gen /\ None \notin [id : Gen, title : Title] /\ None \notin Receipt
  /\ None \notin Cast /\ None \notin State /\ None \notin Answer /\ None \notin Work /\ None \notin Asked
BY FleetAssumption

\* What each request carries.
LEMMA RequestFields ==
  ASSUME NEW r \in Request
  PROVE /\ r.p \in Principal
        /\ r.op = "register" => r.title \in Title
        /\ r.op = "unregister" => r.id \in Gen
        /\ r.op = "send" => r.key \in Key /\ r.text \in Text /\ r.to \in Peer
        /\ r.op = "broadcast" => r.key \in Key /\ r.text \in Text
        /\ r.op = "ack" => r.ids \subseteq Message
<1>1. CASE r \in [op : {"register"}, p : Principal, title : Title]
  BY <1>1
<1>2. CASE r \in [op : {"unregister"}, p : Principal, id : Gen]
  BY <1>2
<1>3. CASE r \in [op : {"send"}, p : Principal, key : Key, text : Text, to : Peer]
  BY <1>3
<1>4. CASE r \in [op : {"broadcast"}, p : Principal, key : Key, text : Text]
  BY <1>4
<1>5. CASE r \in [op : {"ack"}, p : Principal, ids : SUBSET Message \ {{}}]
  BY <1>5
<1> QED
  BY <1>1, <1>2, <1>3, <1>4, <1>5 DEF Request

\* The parts of a state.
LEMMA StateFields ==
  ASSUME NEW st \in State
  PROVE /\ \A p \in Principal : st.reg[p] # None => st.reg[p].id \in Gen
        /\ \A s \in Slot : st.receipts[s] # None => st.receipts[s] \in Receipt
        /\ \A s \in Slot : st.casts[s] # None => st.casts[s] \in Cast
        /\ \A g \in Gen : st.acked[g] \subseteq Message
<1>1. /\ st.reg \in [Principal -> [id : Gen, title : Title] \cup {None}]
      /\ st.receipts \in [Slot -> Receipt \cup {None}]
      /\ st.casts \in [Slot -> Cast \cup {None}]
      /\ st.acked \in [Gen -> SUBSET Message]
  BY DEF State
<1>2. \A p \in Principal : st.reg[p] # None => st.reg[p].id \in Gen
  BY <1>1
<1>3. \A s \in Slot : st.receipts[s] # None => st.receipts[s] \in Receipt
  BY <1>1
<1>4. \A s \in Slot : st.casts[s] # None => st.casts[s] \in Cast
  BY <1>1
<1>5. \A g \in Gen : st.acked[g] \subseteq Message
  BY <1>1
<1> QED
  BY <1>2, <1>3, <1>4, <1>5

\* The three kinds of answer are told apart by their fields.
LEMMA AnswerKinds ==
  /\ \A a \in Receipt : "acknowledged" \notin DOMAIN a /\ "complete" \notin DOMAIN a /\ a.slot \in Slot
  /\ \A a \in [slot : Slot, targets : SUBSET Peer, complete : BOOLEAN] :
       "acknowledged" \notin DOMAIN a /\ "complete" \in DOMAIN a /\ a.slot \in Slot /\ a.targets \subseteq Peer
  /\ \A a \in [owner : Gen, acknowledged : SUBSET Message] :
       "acknowledged" \in DOMAIN a /\ a.owner \in Gen
<1>1. \A a \in Receipt : "acknowledged" \notin DOMAIN a /\ "complete" \notin DOMAIN a /\ a.slot \in Slot
  BY DEF Receipt
<1>2. \A a \in [slot : Slot, targets : SUBSET Peer, complete : BOOLEAN] :
        "acknowledged" \notin DOMAIN a /\ "complete" \in DOMAIN a /\ a.slot \in Slot /\ a.targets \subseteq Peer
  OBVIOUS
<1>3. \A a \in [owner : Gen, acknowledged : SUBSET Message] :
        "acknowledged" \in DOMAIN a /\ a.owner \in Gen
  OBVIOUS
<1> QED
  BY <1>1, <1>2, <1>3

\* What supports an answer still does after an addition.
LEMMA BackedExtends ==
  ASSUME NEW a \in Answer, NEW st, NEW d, Backed(a, st), Extends(d, st)
  PROVE Backed(a, d)
<1>1. CASE a \in Receipt
  <2>1. st.receipts[a.slot] = a /\ a # None /\ a.slot \in Slot
    BY <1>1, AnswerKinds, NoneIsNothing DEF Backed
  <2> QED
    BY <1>1, <2>1, AnswerKinds DEF Backed, Extends
<1>2. CASE a \in [slot : Slot, targets : SUBSET Peer, complete : BOOLEAN]
  <2>1. /\ "acknowledged" \notin DOMAIN a /\ "complete" \in DOMAIN a /\ a.slot \in Slot /\ a.targets \subseteq Peer
    BY <1>2, AnswerKinds
  <2>2. /\ st.casts[a.slot] # None /\ st.casts[a.slot].targets = a.targets
        /\ a.complete => \A t \in a.targets : st.casts[a.slot].got[t] # None
    BY <2>1 DEF Backed
  <2>3. /\ d.casts[a.slot] # None /\ d.casts[a.slot].targets = a.targets
        /\ a.complete => \A t \in a.targets : d.casts[a.slot].got[t] # None
    BY <2>1, <2>2 DEF Extends
  <2> QED
    BY <2>1, <2>3 DEF Backed
<1>3. CASE a \in [owner : Gen, acknowledged : SUBSET Message]
  <2>1. "acknowledged" \in DOMAIN a /\ a.owner \in Gen
    BY <1>3, AnswerKinds
  <2> QED
    BY <2>1 DEF Backed, Extends
<1> QED
  BY <1>1, <1>2, <1>3 DEF Answer

(***************************************************************************)
(* Whose turn it is                                                        *)
(***************************************************************************)

\* Only the request at the head of the line drafts.
LEMMA OneDrafts ==
  ASSUME OneAtWork, NEW c \in Call, Turn(c), NEW d \in Call \ {c}
  PROVE work[d] = None /\ ~Drafting(d) /\ Given(d) = stored
BY DEF OneAtWork, Turn, Drafting, Given

\* A request that leaves the line, and the line it leaves.
LEMMA LeftLine ==
  ASSUME line \in Seq(Call), NEW c \in Call, Turn(c)
  PROVE Without(c) \in Seq(Call)
<1>1. line # <<>> /\ Len(line) \in Nat /\ DOMAIN line = 1 .. Len(line) /\ Head(line) = line[1]
  BY DEF Turn
<1>2. Len(line) >= 1
  BY <1>1, EmptySeq
<1>3. PICK i \in DOMAIN line : Without(c) = SubSeq(line, 1, i - 1) \o SubSeq(line, i + 1, Len(line))
  <2>1. 1 \in DOMAIN line /\ line[1] = c
    BY <1>1, <1>2 DEF Turn
  <2>2. (CHOOSE i \in DOMAIN line : line[i] = c) \in DOMAIN line
    BY <2>1
  <2> QED
    BY <2>2 DEF Without
<1>4. \A j \in 1 .. Len(line) : line[j] \in Call
  BY <1>1
<1>5. i \in 1 .. Len(line)
  BY <1>1
<1>6. SubSeq(line, 1, i - 1) \in Seq(Call)
  BY <1>1, <1>4, <1>5, SubSeqProperties
<1>7. SubSeq(line, i + 1, Len(line)) \in Seq(Call)
  BY <1>1, <1>4, <1>5, SubSeqProperties
<1> QED
  BY <1>3, <1>6, <1>7, ConcatProperties

\* A request at the end of the line does not change who is first.
LEMMA JoinsLine ==
  ASSUME line \in Seq(Call), NEW c \in Call, line' = Append(line, c), NEW d, Turn(d)
  PROVE Turn(d)'
<1>1. line # <<>> /\ Len(line) \in Nat /\ Head(line) = line[1] /\ Head(line) = d
  BY DEF Turn
<1>2. Len(line) >= 1
  BY <1>1, EmptySeq
<1>3. line' # <<>> /\ line'[1] = line[1] /\ line' \in Seq(Call)
  BY <1>1, <1>2, AppendProperties
<1>4. Head(line') = line'[1]
  BY <1>3
<1> QED
  BY <1>1, <1>3, <1>4 DEF Turn

\* After a request has left, nobody is at work.
LEMMA LeaveEffect ==
  ASSUME MemTypes, OneAtWork, NEW c \in Call, Turn(c), Leave(c)
  PROVE /\ line' \in Seq(Call) /\ work' \in [Call -> Work \cup {None}]
        /\ call' \in [Call -> Asked \cup {None}]
        /\ \A d \in Call : work'[d] = None
        /\ call'[c] = None /\ \A d \in Call \ {c} : call'[d] = call[d]
<1>1. /\ line \in Seq(Call) /\ work \in [Call -> Work \cup {None}] /\ call \in [Call -> Asked \cup {None}]
      /\ line' = Without(c)
      /\ call' = [call EXCEPT ![c] = None] /\ work' = [work EXCEPT ![c] = None]
  BY DEF MemTypes, Leave
<1>2. line' \in Seq(Call)
  BY <1>1, LeftLine
<1>3. \A d \in Call \ {c} : work[d] = None
  BY OneDrafts
<1> QED
  BY <1>1, <1>2, <1>3

(***************************************************************************)
(* Counting                                                                *)
(***************************************************************************)

\* The publications of one message are finitely many.
LEMMA PostsFinite ==
  ASSUME MemTypes, NEW op, NEW s, NEW t
  PROVE IsFiniteSet(Posts(op, s, t)) /\ Cardinality(Posts(op, s, t)) \in Nat
<1>1. IsFiniteSet(mail) /\ Posts(op, s, t) \subseteq mail
  BY DEF MemTypes, Posts
<1> QED
  BY <1>1, FS_Subset, FS_CardinalityType

\* Faults are counted with a natural number.
LEMMA FaultsAreNumbers == ASSUME MemTypes PROVE faults \in Nat
BY FleetAssumption DEF MemTypes

\* A fault pays for the record that is lost.
LEMMA FaultCovers ==
  ASSUME MemTypes, NEW st, NEW d, Counted(st), faults' = faults + 1, mail' = mail
  PROVE Counted(d)'
<1>1. SUFFICES ASSUME NEW op \in {"send", "broadcast"}, NEW s \in Slot, NEW t \in Peer
               PROVE Cardinality(Posts(op, s, t)') <= faults' + 0
                     /\ Cardinality(Posts(op, s, t)') \in Nat
  <2>1. faults' \in Nat
    BY FaultsAreNumbers
  <2> QED
    BY <1>1, <2>1 DEF Counted
<1>2. Posts(op, s, t)' = Posts(op, s, t)
  BY DEF Posts
<1>3. Cardinality(Posts(op, s, t)) <= faults + IF Kept(st, op, s, t) THEN 1 ELSE 0
  BY DEF Counted
<1>4. Cardinality(Posts(op, s, t)) \in Nat /\ faults \in Nat
  BY PostsFinite, FaultsAreNumbers
<1> QED
  BY <1>2, <1>3, <1>4

\* A request publishes nothing, or one message that was not on record and now is.
Publishes(d) ==
  \/ mail' = mail
  \/ \E m \in Receipt :
       /\ mail' = mail \cup {m}
       /\ ~Kept(stored, m.op, m.slot, m.to) /\ Kept(d, m.op, m.slot, m.to)

\* What is on record stays so.
LEMMA KeptExtends ==
  ASSUME NEW st, NEW d, Extends(d, st), NEW op, NEW s \in Slot, NEW t \in Peer, Kept(st, op, s, t)
  PROVE Kept(d, op, s, t)
<1>1. CASE op = "send"
  BY <1>1 DEF Kept, Extends
<1>2. CASE op # "send"
  BY <1>2 DEF Kept, Extends
<1> QED
  BY <1>1, <1>2

\* One publication for one record.
LEMMA PublishedOnce ==
  ASSUME MemTypes, Counted(stored), NEW d, Publishes(d), Extends(d, stored), faults' = faults
  PROVE Counted(d)'
<1>1. SUFFICES ASSUME NEW op \in {"send", "broadcast"}, NEW s \in Slot, NEW t \in Peer
               PROVE Cardinality(Posts(op, s, t)') <= faults' + IF Kept(d, op, s, t) THEN 1 ELSE 0
  BY DEF Counted, Kept
<1>2. Cardinality(Posts(op, s, t)) \in Nat /\ faults \in Nat /\ IsFiniteSet(Posts(op, s, t))
  BY PostsFinite, FaultsAreNumbers
<1>3. Cardinality(Posts(op, s, t)) <= faults + IF Kept(stored, op, s, t) THEN 1 ELSE 0
  BY DEF Counted
<1>4. Kept(stored, op, s, t) => Kept(d, op, s, t)
  BY KeptExtends
<1>5. CASE mail' = mail
  <2>1. Posts(op, s, t)' = Posts(op, s, t)
    BY <1>5 DEF Posts
  <2> QED
    BY <1>2, <1>3, <1>4, <2>1
<1>6. ASSUME NEW m \in Receipt, mail' = mail \cup {m},
             ~Kept(stored, m.op, m.slot, m.to), Kept(d, m.op, m.slot, m.to)
      PROVE Cardinality(Posts(op, s, t)') <= faults' + IF Kept(d, op, s, t) THEN 1 ELSE 0
  <2>1. CASE m.op = op /\ m.slot = s /\ m.to = t
    <3>1. Posts(op, s, t)' = Posts(op, s, t) \cup {m}
      BY <1>6, <2>1 DEF Posts
    <3>2. Cardinality(Posts(op, s, t)') <= Cardinality(Posts(op, s, t)) + 1
          /\ Cardinality(Posts(op, s, t)') \in Nat
      <4>1. Cardinality(Posts(op, s, t)') =
              IF m \in Posts(op, s, t) THEN Cardinality(Posts(op, s, t)) ELSE Cardinality(Posts(op, s, t)) + 1
        BY <1>2, <3>1, FS_AddElement
      <4> QED
        BY <1>2, <4>1
    <3>3. ~Kept(stored, op, s, t) /\ Kept(d, op, s, t)
      BY <1>6, <2>1
    <3> QED
      BY <1>2, <1>3, <3>2, <3>3
  <2>2. CASE ~(m.op = op /\ m.slot = s /\ m.to = t)
    <3>1. Posts(op, s, t)' = Posts(op, s, t)
      BY <1>6, <2>2 DEF Posts
    <3> QED
      BY <1>2, <1>3, <1>4, <3>1
  <2> QED
    BY <2>1, <2>2
<1> QED
  BY <1>5, <1>6 DEF Publishes

(***************************************************************************)
(* What a step does                                                        *)
(***************************************************************************)

\* The request is worked out: its draft adds to what is stored.
Drafts(c, d, a) ==
  /\ work[c] # None /\ ~Drafting(c)
  /\ work' = [work EXCEPT ![c].draft = d, ![c].answer = a]
  /\ UNCHANGED <<stored, answers, line, faults>>
  /\ d \in State /\ a \in Answer \cup {None} /\ (a # None => Backed(a, d))
  /\ call' \in [Call -> Asked \cup {None}] /\ \A e \in Call \ {c} : call'[e] = call[e]
  /\ call'[c] # None
  /\ call'[c].owner # None =>
       call'[c].req.op = "broadcast" /\ d.casts[<<call'[c].owner, call'[c].req.key>>] # None
  /\ Extends(d, stored) /\ Publishes(d) /\ Honest(d)'

\* The request ends without a draft to lose.
Quits(c) == Leave(c) /\ ~Drafting(c) /\ UNCHANGED <<stored, answers, mail, faults>>

\* A draft starts from nothing drafted: all is counted in what is stored.
LEMMA AtRest ==
  ASSUME OneAtWork, CountedAtRest, NEW c \in Call, Turn(c), ~Drafting(c)
  PROVE Counted(stored) /\ (\A d \in Call : ~Drafting(d)) /\ (\A d \in Call : Given(d) = stored)
<1>1. \A d \in Call : ~Drafting(d)
  BY OneDrafts
<1> QED
  BY <1>1 DEF CountedAtRest, Given

\* More mail leaves a record honest.
LEMMA HonestGrows == ASSUME NEW st, Honest(st), mail \subseteq mail' PROVE Honest(st)'
BY DEF Honest

MemInv == OneAtWork /\ StoredIsRight /\ DraftIsRight /\ CountedAtRest /\ AllBegun

\* Once nobody is at work, only what is stored matters.
LEMMA NobodyAtWork ==
  ASSUME \A d \in Call : work'[d] = None, StoredIsRight', Counted(stored)',
         \A d \in Call : Begun(d, stored)'
  PROVE MemInv'
<1>1. \A d \in Call : ~Drafting(d)' /\ Given(d)' = stored'
  BY DEF Drafting, Given
<1>2. OneAtWork' /\ DraftIsRight' /\ CountedAtRest'
  BY <1>1 DEF OneAtWork, DraftIsRight, CountedAtRest
<1>3. AllBegun'
  BY <1>1 DEF AllBegun, Begun
<1> QED
  BY <1>2, <1>3 DEF MemInv

\* The broadcasts under way stay on record when requests end and when the record grows.
LEMMA BegunStays ==
  ASSUME MemTypes, NEW e \in Call, NEW st, NEW d, Begun(e, st), call'[e] \in {call[e], None}, Extends(d, st)
  PROVE Begun(e, d)'
<1>1. CASE call'[e] = None
  BY <1>1 DEF Begun
<1>2. CASE call'[e] = call[e] /\ call[e] # None /\ call[e].owner # None
  <2>1. call[e] \in Asked
    BY <1>2 DEF MemTypes
  <2>2. call[e].owner \in Gen /\ call[e].req \in Request /\ call[e].req.op = "broadcast"
    BY <1>2, <2>1 DEF Asked, Begun
  <2>3. <<call[e].owner, call[e].req.key>> \in Slot
    BY <2>2, RequestFields DEF Slot
  <2>4. d.casts[<<call[e].owner, call[e].req.key>>] # None
    BY <1>2, <2>3 DEF Begun, Extends
  <2> QED
    BY <1>2, <2>2, <2>4 DEF Begun
<1>3. CASE call'[e] = call[e] /\ (call[e] = None \/ call[e].owner = None)
  BY <1>3 DEF Begun
<1> QED
  BY <1>1, <1>2, <1>3

\* A state adds to itself.
LEMMA ExtendsItself == \A st : Extends(st, st)
BY DEF Extends

\* Without a change of what is stored, what is right about it stays so.
LEMMA StoredStays ==
  ASSUME StoredIsRight, UNCHANGED <<stored, answers>>, mail \subseteq mail'
  PROVE StoredIsRight'
<1>1. PICK st : st = stored
  OBVIOUS
<1>2. Honest(st) /\ \A a \in answers : Backed(a, st)
  BY <1>1 DEF StoredIsRight
<1>3. Honest(st)'
  BY <1>2, HonestGrows
<1>4. st = stored'
  BY <1>1
<1>5. Honest(stored)'
  BY <1>3, <1>4 DEF Honest
<1>6. \A a \in answers' : Backed(a, stored')
  BY <1>2, <1>4
<1> QED
  BY <1>5, <1>6 DEF StoredIsRight

\* A request that is answered without writing changes nothing that is stored.
LEMMA QuitKeeps ==
  ASSUME MemTypes, MemInv, NEW c \in Call, Turn(c), Quits(c)
  PROVE MemTypes' /\ MemInv'
<1>0. OneAtWork /\ StoredIsRight /\ CountedAtRest /\ AllBegun /\ Leave(c)
  BY DEF MemInv, Quits
<1>1. /\ line' \in Seq(Call) /\ work' \in [Call -> Work \cup {None}]
      /\ call' \in [Call -> Asked \cup {None}]
      /\ \A d \in Call : work'[d] = None
      /\ call'[c] = None /\ \A d \in Call \ {c} : call'[d] = call[d]
  BY <1>0, LeaveEffect
<1>2. MemTypes'
  BY <1>1 DEF MemTypes, Quits
<1>3. Counted(stored) /\ \A d \in Call : Given(d) = stored
  BY <1>0, AtRest DEF Quits
<1>4. Counted(stored)'
  BY <1>3 DEF Quits, Counted, Posts, Kept
<1>5. StoredIsRight'
  BY <1>0, StoredStays DEF Quits
<1>6. ASSUME NEW d \in Call PROVE Begun(d, stored)'
  <2>1. PICK st : st = stored
    OBVIOUS
  <2>2. Begun(d, st)
    BY <1>0, <1>3, <2>1 DEF AllBegun
  <2>3. Begun(d, st)'
    BY <1>1, <2>2, BegunStays, ExtendsItself
  <2> QED
    BY <2>1, <2>3 DEF Quits, Begun
<1> QED
  BY <1>1, <1>2, <1>4, <1>5, <1>6, NobodyAtWork

\* A failed write and a crash lose the draft, and are paid for.
LEMMA LossKeeps ==
  ASSUME MemTypes, MemInv,
         line' \in Seq(Call), work' \in [Call -> Work \cup {None}], call' \in [Call -> Asked \cup {None}],
         \A d \in Call : work'[d] = None,
         \A d \in Call : call'[d] = None \/ (call'[d] = call[d] /\ ~Drafting(d)),
         Fault, UNCHANGED <<stored, answers, mail>>
  PROVE MemTypes' /\ MemInv'
<1>0. StoredIsRight /\ CountedAtRest /\ DraftIsRight /\ AllBegun
  BY DEF MemInv
<1>1. faults' = faults + 1 /\ faults' \in 0 .. MaxFaults
  BY FaultsAreNumbers, FleetAssumption DEF Fault
<1>2. MemTypes'
  BY <1>1 DEF MemTypes
<1>3. PICK st : st = stored
  OBVIOUS
<1>4. \E d : Counted(d)
  BY <1>0 DEF CountedAtRest, DraftIsRight
<1>5. Counted(st)'
  BY <1>1, <1>4, FaultCovers
<1>6. Counted(stored)'
  BY <1>3, <1>5 DEF Counted, Kept
<1>7. StoredIsRight'
  BY <1>0, StoredStays
<1>8. ASSUME NEW d \in Call PROVE Begun(d, stored)'
  <2>1. CASE call'[d] = None
    BY <2>1 DEF Begun
  <2>2. CASE call'[d] = call[d] /\ ~Drafting(d)
    <3>1. Begun(d, st)
      BY <1>0, <1>3, <2>2 DEF AllBegun, Given
    <3>2. Begun(d, st)'
      BY <2>2, <3>1, BegunStays, ExtendsItself
    <3> QED
      BY <1>3, <3>2 DEF Begun
  <2> QED
    BY <2>1, <2>2
<1> QED
  BY <1>2, <1>6, <1>7, <1>8, NobodyAtWork

\* A failed write loses the draft, and the fault accounts for what it published.
LEMMA WriteFailsKeeps ==
  ASSUME MemTypes, MemInv, NEW c \in Call, WriteFails(c)
  PROVE MemTypes' /\ MemInv'
<1>1. Turn(c) /\ Leave(c) /\ Fault /\ UNCHANGED <<stored, answers, mail>> /\ OneAtWork
  BY DEF WriteFails, Refuse, MemInv
<1>2. /\ line' \in Seq(Call) /\ work' \in [Call -> Work \cup {None}]
      /\ call' \in [Call -> Asked \cup {None}]
      /\ \A d \in Call : work'[d] = None
      /\ call'[c] = None /\ \A d \in Call \ {c} : call'[d] = call[d]
  BY <1>1, LeaveEffect
<1>3. \A d \in Call \ {c} : ~Drafting(d)
  BY <1>1, OneDrafts
<1> QED
  BY <1>1, <1>2, <1>3, LossKeeps

\* A crash loses every request and draft, and the fault accounts for what was published.
LEMMA CrashKeeps == ASSUME MemTypes, MemInv, Crash PROVE MemTypes' /\ MemInv'
<1>1. /\ line' = <<>> /\ call' = [c \in Call |-> None] /\ work' = [c \in Call |-> None]
      /\ Fault /\ UNCHANGED <<stored, answers, mail>>
  BY DEF Crash
<1>2. line' \in Seq(Call)
  BY <1>1
<1>3. call' \in [Call -> Asked \cup {None}] /\ work' \in [Call -> Work \cup {None}]
  BY <1>1
<1>4. \A d \in Call : work'[d] = None /\ call'[d] = None
  BY <1>1
<1> QED
  BY <1>1, <1>2, <1>3, <1>4, LossKeeps

\* The write: what was drafted is stored, and its answer may be given.
LEMMA WriteKeeps ==
  ASSUME MemTypes, MemInv, NEW c \in Call, Write(c)
  PROVE MemTypes' /\ MemInv'
<1>1. PICK d : d = work[c].draft
  OBVIOUS
<1>2. PICK a : a = work[c].answer
  OBVIOUS
<1>3. /\ Turn(c) /\ Drafting(c) /\ stored' = d /\ UNCHANGED <<mail, faults>>
      /\ answers' = answers \cup (IF call[c].todo = {} /\ a # None THEN {a} ELSE {})
  BY <1>1, <1>2 DEF Write, Drafting
<1>4. /\ OneAtWork /\ StoredIsRight /\ AllBegun
      /\ Extends(d, stored) /\ Honest(d) /\ Counted(d) /\ (a # None => Backed(a, d))
  BY <1>1, <1>2, <1>3 DEF MemInv, DraftIsRight
<1>5. work[c] \in Work
  BY <1>3 DEF MemTypes, Drafting
<1>6. d \in State /\ a \in Answer \cup {None}
  BY <1>1, <1>2, <1>3, <1>5 DEF Work, Drafting
<1>7. /\ line' \in Seq(Call) /\ work' \in [Call -> Work \cup {None}]
      /\ call' \in [Call -> Asked \cup {None}]
      /\ \A e \in Call : work'[e] = None
      /\ \A e \in Call : call'[e] \in {call[e], None}
  <2>1. CASE call[c].todo = {}
    <3>1. Leave(c)
      BY <2>1 DEF Write
    <3> QED
      BY <1>3, <1>4, <3>1, LeaveEffect
  <2>2. CASE call[c].todo # {}
    <3>1. line' = Append(Without(c), c) /\ work' = [work EXCEPT ![c] = None] /\ UNCHANGED call
      BY <2>2 DEF Write
    <3>2. line \in Seq(Call) /\ work \in [Call -> Work \cup {None}] /\ call \in [Call -> Asked \cup {None}]
      BY DEF MemTypes
    <3>3. Without(c) \in Seq(Call)
      BY <1>3, <3>2, LeftLine
    <3>4. line' \in Seq(Call)
      BY <3>1, <3>3, AppendProperties
    <3>5. \A e \in Call \ {c} : work[e] = None
      BY <1>3, <1>4, OneDrafts
    <3> QED
      BY <3>1, <3>2, <3>4, <3>5
  <2> QED
    BY <2>1, <2>2
<1>8. answers' \subseteq Answer
  BY <1>3, <1>6 DEF MemTypes
<1>9. MemTypes'
  BY <1>3, <1>6, <1>7, <1>8 DEF MemTypes
<1>10. Counted(stored)'
  BY <1>3, <1>4 DEF Counted, Posts, Kept
<1>11. StoredIsRight'
  <2>1. Honest(stored)'
    BY <1>3, <1>4 DEF Honest
  <2>2. ASSUME NEW b \in answers PROVE Backed(b, d)
    BY <1>4, BackedExtends DEF StoredIsRight, MemTypes
  <2>3. \A b \in answers' : Backed(b, d)
    BY <1>3, <1>4, <2>2
  <2> QED
    BY <1>3, <2>1, <2>3 DEF StoredIsRight
<1>12. ASSUME NEW e \in Call PROVE Begun(e, stored)'
  <2>1. Begun(e, d)'
    <3>1. CASE e = c
      <4>1. Begun(e, d)
        BY <1>1, <1>3, <1>4, <3>1 DEF AllBegun, Given
      <4> QED
        BY <1>7, <4>1, BegunStays, ExtendsItself
    <3>2. CASE e # c
      <4>1. PICK st : st = stored
        OBVIOUS
      <4>2. Begun(e, st)
        BY <1>3, <1>4, <3>2, <4>1, OneDrafts DEF AllBegun
      <4> QED
        BY <1>4, <1>7, <4>1, <4>2, BegunStays
    <3> QED
      BY <3>1, <3>2
  <2> QED
    BY <1>3, <2>1 DEF Begun
<1> QED
  BY <1>7, <1>9, <1>10, <1>11, <1>12, NobodyAtWork

\* The draft.
LEMMA DraftKeeps ==
  ASSUME MemTypes, MemInv, NEW c \in Call, Turn(c), NEW d, NEW a, Drafts(c, d, a)
  PROVE MemTypes' /\ MemInv'
<1>1. /\ OneAtWork /\ StoredIsRight /\ CountedAtRest /\ AllBegun
      /\ work[c] # None /\ ~Drafting(c)
      /\ work' = [work EXCEPT ![c].draft = d, ![c].answer = a]
      /\ UNCHANGED <<stored, answers, line, faults>>
      /\ d \in State /\ a \in Answer \cup {None} /\ (a # None => Backed(a, d))
      /\ call' \in [Call -> Asked \cup {None}] /\ \A e \in Call \ {c} : call'[e] = call[e]
      /\ Extends(d, stored) /\ Publishes(d) /\ Honest(d)'
  BY DEF MemInv, Drafts
<1>2. work \in [Call -> Work \cup {None}] /\ work[c] \in Work
  BY <1>1 DEF MemTypes
<1>3. d # None
  BY <1>1, NoneIsNothing
<1>4. /\ work' \in [Call -> Work \cup {None}] /\ work'[c] \in Work
      /\ work'[c].draft = d /\ work'[c].answer = a
      /\ \A e \in Call \ {c} : work'[e] = work[e]
  <2>1. PICK w : w = [work[c] EXCEPT !.draft = d, !.answer = a]
    OBVIOUS
  <2>2. w \in Work /\ w.draft = d /\ w.answer = a
    BY <1>1, <1>2, <2>1 DEF Work
  <2>3. work' = [work EXCEPT ![c] = w]
    BY <1>1, <1>2, <2>1
  <2> QED
    BY <1>2, <2>2, <2>3
<1>5. \A e \in Call \ {c} : work[e] = None
  BY <1>1, OneDrafts
<1>6. Drafting(c)' /\ \A e \in Call \ {c} : ~Drafting(e)'
  BY <1>3, <1>4, <1>5, NoneIsNothing DEF Drafting
<1>7. mail \subseteq mail' /\ mail' \subseteq Receipt /\ IsFiniteSet(mail')
  BY <1>1, FS_AddElement DEF MemTypes, Publishes
<1>8. MemTypes'
  BY <1>1, <1>4, <1>7 DEF MemTypes
<1>9. Counted(stored)
  BY <1>1, AtRest
<1>10. Counted(d)'
  BY <1>1, <1>9, PublishedOnce
<1>11. OneAtWork'
  BY <1>1, <1>4, <1>5 DEF OneAtWork, Turn
<1>12. StoredIsRight'
  BY <1>1, <1>7, StoredStays
<1>13. DraftIsRight'
  <2>1. work'[c].draft = d /\ work'[c].answer = a /\ stored' = stored
    BY <1>1, <1>4
  <2>2. Honest(work[c].draft)'
    <3>1. Honest(d)' /\ work'[c].draft = d
      BY <1>1, <2>1
    <3> QED
      BY <3>1 DEF Honest
  <2>3. Counted(work[c].draft)'
    BY <1>10, <2>1 DEF Counted, Kept
  <2> QED
    BY <1>1, <1>6, <2>1, <2>2, <2>3 DEF DraftIsRight
<1>14. CountedAtRest'
  BY <1>6 DEF CountedAtRest
<1>15. AllBegun'
  <2>1. Begun(c, Given(c))'
    BY <1>4, <1>6 DEF Begun, Given, Drafts
  <2>2. ASSUME NEW e \in Call \ {c} PROVE Begun(e, Given(e))'
    <3>1. Given(e) = stored /\ Given(e)' = stored
      BY <1>1, <1>6, <2>2, OneDrafts DEF Given
    <3>2. Begun(e, Given(e))
      BY <1>1 DEF AllBegun
    <3> QED
      BY <1>1, <3>1, <3>2 DEF Begun
  <2> QED
    BY <2>1, <2>2 DEF AllBegun
<1> QED
  BY <1>8, <1>11, <1>12, <1>13, <1>14, <1>15 DEF MemInv

\* A request joins the line, or the one whose turn it is reads the peers: nothing is drafted.
LEMMA NoDraftKeeps ==
  ASSUME MemTypes, MemInv, UNCHANGED <<stored, mail, answers, faults>>,
         line' \in Seq(Call), work' \in [Call -> Work \cup {None}], call' \in [Call -> Asked \cup {None}],
         \A d \in Call : work'[d] = work[d]
                       \/ (Turn(d) /\ ~Drafting(d) /\ work'[d] # None /\ work'[d].draft = None),
         \A d \in Call : Turn(d) => Turn(d)',
         \A d \in Call : call'[d] = call[d] \/ call'[d].owner = None
  PROVE MemTypes' /\ MemInv'
<1>1. OneAtWork /\ StoredIsRight /\ DraftIsRight /\ CountedAtRest /\ AllBegun
  BY DEF MemInv
<1>2. MemTypes'
  BY DEF MemTypes
<1>3. \A d \in Call : (Drafting(d)' <=> Drafting(d)) /\ (Drafting(d) => work'[d] = work[d])
  BY DEF Drafting
<1>4. OneAtWork'
  BY <1>1 DEF OneAtWork
<1>5. StoredIsRight'
  BY <1>1, StoredStays
<1>6. DraftIsRight'
  <2>1. SUFFICES ASSUME NEW c \in Call, Drafting(c)'
                 PROVE (/\ Extends(work[c].draft, stored) /\ Honest(work[c].draft) /\ Counted(work[c].draft)
                        /\ work[c].answer # None => Backed(work[c].answer, work[c].draft))'
    BY DEF DraftIsRight
  <2>2. Drafting(c) /\ work'[c] = work[c]
    BY <1>3, <2>1
  <2>3. PICK d : d = work[c].draft
    OBVIOUS
  <2>4. PICK a : a = work[c].answer
    OBVIOUS
  <2>5. Extends(d, stored) /\ Honest(d) /\ Counted(d) /\ (a # None => Backed(a, d))
    BY <1>1, <2>2, <2>3, <2>4 DEF DraftIsRight
  <2>6. d = work'[c].draft /\ a = work'[c].answer
    BY <2>2, <2>3, <2>4
  <2>7. Honest(d)' /\ Counted(d)' /\ Extends(d, stored')
    BY <2>5 DEF Honest, Counted, Posts, Kept
  <2>8. Honest(work[c].draft)'
    BY <2>6, <2>7 DEF Honest
  <2>9. Counted(work[c].draft)'
    BY <2>6, <2>7 DEF Counted, Kept
  <2> QED
    BY <2>5, <2>6, <2>7, <2>8, <2>9
<1>7. CountedAtRest'
  <2>1. SUFFICES ASSUME \A c \in Call : ~Drafting(c)' PROVE Counted(stored)'
    BY DEF CountedAtRest
  <2>2. Counted(stored)
    BY <1>1, <1>3, <2>1 DEF CountedAtRest
  <2> QED
    BY <2>2 DEF Counted, Posts, Kept
<1>8. AllBegun'
  <2>1. SUFFICES ASSUME NEW c \in Call PROVE Begun(c, Given(c))'
    BY DEF AllBegun
  <2>2. Given(c)' = Given(c)
    BY <1>3 DEF Given
  <2>3. CASE call'[c] = call[c]
    <3>1. Begun(c, Given(c))
      BY <1>1 DEF AllBegun
    <3> QED
      BY <2>2, <2>3, <3>1 DEF Begun
  <2>4. CASE call'[c].owner = None
    BY <2>4 DEF Begun
  <2> QED
    BY <2>3, <2>4
<1> QED
  BY <1>2, <1>4, <1>5, <1>6, <1>7, <1>8 DEF MemInv

\* A new request waits and has done nothing.
LEMMA AskKeeps ==
  ASSUME MemTypes, MemInv, NEW c \in Call, NEW r \in Request, Ask(c, r)
  PROVE MemTypes' /\ MemInv'
<1>1. /\ call[c] = None /\ call' = [call EXCEPT ![c] = [req |-> r, owner |-> None, todo |-> {}]]
      /\ line' = Append(line, c) /\ UNCHANGED <<stored, mail, work, answers, faults>>
  BY DEF Ask
<1>2. line \in Seq(Call) /\ call \in [Call -> Asked \cup {None}] /\ work \in [Call -> Work \cup {None}]
  BY DEF MemTypes
<1>3. line' \in Seq(Call) /\ \A d \in Call : Turn(d) => Turn(d)'
  BY <1>1, <1>2, AppendProperties, JoinsLine
<1>4. [req |-> r, owner |-> None, todo |-> {}] \in Asked
  BY DEF Asked
<1>5. call' \in [Call -> Asked \cup {None}] /\ \A d \in Call : call'[d] = call[d] \/ (d = c /\ call'[d].owner = None)
  BY <1>1, <1>2, <1>4
<1> QED
  BY <1>1, <1>2, <1>3, <1>5, NoDraftKeeps

\* Reading the peers begins a request's work and drafts nothing.
LEMMA ReadPeersKeeps ==
  ASSUME MemTypes, WorldTypes, MemInv, NEW c \in Call, ReadPeers(c)
  PROVE MemTypes' /\ MemInv'
<1>1. /\ Turn(c) /\ work[c] = None
      /\ work' = [work EXCEPT ![c] = [view |-> External \cup up, draft |-> None, answer |-> None]]
      /\ UNCHANGED <<stored, mail, line, call, answers, faults>>
  BY DEF ReadPeers
<1>2. line \in Seq(Call) /\ call \in [Call -> Asked \cup {None}] /\ work \in [Call -> Work \cup {None}]
  BY DEF MemTypes
<1>3. External \cup up \subseteq Peer
  BY DEF External, WorldTypes, Peer
<1>4. PICK w : w = [view |-> External \cup up, draft |-> None, answer |-> None]
  OBVIOUS
<1>5. w \in Work /\ w.draft = None
  BY <1>3, <1>4 DEF Work
<1>6. w # None
  BY <1>5, NoneIsNothing
<1>7. /\ work' \in [Call -> Work \cup {None}] /\ work'[c] = w /\ ~Drafting(c)
      /\ \A d \in Call \ {c} : work'[d] = work[d]
  BY <1>1, <1>2, <1>4, <1>5 DEF Drafting
<1>8. \A d \in Call : work'[d] = work[d]
                       \/ (Turn(d) /\ ~Drafting(d) /\ work'[d] # None /\ work'[d].draft = None)
  BY <1>1, <1>5, <1>6, <1>7
<1>9. \A d \in Call : Turn(d) => Turn(d)'
  BY <1>1 DEF Turn
<1> QED
  BY <1>1, <1>2, <1>7, <1>8, <1>9, NoDraftKeeps

\* A step that none of this sees.
LEMMA IdleKeeps ==
  ASSUME MemTypes, MemInv, UNCHANGED <<stored, mail, line, call, work, answers, faults>>
  PROVE MemTypes' /\ MemInv'
<1>1. line \in Seq(Call) /\ call \in [Call -> Asked \cup {None}] /\ work \in [Call -> Work \cup {None}]
  BY DEF MemTypes
<1>2. \A d \in Call : Turn(d) => Turn(d)'
  BY DEF Turn
<1> QED
  BY <1>1, <1>2, NoDraftKeeps

(***************************************************************************)
(* The line                                                                *)
(***************************************************************************)

\* The request that leaves is the first, and the others stay in order.
LEMMA RestOfLine ==
  ASSUME line \in Seq(Call), LineIsCalled, NEW c \in Call, Turn(c)
  PROVE /\ Len(line) \in Nat /\ 1 \in DOMAIN line /\ line[1] = c /\ DOMAIN line = 1 .. Len(line)
        /\ DOMAIN Without(c) = 1 .. Len(line) - 1
        /\ \A j \in 1 .. Len(line) - 1 : j + 1 \in DOMAIN line /\ Without(c)[j] = line[j + 1]
<1>1. line # <<>> /\ Len(line) \in Nat /\ DOMAIN line = 1 .. Len(line) /\ Head(line) = line[1]
  BY DEF Turn
<1>2. Len(line) >= 1
  BY <1>1, EmptySeq
<1>3. 1 \in DOMAIN line /\ line[1] = c
  BY <1>1, <1>2 DEF Turn
<1>4. (CHOOSE i \in DOMAIN line : line[i] = c) = 1
  BY <1>3 DEF LineIsCalled
<1>5. Without(c) = SubSeq(line, 1, 0) \o SubSeq(line, 2, Len(line))
  <2>1. PICK i : i = CHOOSE j \in DOMAIN line : line[j] = c
    OBVIOUS
  <2>2. Without(c) = SubSeq(line, 1, i - 1) \o SubSeq(line, i + 1, Len(line))
    BY <2>1 DEF Without
  <2>3. i = 1
    BY <1>4, <2>1, Zenon
  <2>4. i - 1 = 0 /\ i + 1 = 2
    BY <2>3
  <2> QED
    BY <2>2, <2>4
<1>6. SubSeq(line, 1, 0) = <<>>
  BY SubSeqEmpty
<1>7. \A i \in 2 .. Len(line) : line[i] \in Call
  BY <1>1
<1>8. /\ SubSeq(line, 2, Len(line)) \in Seq(Call)
      /\ Len(SubSeq(line, 2, Len(line))) = IF 2 <= Len(line) THEN Len(line) - 2 + 1 ELSE 0
      /\ \A i \in 1 .. Len(line) - 2 + 1 : SubSeq(line, 2, Len(line))[i] = line[2 + i - 1]
  BY <1>1, <1>7, SubSeqProperties
<1>9. Without(c) = SubSeq(line, 2, Len(line))
  BY <1>5, <1>6, <1>8, ConcatEmptySeq
<1>10. Len(Without(c)) = Len(line) - 1 /\ Without(c) \in Seq(Call)
  BY <1>1, <1>2, <1>8, <1>9
<1>11. DOMAIN Without(c) = 1 .. Len(line) - 1
  BY <1>10
<1>12. ASSUME NEW j \in 1 .. Len(line) - 1 PROVE j + 1 \in DOMAIN line /\ Without(c)[j] = line[j + 1]
  <2>1. j \in 1 .. Len(line) - 2 + 1 /\ 2 + j - 1 = j + 1 /\ j + 1 \in 1 .. Len(line)
    BY <1>1
  <2> QED
    BY <1>1, <1>8, <1>9, <2>1
<1> QED
  BY <1>1, <1>3, <1>11, <1>12

\* A request that leaves takes its place in the line with it.
LEMMA LeaveKeepsLine ==
  ASSUME MemTypes, LineIsCalled, NEW c \in Call, Turn(c), Leave(c)
  PROVE LineIsCalled'
<1>1. /\ line \in Seq(Call) /\ line' = Without(c)
      /\ work \in [Call -> Work \cup {None}] /\ call \in [Call -> Asked \cup {None}]
      /\ call' = [call EXCEPT ![c] = None] /\ work' = [work EXCEPT ![c] = None]
  BY DEF MemTypes, Leave
<1>2. /\ Len(line) \in Nat /\ 1 \in DOMAIN line /\ line[1] = c /\ DOMAIN line = 1 .. Len(line)
      /\ DOMAIN line' = 1 .. Len(line) - 1
      /\ \A j \in 1 .. Len(line) - 1 : j + 1 \in DOMAIN line /\ line'[j] = line[j + 1]
  BY <1>1, RestOfLine
<1>3. ASSUME NEW i \in DOMAIN line' PROVE call'[line'[i]] # None
  <2>1. i \in Nat /\ i >= 1 /\ i + 1 \in DOMAIN line /\ line'[i] = line[i + 1] /\ line[i + 1] \in Call
    BY <1>1, <1>2
  <2>2. i + 1 # 1
    BY <2>1
  <2>3. line[i + 1] # c /\ call[line[i + 1]] # None
    BY <1>2, <2>1, <2>2 DEF LineIsCalled
  <2> QED
    BY <1>1, <2>1, <2>3
<1>4. ASSUME NEW i \in DOMAIN line', NEW j \in DOMAIN line', line'[i] = line'[j] PROVE i = j
  <2>1. i \in Nat /\ j \in Nat /\ i + 1 \in DOMAIN line /\ j + 1 \in DOMAIN line /\ line[i + 1] = line[j + 1]
    BY <1>2, <1>4
  <2>2. i + 1 = j + 1
    BY <2>1 DEF LineIsCalled
  <2> QED
    BY <2>1, <2>2
<1>5. \A d \in Call : work'[d] # None => call'[d] # None
  BY <1>1 DEF LineIsCalled
<1> QED
  BY <1>3, <1>4, <1>5 DEF LineIsCalled

\* A request goes to the end of the line, which does not hold it.
LEMMA JoinKeepsLine ==
  ASSUME NEW q \in Seq(Call), NEW c \in Call, line' = Append(q, c),
         \A i \in DOMAIN q : q[i] # c /\ call'[q[i]] # None,
         \A i, j \in DOMAIN q : q[i] = q[j] => i = j,
         call'[c] # None, \A d \in Call : work'[d] # None => call'[d] # None
  PROVE LineIsCalled'
<1>1. /\ Len(q) \in Nat /\ DOMAIN q = 1 .. Len(q) /\ line' \in Seq(Call) /\ Len(line') = Len(q) + 1
      /\ line'[Len(q) + 1] = c /\ \A i \in 1 .. Len(q) : line'[i] = q[i]
  BY AppendProperties
<1>2. \A i \in DOMAIN line' : i \in 1 .. Len(q) \/ i = Len(q) + 1
  BY <1>1
<1>3. \A i \in DOMAIN line' : call'[line'[i]] # None
  BY <1>1, <1>2
<1>4. \A i, j \in DOMAIN line' : line'[i] = line'[j] => i = j
  BY <1>1, <1>2
<1> QED
  BY <1>3, <1>4 DEF LineIsCalled

\* The request that wrote leaves the line.
LEMMA WriteKeepsLine ==
  ASSUME MemTypes, LineIsCalled, NEW c \in Call, Write(c)
  PROVE LineIsCalled'
<1>1. CASE call[c].todo = {}
  BY <1>1, LeaveKeepsLine DEF Write
<1>2. CASE call[c].todo # {}
  <2>1. /\ line' = Append(Without(c), c) /\ work' = [work EXCEPT ![c] = None] /\ UNCHANGED call
        /\ Turn(c) /\ work[c] # None /\ line \in Seq(Call) /\ work \in [Call -> Work \cup {None}]
    BY <1>2 DEF Write, MemTypes
  <2>2. PICK q : q = Without(c)
    OBVIOUS
  <2>3. q \in Seq(Call)
    BY <2>1, <2>2, LeftLine
  <2>4. /\ Len(line) \in Nat /\ 1 \in DOMAIN line /\ line[1] = c /\ DOMAIN line = 1 .. Len(line)
        /\ DOMAIN q = 1 .. Len(line) - 1
        /\ \A j \in 1 .. Len(line) - 1 : j + 1 \in DOMAIN line /\ q[j] = line[j + 1]
    BY <2>1, <2>2, RestOfLine
  <2>5. ASSUME NEW i \in DOMAIN q PROVE q[i] # c /\ call'[q[i]] # None
    <3>1. i \in Nat /\ i >= 1 /\ i + 1 \in DOMAIN line /\ q[i] = line[i + 1]
      BY <2>4
    <3>2. i + 1 # 1
      BY <3>1
    <3> QED
      BY <2>1, <2>4, <3>1, <3>2 DEF LineIsCalled
  <2>6. ASSUME NEW i \in DOMAIN q, NEW j \in DOMAIN q, q[i] = q[j] PROVE i = j
    <3>1. i \in Nat /\ j \in Nat /\ i + 1 \in DOMAIN line /\ j + 1 \in DOMAIN line /\ line[i + 1] = line[j + 1]
      BY <2>4, <2>6
    <3>2. i + 1 = j + 1
      BY <3>1 DEF LineIsCalled
    <3> QED
      BY <3>1, <3>2
  <2>7. call'[c] # None /\ \A d \in Call : work'[d] # None => call'[d] # None
    BY <2>1 DEF LineIsCalled
  <2> QED
    BY <2>1, <2>2, <2>3, <2>5, <2>6, <2>7, JoinKeepsLine
<1> QED
  BY <1>1, <1>2

\* A new request goes to the end of the line.
LEMMA AskKeepsLine ==
  ASSUME MemTypes, LineIsCalled, NEW c \in Call, NEW r \in Request, Ask(c, r)
  PROVE LineIsCalled'
<1>1. /\ call[c] = None /\ call' = [call EXCEPT ![c] = [req |-> r, owner |-> None, todo |-> {}]]
      /\ line' = Append(line, c) /\ UNCHANGED work /\ line \in Seq(Call)
      /\ call \in [Call -> Asked \cup {None}]
  BY DEF Ask, MemTypes
<1>2. [req |-> r, owner |-> None, todo |-> {}] \in Asked
  BY DEF Asked
<1>3. call'[c] # None /\ \A d \in Call \ {c} : call'[d] = call[d]
  BY <1>1, <1>2, NoneIsNothing
<1>4. \A i \in DOMAIN line : line[i] # c /\ call'[line[i]] # None
  BY <1>1, <1>3 DEF LineIsCalled
<1>5. \A i, j \in DOMAIN line : line[i] = line[j] => i = j
  BY DEF LineIsCalled
<1>6. \A d \in Call : work'[d] # None => call'[d] # None
  BY <1>1, <1>3 DEF LineIsCalled
<1> QED
  BY <1>1, <1>3, <1>4, <1>5, <1>6, JoinKeepsLine

\* Reading the peers leaves the line alone.
LEMMA ReadPeersKeepsLine ==
  ASSUME MemTypes, LineIsCalled, NEW c \in Call, ReadPeers(c)
  PROVE LineIsCalled'
<1>1. /\ Turn(c) /\ UNCHANGED <<line, call>> /\ line \in Seq(Call)
      /\ \A d \in Call \ {c} : work'[d] = work[d]
  BY DEF ReadPeers, MemTypes
<1>2. call[c] # None
  BY <1>1, RestOfLine DEF LineIsCalled
<1> QED
  BY <1>1, <1>2 DEF LineIsCalled

\* Drafting leaves the line alone.
LEMMA DraftKeepsLine ==
  ASSUME MemTypes, LineIsCalled, NEW c \in Call, NEW d, NEW a, Drafts(c, d, a)
  PROVE LineIsCalled'
<1>1. /\ line' = line /\ call'[c] # None /\ (\A e \in Call \ {c} : call'[e] = call[e])
      /\ (\A e \in Call \ {c} : work'[e] = work[e]) /\ line \in Seq(Call)
  BY DEF Drafts, MemTypes
<1>2. \A i \in DOMAIN line : line[i] \in Call
  BY <1>1
<1> QED
  BY <1>1, <1>2 DEF LineIsCalled

\* A crash empties the line.
LEMMA CrashKeepsLine == ASSUME Crash PROVE LineIsCalled'
BY DEF Crash, LineIsCalled

(***************************************************************************)
(* The requests                                                            *)
(***************************************************************************)

Ready == MemTypes /\ LineIsCalled /\ MemInv

\* A request at work is under way, and has a draft to make.
LEMMA ActingFacts ==
  ASSUME Ready, NEW c \in Call, NEW op, Acting(c, op)
  PROVE /\ Turn(c) /\ work[c] # None /\ ~Drafting(c) /\ work[c] \in Work /\ work[c].view \subseteq Peer
        /\ call[c] # None /\ call[c] \in Asked /\ call[c].req \in Request /\ call[c].req.op = op
        /\ call[c].req.p \in Principal
        /\ call[c].owner \in Gen \cup {None} /\ call[c].todo \subseteq Peer
        /\ Begun(c, stored)
<1>1. Turn(c) /\ work[c] # None /\ ~Drafting(c) /\ call[c].req.op = op
  BY DEF Acting, Drafting
<1>2. work[c] \in Work /\ call[c] # None /\ call[c] \in Asked
  BY <1>1 DEF Ready, MemTypes, LineIsCalled
<1>3. work[c].view \subseteq Peer
  BY <1>2 DEF Work
<1>4. call[c].req \in Request /\ call[c].owner \in Gen \cup {None} /\ call[c].todo \subseteq Peer
  BY <1>2 DEF Asked
<1>5. call[c].req.p \in Principal
  BY <1>4, RequestFields
<1>6. Begun(c, stored)
  BY <1>1 DEF Ready, MemInv, AllBegun, Given
<1> QED
  BY <1>1, <1>2, <1>3, <1>4, <1>5, <1>6

\* The registration a request acts for.
LEMMA OwnFacts ==
  ASSUME Ready, NEW c \in Call, NEW op, Acting(c, op), Own(c) # None
  PROVE Own(c).id \in Gen
<1>1. stored \in State /\ call[c].req.p \in Principal
  BY ActingFacts DEF Ready, MemTypes
<1> QED
  BY <1>1, StateFields DEF Own

\* A refusal is an answer without a write.
LEMMA RefuseQuits ==
  ASSUME Ready, NEW c \in Call, NEW op, Acting(c, op), Refuse(c), UNCHANGED <<mail, faults>>
  PROVE Quits(c)
BY ActingFacts DEF Refuse, Quits

\* A draft that leaves receipts, broadcasts and acknowledgements as they are.
LEMMA SameRecord ==
  ASSUME NEW st, NEW d, d.receipts = st.receipts, d.casts = st.casts, d.acked = st.acked
  PROVE Extends(d, st) /\ (Honest(st) => Honest(d))
BY DEF Extends, Honest

MaybeRegistered == [id : Gen, title : Title] \cup {None}
MaybeGen == Gen \cup {None}
Registers(st, p, x, l) == [st EXCEPT !.reg[p] = x, !.left[p] = l]

\* A draft of a registration is a state that records the same messages.
LEMMA RegistrationDraft ==
  ASSUME NEW st \in State, NEW p \in Principal, NEW x \in MaybeRegistered, NEW l \in MaybeGen, NEW d, d = Registers(st, p, x, l)
  PROVE d \in State /\ d.receipts = st.receipts /\ d.casts = st.casts /\ d.acked = st.acked
<1>1. st.reg \in [Principal -> MaybeRegistered] /\ st.left \in [Principal -> MaybeGen]
  BY DEF State, MaybeRegistered, MaybeGen
<1>2. PICK f : f = [st.reg EXCEPT ![p] = x]
  OBVIOUS
<1>3. PICK g : g = [st.left EXCEPT ![p] = l]
  OBVIOUS
<1>4. f \in [Principal -> MaybeRegistered] /\ g \in [Principal -> MaybeGen]
  BY <1>1, <1>2, <1>3
<1>5. d = [st EXCEPT !.reg = f, !.left = g]
  BY <1>2, <1>3 DEF State, Registers
<1> QED
  BY <1>4, <1>5 DEF State, MaybeRegistered, MaybeGen

\* What a request other than a broadcast drafts.
LEMMA PlainDraft ==
  ASSUME Ready, NEW c \in Call, NEW op \in {"register", "unregister", "send", "ack"}, Acting(c, op),
         NEW d \in State, NEW a \in Answer \cup {None}, a # None => Backed(a, d),
         Draft(c, d, a), UNCHANGED <<stored, answers, line, call, faults>>,
         Extends(d, stored), Publishes(d), Honest(d)'
  PROVE Drafts(c, d, a)
<1>1. /\ work[c] # None /\ ~Drafting(c) /\ call[c] # None /\ call[c].req.op = op /\ Begun(c, stored)
  BY ActingFacts
<1>2. call[c].owner = None
  BY <1>1 DEF Begun
<1>3. call' \in [Call -> Asked \cup {None}]
  BY DEF Ready, MemTypes
<1> QED
  BY <1>1, <1>2, <1>3 DEF Drafts, Draft

\* What is stored may be drafted again, for an answer it supports.
LEMMA SameDraft ==
  ASSUME Ready, NEW c \in Call, NEW op \in {"register", "unregister", "send", "ack"}, Acting(c, op),
         NEW a \in Answer \cup {None}, a # None => Backed(a, stored),
         Draft(c, stored, a), UNCHANGED <<stored, answers, line, call, faults, mail>>
  PROVE \E d, b : Drafts(c, d, b)
<1>1. PICK d : d = stored
  OBVIOUS
<1>2. d \in State /\ Honest(d) /\ Extends(d, stored) /\ Publishes(d)
  BY <1>1, ExtendsItself DEF Ready, MemTypes, MemInv, StoredIsRight, Publishes
<1>3. Honest(d)'
  BY <1>2, HonestGrows
<1>4. Draft(c, d, a) /\ (a # None => Backed(a, d))
  BY <1>1
<1>5. Drafts(c, d, a)
  BY <1>2, <1>3, <1>4, PlainDraft
<1> QED
  BY <1>5

Settles(c) == Quits(c) \/ \E d, a : Drafts(c, d, a)

\* Registering quits, or drafts what the invariant allows.
LEMMA RegisterSettles == ASSUME Ready, WorldTypes, NEW c \in Call, Register(c) PROVE Settles(c)
<1> DEFINE r == call[c].req
<1>1. Acting(c, "register") /\ UNCHANGED <<mail, faults>>
  BY DEF Register
<1>2. r \in Request /\ r.p \in Principal /\ r.op = "register" /\ r.title \in Title
  BY <1>1, ActingFacts, RequestFields
<1>3. ASSUME Refuse(c) PROVE Settles(c)
  BY <1>1, <1>3, RefuseQuits DEF Settles
<1>4. ASSUME Draft(c, stored, None), UNCHANGED <<line, call, stored, answers>> PROVE Settles(c)
  <2>1. \E d, b : Drafts(c, d, b)
    BY <1>1, <1>4, SameDraft
  <2> QED
    BY <2>1 DEF Settles
<1>5. ASSUME born < MaxGen, born' = born + 1,
             Draft(c, [stored EXCEPT !.reg[r.p] = [id |-> born', title |-> r.title], !.left[r.p] = None], None),
             UNCHANGED <<line, call, stored, answers>>
      PROVE Settles(c)
  <2>1. born' \in Gen
    BY <1>5, FleetAssumption DEF WorldTypes, Gen
  <2>2. PICK x : x = [id |-> born', title |-> r.title]
    OBVIOUS
  <2>3. x \in [id : Gen, title : Title]
    BY <1>2, <2>1, <2>2
  <2>4. PICK d : d = Registers(stored, r.p, x, None)
    OBVIOUS
  <2>5. stored \in State /\ Honest(stored)
    BY DEF Ready, MemTypes, MemInv, StoredIsRight
  <2>6. d \in State /\ d.receipts = stored.receipts /\ d.casts = stored.casts /\ d.acked = stored.acked
    <3>1. x \in MaybeRegistered /\ None \in MaybeGen
      BY <2>3 DEF MaybeRegistered, MaybeGen
    <3> QED
      BY <1>2, <2>4, <2>5, <3>1, RegistrationDraft
  <2>7. Extends(d, stored) /\ Honest(d) /\ Publishes(d)
    BY <1>1, <2>5, <2>6, SameRecord DEF Publishes
  <2>8. Honest(d)'
    BY <1>1, <2>7, HonestGrows
  <2>9. Draft(c, d, None)
    BY <1>5, <2>2, <2>4 DEF Registers
  <2>10. Drafts(c, d, None)
    BY <1>1, <1>5, <2>6, <2>7, <2>8, <2>9, PlainDraft
  <2> QED
    BY <2>10 DEF Settles
<1> QED
  BY <1>3, <1>4, <1>5 DEF Register

\* Unregistering quits, or drafts what the invariant allows.
LEMMA UnregisterSettles == ASSUME Ready, NEW c \in Call, Unregister(c) PROVE Settles(c)
<1> DEFINE r == call[c].req
<1>1. Acting(c, "unregister") /\ UNCHANGED <<mail, faults>>
  BY DEF Unregister
<1>2. r \in Request /\ r.p \in Principal /\ r.op = "unregister" /\ r.id \in Gen
  BY <1>1, ActingFacts, RequestFields
<1>3. ASSUME Refuse(c) PROVE Settles(c)
  BY <1>1, <1>3, RefuseQuits DEF Settles
<1>4. ASSUME Draft(c, stored, None), UNCHANGED <<line, call, stored, answers>> PROVE Settles(c)
  <2>1. \E d, b : Drafts(c, d, b)
    BY <1>1, <1>4, SameDraft
  <2> QED
    BY <2>1 DEF Settles
<1>5. ASSUME Draft(c, [stored EXCEPT !.reg[r.p] = None, !.left[r.p] = r.id], None),
             UNCHANGED <<line, call, stored, answers>>
      PROVE Settles(c)
  <2>1. PICK d : d = Registers(stored, r.p, None, r.id)
    OBVIOUS
  <2>2. stored \in State /\ Honest(stored)
    BY DEF Ready, MemTypes, MemInv, StoredIsRight
  <2>3. d \in State /\ d.receipts = stored.receipts /\ d.casts = stored.casts /\ d.acked = stored.acked
    <3>1. None \in MaybeRegistered /\ r.id \in MaybeGen
      BY <1>2 DEF MaybeRegistered, MaybeGen
    <3> QED
      BY <1>2, <2>1, <2>2, <3>1, RegistrationDraft
  <2>4. Extends(d, stored) /\ Honest(d) /\ Publishes(d)
    BY <1>1, <2>2, <2>3, SameRecord DEF Publishes
  <2>5. Honest(d)'
    BY <1>1, <2>4, HonestGrows
  <2>6. Draft(c, d, None)
    BY <1>5, <2>1 DEF Registers
  <2>7. Drafts(c, d, None)
    BY <1>1, <1>5, <2>3, <2>4, <2>5, <2>6, PlainDraft
  <2> QED
    BY <2>7 DEF Settles
<1> QED
  BY <1>3, <1>4, <1>5 DEF Unregister

PutsReceipt(st, s, m) == [st EXCEPT !.receipts[s] = m]
PutsCast(st, s, k) == [st EXCEPT !.casts[s] = k]
PutsAcks(st, g, ids) == [st EXCEPT !.acked[g] = @ \cup ids]

\* A draft with one more receipt is a state.
LEMMA ReceiptDraft ==
  ASSUME NEW st \in State, NEW s \in Slot, NEW m \in Receipt, NEW d, d = PutsReceipt(st, s, m)
  PROVE /\ d \in State /\ d.receipts[s] = m /\ d.casts = st.casts /\ d.acked = st.acked
        /\ \A u \in Slot \ {s} : d.receipts[u] = st.receipts[u]
<1>1. st.receipts \in [Slot -> Receipt \cup {None}]
  BY DEF State
<1>2. PICK f : f = [st.receipts EXCEPT ![s] = m]
  OBVIOUS
<1>3. f \in [Slot -> Receipt \cup {None}] /\ f[s] = m /\ \A u \in Slot \ {s} : f[u] = st.receipts[u]
  BY <1>1, <1>2
<1>4. d = [st EXCEPT !.receipts = f]
  BY <1>2 DEF PutsReceipt, State
<1>5. d \in State /\ d.receipts = f /\ d.casts = st.casts /\ d.acked = st.acked
  BY <1>3, <1>4 DEF State
<1> QED
  BY <1>3, <1>5

\* A draft with another broadcast record is a state.
LEMMA CastDraft ==
  ASSUME NEW st \in State, NEW s \in Slot, NEW k \in Cast, NEW d, d = PutsCast(st, s, k)
  PROVE /\ d \in State /\ d.casts[s] = k /\ d.receipts = st.receipts /\ d.acked = st.acked
        /\ \A u \in Slot \ {s} : d.casts[u] = st.casts[u]
<1>1. st.casts \in [Slot -> Cast \cup {None}]
  BY DEF State
<1>2. PICK f : f = [st.casts EXCEPT ![s] = k]
  OBVIOUS
<1>3. f \in [Slot -> Cast \cup {None}] /\ f[s] = k /\ \A u \in Slot \ {s} : f[u] = st.casts[u]
  BY <1>1, <1>2
<1>4. d = [st EXCEPT !.casts = f]
  BY <1>2 DEF PutsCast, State
<1>5. d \in State /\ d.casts = f /\ d.receipts = st.receipts /\ d.acked = st.acked
  BY <1>3, <1>4 DEF State
<1> QED
  BY <1>3, <1>5

\* A draft with more acknowledged messages is a state.
LEMMA AcksDraft ==
  ASSUME NEW st \in State, NEW g \in Gen, NEW ids \in SUBSET Message, NEW d, d = PutsAcks(st, g, ids)
  PROVE /\ d \in State /\ d.casts = st.casts /\ d.receipts = st.receipts
        /\ d.acked[g] = st.acked[g] \cup ids /\ \A h \in Gen \ {g} : d.acked[h] = st.acked[h]
<1>1. st.acked \in [Gen -> SUBSET Message]
  BY DEF State
<1>2. PICK f : f = [st.acked EXCEPT ![g] = @ \cup ids]
  OBVIOUS
<1>3. f \in [Gen -> SUBSET Message] /\ f[g] = st.acked[g] \cup ids /\ \A h \in Gen \ {g} : f[h] = st.acked[h]
  BY <1>1, <1>2
<1>4. d = [st EXCEPT !.acked = f]
  BY <1>2 DEF PutsAcks, State
<1>5. d \in State /\ d.acked = f /\ d.casts = st.casts /\ d.receipts = st.receipts
  BY <1>3, <1>4 DEF State
<1> QED
  BY <1>3, <1>5

\* A message is published with its slot and recipient.
LEMMA PostFields ==
  ASSUME MemTypes, NEW op \in {"send", "broadcast"}, NEW s \in Slot, NEW text \in Text, NEW t \in Peer,
         NEW m, m = Post(op, s, text, t)
  PROVE m \in Receipt /\ m # None /\ m.op = op /\ m.slot = s /\ m.to = t
<1>1. Cardinality(mail) + 1 \in Nat
  BY FS_CardinalityType DEF MemTypes
<1>2. m \in Receipt /\ m.op = op /\ m.slot = s /\ m.to = t
  BY <1>1 DEF Post, Receipt
<1> QED
  BY <1>2, NoneIsNothing

\* A send quits, or drafts the receipt of the message it published.
LEMMA SendSettles == ASSUME Ready, NEW c \in Call, Send(c) PROVE Settles(c)
<1> DEFINE r == call[c].req
<1>1. Acting(c, "send") /\ faults' = faults
  BY DEF Send
<1>2. r \in Request /\ r.p \in Principal /\ r.key \in Key /\ r.text \in Text /\ r.to \in Peer
  BY <1>1, ActingFacts, RequestFields
<1>3. ASSUME Refuse(c), UNCHANGED mail PROVE Settles(c)
  BY <1>1, <1>3, RefuseQuits DEF Settles
<1>4. stored \in State /\ Honest(stored)
  BY DEF Ready, MemTypes, MemInv, StoredIsRight
<1>5. CASE Own(c) = None
  BY <1>3, <1>5 DEF Send
<1>6. CASE Own(c) # None
  <2>1. PICK s \in Slot : s = <<Own(c).id, r.key>>
    BY <1>1, <1>2, <1>6, OwnFacts DEF Slot
  <2>2. PICK new : new = Post("send", s, r.text, r.to)
    OBVIOUS
  <2>3. new \in Receipt /\ new # None /\ new.op = "send" /\ new.slot = s /\ new.to = r.to
    BY <1>2, <2>2, PostFields DEF Ready
  <2>4. CASE stored.receipts[s] # None
    <3>1. \/ Refuse(c) /\ UNCHANGED mail
          \/ Draft(c, stored, stored.receipts[s]) /\ UNCHANGED <<line, call, stored, answers, mail>>
      BY <1>6, <2>1, <2>4 DEF Send
    <3>2. ASSUME Draft(c, stored, stored.receipts[s]), UNCHANGED <<line, call, stored, answers, mail>>
          PROVE Settles(c)
      <4>1. PICK a : a = stored.receipts[s]
        OBVIOUS
      <4>2. a \in Receipt /\ a.slot = s
        BY <1>4, <2>4, <4>1, StateFields DEF Honest
      <4>3. a \in Answer \cup {None} /\ Backed(a, stored)
        BY <4>1, <4>2, AnswerKinds DEF Answer, Backed
      <4>4. \E d, b : Drafts(c, d, b)
        BY <1>1, <3>2, <4>1, <4>3, SameDraft
      <4> QED
        BY <4>4 DEF Settles
    <3> QED
      BY <1>3, <3>1, <3>2
  <2>5. CASE stored.receipts[s] = None
    <3>1. \/ Refuse(c) /\ UNCHANGED mail
          \/ /\ mail' = mail \cup {new} /\ UNCHANGED <<line, call, stored, answers>>
             /\ Draft(c, [stored EXCEPT !.receipts[s] = new], new)
      BY <1>6, <2>1, <2>2, <2>5 DEF Send
    <3>2. ASSUME mail' = mail \cup {new}, UNCHANGED <<line, call, stored, answers>>,
                 Draft(c, [stored EXCEPT !.receipts[s] = new], new)
          PROVE Settles(c)
      <4>1. PICK d : d = PutsReceipt(stored, s, new)
        OBVIOUS
      <4>2. /\ d \in State /\ d.receipts[s] = new /\ d.casts = stored.casts /\ d.acked = stored.acked
            /\ \A u \in Slot \ {s} : d.receipts[u] = stored.receipts[u]
        BY <1>4, <2>3, <4>1, ReceiptDraft
      <4>3. Extends(d, stored)
        BY <2>5, <4>2 DEF Extends
      <4>4. Publishes(d)
        BY <2>3, <2>5, <3>2, <4>2 DEF Publishes, Kept
      <4>5. Honest(d)'
        <5>1. ASSUME NEW u \in Slot, d.receipts[u] # None
              PROVE d.receipts[u] \in mail' /\ d.receipts[u].slot = u
          BY <1>4, <2>3, <3>2, <4>2, <5>1 DEF Honest
        <5>2. ASSUME NEW u \in Slot, NEW t \in Peer, d.casts[u] # None, d.casts[u].got[t] # None
              PROVE d.casts[u].got[t] \in mail' /\ d.casts[u].got[t].slot = u /\ d.casts[u].got[t].to = t
          BY <1>4, <3>2, <4>2, <5>2 DEF Honest
        <5> QED
          BY <5>1, <5>2 DEF Honest
      <4>6. new \in Answer \cup {None} /\ Backed(new, d)
        BY <2>3, <4>2, AnswerKinds DEF Answer, Backed
      <4>7. Draft(c, d, new)
        BY <3>2, <4>1 DEF PutsReceipt
      <4>8. Drafts(c, d, new)
        BY <1>1, <3>2, <4>2, <4>3, <4>4, <4>5, <4>6, <4>7, PlainDraft
      <4> QED
        BY <4>8 DEF Settles
    <3> QED
      BY <1>3, <3>1, <3>2
  <2> QED
    BY <2>4, <2>5
<1> QED
  BY <1>5, <1>6

\* An acknowledgement: what it says was acknowledged is on record.
LEMMA AckSettles == ASSUME Ready, WorldTypes, NEW c \in Call, Ack(c) PROVE Settles(c)
<1>1. Acting(c, "ack") /\ UNCHANGED <<mail, faults>>
  BY DEF Ack
<1>2. call[c].req \in Request /\ call[c].req.ids \subseteq Message
  BY <1>1, ActingFacts, RequestFields
<1>3. ASSUME Refuse(c) PROVE Settles(c)
  BY <1>1, <1>3, RefuseQuits DEF Settles
<1>4. stored \in State /\ Honest(stored)
  BY DEF Ready, MemTypes, MemInv, StoredIsRight
<1>5. CASE Own(c) = None \/ (Own(c) # None /\ Own(c).id \notin work[c].view)
  BY <1>3, <1>5 DEF Ack
<1>6. CASE ~(Own(c) = None \/ (Own(c) # None /\ Own(c).id \notin work[c].view))
  <2>1. PICK g \in Gen : g = Own(c).id
    BY <1>1, <1>6, OwnFacts
  <2>2. PICK take : take = call[c].req.ids \cap inbox[g]
    OBVIOUS
  <2>3. PICK known : known = call[c].req.ids \cap (inbox[g] \cup stored.acked[g])
    OBVIOUS
  <2>4. \/ /\ Draft(c, [stored EXCEPT !.acked[g] = @ \cup take], [owner |-> g, acknowledged |-> known])
           /\ UNCHANGED <<line, call, stored, answers>>
        \/ Refuse(c)
    BY <1>6, <2>1, <2>2, <2>3 DEF Ack
  <2>5. ASSUME Draft(c, [stored EXCEPT !.acked[g] = @ \cup take], [owner |-> g, acknowledged |-> known]),
               UNCHANGED <<line, call, stored, answers>>
        PROVE Settles(c)
    <3>1. take \in SUBSET Message /\ known \in SUBSET Message
      BY <1>2, <2>2, <2>3
    <3>2. PICK d : d = PutsAcks(stored, g, take)
      OBVIOUS
    <3>3. PICK a : a = [owner |-> g, acknowledged |-> known]
      OBVIOUS
    <3>4. /\ d \in State /\ d.casts = stored.casts /\ d.receipts = stored.receipts
          /\ d.acked[g] = stored.acked[g] \cup take /\ \A h \in Gen \ {g} : d.acked[h] = stored.acked[h]
      BY <1>4, <3>1, <3>2, AcksDraft
    <3>5. Extends(d, stored)
      BY <3>4 DEF Extends
    <3>6. Honest(d)
      BY <1>4, <3>4 DEF Honest
    <3>7. Honest(d)' /\ Publishes(d)
      BY <1>1, <3>6, HonestGrows DEF Publishes
    <3>8. a \in [owner : Gen, acknowledged : SUBSET Message] /\ a.owner = g /\ a.acknowledged = known
      BY <3>1, <3>3
    <3>9. known \subseteq d.acked[g]
      BY <2>2, <2>3, <3>4
    <3>10. a \in Answer \cup {None} /\ Backed(a, d)
      BY <3>8, <3>9, AnswerKinds DEF Answer, Backed
    <3>11. Draft(c, d, a)
      BY <2>5, <3>2, <3>3 DEF PutsAcks
    <3>12. Drafts(c, d, a)
      BY <1>1, <2>5, <3>4, <3>5, <3>7, <3>10, <3>11, PlainDraft
    <3> QED
      BY <3>12 DEF Settles
  <2> QED
    BY <1>3, <2>4, <2>5
<1> QED
  BY <1>5, <1>6

\* The draft differs from the stored state in one broadcast's record at most.
OnlyCast(d, st, s, k) ==
  /\ d.casts[s] = k /\ d.receipts = st.receipts /\ d.acked = st.acked
  /\ \A u \in Slot \ {s} : d.casts[u] = st.casts[u]

\* A broadcast's record that only adds to what was on record, and one that was published.
AddsTo(k, st, s) == st.casts[s] # None =>
  /\ k.targets = st.casts[s].targets
  /\ \A t \in Peer : st.casts[s].got[t] # None => k.got[t] = st.casts[s].got[t]
TrueCast(k, s) == \A t \in Peer : k.got[t] # None => k.got[t] \in mail /\ k.got[t].slot = s /\ k.got[t].to = t

\* A broadcast record that only grows keeps everything stored before.
LEMMA CastExtends ==
  ASSUME NEW st, NEW s \in Slot, NEW k, NEW d, k # None,
         OnlyCast(d, st, s, k), AddsTo(k, st, s)
  PROVE Extends(d, st)
<1>1. ASSUME NEW u \in Slot, st.casts[u] # None
      PROVE /\ d.casts[u] # None /\ d.casts[u].targets = st.casts[u].targets
            /\ \A t \in Peer : st.casts[u].got[t] # None => d.casts[u].got[t] = st.casts[u].got[t]
  <2>1. CASE u = s
    BY <1>1, <2>1 DEF OnlyCast, AddsTo
  <2>2. CASE u # s
    <3>1. d.casts[u] = st.casts[u]
      BY <2>2 DEF OnlyCast
    <3> QED
      BY <1>1, <3>1
  <2> QED
    BY <2>1, <2>2
<1> QED
  BY <1>1 DEF Extends, OnlyCast

\* A broadcast record whose receipts were published is as true as the state it is put in.
LEMMA CastHonest ==
  ASSUME NEW st, Honest(st), NEW s \in Slot, NEW k, NEW d,
         OnlyCast(d, st, s, k), TrueCast(k, s)', mail \subseteq mail'
  PROVE Honest(d)'
<1>1. ASSUME NEW u \in Slot, d.receipts[u] # None
      PROVE d.receipts[u] \in mail' /\ d.receipts[u].slot = u
  BY <1>1 DEF Honest, OnlyCast
<1>2. ASSUME NEW u \in Slot, NEW t \in Peer, d.casts[u] # None, d.casts[u].got[t] # None
      PROVE d.casts[u].got[t] \in mail' /\ d.casts[u].got[t].slot = u /\ d.casts[u].got[t].to = t
  <2>1. CASE u = s
    BY <1>2, <2>1 DEF OnlyCast, TrueCast
  <2>2. CASE u # s
    <3>1. d.casts[u] = st.casts[u]
      BY <2>2 DEF OnlyCast
    <3>2. st.casts[u].got[t] \in mail /\ st.casts[u].got[t].slot = u /\ st.casts[u].got[t].to = t
      BY <1>2, <3>1 DEF Honest
    <3> QED
      BY <3>1, <3>2
  <2> QED
    BY <2>1, <2>2
<1> QED
  BY <1>1, <1>2 DEF Honest

\* The answer of a broadcast is what its record says.
LEMMA CastBacked ==
  ASSUME NEW s \in Slot, NEW k \in Cast, NEW d, d.casts[s] = k, NEW a, a = Outcome(s, k)
  PROVE a \in Answer /\ Backed(a, d)
<1>1. k.targets \subseteq Peer /\ k # None
  BY NoneIsNothing DEF Cast
<1>2. PICK done \in BOOLEAN : done = \A t \in k.targets : k.got[t] # None
  OBVIOUS
<1>3. a = [slot |-> s, targets |-> k.targets, complete |-> done]
  BY <1>2 DEF Outcome
<1>4. /\ a \in [slot : Slot, targets : SUBSET Peer, complete : BOOLEAN]
      /\ a.slot = s /\ a.targets = k.targets /\ a.complete = done
  BY <1>1, <1>3
<1>5. "acknowledged" \notin DOMAIN a /\ "complete" \in DOMAIN a
  BY <1>4, AnswerKinds
<1>6. d.casts[a.slot] # None /\ d.casts[a.slot].targets = a.targets
  BY <1>1, <1>4
<1>7. a.complete => \A t \in a.targets : d.casts[a.slot].got[t] # None
  BY <1>2, <1>4
<1>8. Backed(a, d)
  BY <1>5, <1>6, <1>7 DEF Backed
<1> QED
  BY <1>4, <1>8 DEF Answer

\* A broadcast that records what it published drafts what the invariant allows.
LEMMA CastDrafts ==
  ASSUME Ready, NEW c \in Call, Acting(c, "broadcast"), NEW s \in Slot, NEW k \in Cast,
         NEW d, d = PutsCast(stored, s, k), NEW a, a = Outcome(s, k),
         AddsTo(k, stored, s), TrueCast(k, s)',
         mail \subseteq mail', Publishes(d),
         call' \in [Call -> Asked \cup {None}], \A e \in Call \ {c} : call'[e] = call[e], call'[c] # None,
         call'[c].req.op = "broadcast", s = <<call'[c].owner, call'[c].req.key>>,
         Draft(c, d, a), UNCHANGED <<stored, answers, line, faults>>
  PROVE Drafts(c, d, a)
<1>1. work[c] # None /\ ~Drafting(c)
  BY ActingFacts
<1>2. stored \in State /\ Honest(stored)
  BY DEF Ready, MemTypes, MemInv, StoredIsRight
<1>3. d \in State /\ d.casts[s] = k /\ OnlyCast(d, stored, s, k)
  BY <1>2, CastDraft DEF OnlyCast
<1>4. k # None
  BY NoneIsNothing
<1>5. Extends(d, stored)
  BY <1>3, <1>4, CastExtends
<1>6. Honest(d)'
  BY <1>2, <1>3, CastHonest
<1>7. a \in Answer /\ Backed(a, d)
  BY <1>3, CastBacked
<1>8. call'[c].owner # None =>
         call'[c].req.op = "broadcast" /\ d.casts[<<call'[c].owner, call'[c].req.key>>] # None
  BY <1>3, <1>4
<1> QED
  BY <1>1, <1>3, <1>5, <1>6, <1>7, <1>8 DEF Drafts, Draft

\* A broadcast gets its targets.
LEMMA BroadcastSettles == ASSUME Ready, NEW c \in Call, Broadcast(c) PROVE Settles(c)
<1> DEFINE r == call[c].req
<1>1. Acting(c, "broadcast") /\ UNCHANGED <<mail, faults>>
  BY DEF Broadcast
<1>2. /\ call[c] \in Asked /\ r \in Request /\ r.op = "broadcast" /\ r.key \in Key /\ r.text \in Text
      /\ work[c].view \subseteq Peer
  BY <1>1, ActingFacts, RequestFields
<1>3. ASSUME Refuse(c) PROVE Settles(c)
  BY <1>1, <1>3, RefuseQuits DEF Settles
<1>4. stored \in State /\ Honest(stored) /\ call \in [Call -> Asked \cup {None}]
  BY DEF Ready, MemTypes, MemInv, StoredIsRight
<1>5. CASE Own(c) = None
  BY <1>3, <1>5 DEF Broadcast
<1>6. CASE Own(c) # None
  <2>1. Own(c).id \in Gen
    BY <1>1, <1>6, OwnFacts
  <2>2. PICK s \in Slot : s = <<Own(c).id, r.key>>
    BY <1>2, <2>1 DEF Slot
  <2>3. PICK k : k = Snapshot(c, s, r)
    OBVIOUS
  <2>4. /\ k \in Cast /\ AddsTo(k, stored, s) /\ TrueCast(k, s)'
    <3>1. CASE stored.casts[s] # None
      <4>1. k = stored.casts[s] /\ k \in Cast
        BY <1>4, <2>3, <3>1, StateFields DEF Snapshot
      <4>2. TrueCast(k, s)
        BY <1>4, <3>1, <4>1 DEF Honest, TrueCast
      <4>3. TrueCast(k, s)'
        BY <1>1, <4>2 DEF TrueCast
      <4> QED
        BY <4>1, <4>3 DEF AddsTo
    <3>2. CASE stored.casts[s] = None
      <4>1. k = [text |-> r.text, targets |-> work[c].view \ {s[1]}, got |-> [t \in Peer |-> None]]
        BY <2>3, <3>2 DEF Snapshot
      <4>2. k \in Cast /\ \A t \in Peer : k.got[t] = None
        BY <1>2, <4>1 DEF Cast
      <4> QED
        BY <3>2, <4>2 DEF AddsTo, TrueCast
    <3> QED
      BY <3>1, <3>2
  <2>5. PICK a : a = Outcome(s, k)
    OBVIOUS
  <2>6. PICK d : d = PutsCast(stored, s, k)
    OBVIOUS
  <2>7. \/ Refuse(c)
        \/ /\ call' = [call EXCEPT ![c].owner = s[1], ![c].todo = k.targets]
           /\ Draft(c, [stored EXCEPT !.casts[s] = k], Outcome(s, k)) /\ UNCHANGED <<line, stored, answers>>
    BY <1>6, <2>2, <2>3 DEF Broadcast
  <2>8. ASSUME call' = [call EXCEPT ![c].owner = s[1], ![c].todo = k.targets],
               Draft(c, [stored EXCEPT !.casts[s] = k], Outcome(s, k)), UNCHANGED <<line, stored, answers>>
        PROVE Settles(c)
    <3>1. s[1] \in Gen /\ s[1] = Own(c).id /\ k.targets \in SUBSET Peer
      BY <2>1, <2>2, <2>4 DEF Cast
    <3>2. PICK x : x = [call[c] EXCEPT !.owner = s[1], !.todo = k.targets]
      OBVIOUS
    <3>3. x \in Asked /\ x.owner = s[1] /\ x.req = r
      BY <1>2, <3>1, <3>2 DEF Asked
    <3>4. call' \in [Call -> Asked \cup {None}] /\ call'[c] = x /\ \A e \in Call \ {c} : call'[e] = call[e]
      BY <1>4, <2>8, <3>2, <3>3
    <3>5. call'[c] # None /\ call'[c].req.op = "broadcast"
      BY <1>2, <3>3, <3>4, NoneIsNothing
    <3>6. s = <<call'[c].owner, call'[c].req.key>>
      BY <2>2, <3>1, <3>3, <3>4
    <3>7. Draft(c, d, a)
      BY <2>5, <2>6, <2>8 DEF PutsCast
    <3>8. Drafts(c, d, a)
      BY <1>1, <2>4, <2>5, <2>6, <2>8, <3>4, <3>5, <3>6, <3>7, CastDrafts DEF Publishes
    <3> QED
      BY <3>8 DEF Settles
  <2> QED
    BY <1>3, <2>7, <2>8
<1> QED
  BY <1>5, <1>6

\* One target of a broadcast.
LEMMA BroadcastToSettles ==
  ASSUME Ready, NEW c \in Call, NEW t \in Peer, BroadcastTo(c, t)
  PROVE Settles(c)
<1> DEFINE r == call[c].req
<1>1. Acting(c, "broadcast") /\ call[c].owner # None /\ faults' = faults
  BY DEF BroadcastTo
<1>2. /\ call[c] \in Asked /\ call[c] # None /\ r \in Request /\ r.op = "broadcast" /\ r.key \in Key
      /\ call[c].owner \in Gen /\ call[c].todo \subseteq Peer /\ Begun(c, stored)
  BY <1>1, ActingFacts, RequestFields
<1>3. ASSUME Refuse(c), UNCHANGED mail PROVE Settles(c)
  BY <1>1, <1>3, RefuseQuits DEF Settles
<1>4. stored \in State /\ Honest(stored) /\ call \in [Call -> Asked \cup {None}] /\ MemTypes
  BY DEF Ready, MemTypes, MemInv, StoredIsRight
<1>5. CASE Own(c) = None \/ (Own(c) # None /\ Own(c).id # call[c].owner)
  BY <1>3, <1>5 DEF BroadcastTo
<1>6. CASE ~(Own(c) = None \/ (Own(c) # None /\ Own(c).id # call[c].owner))
  <2>1. PICK s \in Slot : s = <<call[c].owner, r.key>>
    BY <1>2 DEF Slot
  <2>2. PICK k : k = stored.casts[s]
    OBVIOUS
  <2>3. stored.casts[s] # None
    BY <1>1, <1>2, <2>1 DEF Begun
  <2>4. k \in Cast /\ TrueCast(k, s)
    BY <1>4, <2>2, <2>3, StateFields DEF Honest, TrueCast
  <2>5. k.text \in Text /\ k.got \in [Peer -> Receipt \cup {None}]
    BY <2>4 DEF Cast
  <2>6. PICK new : new = Post("broadcast", s, k.text, t)
    OBVIOUS
  <2>7. new \in Receipt /\ new # None /\ new.op = "broadcast" /\ new.slot = s /\ new.to = t
    BY <1>4, <2>5, <2>6, PostFields
  <2>8. PICK sends \in BOOLEAN : sends = (k.got[t] = None /\ Deliverable(c, s[1], t))
    OBVIOUS
  <2>9. PICK after : after = IF sends THEN [k EXCEPT !.got[t] = new] ELSE k
    OBVIOUS
  <2>10. /\ call' = [call EXCEPT ![c].todo = @ \ {t}]
         /\ mail' = IF sends THEN mail \cup {new} ELSE mail
         /\ Draft(c, [stored EXCEPT !.casts[s] = after], Outcome(s, after))
         /\ UNCHANGED <<line, stored, answers>>
    BY <1>6, <2>1, <2>2, <2>6, <2>8, <2>9 DEF BroadcastTo
  <2>11. PICK d : d = PutsCast(stored, s, after)
    OBVIOUS
  <2>12. PICK a : a = Outcome(s, after)
    OBVIOUS
  <2>13. after \in Cast /\ after.targets = k.targets
         /\ (\A u \in Peer \ {t} : after.got[u] = k.got[u])
         /\ IF sends THEN after.got[t] = new /\ k.got[t] = None ELSE after.got[t] = k.got[t]
    <3>1. CASE sends
      <4>1. PICK f : f = [k.got EXCEPT ![t] = new]
        OBVIOUS
      <4>2. f \in [Peer -> Receipt \cup {None}] /\ f[t] = new /\ \A u \in Peer \ {t} : f[u] = k.got[u]
        BY <2>5, <2>7, <4>1
      <4>3. after = [k EXCEPT !.got = f]
        BY <2>4, <2>9, <3>1, <4>1 DEF Cast
      <4>4. after \in Cast /\ after.got = f /\ after.targets = k.targets
        BY <2>4, <4>2, <4>3 DEF Cast
      <4> QED
        BY <2>8, <3>1, <4>2, <4>4
    <3>2. CASE ~sends
      BY <2>4, <2>9, <3>2
    <3> QED
      BY <3>1, <3>2
  <2>14. AddsTo(after, stored, s)
    BY <2>2, <2>13 DEF AddsTo
  <2>15. TrueCast(after, s)'
    <3>1. ASSUME NEW u \in Peer, after.got[u] # None
          PROVE after.got[u] \in mail' /\ after.got[u].slot = s /\ after.got[u].to = u
      <4>1. CASE u = t /\ sends
        BY <2>7, <2>10, <2>13, <4>1
      <4>2. CASE ~(u = t /\ sends)
        <5>1. after.got[u] = k.got[u]
          BY <2>13, <4>2
        <5> QED
          BY <2>4, <2>10, <3>1, <5>1 DEF TrueCast
      <4> QED
        BY <4>1, <4>2
    <3> QED
      BY <3>1 DEF TrueCast
  <2>16. d.casts[s] = after /\ after # None
    BY <1>4, <2>11, <2>13, CastDraft, NoneIsNothing
  <2>17. Publishes(d)
    <3>1. CASE ~sends
      BY <2>10, <3>1 DEF Publishes
    <3>2. CASE sends
      <4>1. ~Kept(stored, new.op, new.slot, new.to)
        BY <2>2, <2>7, <2>13, <3>2 DEF Kept
      <4>2. Kept(d, new.op, new.slot, new.to)
        BY <2>7, <2>13, <2>16, <3>2 DEF Kept
      <4> QED
        BY <2>7, <2>10, <3>2, <4>1, <4>2 DEF Publishes
    <3> QED
      BY <3>1, <3>2
  <2>18. PICK x : x = [call[c] EXCEPT !.todo = @ \ {t}]
    OBVIOUS
  <2>19. x \in Asked /\ x.owner = call[c].owner /\ x.req = r
    BY <1>2, <2>18 DEF Asked
  <2>20. call' \in [Call -> Asked \cup {None}] /\ call'[c] = x /\ \A e \in Call \ {c} : call'[e] = call[e]
    BY <1>4, <2>10, <2>18, <2>19
  <2>21. call'[c] # None /\ call'[c].req.op = "broadcast" /\ s = <<call'[c].owner, call'[c].req.key>>
    BY <1>2, <2>1, <2>19, <2>20, NoneIsNothing
  <2>22. Draft(c, d, a) /\ mail \subseteq mail'
    BY <2>10, <2>11, <2>12 DEF PutsCast
  <2>23. UNCHANGED <<stored, answers, line, faults>> /\ after \in Cast
    BY <1>1, <2>10, <2>13
  <2>24. call' \in [Call -> Asked \cup {None}] /\ \A e \in Call \ {c} : call'[e] = call[e]
    BY <2>20
  <2>25. Drafts(c, d, a)
    BY <1>1, <2>11, <2>12, <2>14, <2>15, <2>17, <2>21, <2>22, <2>23, <2>24, CastDrafts
  <2> QED
    BY <2>25 DEF Settles
<1> QED
  BY <1>5, <1>6

(***************************************************************************)
(* Every step                                                              *)
(***************************************************************************)

\* A request that drafts, or quits with an answer, keeps the gateway's invariant.
LEMMA SettlesKeeps ==
  ASSUME Ready, NEW c \in Call, Turn(c), Settles(c)
  PROVE Ready'
<1>1. CASE Quits(c)
  <2>1. MemTypes' /\ MemInv'
    BY <1>1, QuitKeeps DEF Ready
  <2>2. LineIsCalled'
    BY <1>1, LeaveKeepsLine DEF Ready, Quits
  <2> QED
    BY <2>1, <2>2 DEF Ready
<1>2. ASSUME NEW d, NEW a, Drafts(c, d, a) PROVE Ready'
  <2>1. MemTypes' /\ MemInv'
    BY <1>2, DraftKeeps DEF Ready
  <2>2. LineIsCalled'
    BY <1>2, DraftKeepsLine DEF Ready
  <2> QED
    BY <2>1, <2>2 DEF Ready
<1> QED
  BY <1>1, <1>2 DEF Settles

\* A request's own steps.
LEMMA RequestKeeps ==
  ASSUME Ready, WorldTypes, NEW c \in Call, Step(c) \/ \E t \in Peer : BroadcastTo(c, t)
  PROVE Ready'
<1>1. CASE ReadPeers(c)
  BY <1>1, ReadPeersKeeps, ReadPeersKeepsLine DEF Ready
<1>2. CASE Unavailable(c)
  <2>1. Turn(c) /\ Quits(c)
    BY <1>2 DEF Unavailable, Quits, Refuse, Drafting
  <2> QED
    BY <2>1, SettlesKeeps DEF Settles
<1>3. CASE Write(c)
  BY <1>3, WriteKeeps, WriteKeepsLine DEF Ready
<1>4. CASE WriteFails(c)
  <2>1. Turn(c) /\ Leave(c)
    BY <1>4 DEF WriteFails, Refuse
  <2> QED
    BY <1>4, <2>1, WriteFailsKeeps, LeaveKeepsLine DEF Ready
<1>5. CASE Register(c)
  BY <1>5, RegisterSettles, SettlesKeeps DEF Register, Acting
<1>6. CASE Unregister(c)
  BY <1>6, UnregisterSettles, SettlesKeeps DEF Unregister, Acting
<1>7. CASE Send(c)
  BY <1>7, SendSettles, SettlesKeeps DEF Send, Acting
<1>8. CASE Broadcast(c)
  BY <1>8, BroadcastSettles, SettlesKeeps DEF Broadcast, Acting
<1>9. CASE Ack(c)
  BY <1>9, AckSettles, SettlesKeeps DEF Ack, Acting
<1>10. ASSUME NEW t \in Peer, BroadcastTo(c, t) PROVE Ready'
  BY <1>10, BroadcastToSettles, SettlesKeeps DEF BroadcastTo, Acting
<1> QED
  BY <1>1, <1>2, <1>3, <1>4, <1>5, <1>6, <1>7, <1>8, <1>9, <1>10 DEF Step

\* What only native peers and mailboxes do leaves the gateway alone.
LEMMA IdleStep ==
  ASSUME Ready, UNCHANGED <<stored, mail, line, call, work, answers, faults>>
  PROVE Ready'
<1>1. MemTypes' /\ MemInv'
  BY IdleKeeps DEF Ready
<1>2. LineIsCalled'
  BY DEF Ready, LineIsCalled
<1> QED
  BY <1>1, <1>2 DEF Ready

\* Every step keeps the gateway's invariant.
LEMMA ReadyStep == ASSUME Ready, WorldTypes, [Next]_fleetVars PROVE Ready'
<1>1. ASSUME NEW c \in Call, NEW r \in Request, Ask(c, r) PROVE Ready'
  BY <1>1, AskKeeps, AskKeepsLine DEF Ready
<1>2. ASSUME NEW c \in Call, Step(c) PROVE Ready'
  BY <1>2, RequestKeeps
<1>3. ASSUME NEW c \in Call, NEW t \in Peer, BroadcastTo(c, t) PROVE Ready'
  BY <1>3, RequestKeeps
<1>4. ASSUME NEW g \in Gen, NEW m \in Message, Receive(g, m) PROVE Ready'
  BY <1>4, IdleStep DEF Receive
<1>5. ASSUME NEW n \in Native, NativeChange(n) PROVE Ready'
  BY <1>5, IdleStep DEF NativeChange, boxes
<1>6. CASE Crash
  BY <1>6, CrashKeeps, CrashKeepsLine DEF Ready
<1>7. CASE UNCHANGED fleetVars
  BY <1>7, IdleStep DEF fleetVars
<1> QED
  BY <1>1, <1>2, <1>3, <1>4, <1>5, <1>6, <1>7 DEF Next

(***************************************************************************)
(* The registry, the inboxes and the bounds keep their types               *)
(***************************************************************************)

\* Registering adds a new name to the manifest, or leaves it.
LEMMA RegisterTypes ==
  ASSUME Ready, WorldTypes, NEW c \in Call, Register(c)
  PROVE manifest' \in [Gen -> Title \cup {None}] /\ born' \in 0 .. MaxGen
<1>1. call[c].req.title \in Title
  BY ActingFacts, RequestFields DEF Register
<1>2. CASE UNCHANGED <<manifest, born>>
  BY <1>2 DEF WorldTypes
<1>3. CASE born < MaxGen /\ born' = born + 1 /\ manifest' = [manifest EXCEPT ![born'] = call[c].req.title]
  <2>1. born' \in 0 .. MaxGen /\ born' \in Gen
    BY <1>3, FleetAssumption DEF WorldTypes, Gen
  <2> QED
    BY <1>1, <1>3, <2>1 DEF WorldTypes
<1> QED
  BY <1>2, <1>3 DEF Register

\* An acknowledgement moves messages between the sets of its inbox.
LEMMA AckTypes ==
  ASSUME Ready, WorldTypes, NEW c \in Call, Ack(c)
  PROVE inbox' \in [Gen -> SUBSET Message] /\ read' \in [Gen -> SUBSET Message]
<1>1. Acting(c, "ack") /\ inbox \in [Gen -> SUBSET Message] /\ read \in [Gen -> SUBSET Message]
  BY DEF Ack, WorldTypes
<1>2. call[c].req.ids \subseteq Message
  BY <1>1, ActingFacts, RequestFields
<1>3. ASSUME NEW g \in Gen, NEW ids \in SUBSET Message,
             inbox' = [inbox EXCEPT ![g] = @ \ ids], read' = [read EXCEPT ![g] = @ \cup ids]
      PROVE inbox' \in [Gen -> SUBSET Message] /\ read' \in [Gen -> SUBSET Message]
  BY <1>1, <1>3
<1>4. CASE UNCHANGED <<inbox, read>>
  BY <1>1, <1>4
<1>5. ASSUME Own(c) # None, ~ UNCHANGED <<inbox, read>>
      PROVE \E g \in Gen, ids \in SUBSET Message :
              inbox' = [inbox EXCEPT ![g] = @ \ ids] /\ read' = [read EXCEPT ![g] = @ \cup ids]
  <2>1. PICK g \in Gen : g = Own(c).id
    BY <1>1, <1>5, OwnFacts
  <2>2. PICK take : take = call[c].req.ids \cap inbox[g]
    OBVIOUS
  <2>3. \E ids \in SUBSET take :
          inbox' = [inbox EXCEPT ![g] = @ \ ids] /\ read' = [read EXCEPT ![g] = @ \cup ids]
    BY <1>5, <2>1, <2>2 DEF Ack
  <2>4. take \subseteq Message
    BY <1>2, <2>2
  <2> QED
    BY <2>3, <2>4
<1>6. CASE Own(c) = None
  BY <1>1, <1>6 DEF Ack
<1> QED
  BY <1>3, <1>4, <1>5, <1>6

\* Every step keeps the types of manifest, peers and mailboxes.
LEMMA WorldStep == ASSUME Ready, WorldTypes, [Next]_fleetVars PROVE WorldTypes'
<1>1. ASSUME NEW c \in Call, NEW r \in Request, Ask(c, r) PROVE WorldTypes'
  BY <1>1, FleetAssumption DEF Ask, WorldTypes, boxes
<1>2. ASSUME NEW c \in Call, Register(c) PROVE WorldTypes'
  BY <1>2, RegisterTypes DEF Register, WorldTypes
<1>3. ASSUME NEW c \in Call, Unregister(c) PROVE WorldTypes'
  <2>1. manifest' = manifest \/ manifest' = [manifest EXCEPT ![call[c].req.id] = None]
    BY <1>3 DEF Unregister
  <2> QED
    BY <1>3, <2>1 DEF Unregister, WorldTypes, boxes
<1>4. ASSUME NEW c \in Call, Ack(c) PROVE WorldTypes'
  BY <1>4, AckTypes DEF Ack, WorldTypes
<1>5. ASSUME NEW g \in Gen, NEW m \in Message, Receive(g, m) PROVE WorldTypes'
  BY <1>5 DEF Receive, WorldTypes
<1>6. ASSUME NEW n \in Native, NativeChange(n) PROVE WorldTypes'
  BY <1>6 DEF NativeChange, WorldTypes, boxes
<1>7. ASSUME UNCHANGED <<manifest, up, boxes, made>> PROVE WorldTypes'
  BY <1>7 DEF WorldTypes, boxes
<1>8. ASSUME NEW c \in Call,
             ReadPeers(c) \/ Unavailable(c) \/ Write(c) \/ WriteFails(c) \/ Send(c) \/ Broadcast(c)
      PROVE UNCHANGED <<manifest, up, boxes, made>>
  BY <1>8 DEF ReadPeers, Unavailable, Write, WriteFails, Send, Broadcast, boxes
<1>9. ASSUME NEW c \in Call, NEW t \in Peer, BroadcastTo(c, t)
      PROVE UNCHANGED <<manifest, up, boxes, made>>
  BY <1>9 DEF BroadcastTo
<1>10. Crash \/ UNCHANGED fleetVars => UNCHANGED <<manifest, up, boxes, made>>
  BY DEF Crash, fleetVars, boxes
<1>11. ASSUME NEW c \in Call, Step(c) PROVE WorldTypes'
  BY <1>2, <1>3, <1>4, <1>7, <1>8, <1>11 DEF Step
<1> QED
  BY <1>1, <1>5, <1>6, <1>7, <1>9, <1>10, <1>11 DEF Next

\* An empty gateway satisfies the invariant.
LEMMA InitReady == Init => Ready /\ WorldTypes
<1> SUFFICES ASSUME Init PROVE Ready /\ WorldTypes
  OBVIOUS
<1>1. /\ stored = [reg |-> [p \in Principal |-> None], receipts |-> [s \in Slot |-> None],
                   casts |-> [s \in Slot |-> None], left |-> [p \in Principal |-> None],
                   acked |-> [g \in Gen |-> {}]]
      /\ mail = {} /\ line = <<>> /\ answers = {} /\ faults = 0
      /\ call = [c \in Call |-> None] /\ work = [c \in Call |-> None]
  BY DEF Init
<1>2. stored \in State
  BY <1>1 DEF State
<1>3. /\ \A s \in Slot : stored.receipts[s] = None /\ stored.casts[s] = None
      /\ \A c \in Call : call[c] = None /\ work[c] = None
  BY <1>1
<1>4. call \in [Call -> Asked \cup {None}] /\ work \in [Call -> Work \cup {None}] /\ line \in Seq(Call)
  BY <1>1
<1>5. faults \in 0 .. MaxFaults /\ IsFiniteSet(mail)
  BY <1>1, FleetAssumption, FS_EmptySet
<1>6. MemTypes
  BY <1>1, <1>2, <1>4, <1>5 DEF MemTypes
<1>7. LineIsCalled
  BY <1>1, <1>3 DEF LineIsCalled
<1>8. Counted(stored)
  <2>1. \A op, s, t : Posts(op, s, t) = {}
    BY <1>1 DEF Posts
  <2>2. \A op, s, t : Cardinality(Posts(op, s, t)) = 0
    BY <2>1, FS_EmptySet
  <2> QED
    BY <1>1, <2>2 DEF Counted
<1>9. \A c \in Call : ~Drafting(c) /\ Given(c) = stored /\ Begun(c, stored)
  BY <1>3 DEF Drafting, Given, Begun
<1>10. MemInv
  BY <1>1, <1>3, <1>8, <1>9
     DEF MemInv, OneAtWork, StoredIsRight, Honest, DraftIsRight, CountedAtRest, AllBegun
<1>11. WorldTypes
  BY FleetAssumption DEF Init, WorldTypes
<1> QED
  BY <1>6, <1>7, <1>10, <1>11 DEF Ready

(***************************************************************************)
(* Theorems                                                                *)
(***************************************************************************)

\* The inductive invariant: the types, the line, and what stored state and draft record.
THEOREM FleetInvariant == Spec => [](Ready /\ WorldTypes)
<1>1. Ready /\ WorldTypes /\ [Next]_fleetVars => Ready' /\ WorldTypes'
  BY ReadyStep, WorldStep
<1> QED
  BY <1>1, InitReady, PTL DEF Spec

\* The gateway's state, files and mailboxes keep their types.
THEOREM FleetTypeOK == Spec => []TypeOK
<1>1. Ready /\ WorldTypes => TypeOK
  BY DEF Ready, MemTypes, WorldTypes, TypeOK
<1> QED
  BY <1>1, FleetInvariant, PTL

\* However many requests repeat a key at the same time, a message is published to a
\* recipient once, and once more at most for each crash or failed write.
THEOREM FleetOncePerKey == Spec => []OncePerKey
<1>1. ASSUME Ready PROVE OncePerKey
  <2>1. SUFFICES ASSUME NEW op \in {"send", "broadcast"}, NEW s \in Slot, NEW t \in Peer
                 PROVE Cardinality(Posts(op, s, t)) <= 1 + faults
    BY DEF OncePerKey, Posts
  <2>2. Cardinality(Posts(op, s, t)) \in Nat /\ faults \in Nat
    BY <1>1, PostsFinite, FaultsAreNumbers DEF Ready
  <2>3. \E d : Counted(d)
    BY <1>1 DEF Ready, MemInv, CountedAtRest, DraftIsRight
  <2>4. PICK d : Cardinality(Posts(op, s, t)) <= faults + IF Kept(d, op, s, t) THEN 1 ELSE 0
    BY <2>3 DEF Counted
  <2> QED
    BY <2>2, <2>4
<1> QED
  BY <1>1, FleetInvariant, PTL

\* An answer that was given stays true: the receipt is kept with its message, and what
\* was acknowledged stays acknowledged, whatever crashes or fails later.
THEOREM FleetAnsweredIsStored == Spec => []AnsweredIsStored
<1>1. ASSUME Ready PROVE AnsweredIsStored
  <2>1. SUFFICES ASSUME NEW a \in answers
                 PROVE IF "acknowledged" \in DOMAIN a THEN a.acknowledged \subseteq stored.acked[a.owner]
                       ELSE IF "complete" \in DOMAIN a THEN stored.casts[a.slot] # None
                       ELSE stored.receipts[a.slot] = a /\ a \in mail
    BY DEF AnsweredIsStored
  <2>2. a \in Answer /\ Backed(a, stored) /\ Honest(stored)
    BY <1>1 DEF Ready, MemTypes, MemInv, StoredIsRight
  <2>3. CASE a \in Receipt
    <3>1. stored.receipts[a.slot] = a /\ a # None /\ a.slot \in Slot
      BY <2>2, <2>3, AnswerKinds, NoneIsNothing DEF Backed
    <3>2. a \in mail
      BY <2>2, <3>1 DEF Honest
    <3> QED
      BY <2>3, <3>1, <3>2, AnswerKinds
  <2>4. CASE a \notin Receipt
    <3>1. "acknowledged" \in DOMAIN a \/ "complete" \in DOMAIN a
      BY <2>2, <2>4, AnswerKinds DEF Answer
    <3> QED
      BY <2>2, <3>1 DEF Backed
  <2> QED
    BY <2>3, <2>4
<1> QED
  BY <1>1, FleetInvariant, PTL

\* A broadcast keeps the targets it was first answered with, and one that is called
\* complete was published to each of them.
THEOREM FleetBroadcastIsFrozen == Spec => []BroadcastIsFrozen
<1>1. ASSUME Ready PROVE BroadcastIsFrozen
  <2>1. SUFFICES ASSUME NEW a \in answers, "complete" \in DOMAIN a
                 PROVE /\ stored.casts[a.slot] # None => stored.casts[a.slot].targets = a.targets
                       /\ a.complete => \A t \in a.targets : \E m \in mail : m.slot = a.slot /\ m.to = t
    BY DEF BroadcastIsFrozen
  <2>2. a \in Answer /\ Backed(a, stored) /\ Honest(stored)
    BY <1>1 DEF Ready, MemTypes, MemInv, StoredIsRight
  <2>3. a \in [slot : Slot, targets : SUBSET Peer, complete : BOOLEAN] \/ a \in [owner : Gen, acknowledged : SUBSET Message]
    BY <2>1, <2>2, AnswerKinds DEF Answer
  <2>4. a \in [slot : Slot, targets : SUBSET Peer, complete : BOOLEAN]
    <3>1. ASSUME a \in [owner : Gen, acknowledged : SUBSET Message] PROVE FALSE
      BY <2>1, <3>1
    <3> QED
      BY <2>3, <3>1
  <2>5. a.slot \in Slot /\ a.targets \subseteq Peer /\ "acknowledged" \notin DOMAIN a
    BY <2>4, AnswerKinds
  <2>6. /\ stored.casts[a.slot] # None /\ stored.casts[a.slot].targets = a.targets
        /\ a.complete => \A t \in a.targets : stored.casts[a.slot].got[t] # None
    BY <2>1, <2>2, <2>5 DEF Backed
  <2>7. ASSUME a.complete, NEW t \in a.targets PROVE \E m \in mail : m.slot = a.slot /\ m.to = t
    BY <2>2, <2>5, <2>6, <2>7 DEF Honest
  <2> QED
    BY <2>6, <2>7
<1> QED
  BY <1>1, FleetInvariant, PTL

(***************************************************************************)
(* Health: a peer is called stalled only after enough looks                *)
(***************************************************************************)

Track == [hash : Nat, count : Nat] \cup {None}
Verdicts == {"unknown", "active", "stalled", "sleeping", "api_error", "blocked", "waiting"}

WatchTyped ==
  /\ tracker \in [Watched -> Track] /\ still \in [Watched -> Nat]
  /\ verdict \in [Watched -> Verdicts] /\ log \in [Watched -> Nat]

\* The count kept of a peer's activity is behind the looks at it: the first look counts nothing.
LooksCounted(p) ==
  /\ tracker[p] # None => /\ tracker[p].hash <= log[p]
                          /\ tracker[p].hash = log[p] => tracker[p].count < still[p]
  /\ verdict[p] \in {"stalled", "sleeping"} => still[p] > Threshold

LooksInv == WatchTyped /\ \A p \in Watched : LooksCounted(p)

\* The activity is the one of the last look.
Same(p) == tracker[p] # None /\ tracker[p].hash = log[p]

\* What the health tool says of a peer and keeps of it.
LEMMA AssessEffect ==
  ASSUME NEW p \in Watched, NEW r, NEW a, a = W!AssessHealth(p, r)
  PROVE /\ \/ a.track = None \/ a.track = tracker[p] \/ a.track = [hash |-> log[p], count |-> 0]
           \/ Same(p) /\ a.track = [hash |-> log[p], count |-> W!Capped(tracker[p].count + 1)]
        /\ a.status \in Verdicts
        /\ a.status \in {"stalled", "sleeping"} => Same(p) /\ ~(W!Capped(tracker[p].count + 1) < Threshold)
<1>1. CASE p \in Mailboxes
  <2>1. a = [status |-> IF r.status = "blocked" THEN "blocked" ELSE "waiting", track |-> None]
    BY <1>1 DEF W!AssessHealth
  <2>2. a.track = None /\ a.status \in {"blocked", "waiting"}
    BY <2>1
  <2> QED BY <2>2 DEF Verdicts
<1>2. CASE p \notin Mailboxes /\ r.status \in {"blocked", "waiting"}
  <2>1. a = [status |-> r.status, track |-> IF r.status = "waiting" THEN None ELSE tracker[p]]
    BY <1>2 DEF W!AssessHealth
  <2>2. a.track \in {None, tracker[p]} /\ a.status \in {"blocked", "waiting"}
    BY <1>2, <2>1
  <2> QED BY <2>2 DEF Verdicts
<1>3. CASE p \notin Mailboxes /\ r.status \notin {"blocked", "waiting"} /\ errors[p]
  <2>1. a = [status |-> "api_error", track |-> tracker[p]]
    BY <1>3 DEF W!AssessHealth
  <2> QED BY <2>1 DEF Verdicts
<1>4. CASE p \notin Mailboxes /\ r.status \notin {"blocked", "waiting"} /\ ~errors[p]
  <2>1. PICK same : same = (Same(p) /\ log[p] # 0)
    OBVIOUS
  <2>2. PICK c : c = IF same THEN W!Capped(tracker[p].count + 1) ELSE 0
    OBVIOUS
  <2>3. a = [status |-> IF ~same \/ c < Threshold THEN "active"
                        ELSE IF r.beat = "silent" THEN "stalled" ELSE "sleeping",
             track |-> [hash |-> log[p], count |-> c]]
    BY <1>4, <2>1, <2>2 DEF W!AssessHealth, Same
  <2>4. /\ a.track = [hash |-> log[p], count |-> c] /\ a.status \in {"active", "stalled", "sleeping"}
        /\ a.status # "active" => same /\ ~(c < Threshold)
    BY <2>3
  <2> QED BY <2>1, <2>2, <2>4 DEF Verdicts
<1> QED BY <1>1, <1>2, <1>3, <1>4

\* The count goes to the threshold and stays.
LEMMA CappedCount ==
  ASSUME NEW c \in Nat
  PROVE W!Capped(c) \in Nat /\ W!Capped(c) <= c /\ Threshold \in Nat
        /\ (~(W!Capped(c) < Threshold) => c >= Threshold)
  BY ServicesAssumption DEF W!Capped, W!PeerWatchAssumption

\* The health tool looks at some peers.
LEMMA StatusKeeps ==
  ASSUME LooksInv, NEW ps \in SUBSET Watched, W!AgentStatus(ps) PROVE LooksInv'
<1>1. PICK looked : looked = {p \in ps : W!Listing[p] # None}
  OBVIOUS
<1>2. PICK a : a = [p \in Watched |-> W!AssessHealth(p, W!Listing[p])]
  OBVIOUS
<1>3. /\ tracker' = [p \in Watched |-> IF p \in looked THEN a[p].track ELSE tracker[p]]
      /\ verdict' = [p \in Watched |-> IF p \in looked THEN a[p].status ELSE verdict[p]]
      /\ still' = [p \in Watched |-> IF p \in looked /\ still[p] <= Threshold THEN still[p] + 1 ELSE still[p]]
      /\ log' = log
  BY <1>1, <1>2 DEF W!AgentStatus
<1>4. ASSUME NEW p \in Watched
      PROVE /\ tracker'[p] \in Track /\ verdict'[p] \in Verdicts /\ still'[p] \in Nat
            /\ LooksCounted(p)'
  <2>1. /\ tracker[p] \in Track /\ verdict[p] \in Verdicts /\ still[p] \in Nat /\ log[p] \in Nat
        /\ LooksCounted(p) /\ Threshold \in Nat
    BY CappedCount DEF LooksInv, WatchTyped
  <2>2. CASE p \notin looked
    <3>1. tracker'[p] = tracker[p] /\ verdict'[p] = verdict[p] /\ still'[p] = still[p] /\ log'[p] = log[p]
      BY <1>3, <2>2
    <3> QED BY <2>1, <3>1 DEF LooksCounted
  <2>3. CASE p \in looked
    <3>1. /\ tracker'[p] = a[p].track /\ verdict'[p] = a[p].status /\ log'[p] = log[p]
          /\ still'[p] = IF still[p] <= Threshold THEN still[p] + 1 ELSE still[p]
      BY <1>3, <2>3
    <3>2. /\ \/ a[p].track = None \/ a[p].track = tracker[p] \/ a[p].track = [hash |-> log[p], count |-> 0]
             \/ Same(p) /\ a[p].track = [hash |-> log[p], count |-> W!Capped(tracker[p].count + 1)]
          /\ a[p].status \in Verdicts
          /\ a[p].status \in {"stalled", "sleeping"} => Same(p) /\ ~(W!Capped(tracker[p].count + 1) < Threshold)
      BY <1>2, AssessEffect
    <3>3. still'[p] \in Nat /\ still'[p] > 0 /\ still'[p] >= still[p] /\ (still[p] >= Threshold => still'[p] > Threshold)
      BY <2>1, <3>1
    <3>4. Same(p) => /\ tracker[p].count \in Nat /\ tracker[p].count + 1 <= still[p]
                     /\ W!Capped(tracker[p].count + 1) \in Nat
                     /\ W!Capped(tracker[p].count + 1) <= tracker[p].count + 1
                     /\ ~(W!Capped(tracker[p].count + 1) < Threshold) => tracker[p].count + 1 >= Threshold
      <4>1. Same(p) => tracker[p].count \in Nat /\ tracker[p].count < still[p]
        BY <2>1 DEF Same, Track, LooksCounted
      <4> QED BY <4>1, <2>1, CappedCount
    <3>5. verdict'[p] \in {"stalled", "sleeping"} => still'[p] > Threshold
      BY <2>1, <3>1, <3>2, <3>3, <3>4
    <3>6. tracker'[p] \in Track
      BY <2>1, <3>1, <3>2, <3>4 DEF Track
    <3>7. CASE a[p].track = tracker[p]
      BY <2>1, <3>1, <3>2, <3>3, <3>5, <3>6, <3>7 DEF LooksCounted, Track
    <3>8. CASE a[p].track = None
      BY <3>1, <3>2, <3>3, <3>5, <3>6, <3>8 DEF LooksCounted
    <3>9. CASE a[p].track = [hash |-> log[p], count |-> 0]
      <4>1. tracker'[p].hash = log[p] /\ tracker'[p].count = 0
        BY <3>1, <3>9
      <4> QED BY <2>1, <4>1, <3>1, <3>2, <3>3, <3>5, <3>6 DEF LooksCounted
    <3>10. CASE Same(p) /\ a[p].track = [hash |-> log[p], count |-> W!Capped(tracker[p].count + 1)]
      <4>1. tracker'[p].hash = log[p] /\ tracker'[p].count = W!Capped(tracker[p].count + 1)
        BY <3>1, <3>10
      <4>2. tracker'[p].count < still'[p]
        <5>1. CASE still[p] <= Threshold
          BY <2>1, <3>1, <3>4, <3>10, <4>1, <5>1
        <5>2. CASE ~(still[p] <= Threshold)
          <6>1. W!Capped(tracker[p].count + 1) <= Threshold
            BY <2>1, <3>4, <3>10 DEF W!Capped
          <6> QED BY <2>1, <3>1, <3>4, <3>10, <4>1, <5>2, <6>1
        <5> QED BY <5>1, <5>2
      <4> QED BY <2>1, <4>1, <4>2, <3>1, <3>2, <3>3, <3>5, <3>6 DEF LooksCounted
    <3> QED BY <3>1, <3>2, <3>3, <3>6, <3>7, <3>8, <3>9, <3>10
  <2> QED BY <2>2, <2>3
<1>5. WatchTyped'
  BY <1>3, <1>4 DEF LooksInv, WatchTyped
<1> QED BY <1>4, <1>5 DEF LooksInv

\* Work moves the activity beyond every mark.
LEMMA WorksKeeps == ASSUME LooksInv, NEW q \in Watched, W!Works(q) PROVE LooksInv'
<1>1. /\ log' = [log EXCEPT ![q] = @ + 1] /\ tracker' = tracker
      /\ verdict' = [verdict EXCEPT ![q] = "unknown"] /\ still' = [still EXCEPT ![q] = 0]
  BY DEF W!Works, W!Changes
<1>2. WatchTyped'
  BY <1>1 DEF LooksInv, WatchTyped, Verdicts
<1>3. ASSUME NEW p \in Watched PROVE LooksCounted(p)'
  <2>1. /\ tracker[p] \in Track /\ log[p] \in Nat /\ still[p] \in Nat /\ LooksCounted(p) /\ tracker'[p] = tracker[p]
        /\ tracker[p] # None => tracker[p].hash \in Nat
    BY <1>1 DEF LooksInv, WatchTyped, Track
  <2>2. CASE p = q
    <3>1. log'[p] = log[p] + 1 /\ verdict'[p] = "unknown"
      BY <1>1, <2>2 DEF LooksInv, WatchTyped
    <3> QED BY <2>1, <3>1 DEF LooksCounted
  <2>3. CASE p # q
    <3>1. log'[p] = log[p] /\ verdict'[p] = verdict[p] /\ still'[p] = still[p]
      BY <1>1, <2>3 DEF LooksInv, WatchTyped
    <3> QED BY <2>1, <3>1 DEF LooksCounted
  <2> QED BY <2>2, <2>3
<1> QED BY <1>2, <1>3 DEF LooksInv

\* Nothing else touches what is counted.
LEMMA WatchKeeps == ASSUME LooksInv, [W!Next]_watching PROVE LooksInv'
<1>1. CASE \E ps \in SUBSET Watched \ {{}} : W!AgentStatus(ps)
  BY <1>1, StatusKeeps
<1>2. CASE \E p \in Watched : W!Works(p)
  BY <1>2, WorksKeeps
<1>3. CASE ~(\E ps \in SUBSET Watched \ {{}} : W!AgentStatus(ps)) /\ ~(\E p \in Watched : W!Works(p))
  <2>1. UNCHANGED <<log, tracker, verdict, still>>
    BY <1>3 DEF W!Next, watching, W!Start, W!SetEnabled, W!Input, W!AgentEnd, W!Look, W!Judge, W!Reports, W!Beats,
       W!GetsMessage, W!Fails, W!Dies, W!TimePasses, W!Changes, W!Seen, W!peers, W!health
  <2> QED BY <2>1 DEF LooksInv, WatchTyped, LooksCounted
<1> QED BY <1>1, <1>2, <1>3

\* At the start no peer has been looked at.
LEMMA InitLooks == ASSUME W!Init PROVE LooksInv
<1>1. /\ \A p \in Watched : tracker[p] = None /\ verdict[p] = "unknown"
      /\ WatchTyped
  BY DEF W!Init, WatchTyped, Track, Verdicts
<1> QED BY <1>1 DEF LooksInv, LooksCounted

(***************************************************************************)
(* Teams: a run that was asked to stop does not end completed              *)
(***************************************************************************)

RunRecord == [at : T!Stages \cup {"idle", "writing", "over", "gone"}, protocol : Protocols \cup {None},
              loop : Nat, end : T!Terminal \cup {None}]

\* Until the handler is through nothing is decided, and a run asked to stop keeps its reason; so
\* what is decided for it then is not completion.
AskedFact(r) ==
  /\ run[r].at \in T!Stages \cup {"idle"} => run[r].end = None
  /\ run[r].at = "writing" => run[r].end \in {"stopped", "completed"}
  /\ r \in asked => /\ run[r].end # "completed" /\ run[r].at # "idle"
                    /\ run[r].at \in T!Stages => r \in reasons

AskedInv ==
  /\ run \in [Run -> RunRecord] /\ asked \subseteq Run
  /\ \A r \in Run : AskedFact(r)

\* What the handler of one run leaves of the others.
LEMMA OneRun ==
  ASSUME AskedInv, NEW r \in Run, NEW x \in RunRecord, run' = [run EXCEPT ![r] = x],
         asked' = asked, reasons \ {r} \subseteq reasons', AskedFact(r)'
  PROVE AskedInv'
<1>1. run' \in [Run -> RunRecord] /\ \A q \in Run \ {r} : run'[q] = run[q]
  BY DEF AskedInv
<1>2. ASSUME NEW q \in Run PROVE AskedFact(q)'
  <2>1. CASE q = r
    BY <2>1
  <2>2. CASE q # r
    BY <1>1, <2>2 DEF AskedInv, AskedFact
  <2> QED BY <2>1, <2>2
<1> QED BY <1>1, <1>2 DEF AskedInv

\* The handler decides how a run ends.
LEMMA FinishKeeps ==
  ASSUME AskedInv, NEW r \in Run, NEW b, T!Finish(r, b), run[r].at \in T!Stages,
         asked' = asked, reasons' = reasons
  PROVE AskedInv'
<1>1. PICK e : e = IF b \/ r \in reasons THEN "stopped" ELSE "completed"
  OBVIOUS
<1>2. PICK x : x = [run[r] EXCEPT !.at = "writing", !.end = e]
  OBVIOUS
<1>3. x \in RunRecord /\ x.at = "writing" /\ x.end = e
  BY <1>1, <1>2 DEF AskedInv, RunRecord, T!Terminal
<1>4. run' = [run EXCEPT ![r] = x]
  BY <1>1, <1>2 DEF T!Finish, AskedInv
<1>5. run'[r] = x
  BY <1>4 DEF AskedInv
<1>6. AskedFact(r)'
  BY <1>1, <1>3, <1>5 DEF AskedInv, AskedFact, T!Stages
<1> QED BY <1>3, <1>4, <1>6, OneRun

\* A run goes to another stage: its reason, if it has one, stays.
LEMMA EnterKeeps ==
  ASSUME AskedInv, NEW r \in Run, NEW stage \in T!Stages, NEW loop \in Nat, NEW es, T!Enter(r, stage, loop, es),
         run[r].at \in T!Stages, asked' = asked
  PROVE AskedInv'
<1>1. PICK x : x = [run[r] EXCEPT !.at = stage, !.loop = loop]
  OBVIOUS
<1>2. x \in RunRecord /\ x.at = stage /\ x.end = run[r].end
  BY <1>1 DEF AskedInv, RunRecord
<1>3. run' = [run EXCEPT ![r] = x] /\ reasons' = reasons
  BY <1>1 DEF T!Enter, AskedInv
<1>4. run'[r] = x
  BY <1>3 DEF AskedInv
<1>5. AskedFact(r)'
  BY <1>2, <1>3, <1>4 DEF AskedInv, AskedFact, T!Stages
<1> QED BY <1>2, <1>3, <1>5, OneRun

\* The run is over, and its reason is forgotten.
LEMMA OverKeeps ==
  ASSUME AskedInv, NEW r \in Run, NEW end, T!Over(r, end), end \in T!Terminal \cup {None},
         end = "failed" \/ (run[r].at = "writing" /\ end = run[r].end)
  PROVE AskedInv'
<1>1. PICK x : x = [run[r] EXCEPT !.at = "over", !.end = end]
  OBVIOUS
<1>2. x \in RunRecord /\ x.at = "over" /\ x.end = end
  BY <1>1 DEF AskedInv, RunRecord
<1>3. run' = [run EXCEPT ![r] = x] /\ reasons' = reasons \ {r} /\ asked' = asked
  BY <1>1 DEF T!Over, AskedInv
<1>4. run'[r] = x
  BY <1>3 DEF AskedInv
<1>5. AskedFact(r)'
  BY <1>2, <1>3, <1>4 DEF AskedInv, AskedFact, T!Stages
<1> QED BY <1>2, <1>3, <1>5, OneRun

\* At the start no run has begun.
LEMMA InitAsked == ASSUME T!Init PROVE AskedInv
<1>1. PICK x : x = [at |-> "idle", protocol |-> None, loop |-> 0, end |-> None]
  OBVIOUS
<1>2. x \in RunRecord /\ x.at = "idle" /\ x.end = None
  BY <1>1 DEF RunRecord
<1>3. run = [r \in Run |-> x] /\ asked = {}
  BY <1>1 DEF T!Init
<1> QED BY <1>2, <1>3 DEF AskedInv, AskedFact

\* A team run starts.
LEMMA StartAsked == ASSUME AskedInv, NEW r \in Run, NEW p \in Protocols, T!Start(r, p) PROVE AskedInv'
<1>1. PICK x : x = [run[r] EXCEPT !.at = "begin", !.protocol = p]
  OBVIOUS
<1>2. x \in RunRecord /\ x.at = "begin" /\ x.end = run[r].end
  BY <1>1 DEF AskedInv, RunRecord, T!Stages
<1>3. run' = [run EXCEPT ![r] = x] /\ reasons' = reasons /\ asked' = asked /\ run[r].at = "idle"
  BY <1>1 DEF T!Start, AskedInv
<1>4. run'[r] = x
  BY <1>3 DEF AskedInv
<1>5. AskedFact(r)'
  BY <1>2, <1>3, <1>4 DEF AskedInv, AskedFact
<1> QED BY <1>2, <1>3, <1>5, OneRun

\* The handler begins, or finds the stop.
LEMMA BeginAsked == ASSUME AskedInv, NEW r \in Run, T!Begin(r) PROVE AskedInv'
<1>1. run[r].at \in T!Stages /\ asked' = asked
  BY DEF T!Begin, T!Stages
<1>2. T!First(run[r].protocol) \in T!Stages
  BY DEF T!First, T!Stages
<1>3. \/ T!Finish(r, TRUE) /\ reasons' = reasons
      \/ T!Enter(r, T!First(run[r].protocol), 1, T!Phase(run[r].protocol, T!First(run[r].protocol)))
  BY DEF T!Begin
<1> QED BY <1>1, <1>2, <1>3, FinishKeeps, EnterKeeps

\* A stage is over.
LEMMA StageAsked == ASSUME AskedInv, NEW r \in Run, T!StageOver(r) PROVE AskedInv'
<1>1. run[r].at \in T!Stages /\ asked' = asked /\ run[r].loop \in Nat
  BY DEF T!StageOver, T!Stages, AskedInv, RunRecord
<1>2. CASE \E stopped : T!Finish(r, stopped) /\ reasons' = reasons
  BY <1>1, <1>2, FinishKeeps
<1>3. CASE \E es : \E stage \in T!Stages : T!Enter(r, stage, run[r].loop, es)
  BY <1>1, <1>3, EnterKeeps
<1>4. CASE \E es : T!Enter(r, "explorer", run[r].loop + 1, es)
  <2>1. "explorer" \in T!Stages /\ run[r].loop + 1 \in Nat
    BY <1>1 DEF T!Stages
  <2> QED BY <1>1, <1>4, <2>1, EnterKeeps
<1>5. {"critique", "verifier", "synthesis"} \subseteq T!Stages
  BY DEF T!Stages
<1> QED BY <1>2, <1>3, <1>4, <1>5 DEF T!StageOver, T!session

\* A stop is asked for: what was not decided has its reason now.
LEMMA StopAsked == ASSUME AskedInv, NEW r \in Run, T!RequestStop(r) PROVE AskedInv'
<1>1. run' = run /\ reasons' = reasons \cup {r}
  BY DEF T!RequestStop, T!session
<1>2. asked' = asked \/ (asked' = asked \cup {r} /\ T!Active(r) /\ run[r].at # "writing")
  BY DEF T!RequestStop
<1>3. T!Active(r) /\ run[r].at # "writing" => run[r].at \in T!Stages
  BY DEF T!Active, AskedInv, RunRecord
<1>4. ASSUME NEW q \in Run PROVE AskedFact(q)'
  BY <1>1, <1>2, <1>3, ServicesAssumption DEF AskedInv, AskedFact, T!TeamAssumption, T!Stages
<1> QED BY <1>1, <1>2, <1>4 DEF AskedInv

\* A restart ends the handlers, and with the branch goes what was asked.
LEMMA RestartAsked == ASSUME AskedInv, T!Restart PROVE AskedInv'
<1>1. asked' = {} /\ run' = [r \in Run |-> IF T!Active(r) THEN [run[r] EXCEPT !.at = "gone"] ELSE run[r]]
  BY DEF T!Restart
<1>2. ASSUME NEW r \in Run PROVE run'[r] \in RunRecord /\ AskedFact(r)'
  <2>1. run'[r] = run[r] \/ run'[r] = [run[r] EXCEPT !.at = "gone"]
    BY <1>1
  <2>2. CASE run'[r] = run[r]
    BY <1>1, <2>2 DEF AskedInv, AskedFact
  <2>3. CASE run'[r] = [run[r] EXCEPT !.at = "gone"]
    <3>1. run'[r] \in RunRecord /\ run'[r].at = "gone"
      BY <2>3 DEF AskedInv, RunRecord
    <3> QED BY <1>1, <3>1 DEF AskedFact, T!Stages
  <2> QED BY <2>1, <2>2, <2>3
<1> QED BY <1>1, <1>2 DEF AskedInv

\* Every step of the teams.
LEMMA TeamKeeps == ASSUME AskedInv, [T!Next]_teaming PROVE AskedInv'
<1>1. ASSUME NEW r \in Run, T!Fails(r) \/ T!Written(r) \/ T!ResultNotWritten(r) PROVE AskedInv'
  <2>1. "failed" \in T!Terminal /\ run[r].end \in T!Terminal \cup {None}
    BY DEF AskedInv, RunRecord, T!Terminal
  <2>2. T!Over(r, "failed") \/ (T!Over(r, run[r].end) /\ run[r].at = "writing")
    BY <1>1 DEF T!Fails, T!Written, T!ResultNotWritten, T!Over
  <2> QED BY <2>1, <2>2, OverKeeps
<1>2. CASE UNCHANGED <<run, reasons, asked>>
  BY <1>2 DEF AskedInv, AskedFact
<1>3. CASE T!ChangeBranch
  <2>1. run' = run /\ asked' = {}
    BY <1>3 DEF T!ChangeBranch
  <2> QED BY <2>1 DEF AskedInv, AskedFact
<1>4. ASSUME NEW r \in Run, NEW m \in Member,
             T!Timeout(r, m) \/ T!GraceOver(r, m) \/ \E ok \in BOOLEAN : T!NodeEnds(r, m, ok)
      PROVE UNCHANGED <<run, reasons, asked>>
  BY <1>4 DEF T!Timeout, T!GraceOver, T!NodeEnds, T!session
<1> QED
  BY <1>1, <1>2, <1>3, <1>4, StartAsked, BeginAsked, StageAsked, StopAsked, RestartAsked DEF T!Next, teaming

(***************************************************************************)
(* Teams: a stopped run starts nothing                                     *)
(***************************************************************************)

NodeRecord == [call : {"none", "running", "aborting", "done"}, ok : BOOLEAN, tries : Nat]

\* A stop has ended every call that was running, so none is left that could be made again.
AbortInv ==
  /\ node \in [Run -> [Member -> NodeRecord]] /\ aborted \subseteq Run
  /\ \A r \in aborted, m \in Member : node[r][m].call # "running"

Starts(n, was) == n.call = "running" /\ was.call # "running"

\* What a step does to the nodes of stopped runs.
KeepsStopped ==
  \A r \in aborted, m \in Member : ~Starts(node'[r][m], node[r][m]) /\ node'[r][m].tries <= node[r][m].tries

\* One run that is not stopped has its nodes started or ended.
LEMMA OthersNodes ==
  ASSUME AbortInv, NEW r \in Run, r \notin aborted, NEW ns \in [Member -> NodeRecord],
         node' = [node EXCEPT ![r] = ns], aborted' = aborted
  PROVE AbortInv' /\ KeepsStopped
<1>1. node' \in [Run -> [Member -> NodeRecord]] /\ \A q \in Run \ {r} : node'[q] = node[q]
  BY DEF AbortInv
<1>2. ASSUME NEW q \in aborted, NEW m \in Member
      PROVE node'[q][m] = node[q][m] /\ node[q][m] \in NodeRecord
  BY <1>1 DEF AbortInv
<1> QED BY <1>1, <1>2 DEF AbortInv, KeepsStopped, Starts, NodeRecord

\* One node that runs or is being ended goes on to another state, and of a stopped run it ends.
LEMMA OneNode ==
  ASSUME AbortInv, NEW r \in Run, NEW m \in Member, NEW n \in NodeRecord,
         node' = [node EXCEPT ![r] = [@ EXCEPT ![m] = n]], aborted' = aborted,
         r \in aborted => n.call # "running" /\ n.tries = node[r][m].tries
  PROVE AbortInv' /\ KeepsStopped
<1>1. /\ node' \in [Run -> [Member -> NodeRecord]]
      /\ \A q \in Run, k \in Member : node'[q][k] = IF q = r /\ k = m THEN n ELSE node[q][k]
  BY DEF AbortInv
<1>2. \A q \in Run, k \in Member : node[q][k] \in NodeRecord
  BY DEF AbortInv
<1>3. ASSUME NEW q \in aborted, NEW k \in Member
      PROVE node'[q][k].call # "running" /\ node'[q][k].tries = node[q][k].tries /\ node[q][k].tries \in Nat
  BY <1>1, <1>2 DEF AbortInv, NodeRecord
<1> QED BY <1>1, <1>3 DEF AbortInv, KeepsStopped, Starts

\* At the start no node runs.
LEMMA InitAbort == ASSUME T!Init PROVE AbortInv
BY DEF T!Init, T!Resting, AbortInv, NodeRecord

\* The nodes of the next stage start unless a stop was asked for.
LEMMA EnterAbort ==
  ASSUME AbortInv, NEW r \in Run, r \notin aborted, NEW stage, NEW loop, NEW es,
         T!Enter(r, stage, loop, es), aborted' = aborted
  PROVE AbortInv' /\ KeepsStopped
<1>1. PICK ns : ns = [m \in Member |-> IF m \in T!Members(stage)
                        THEN [call |-> "running", ok |-> FALSE, tries |-> 1] ELSE T!Resting]
  OBVIOUS
<1>2. ns \in [Member -> NodeRecord]
  BY <1>1 DEF NodeRecord, T!Resting
<1>3. node' = [node EXCEPT ![r] = ns]
  BY <1>1 DEF T!Enter
<1> QED BY <1>2, <1>3, OthersNodes

\* A step that leaves the nodes and the stops alone.
LEMMA SameNodes ==
  ASSUME AbortInv, UNCHANGED <<node, aborted>>
  PROVE AbortInv' /\ KeepsStopped
<1>1. \A r \in aborted, m \in Member : node[r][m].tries \in Nat
  BY DEF AbortInv, NodeRecord
<1> QED BY <1>1 DEF AbortInv, KeepsStopped, Starts

\* The handler between two stages: a stop that reached the run is seen before the next starts.
LEMMA HandlerAbort ==
  ASSUME AbortInv, NEW r \in Run, T!Begin(r) \/ T!StageOver(r)
  PROVE AbortInv' /\ KeepsStopped
<1>1. aborted' = aborted
  BY DEF T!Begin, T!StageOver
<1>2. \/ node' = node
      \/ r \notin aborted /\ \E stage, loop, es : T!Enter(r, stage, loop, es)
  BY DEF T!Begin, T!StageOver, T!StopRequested
<1> QED BY <1>1, <1>2, SameNodes, EnterAbort

\* A call ends, is made again or is ended by its timeout.
LEMMA NodeAbort ==
  ASSUME AbortInv, NEW r \in Run, NEW m \in Member,
         T!Timeout(r, m) \/ T!GraceOver(r, m) \/ \E ok \in BOOLEAN : T!NodeEnds(r, m, ok)
  PROVE AbortInv' /\ KeepsStopped
<1>1. aborted' = aborted /\ node[r][m] \in NodeRecord
  BY DEF T!Timeout, T!GraceOver, T!NodeEnds, AbortInv
<1>2. CASE T!Timeout(r, m)
  <2>1. PICK n : n = [node[r][m] EXCEPT !.call = "aborting"]
    OBVIOUS
  <2>2. n \in NodeRecord /\ n.call = "aborting" /\ n.tries = node[r][m].tries
    BY <1>1, <2>1 DEF NodeRecord
  <2>3. node' = [node EXCEPT ![r] = [@ EXCEPT ![m] = n]]
    BY <1>2, <2>1 DEF T!Timeout, AbortInv
  <2> QED BY <1>1, <2>2, <2>3, OneNode
<1>3. ASSUME NEW ok \in BOOLEAN, T!Completes(r, m, ok) PROVE AbortInv' /\ KeepsStopped
  <2>1. PICK n : n = [node[r][m] EXCEPT !.call = "done", !.ok = ok]
    OBVIOUS
  <2>2. n \in NodeRecord /\ n.call = "done" /\ n.tries = node[r][m].tries
    BY <1>1, <2>1 DEF NodeRecord
  <2>3. node' = [node EXCEPT ![r] = [@ EXCEPT ![m] = n]]
    BY <1>3, <2>1 DEF T!Completes, AbortInv
  <2> QED BY <1>1, <2>2, <2>3, OneNode
<1>4. CASE node[r][m].call = "running" /\ node' = [node EXCEPT ![r][m].tries = @ + 1]
  <2>1. PICK n : n = [node[r][m] EXCEPT !.tries = @ + 1]
    OBVIOUS
  <2>2. n \in NodeRecord
    BY <1>1, <2>1 DEF NodeRecord
  <2>3. node' = [node EXCEPT ![r] = [@ EXCEPT ![m] = n]]
    BY <1>4, <2>1 DEF AbortInv
  <2>4. r \notin aborted
    BY <1>4 DEF AbortInv
  <2> QED BY <1>1, <2>2, <2>3, <2>4, OneNode
<1> QED BY <1>2, <1>3, <1>4 DEF T!GraceOver, T!NodeEnds

\* A stop ends what runs.
LEMMA StopAbort ==
  ASSUME AbortInv, NEW r \in Run, T!RequestStop(r)
  PROVE AbortInv' /\ KeepsStopped
<1>1. CASE ~T!Active(r)
  BY <1>1, SameNodes DEF T!RequestStop
<1>2. CASE T!Active(r)
  <2> DEFINE Ended(n) == IF n.call = "running" THEN [n EXCEPT !.call = "aborting"] ELSE n
  <2>1. \A n \in NodeRecord : Ended(n) \in NodeRecord /\ Ended(n).call # "running" /\ Ended(n).tries = n.tries
    BY DEF NodeRecord
  <2>2. aborted' = aborted \cup {r} /\ node' = [node EXCEPT ![r] = [m \in Member |-> Ended(@[m])]]
    BY <1>2 DEF T!RequestStop
  <2>3. \A q \in Run, m \in Member : node[q][m] \in NodeRecord /\ node[q][m].tries \in Nat
    BY DEF AbortInv, NodeRecord
  <2> HIDE DEF Ended
  <2>4. \A q \in Run, m \in Member : node'[q][m] = IF q = r THEN Ended(node[q][m]) ELSE node[q][m]
    BY <2>2 DEF AbortInv
  <2>5. node' \in [Run -> [Member -> NodeRecord]]
    BY <2>1, <2>2, <2>3 DEF AbortInv
  <2>6. \A q \in aborted', m \in Member : node'[q][m].call # "running"
    BY <2>1, <2>2, <2>3, <2>4 DEF AbortInv
  <2>7. \A q \in aborted, m \in Member : node'[q][m].tries <= node[q][m].tries
    BY <2>1, <2>3, <2>4 DEF AbortInv
  <2> QED BY <2>2, <2>5, <2>6, <2>7 DEF AbortInv, KeepsStopped, Starts
<1> QED BY <1>1, <1>2

\* A restart ends every node.
LEMMA RestartAbort ==
  ASSUME AbortInv, T!Restart
  PROVE AbortInv' /\ KeepsStopped
<1>1. aborted' = {} /\ node' = [r \in Run |-> [m \in Member |-> T!Resting]]
  BY DEF T!Restart
<1>2. T!Resting \in NodeRecord /\ T!Resting.call = "none" /\ T!Resting.tries = 0
  BY DEF T!Resting, NodeRecord
<1>3. \A r \in aborted, m \in Member : node[r][m].tries \in Nat /\ node'[r][m] = T!Resting
  BY <1>1 DEF AbortInv, NodeRecord
<1> QED BY <1>1, <1>2, <1>3 DEF AbortInv, KeepsStopped, Starts

\* Every step of the teams.
LEMMA TeamKeepsStopped == ASSUME AbortInv, [T!Next]_teaming PROVE AbortInv' /\ KeepsStopped
<1>1. CASE UNCHANGED teaming
  BY <1>1, SameNodes DEF teaming
<1>2. ASSUME NEW r \in Run, NEW p \in Protocols, T!Start(r, p) PROVE AbortInv' /\ KeepsStopped
  BY <1>2, SameNodes DEF T!Start
<1>3. ASSUME NEW r \in Run, T!Fails(r) \/ T!Written(r) \/ T!ResultNotWritten(r)
      PROVE AbortInv' /\ KeepsStopped
  BY <1>3, SameNodes DEF T!Fails, T!Written, T!ResultNotWritten, T!Over
<1>4. CASE T!ChangeBranch
  BY <1>4, SameNodes DEF T!ChangeBranch
<1> QED
  BY <1>1, <1>2, <1>3, <1>4, HandlerAbort, NodeAbort, StopAbort, RestartAbort DEF T!Next

(***************************************************************************)
(* Teams: folds over the events of a branch                                *)
(***************************************************************************)

\* A non-empty set of numbers has a least one.
LEMMA LeastNumber ==
  ASSUME NEW S, S \subseteq Nat, S # {}
  PROVE \E n \in S : \A k \in S : n <= k
<1>1. IsWellFoundedOn({ss \in Nat \X Nat : ss[1] < ss[2]}, Nat)
  BY NatLessThanWellFounded DEF OpToRel
<1>2. PICK n \in S : \A k \in S : ~(<<k, n>> \in {ss \in Nat \X Nat : ss[1] < ss[2]})
  BY <1>1, WFMin
<1>3. ASSUME NEW k \in S PROVE n <= k
  <2>1. n \in Nat /\ k \in Nat /\ ~(k < n)
    BY <1>2
  <2> QED BY <2>1
<1> QED BY <1>3

\* What holds of 0 and of every successor holds of every number.
LEMMA EveryNumber ==
  ASSUME NEW S, 0 \in S, \A n \in Nat : n \in S => n + 1 \in S
  PROVE Nat \subseteq S
<1>1. SUFFICES ASSUME Nat \ S # {} PROVE FALSE
  OBVIOUS
<1>2. PICK n \in Nat \ S : \A k \in Nat \ S : n <= k
  BY <1>1, LeastNumber
<1>3. n # 0 /\ n - 1 \in Nat /\ (n - 1) + 1 = n /\ ~(n <= n - 1)
  BY <1>2
<1> QED BY <1>2, <1>3

\* The two folds of TeamRun, told apart by kind.
FoldStep(kind, r, acc, e) == IF kind = "replay" THEN T!Apply(acc, e) ELSE T!InTurn(r, acc, e)

Last(S) == CHOOSE x \in S : \A y \in S : x >= y

\* The function that a fold takes its result from.
IsFold(g, kind, r, base, s, n) ==
  g = [S \in SUBSET (1 .. n) |->
         IF S = {} THEN base ELSE FoldStep(kind, r, g[S \ {Last(S)}], s[Last(S)])]

\* A set that ends with its greatest number.
LEMMA LastIs ==
  ASSUME NEW n \in Nat, NEW S \in SUBSET (1 .. n + 1), n + 1 \in S
  PROVE Last(S) = n + 1 /\ S \ {Last(S)} \in SUBSET (1 .. n)
<1>1. \A y \in S : y \in Nat /\ n + 1 >= y
  OBVIOUS
<1>2. Last(S) \in S /\ \A y \in S : Last(S) >= y
  BY <1>1 DEF Last
<1>3. Last(S) = n + 1
  <2>1. Last(S) >= n + 1 /\ n + 1 >= Last(S) /\ Last(S) \in Nat
    BY <1>1, <1>2
  <2> QED BY <2>1
<1> QED BY <1>3

\* A set of numbers below a bound has a greatest.
LEMMA LastIn ==
  ASSUME NEW n \in Nat, NEW S \in SUBSET (0 .. n), S # {}
  PROVE Last(S) \in S /\ \A y \in S : Last(S) >= y
<1>1. \A y \in S : y \in 0 .. n
  OBVIOUS
<1>2. {n - y : y \in S} \subseteq Nat /\ {n - y : y \in S} # {}
  <2>1. \A y \in S : n - y \in Nat
    BY <1>1
  <2> QED BY <2>1
<1>3. PICK m \in {n - y : y \in S} : \A k \in {n - y : y \in S} : m <= k
  BY <1>2, LeastNumber
<1>4. PICK x \in S : m = n - x
  OBVIOUS
<1>5. \A y \in S : x >= y
  <2>1. ASSUME NEW y \in S PROVE x >= y
    <3>1. m <= n - y
      BY <1>3
    <3> QED BY <3>1, <1>1, <1>4
  <2> QED BY <2>1
<1> QED BY <1>5 DEF Last

\* There is such a function for every sequence: one more element adds the sets it is in.
LEMMA FoldExists ==
  ASSUME NEW kind, NEW r, NEW base, NEW s
  PROVE \A n \in Nat : \E g : IsFold(g, kind, r, base, s, n)
<1> DEFINE Good == {n \in Nat : \E g : IsFold(g, kind, r, base, s, n)}
<1>1. 0 \in Good
  <2> DEFINE g == [S \in SUBSET (1 .. 0) |-> base]
  <2>1. \A S \in SUBSET (1 .. 0) : S = {}
    OBVIOUS
  <2>2. IsFold(g, kind, r, base, s, 0)
    BY <2>1 DEF IsFold
  <2> QED BY <2>2
<1>2. ASSUME NEW n \in Nat, n \in Good PROVE n + 1 \in Good
  <2>1. PICK g : IsFold(g, kind, r, base, s, n)
    BY <1>2
  <2> DEFINE h == [S \in SUBSET (1 .. n + 1) |->
                     IF n + 1 \in S THEN FoldStep(kind, r, g[S \ {n + 1}], s[n + 1]) ELSE g[S]]
             f == [S \in SUBSET (1 .. n + 1) |->
                     IF S = {} THEN base ELSE FoldStep(kind, r, h[S \ {Last(S)}], s[Last(S)])]
  <2>2. ASSUME NEW S \in SUBSET (1 .. n + 1) PROVE h[S] = f[S]
    <3>1. CASE n + 1 \in S
      <4>1. Last(S) = n + 1 /\ S \ {Last(S)} \in SUBSET (1 .. n)
        BY <3>1, LastIs
      <4>2. n + 1 \notin S \ {n + 1} /\ S \ {n + 1} \in SUBSET (1 .. n + 1)
        OBVIOUS
      <4>3. h[S \ {n + 1}] = g[S \ {n + 1}]
        BY <4>2
      <4> QED BY <3>1, <4>1, <4>3
    <3>2. CASE n + 1 \notin S
      <4>1. S \in SUBSET (1 .. n) /\ h[S] = g[S]
        BY <3>2
      <4>2. CASE S = {}
        <5>1. g[S] = base
          BY <4>1, <4>2, <2>1 DEF IsFold
        <5> QED BY <4>1, <4>2, <5>1
      <4>3. CASE S # {}
        <5>1. Last(S) \in S /\ S \ {Last(S)} \in SUBSET (1 .. n) /\ n + 1 \notin S \ {Last(S)}
              /\ S \ {Last(S)} \in SUBSET (1 .. n + 1)
          BY <3>2, <4>1, <4>3, LastIn, 1 .. n \subseteq 0 .. n
        <5>2. h[S \ {Last(S)}] = g[S \ {Last(S)}]
          BY <5>1
        <5>3. g[S] = FoldStep(kind, r, g[S \ {Last(S)}], s[Last(S)])
          BY <4>1, <4>3, <2>1 DEF IsFold
        <5> QED BY <4>1, <4>3, <5>2, <5>3
      <4> QED BY <4>2, <4>3
    <3> QED BY <3>1, <3>2
  <2>3. h = f
    <3> HIDE DEF f, h
    <3>1. \A S \in SUBSET (1 .. n + 1) : h[S] = f[S]
      BY <2>2
    <3>2. h = [S \in SUBSET (1 .. n + 1) |-> h[S]] /\ f = [S \in SUBSET (1 .. n + 1) |-> f[S]]
      BY DEF f, h
    <3> QED BY <3>1, <3>2
  <2>4. IsFold(h, kind, r, base, s, n + 1)
    <3> HIDE DEF h
    <3> QED BY <2>3 DEF IsFold
  <2> QED BY <2>4
<1>3. Nat \subseteq Good
  <2> HIDE DEF Good
  <2> QED BY <1>1, <1>2, EveryNumber
<1> QED BY <1>3

\* Nothing folded gives the base.
LEMMA FoldStart ==
  ASSUME NEW kind, NEW r, NEW base, NEW s, NEW n \in Nat, NEW g, IsFold(g, kind, r, base, s, n)
  PROVE g[{}] = base
BY DEF IsFold

\* What is folded of k + 1 elements is one step on from what is folded of k.
FoldsOn(g, kind, r, s, n) ==
  \A k \in Nat : k < n => g[1 .. k + 1] = FoldStep(kind, r, g[1 .. k], s[k + 1])

\* Each element adds one step to what is folded of those before.
LEMMA FoldValues ==
  ASSUME NEW kind, NEW r, NEW base, NEW s, NEW n \in Nat, NEW g, IsFold(g, kind, r, base, s, n)
  PROVE FoldsOn(g, kind, r, s, n)
<1>1. ASSUME NEW k \in Nat, k < n PROVE g[1 .. k + 1] = FoldStep(kind, r, g[1 .. k], s[k + 1])
  <2>1. 1 .. k + 1 \in SUBSET (1 .. n) /\ 1 .. k + 1 # {} /\ k + 1 \in 1 .. k + 1
    BY <1>1
  <2>2. Last(1 .. k + 1) = k + 1
    BY <2>1, LastIs
  <2>3. (1 .. k + 1) \ {k + 1} = 1 .. k
    OBVIOUS
  <2> QED BY <2>1, <2>2, <2>3 DEF IsFold
<1> QED BY <1>1 DEF FoldsOn

\* Folds agree as long as the sequences do.
LEMMA FoldsAgree ==
  ASSUME NEW kind, NEW r, NEW base, NEW s, NEW t, NEW n \in Nat, NEW m \in Nat, n <= m,
         NEW g, IsFold(g, kind, r, base, s, n), NEW h, IsFold(h, kind, r, base, t, m),
         \A i \in 1 .. n : s[i] = t[i]
  PROVE g[1 .. n] = h[1 .. n]
<1> DEFINE Good == {k \in Nat : k <= n => g[1 .. k] = h[1 .. k]}
<1>1. 0 \in Good
  <2>1. g[{}] = base /\ h[{}] = base
    BY FoldStart
  <2>2. 1 .. 0 = {}
    OBVIOUS
  <2> QED BY <2>1, <2>2
<1>2. \A j \in Nat : j < n => g[1 .. j + 1] = FoldStep(kind, r, g[1 .. j], s[j + 1])
  <2>1. FoldsOn(g, kind, r, s, n)
    BY FoldValues
  <2> QED BY <2>1 DEF FoldsOn
<1>3. \A j \in Nat : j < m => h[1 .. j + 1] = FoldStep(kind, r, h[1 .. j], t[j + 1])
  <2>1. FoldsOn(h, kind, r, t, m)
    BY FoldValues
  <2> QED BY <2>1 DEF FoldsOn
<1>4. ASSUME NEW k \in Nat, k \in Good PROVE k + 1 \in Good
  <2> SUFFICES ASSUME k + 1 <= n PROVE g[1 .. k + 1] = h[1 .. k + 1]
    OBVIOUS
  <2>1. k < n /\ k < m /\ k + 1 \in 1 .. n /\ g[1 .. k] = h[1 .. k]
    BY <1>4
  <2> QED BY <1>2, <1>3, <2>1
<1>5. Nat \subseteq Good
  <2> HIDE DEF Good
  <2> QED BY <1>1, <1>4, EveryNumber
<1> QED BY <1>5

\* The folds of the model are such folds.
Replay(base, s) == T!FoldLeft(T!Apply, base, s)

\* Replaying events is a fold over their numbers.
LEMMA ReplayIsFold ==
  ASSUME NEW base, NEW S, NEW s \in Seq(S), NEW r
  PROVE \E g : IsFold(g, "replay", r, base, s, Len(s)) /\ Replay(base, s) = g[1 .. Len(s)]
<1> DEFINE Gets(g) == g = [D \in SUBSET DOMAIN s |-> IF D = {} THEN base
                             ELSE T!Apply(g[D \ {Last(D)}], s[Last(D)])]
           found == CHOOSE g : Gets(g)
<1>1. DOMAIN s = 1 .. Len(s) /\ Len(s) \in Nat
  OBVIOUS
<1>2. Replay(base, s) = found[DOMAIN s]
  BY DEF Replay, T!FoldLeft, T!MapThenFoldSet, T!Max, Last
<1>3. \A g : IsFold(g, "replay", r, base, s, Len(s)) <=> Gets(g)
  BY <1>1 DEF IsFold, FoldStep
<1>4. \E g : Gets(g)
  BY <1>1, <1>3, FoldExists
<1>5. Gets(found)
  <2> HIDE DEF Gets
  <2> QED BY <1>4
<1> HIDE DEF Gets, found
<1> QED BY <1>1, <1>2, <1>3, <1>5

\* So is sorting a run's events out of a branch.
LEMMA EventsAreFold ==
  ASSUME NEW S, NEW s \in Seq(S), NEW r
  PROVE \E g : IsFold(g, "events", r, <<>>, s, Len(s)) /\ T!EventsOf(r, s) = g[1 .. Len(s)]
<1> DEFINE Gets(g) == g = [D \in SUBSET DOMAIN s |-> IF D = {} THEN <<>>
                             ELSE T!InTurn(r, g[D \ {Last(D)}], s[Last(D)])]
           found == CHOOSE g : Gets(g)
<1>1. DOMAIN s = 1 .. Len(s) /\ Len(s) \in Nat
  OBVIOUS
<1>2. T!EventsOf(r, s) = found[DOMAIN s]
  BY DEF T!EventsOf, T!FoldLeft, T!MapThenFoldSet, T!Max, Last
<1>3. \A g : IsFold(g, "events", r, <<>>, s, Len(s)) <=> Gets(g)
  BY <1>1 DEF IsFold, FoldStep
<1>4. \E g : Gets(g)
  BY <1>1, <1>3, FoldExists
<1>5. Gets(found)
  <2> HIDE DEF Gets
  <2> QED BY <1>4
<1> HIDE DEF Gets, found
<1> QED BY <1>1, <1>2, <1>3, <1>5

\* Folding one more event is one more step.
LEMMA ReplayOneMore ==
  ASSUME NEW base, NEW S, NEW s \in Seq(S), NEW e \in S
  PROVE Replay(base, <<>>) = base /\ Replay(base, Append(s, e)) = T!Apply(Replay(base, s), e)
<1> DEFINE t == Append(s, e)
           n == Len(s)
<1>1. t \in Seq(S) /\ Len(t) = n + 1 /\ n \in Nat /\ t[n + 1] = e /\ \A i \in 1 .. n : s[i] = t[i]
  OBVIOUS
<1>2. PICK g : IsFold(g, "replay", 0, base, s, n) /\ Replay(base, s) = g[1 .. n]
  BY ReplayIsFold
<1>3. PICK h : IsFold(h, "replay", 0, base, t, n + 1) /\ Replay(base, t) = h[1 .. n + 1]
  <2> HIDE DEF t
  <2> QED BY <1>1, ReplayIsFold
<1>4. h[1 .. n + 1] = FoldStep("replay", 0, h[1 .. n], t[n + 1])
  <2> HIDE DEF t
  <2>1. PICK m \in Nat : m = n + 1
    BY <1>1
  <2>2. n < m
    BY <1>1, <2>1
  <2>3. FoldsOn(h, "replay", 0, t, m)
    BY <1>3, <2>1, FoldValues
  <2> QED BY <2>1, <2>2, <2>3, <1>1 DEF FoldsOn
<1>5. g[1 .. n] = h[1 .. n]
  <2> HIDE DEF t
  <2>1. PICK m \in Nat : m = n + 1
    BY <1>1
  <2>2. n <= m
    BY <1>1, <2>1
  <2>3. IsFold(h, "replay", 0, base, t, m)
    BY <1>3, <2>1
  <2> QED BY <2>2, <2>3, <1>1, <1>2, FoldsAgree
<1>6. Replay(base, <<>>) = base
  <2>1. <<>> \in Seq(S) /\ Len(<<>>) = 0
    OBVIOUS
  <2>2. PICK f : IsFold(f, "replay", 0, base, <<>>, 0) /\ Replay(base, <<>>) = f[1 .. 0]
    BY <2>1, ReplayIsFold
  <2>3. f[{}] = base
    BY <2>2, FoldStart
  <2>4. 1 .. 0 = {}
    OBVIOUS
  <2> QED BY <2>2, <2>3, <2>4
<1> QED BY <1>1, <1>2, <1>3, <1>4, <1>5, <1>6 DEF FoldStep

\* One more event is put in turn last.
LEMMA EventsOneMore ==
  ASSUME NEW r, NEW S, NEW s \in Seq(S), NEW e \in S
  PROVE T!EventsOf(r, <<>>) = <<>> /\ T!EventsOf(r, Append(s, e)) = T!InTurn(r, T!EventsOf(r, s), e)
<1> DEFINE t == Append(s, e)
           n == Len(s)
<1>1. t \in Seq(S) /\ Len(t) = n + 1 /\ n \in Nat /\ t[n + 1] = e /\ \A i \in 1 .. n : s[i] = t[i]
  OBVIOUS
<1>2. PICK g : IsFold(g, "events", r, <<>>, s, n) /\ T!EventsOf(r, s) = g[1 .. n]
  BY EventsAreFold
<1>3. PICK h : IsFold(h, "events", r, <<>>, t, n + 1) /\ T!EventsOf(r, t) = h[1 .. n + 1]
  <2> HIDE DEF t
  <2> QED BY <1>1, EventsAreFold
<1>4. h[1 .. n + 1] = FoldStep("events", r, h[1 .. n], t[n + 1])
  <2> HIDE DEF t
  <2>1. PICK m \in Nat : m = n + 1
    BY <1>1
  <2>2. n < m
    BY <1>1, <2>1
  <2>3. FoldsOn(h, "events", r, t, m)
    BY <1>3, <2>1, FoldValues
  <2> QED BY <2>1, <2>2, <2>3, <1>1 DEF FoldsOn
<1>5. g[1 .. n] = h[1 .. n]
  <2> HIDE DEF t
  <2>1. PICK m \in Nat : m = n + 1
    BY <1>1
  <2>2. n <= m
    BY <1>1, <2>1
  <2>3. IsFold(h, "events", r, <<>>, t, m)
    BY <1>3, <2>1
  <2> QED BY <2>2, <2>3, <1>1, <1>2, FoldsAgree
<1>6. T!EventsOf(r, <<>>) = <<>>
  <2>1. <<>> \in Seq(S) /\ Len(<<>>) = 0
    OBVIOUS
  <2>2. PICK f : IsFold(f, "events", r, <<>>, <<>>, 0) /\ T!EventsOf(r, <<>>) = f[1 .. 0]
    BY <2>1, EventsAreFold
  <2>3. f[{}] = <<>>
    BY <2>2, FoldStart
  <2>4. 1 .. 0 = {}
    OBVIOUS
  <2> QED BY <2>2, <2>3, <2>4
<1> QED BY <1>1, <1>2, <1>3, <1>4, <1>5, <1>6 DEF FoldStep

(***************************************************************************)
(* Teams: what the session shows of a run is what a restart would show     *)
(***************************************************************************)

Kinds == {"started", "phase", "node_started", "node_completed", "stop_requested", "stopped", "completed", "failed"}
Places == T!Stages \cup {None, "idle", "writing", "over", "gone"}
Sketch == [kind : Kinds, stage : Places, member : Member, ok : BOOLEAN]
Entry == [run : Run, seq : Nat, kind : Kinds, stage : Places, member : Member, ok : BOOLEAN]

\* A branch numbers the events of each run as it goes on, from one.
Numbered(b) ==
  /\ b \in Seq(Entry)
  /\ \A i \in DOMAIN b : b[i].seq \in 1 .. i
  /\ \A i, j \in DOMAIN b : i < j /\ b[i].run = b[j].run => b[i].seq < b[j].seq

OwnEvents(r, b) == {b[i] : i \in {j \in DOMAIN b : b[j].run = r}}

\* Cardinality means the same here and in the team runs.
LEMMA TeamCardinality == \A S : T!Cardinality(S) = Cardinality(S)
BY DEF T!Cardinality, Cardinality

\* What a branch holds is numbered up to any of its events.
LEMMA NumberedPart ==
  ASSUME NEW b, Numbered(b), NEW n \in 0 .. Len(b)
  PROVE Numbered(SubSeq(b, 1, n)) /\ Len(SubSeq(b, 1, n)) = n
<1>1. b \in Seq(Entry) /\ Len(b) \in Nat /\ DOMAIN b = 1 .. Len(b) /\ 1 .. n \subseteq DOMAIN b /\ n \in Int
  BY DEF Numbered
<1> DEFINE s == SubSeq(b, 1, n)
<1>2. s \in Seq(Entry) /\ Len(s) = n /\ \A i \in 1 .. n : s[i] = b[i]
  BY <1>1
<1>3. DOMAIN s = 1 .. n
  BY <1>2
<1> HIDE DEF s
<1>4. Numbered(s)
  BY <1>1, <1>2, <1>3 DEF Numbered
<1> QED BY <1>2, <1>4 DEF s

\* A branch without its last event is numbered, and below that event for its run.
LEMMA NumberedFront ==
  ASSUME NEW b \in Seq(Entry), NEW e \in Entry, Numbered(Append(b, e))
  PROVE /\ Numbered(b)
        /\ \A i \in DOMAIN b : b[i].run = e.run => b[i].seq < e.seq
<1> DEFINE t == Append(b, e)
           n == Len(b)
<1>1. n \in Nat /\ DOMAIN b = 1 .. n /\ DOMAIN t = 1 .. n + 1 /\ t[n + 1] = e
      /\ \A i \in 1 .. n : t[i] = b[i]
  OBVIOUS
<1> HIDE DEF t
<1>2. \A i \in DOMAIN b : i \in DOMAIN t /\ t[i] = b[i] /\ i < n + 1 /\ n + 1 \in DOMAIN t
  BY <1>1
<1>3. Numbered(t)
  BY DEF t
<1> QED BY <1>1, <1>2, <1>3 DEF Numbered

\* The event that a branch ends with comes last among those of its run.
LEMMA InTurnIsLast ==
  ASSUME NEW r, NEW es \in Seq(Entry), NEW e \in Entry, \A i \in DOMAIN es : es[i].seq < e.seq
  PROVE T!InTurn(r, es, e) = IF e.run = r THEN Append(es, e) ELSE es
<1>1. CASE e.run # r
  BY <1>1 DEF T!InTurn
<1>2. CASE e.run = r
  <2> DEFINE n == Len(es)
  <2>1. n \in Nat /\ DOMAIN es = 1 .. n /\ e.seq \in Int /\ \A i \in 1 .. n : es[i].seq \in Int
    <3>1. n \in Nat /\ DOMAIN es = 1 .. n /\ \A i \in 1 .. n : es[i] \in Entry
      OBVIOUS
    <3>2. \A x \in Entry : x.seq \in Nat
      BY DEF Entry
    <3> QED BY <3>1, <3>2
  <2>2. {i \in DOMAIN es : es[i].seq <= e.seq} = 1 .. n
    BY <2>1
  <2>3. T!Cardinality(1 .. n) = n
    <3>1. 1 \in Int /\ n \in Int /\ (1 > n => n = 0) /\ n - 1 + 1 = n
      BY <2>1
    <3>2. Cardinality(1 .. n) = IF 1 > n THEN 0 ELSE n - 1 + 1
      BY <3>1, FS_Interval
    <3> QED BY <3>1, <3>2, TeamCardinality
  <2>4. T!InTurn(r, es, e) = SubSeq(es, 1, (1 + n) - 1) \o <<e>> \o SubSeq(es, 1 + n, n)
    BY <1>2, <2>2, <2>3 DEF T!InTurn, T!InsertAt
  <2>5. SubSeq(es, 1 + n, n) = <<>> /\ (1 + n) - 1 = n
    BY <2>1, SubSeqEmpty
  <2>6. SubSeq(es, 1, n) = es
    BY SubSeqFull
  <2>7. T!InTurn(r, es, e) = es \o <<e>> \o <<>>
    BY <2>4, <2>5, <2>6
  <2>8. Append(es, e) = es \o <<e>> /\ Append(es, e) \in Seq(Entry)
    BY AppendIsConcat, AppendProperties
  <2> QED BY <2>7, <2>8, <1>2, ConcatEmptySeq
<1> QED BY <1>1, <1>2

\* A run's events are among those of the branch.
LEMMA EventsAreOwn ==
  ASSUME NEW r
  PROVE \A b : Numbered(b) => T!EventsOf(r, b) \in Seq(OwnEvents(r, b))
<1> DEFINE Good == {n \in Nat : \A b \in Seq(Entry) : Len(b) = n /\ Numbered(b) =>
                                   T!EventsOf(r, b) \in Seq(OwnEvents(r, b))}
<1>1. 0 \in Good
  <2>1. ASSUME NEW b \in Seq(Entry), Len(b) = 0 PROVE T!EventsOf(r, b) \in Seq(OwnEvents(r, b))
    <3>1. b = <<>>
      BY <2>1
    <3>2. T!EventsOf(r, <<>>) = <<>>
      <4>1. T!EventsOf(r, <<>>) = <<>> \/ Entry = {}
        BY EventsOneMore
      <4>2. ASSUME Entry = {} PROVE T!EventsOf(r, <<>>) = <<>>
        <5>1. <<>> \in Seq({0}) /\ 0 \in {0}
          OBVIOUS
        <5> QED BY <5>1, EventsOneMore
      <4> QED BY <4>1, <4>2
    <3>3. <<>> \in Seq(OwnEvents(r, b))
      BY EmptySeq
    <3> QED BY <3>1, <3>2, <3>3
  <2> QED BY <2>1
<1>2. ASSUME NEW n \in Nat, n \in Good PROVE n + 1 \in Good
  <2>1. ASSUME NEW b \in Seq(Entry), Len(b) = n + 1, Numbered(b) PROVE T!EventsOf(r, b) \in Seq(OwnEvents(r, b))
    <3>1. b # <<>>
      BY <2>1
    <3>2. PICK s \in Seq(Entry), e \in Entry : b = Append(s, e)
      BY <3>1, SequenceEmptyOrAppend
    <3>3. Numbered(s) /\ \A i \in DOMAIN s : s[i].run = e.run => s[i].seq < e.seq
      BY <2>1, <3>2, NumberedFront
    <3>4. Len(s) = n
      BY <2>1, <3>2
    <3>5. T!EventsOf(r, s) \in Seq(OwnEvents(r, s))
      BY <1>2, <3>3, <3>4
    <3> DEFINE m == Len(s)
               es == T!EventsOf(r, s)
    <3>6. m \in Nat /\ DOMAIN s = 1 .. m /\ DOMAIN b = 1 .. m + 1 /\ b[m + 1] = e
          /\ \A i \in 1 .. m : b[i] = s[i]
      BY <3>2
    <3>7. OwnEvents(r, s) \subseteq OwnEvents(r, b) /\ (e.run = r => e \in OwnEvents(r, b))
      BY <3>6 DEF OwnEvents
    <3>8. T!EventsOf(r, b) = T!InTurn(r, es, e)
      BY <3>2, EventsOneMore
    <3>9. es \in Seq(OwnEvents(r, b)) /\ es \in Seq(Entry)
      <4>1. OwnEvents(r, s) \subseteq Entry
        BY <3>6 DEF OwnEvents
      <4> QED BY <4>1, <3>5, <3>7
    <3>10. e.run = r => \A i \in DOMAIN es : es[i].seq < e.seq
      <4>1. \A i \in DOMAIN es : es[i] \in OwnEvents(r, s)
        BY <3>5
      <4> QED BY <4>1, <3>3 DEF OwnEvents
    <3>11. T!InTurn(r, es, e) = IF e.run = r THEN Append(es, e) ELSE es
      <4>1. CASE e.run # r
        BY <4>1 DEF T!InTurn
      <4>2. CASE e.run = r
        <5> HIDE DEF es
        <5> QED BY <4>2, <3>9, <3>10, InTurnIsLast
      <4> QED BY <4>1, <4>2
    <3> HIDE DEF es
    <3> QED BY <3>7, <3>8, <3>9, <3>11, AppendProperties
  <2> QED BY <2>1
<1>3. Nat \subseteq Good
  <2> HIDE DEF Good
  <2> QED BY <1>1, <1>2, EveryNumber
<1>4. ASSUME NEW b, Numbered(b) PROVE T!EventsOf(r, b) \in Seq(OwnEvents(r, b))
  <2>1. b \in Seq(Entry) /\ Len(b) \in Nat
    BY <1>4 DEF Numbered
  <2> QED BY <2>1, <1>3, <1>4
<1> QED BY <1>4

\* One more event on a branch is one more event of its run.
LEMMA EventsGrow ==
  ASSUME NEW r, NEW b \in Seq(Entry), NEW e \in Entry, Numbered(Append(b, e))
  PROVE T!EventsOf(r, Append(b, e)) = IF e.run = r THEN Append(T!EventsOf(r, b), e) ELSE T!EventsOf(r, b)
<1>1. Numbered(b) /\ \A i \in DOMAIN b : b[i].run = e.run => b[i].seq < e.seq
  BY NumberedFront
<1>2. PICK es : es = T!EventsOf(r, b)
  OBVIOUS
<1>3. es \in Seq(OwnEvents(r, b))
  BY <1>1, <1>2, EventsAreOwn
<1>4. es \in Seq(Entry)
  <2>1. OwnEvents(r, b) \subseteq Entry
    BY DEF OwnEvents
  <2> QED BY <2>1, <1>3
<1>5. T!EventsOf(r, Append(b, e)) = T!InTurn(r, es, e)
  BY <1>2, EventsOneMore
<1>6. CASE e.run # r
  BY <1>2, <1>5, <1>6 DEF T!InTurn
<1>7. CASE e.run = r
  <2>1. \A i \in DOMAIN es : es[i] \in OwnEvents(r, b)
    BY <1>3
  <2>2. \A i \in DOMAIN es : es[i].seq < e.seq
    BY <2>1, <1>1, <1>7 DEF OwnEvents
  <2> QED BY <2>2, <1>2, <1>4, <1>5, <1>7, InTurnIsLast
<1> QED BY <1>6, <1>7

\* Showing the events of one run as they come is what reading the branch again would show.
LEMMA ReplayGrows ==
  ASSUME NEW r, NEW b \in Seq(Entry)
  PROVE \A ns \in Seq(Entry) :
          Numbered(b \o ns) /\ (\A i \in DOMAIN ns : ns[i].run = r) =>
            /\ T!Reduce(r, b \o ns) = Replay(T!Reduce(r, b), ns)
            /\ \A q : q # r => T!Reduce(q, b \o ns) = T!Reduce(q, b)
<1> DEFINE Shown(ns) ==
             Numbered(b \o ns) /\ (\A i \in DOMAIN ns : ns[i].run = r) =>
               /\ T!Reduce(r, b \o ns) = Replay(T!Reduce(r, b), ns)
               /\ \A q : q # r => T!Reduce(q, b \o ns) = T!Reduce(q, b)
           Good == {n \in Nat : \A ns \in Seq(Entry) : Len(ns) = n => Shown(ns)}
<1>0. \A s : Replay(s, <<>>) = s
  <2>1. <<>> \in Seq({0}) /\ 0 \in {0}
    OBVIOUS
  <2> QED BY <2>1, ReplayOneMore
<1>1. 0 \in Good
  <2>1. ASSUME NEW ns \in Seq(Entry), Len(ns) = 0 PROVE Shown(ns)
    <3>1. ns = <<>> /\ b \o ns = b
      BY <2>1, ConcatEmptySeq
    <3> QED BY <3>1, <1>0
  <2> HIDE DEF Shown
  <2> QED BY <2>1
<1>2. ASSUME NEW n \in Nat, n \in Good PROVE n + 1 \in Good
  <2>1. ASSUME NEW ns \in Seq(Entry), Len(ns) = n + 1, Numbered(b \o ns),
               \A i \in DOMAIN ns : ns[i].run = r
        PROVE /\ T!Reduce(r, b \o ns) = Replay(T!Reduce(r, b), ns)
              /\ \A q : q # r => T!Reduce(q, b \o ns) = T!Reduce(q, b)
    <3>1. ns # <<>>
      BY <2>1
    <3>2. PICK ms \in Seq(Entry), e \in Entry : ns = Append(ms, e)
      BY <3>1, SequenceEmptyOrAppend
    <3>3. Len(ms) = n /\ DOMAIN ms = 1 .. n /\ ns[n + 1] = e /\ n + 1 \in DOMAIN ns
          /\ \A i \in 1 .. n : i \in DOMAIN ns /\ ns[i] = ms[i]
      BY <2>1, <3>2
    <3>4. e.run = r /\ \A i \in DOMAIN ms : ms[i].run = r
      BY <2>1, <3>3
    <3>5. b \o ns = Append(b \o ms, e) /\ b \o ms \in Seq(Entry)
      <4>1. ns = ms \o <<e>> /\ <<e>> \in Seq(Entry) /\ b \o ms \in Seq(Entry)
        BY <3>2, AppendIsConcat, ConcatProperties
      <4>2. Append(b \o ms, e) = (b \o ms) \o <<e>>
        BY <4>1, AppendIsConcat
      <4> QED BY <4>1, <4>2, ConcatAssociative
    <3>6. Numbered(b \o ms)
      BY <2>1, <3>5, NumberedFront
    <3>7. /\ T!Reduce(r, b \o ms) = Replay(T!Reduce(r, b), ms)
          /\ \A q : q # r => T!Reduce(q, b \o ms) = T!Reduce(q, b)
      BY <1>2, <3>3, <3>4, <3>6
    <3>8. \A q : T!EventsOf(q, b \o ns) = IF e.run = q THEN Append(T!EventsOf(q, b \o ms), e)
                                          ELSE T!EventsOf(q, b \o ms)
      <4>1. PICK c : c = b \o ms
        OBVIOUS
      <4>2. c \in Seq(Entry) /\ Numbered(Append(c, e)) /\ b \o ns = Append(c, e)
        BY <2>1, <3>5, <4>1
      <4>3. \A q : T!EventsOf(q, Append(c, e)) = IF e.run = q THEN Append(T!EventsOf(q, c), e)
                                                 ELSE T!EventsOf(q, c)
        BY <4>2, EventsGrow
      <4> QED BY <4>1, <4>2, <4>3
    <3>9. ASSUME NEW q, q # r PROVE T!Reduce(q, b \o ns) = T!Reduce(q, b)
      BY <3>4, <3>7, <3>8, <3>9 DEF T!Reduce
    <3>10. T!EventsOf(r, b \o ms) \in Seq(Entry)
      <4>1. OwnEvents(r, b \o ms) \subseteq Entry
        BY <3>5 DEF OwnEvents
      <4> QED BY <4>1, <3>6, EventsAreOwn
    <3>11. \A q, c : T!Reduce(q, c) = Replay(None, T!EventsOf(q, c))
      BY DEF T!Reduce, Replay
    <3>12. T!Reduce(r, b \o ns) = T!Apply(T!Reduce(r, b \o ms), e)
      <4>1. PICK es : es = T!EventsOf(r, b \o ms)
        OBVIOUS
      <4>2. Replay(None, Append(es, e)) = T!Apply(Replay(None, es), e)
        BY <3>10, <4>1, ReplayOneMore
      <4>3. T!EventsOf(r, b \o ns) = Append(es, e)
        BY <3>4, <3>8, <4>1
      <4> QED BY <3>11, <4>1, <4>2, <4>3
    <3>13. Replay(T!Reduce(r, b), ns) = T!Apply(Replay(T!Reduce(r, b), ms), e)
      BY <3>2, ReplayOneMore
    <3> QED BY <3>7, <3>9, <3>12, <3>13
  <2> QED BY <2>1
<1>3. Nat \subseteq Good
  <2> HIDE DEF Good
  <2> QED BY <1>1, <1>2, EveryNumber
<1>4. ASSUME NEW ns \in Seq(Entry) PROVE Shown(ns)
  <2>1. Len(ns) \in Nat
    OBVIOUS
  <2> HIDE DEF Shown
  <2> QED BY <2>1, <1>3
<1> QED BY <1>4

\* All but what asks runs to stop.
Noted ==
  /\ Numbered(branch) /\ \A b \in others : Numbered(b)
  /\ seqs \in [Run -> Nat] /\ \A r \in Run : seqs[r] <= Len(branch)
  /\ \A i \in DOMAIN branch : branch[i].seq <= seqs[branch[i].run]
  /\ records = [r \in Run |-> T!Reduce(r, branch)]

\* What the session keeps is what its branch says, and the numbers go on from those given.
BooksInv == Noted /\ reasons = {r \in Run : T!StopPending(r, branch)}

\* A draft of events that is numbered on.
LEMMA Drafted ==
  ASSUME Noted, NEW r \in Run, NEW es \in Seq(Sketch), T!Emit(r, es)
  PROVE \E ns \in Seq(Entry) :
          /\ Len(ns) = Len(es) /\ branch' = branch \o ns /\ others' = others
          /\ \A i \in 1 .. Len(es) : ns[i].run = r /\ ns[i].kind = es[i].kind /\ ns[i].seq = seqs[r] + i
          /\ seqs' = [seqs EXCEPT ![r] = @ + Len(es)]
          /\ records' = [records EXCEPT ![r] = Replay(@, ns)]
<1> DEFINE numbered == [i \in DOMAIN es |-> [run |-> r, seq |-> seqs[r] + i, kind |-> es[i].kind,
                          stage |-> es[i].stage, member |-> es[i].member, ok |-> es[i].ok]]
<1>1. DOMAIN es = 1 .. Len(es) /\ Len(es) \in Nat /\ seqs[r] \in Nat /\ \A i \in 1 .. Len(es) : es[i] \in Sketch
  BY DEF Noted
<1>2. ASSUME NEW i \in 1 .. Len(es) PROVE numbered[i] \in Entry
  <2>1. es[i] \in Sketch /\ seqs[r] + i \in Nat
    BY <1>1
  <2>2. numbered[i] = [run |-> r, seq |-> seqs[r] + i, kind |-> es[i].kind,
                       stage |-> es[i].stage, member |-> es[i].member, ok |-> es[i].ok]
    BY <1>1
  <2> QED BY <2>1, <2>2 DEF Sketch, Entry
<1>3. numbered \in Seq(Entry) /\ Len(numbered) = Len(es)
  BY <1>1, <1>2
<1>4. \A i \in 1 .. Len(es) : numbered[i].run = r /\ numbered[i].kind = es[i].kind /\ numbered[i].seq = seqs[r] + i
  BY <1>1
<1>5. branch' = branch \o numbered /\ others' = others /\ seqs' = [seqs EXCEPT ![r] = @ + Len(es)]
  BY DEF T!Emit
<1>6. records' = [records EXCEPT ![r] = Replay(@, numbered)]
  BY DEF T!Emit, Replay
<1> HIDE DEF numbered
<1> QED BY <1>3, <1>4, <1>5, <1>6

\* A branch that is numbered stays so with events whose numbers go on.
LEMMA NumbersGoOn ==
  ASSUME NEW b, Numbered(b), NEW ns \in Seq(Entry), NEW r, NEW n \in Nat, n <= Len(b),
         \A i \in DOMAIN b : b[i].run = r => b[i].seq <= n,
         \A i \in 1 .. Len(ns) : ns[i].run = r /\ ns[i].seq = n + i
  PROVE Numbered(b \o ns)
<1>1. b \in Seq(Entry) /\ Len(b) \in Nat /\ Len(ns) \in Nat /\ DOMAIN b = 1 .. Len(b)
  BY DEF Numbered
<1> DEFINE t == b \o ns
           m == Len(b)
<1>2. t \in Seq(Entry) /\ DOMAIN t = 1 .. m + Len(ns)
      /\ (\A i \in 1 .. m : t[i] = b[i]) /\ (\A i \in m + 1 .. m + Len(ns) : t[i] = ns[i - m])
  BY <1>1
<1> HIDE DEF t
<1>3. \A i \in m + 1 .. m + Len(ns) : t[i].run = r /\ t[i].seq = n + (i - m)
  <2>1. ASSUME NEW i \in m + 1 .. m + Len(ns) PROVE t[i].run = r /\ t[i].seq = n + (i - m)
    <3>1. i - m \in 1 .. Len(ns)
      BY <1>1
    <3> QED BY <1>2, <3>1
  <2> QED BY <2>1
<1>4. ASSUME NEW i \in DOMAIN t PROVE t[i].seq \in 1 .. i
  <2>1. CASE i \in 1 .. m
    BY <1>1, <1>2, <2>1 DEF Numbered
  <2>2. CASE i \in m + 1 .. m + Len(ns)
    BY <1>1, <1>3, <2>2
  <2> QED BY <1>1, <1>2, <2>1, <2>2
<1>5. ASSUME NEW i \in DOMAIN t, NEW j \in DOMAIN t, i < j, t[i].run = t[j].run PROVE t[i].seq < t[j].seq
  <2>1. CASE j \in 1 .. m
    <3>1. i \in 1 .. m
      BY <1>1, <1>2, <1>5, <2>1
    <3> QED BY <1>1, <1>2, <1>5, <2>1, <3>1 DEF Numbered
  <2>2. CASE i \in 1 .. m /\ j \in m + 1 .. m + Len(ns)
    <3>1. b[i].run = r /\ t[i] = b[i] /\ t[j].seq = n + (j - m) /\ b[i].seq <= n
      BY <1>1, <1>2, <1>3, <1>5, <2>2
    <3>2. b[i].seq \in Nat
      BY <1>1, <2>2 DEF Numbered
    <3> QED BY <1>1, <2>2, <3>1, <3>2
  <2>3. CASE i \in m + 1 .. m + Len(ns) /\ j \in m + 1 .. m + Len(ns)
    BY <1>1, <1>3, <1>5, <2>3
  <2> QED BY <1>1, <1>2, <1>5, <2>1, <2>2, <2>3
<1>6. \A i \in DOMAIN t : t[i].seq \in 1 .. i
  BY <1>4
<1>7. \A i, j \in DOMAIN t : i < j /\ t[i].run = t[j].run => t[i].seq < t[j].seq
  BY <1>5
<1>8. Numbered(t)
  BY <1>2, <1>6, <1>7 DEF Numbered
<1> QED BY <1>8 DEF t

\* Recording events keeps the books.
LEMMA EmitNotes ==
  ASSUME Noted, NEW r \in Run, NEW es \in Seq(Sketch), T!Emit(r, es)
  PROVE /\ Noted'
        /\ \E ns \in Seq(Entry) :
             /\ Len(ns) = Len(es) /\ branch' = branch \o ns
             /\ \A i \in 1 .. Len(es) : ns[i].run = r /\ ns[i].kind = es[i].kind
<1>1. PICK ns \in Seq(Entry) :
        /\ Len(ns) = Len(es) /\ branch' = branch \o ns /\ others' = others
        /\ \A i \in 1 .. Len(es) : ns[i].run = r /\ ns[i].kind = es[i].kind /\ ns[i].seq = seqs[r] + i
        /\ seqs' = [seqs EXCEPT ![r] = @ + Len(es)]
        /\ records' = [records EXCEPT ![r] = Replay(@, ns)]
  BY Drafted
<1>2. branch \in Seq(Entry) /\ Len(branch) \in Nat /\ Len(ns) \in Nat /\ seqs[r] \in Nat /\ seqs[r] <= Len(branch)
      /\ DOMAIN branch = 1 .. Len(branch)
  BY DEF Noted, Numbered
<1>3. \A i \in DOMAIN branch : branch[i].run = r => branch[i].seq <= seqs[r]
  BY DEF Noted
<1>4. Numbered(branch')
  <2>1. \A i \in 1 .. Len(ns) : ns[i].run = r /\ ns[i].seq = seqs[r] + i
    BY <1>1
  <2>2. Numbered(branch)
    BY DEF Noted
  <2>3. Numbered(branch \o ns)
    BY <1>2, <1>3, <2>1, <2>2, NumbersGoOn
  <2> QED BY <1>1, <2>3
<1>5. Len(branch') = Len(branch) + Len(ns) /\ DOMAIN branch' = 1 .. Len(branch) + Len(ns)
      /\ (\A i \in 1 .. Len(branch) : branch'[i] = branch[i])
      /\ (\A i \in Len(branch) + 1 .. Len(branch) + Len(ns) : branch'[i] = ns[i - Len(branch)])
  <2>1. PICK t : t = branch \o ns
    OBVIOUS
  <2>2. Len(t) = Len(branch) + Len(ns) /\ DOMAIN t = 1 .. Len(branch) + Len(ns)
        /\ (\A i \in 1 .. Len(branch) : t[i] = branch[i])
        /\ (\A i \in Len(branch) + 1 .. Len(branch) + Len(ns) : t[i] = ns[i - Len(branch)])
    BY <1>2, <2>1
  <2> QED BY <1>1, <2>1, <2>2
<1>6. seqs' \in [Run -> Nat] /\ seqs'[r] = seqs[r] + Len(ns) /\ \A q \in Run : q # r => seqs'[q] = seqs[q]
  BY <1>1, <1>2 DEF Noted
<1>7. ASSUME NEW q \in Run PROVE seqs'[q] <= Len(branch')
  <2>1. seqs[q] \in Nat /\ seqs[q] <= Len(branch)
    BY DEF Noted
  <2> QED BY <1>2, <1>5, <1>6, <2>1
<1>8. ASSUME NEW i \in DOMAIN branch' PROVE branch'[i].seq <= seqs'[branch'[i].run]
  <2>1. CASE i \in 1 .. Len(branch)
    <3>1. branch'[i] = branch[i] /\ branch[i] \in Entry /\ branch[i].seq <= seqs[branch[i].run]
      BY <1>2, <1>5, <2>1 DEF Noted
    <3>2. branch[i].run \in Run /\ branch[i].seq \in Nat
      BY <3>1 DEF Entry
    <3>3. seqs[branch[i].run] \in Nat
      BY <3>2 DEF Noted
    <3> QED BY <1>2, <1>6, <3>1, <3>2, <3>3
  <2>2. CASE i \in Len(branch) + 1 .. Len(branch) + Len(ns)
    <3>1. i - Len(branch) \in 1 .. Len(ns)
      BY <1>2, <2>2
    <3>2. branch'[i].run = r /\ branch'[i].seq = seqs[r] + (i - Len(branch))
      BY <1>1, <1>5, <2>2, <3>1
    <3> QED BY <1>2, <1>6, <3>1, <3>2
  <2> QED BY <1>2, <1>5, <2>1, <2>2
<1>9. records' = [q \in Run |-> T!Reduce(q, branch')]
  <2>1. \A i \in DOMAIN ns : ns[i].run = r
    BY <1>1
  <2>2. Numbered(branch \o ns)
    BY <1>1, <1>4
  <2>3. /\ T!Reduce(r, branch \o ns) = Replay(T!Reduce(r, branch), ns)
        /\ \A q : q # r => T!Reduce(q, branch \o ns) = T!Reduce(q, branch)
    BY <1>2, <2>1, <2>2, ReplayGrows
  <2>4. records = [q \in Run |-> T!Reduce(q, branch)]
    BY DEF Noted
  <2>5. records' = [q \in Run |-> IF q = r THEN Replay(records[r], ns) ELSE records[q]]
    BY <1>1, <2>4
  <2>6. \A q \in Run : (IF q = r THEN Replay(records[r], ns) ELSE records[q]) = T!Reduce(q, branch \o ns)
    BY <2>3, <2>4
  <2> QED BY <1>1, <2>5, <2>6
<1>10. \A b \in others' : Numbered(b)
  BY <1>1 DEF Noted
<1>11. Noted'
  BY <1>4, <1>6, <1>7, <1>8, <1>9, <1>10 DEF Noted
<1> QED BY <1>1, <1>11

Quiet == Kinds \ ({"stop_requested"} \cup T!Terminal)

\* The three ways in which recording bears on a run's stop: events of other kinds or runs leave it
\* as it was, a stop is pending once it is requested, and no longer once the run has ended.
LEMMA StopSeen ==
  ASSUME NEW b \in Seq(Entry), NEW ns \in Seq(Entry), NEW r, \A i \in 1 .. Len(ns) : ns[i].run = r
  PROVE /\ \A q : q # r \/ (\A i \in 1 .. Len(ns) : ns[i].kind \in Quiet) =>
             (T!StopPending(q, b \o ns) <=> T!StopPending(q, b))
        /\ Len(ns) = 1 /\ ns[1].kind = "stop_requested" => T!StopPending(r, b \o ns)
        /\ Len(ns) = 1 /\ ns[1].kind \in T!Terminal => ~T!StopPending(r, b \o ns)
<1> DEFINE t == b \o ns
           m == Len(b)
           k == Len(ns)
<1>1. /\ m \in Nat /\ k \in Nat /\ DOMAIN b = 1 .. m /\ DOMAIN t = 1 .. m + k /\ Len(t) = m + k
      /\ (\A i \in 1 .. m : t[i] = b[i]) /\ (\A i \in m + 1 .. m + k : t[i] = ns[i - m])
  OBVIOUS
<1> HIDE DEF t
<1>2. \A i \in m + 1 .. m + k : i - m \in 1 .. k
  BY <1>1
<1>3. \A i \in m + 1 .. m + k : t[i].run = r
  BY <1>1, <1>2
<1>4. ASSUME NEW q, q # r \/ \A i \in 1 .. k : ns[i].kind \in Quiet
      PROVE T!StopPending(q, t) <=> T!StopPending(q, b)
  <2>1. \A i \in m + 1 .. m + k : t[i].run = q => t[i].kind \in Quiet
    BY <1>1, <1>2, <1>3, <1>4
  <2>2. \A x \in Quiet : x # "stop_requested" /\ x \notin T!Terminal
    BY DEF Quiet
  <2>3. ASSUME NEW i \in 1 .. m
        PROVE (\A j \in i + 1 .. m + k : t[j].run = q => t[j].kind \notin T!Terminal)
              <=> (\A j \in i + 1 .. m : b[j].run = q => b[j].kind \notin T!Terminal)
    <3>1. \A j \in i + 1 .. m + k : j \in i + 1 .. m \/ j \in m + 1 .. m + k
      BY <1>1
    <3>2. \A j \in i + 1 .. m : j \in i + 1 .. m + k /\ j \in 1 .. m
      BY <1>1
    <3> QED BY <1>1, <2>1, <2>2, <3>1, <3>2
  <2>4. \A i \in 1 .. m + k : i \in 1 .. m \/ i \in m + 1 .. m + k
    BY <1>1
  <2>5. \A i \in 1 .. m : i \in 1 .. m + k
    BY <1>1
  <2> QED BY <1>1, <2>1, <2>2, <2>3, <2>4, <2>5 DEF T!StopPending
<1>5. ASSUME k = 1, ns[1].kind = "stop_requested" PROVE T!StopPending(r, t)
  <2>1. m + 1 \in 1 .. m + k /\ t[m + 1] = ns[1] /\ \A j \in m + 1 + 1 .. m + k : FALSE
    <3>1. m + 1 \in m + 1 .. m + k /\ m + 1 \in 1 .. m + k /\ m + 1 - m = 1
          /\ \A j \in m + 1 + 1 .. m + k : FALSE
      BY <1>1, <1>5
    <3> QED BY <1>1, <3>1
  <2>2. t[m + 1].run = r
    BY <1>5, <2>1
  <2> QED BY <1>1, <1>5, <2>1, <2>2 DEF T!StopPending
<1>6. ASSUME k = 1, ns[1].kind \in T!Terminal PROVE ~T!StopPending(r, t)
  <2>1. m + 1 \in m + 1 .. m + k /\ m + 1 - m = 1
    BY <1>1, <1>6
  <2>2. t[m + 1] = ns[1] /\ t[m + 1].run = r
    BY <1>1, <1>3, <2>1
  <2>3. ASSUME NEW i \in 1 .. m + k, t[i].kind = "stop_requested",
               \A j \in i + 1 .. m + k : t[j].run = r => t[j].kind \notin T!Terminal
        PROVE FALSE
    <3>1. CASE i = m + 1
      BY <1>6, <2>2, <2>3, <3>1 DEF T!Terminal
    <3>2. CASE i # m + 1
      <4>1. m + 1 \in i + 1 .. m + k
        BY <1>1, <1>6, <3>2
      <4> QED BY <1>6, <2>2, <2>3, <4>1
    <3> QED BY <3>1, <3>2
  <2> QED BY <1>1, <2>3 DEF T!StopPending
<1> QED BY <1>4, <1>5, <1>6 DEF t

\* The events that are recorded while a run goes on.
LEMMA EmitQuietly ==
  ASSUME BooksInv, NEW r \in Run, NEW es \in Seq(Sketch), T!Emit(r, es), reasons' = reasons,
         \A i \in 1 .. Len(es) : es[i].kind \in Quiet
  PROVE BooksInv'
<1>1. PICK ns \in Seq(Entry) :
        /\ Len(ns) = Len(es) /\ branch' = branch \o ns
        /\ \A i \in 1 .. Len(es) : ns[i].run = r /\ ns[i].kind = es[i].kind
  BY EmitNotes DEF BooksInv
<1>2. branch \in Seq(Entry)
  BY DEF BooksInv, Noted, Numbered
<1>3. \A q : T!StopPending(q, branch \o ns) <=> T!StopPending(q, branch)
  BY <1>1, <1>2, StopSeen
<1>4. Noted'
  BY EmitNotes DEF BooksInv
<1> QED BY <1>1, <1>3, <1>4 DEF BooksInv

\* Of an event no more is said than what is drafted.
LEMMA PlainDrafted ==
  ASSUME NEW kind \in Kinds, 1 \in Member
  PROVE <<T!Plain(kind)>> \in Seq(Sketch) /\ Len(<<T!Plain(kind)>>) = 1 /\ <<T!Plain(kind)>>[1].kind = kind
<1>1. T!Plain(kind) \in Sketch /\ T!Plain(kind).kind = kind
  BY DEF T!Plain, T!Ev, Sketch, Places
<1> QED BY <1>1

\* The request of a stop, and the end of a run.
LEMMA EmitStops ==
  ASSUME BooksInv, NEW r \in Run, NEW kind \in Kinds, 1 \in Member, T!Emit(r, <<T!Plain(kind)>>),
         \/ kind = "stop_requested" /\ reasons' = reasons \cup {r}
         \/ kind \in T!Terminal /\ reasons' = reasons \ {r}
  PROVE BooksInv'
<1>1. PICK es : es = <<T!Plain(kind)>>
  OBVIOUS
<1>2. es \in Seq(Sketch) /\ Len(es) = 1 /\ es[1].kind = kind /\ T!Emit(r, es)
  BY <1>1, PlainDrafted
<1>3. Noted
  BY DEF BooksInv
<1>4. PICK ns \in Seq(Entry) :
        /\ Len(ns) = Len(es) /\ branch' = branch \o ns
        /\ \A i \in 1 .. Len(es) : ns[i].run = r /\ ns[i].kind = es[i].kind
  BY <1>2, <1>3, EmitNotes
<1>5. Noted'
  BY <1>2, <1>3, EmitNotes
<1>6. branch \in Seq(Entry) /\ Len(ns) = 1 /\ ns[1].kind = kind /\ \A i \in 1 .. Len(ns) : ns[i].run = r
  BY <1>2, <1>3, <1>4 DEF Noted, Numbered
<1>7. \A q : q # r => (T!StopPending(q, branch \o ns) <=> T!StopPending(q, branch))
  BY <1>6, StopSeen
<1>8. kind = "stop_requested" => T!StopPending(r, branch \o ns)
  BY <1>6, StopSeen
<1>9. kind \in T!Terminal => ~T!StopPending(r, branch \o ns)
  BY <1>6, StopSeen
<1>10. reasons = {q \in Run : T!StopPending(q, branch)}
  BY DEF BooksInv
<1>11. reasons' = {q \in Run : T!StopPending(q, branch \o ns)}
  BY <1>7, <1>8, <1>9, <1>10
<1> QED BY <1>4, <1>5, <1>11 DEF BooksInv

\* Reading a branch up to one of its events gives what the books ask for.
LEMMA RehydrateKeeps ==
  ASSUME NEW b, Numbered(b), \A c \in others' : Numbered(c), NEW n \in 0 .. Len(b),
         T!Rehydrate(SubSeq(b, 1, n))
  PROVE BooksInv'
<1>1. PICK s : s = SubSeq(b, 1, n)
  OBVIOUS
<1>2. Numbered(s) /\ Len(s) = n
  BY <1>1, NumberedPart
<1>3. s \in Seq(Entry) /\ n \in Nat /\ DOMAIN s = 1 .. n
  BY <1>2 DEF Numbered
<1>4. /\ branch' = s /\ records' = [r \in Run |-> T!Reduce(r, s)]
      /\ reasons' = {r \in Run : T!StopPending(r, s)} /\ seqs' = [r \in Run |-> T!LastSeq(r, s)]
  BY <1>1 DEF T!Rehydrate
<1>5. ASSUME NEW r \in Run
      PROVE /\ T!LastSeq(r, s) \in Nat /\ T!LastSeq(r, s) <= n
            /\ \A i \in 1 .. n : s[i].run = r => s[i].seq <= T!LastSeq(r, s)
  <2>1. PICK S : S = {0} \cup {s[i].seq : i \in {j \in DOMAIN s : s[j].run = r}}
    OBVIOUS
  <2>2. \A i \in 1 .. n : s[i].seq \in 0 .. n
    <3>1. ASSUME NEW i \in 1 .. n PROVE s[i].seq \in 0 .. n
      <4>1. s[i].seq \in 1 .. i
        BY <1>2, <1>3 DEF Numbered
      <4> QED BY <1>3, <4>1
    <3> QED BY <3>1
  <2>3. S \in SUBSET (0 .. n) /\ S # {} /\ \A i \in 1 .. n : s[i].run = r => s[i].seq \in S
    BY <1>3, <2>1, <2>2
  <2>4. T!LastSeq(r, s) = Last(S)
    BY <2>1 DEF T!LastSeq, T!Max, Last
  <2>5. Last(S) \in S /\ \A y \in S : Last(S) >= y
    BY <1>3, <2>3, LastIn
  <2>6. Last(S) \in 0 .. n
    BY <2>3, <2>5
  <2>7. \A i \in 1 .. n : s[i].run = r => Last(S) >= s[i].seq /\ s[i].seq \in 0 .. n
    BY <2>2, <2>3, <2>5
  <2> QED BY <1>3, <2>4, <2>6, <2>7
<1>6. ASSUME NEW i \in 1 .. n PROVE s[i].seq <= seqs'[s[i].run]
  <2>1. s[i] \in Entry
    BY <1>3
  <2>2. s[i].run \in Run
    BY <2>1 DEF Entry
  <2> QED BY <1>4, <1>5, <2>2
<1>7. seqs' \in [Run -> Nat] /\ \A r \in Run : seqs'[r] <= Len(branch')
  BY <1>2, <1>4, <1>5
<1>8. \A i \in DOMAIN branch' : branch'[i].seq <= seqs'[branch'[i].run]
  BY <1>3, <1>4, <1>6
<1> QED BY <1>2, <1>4, <1>7, <1>8 DEF BooksInv, Noted

\* A move goes to a numbered branch and keeps one.
LEMMA MoveKeeps == ASSUME BooksInv, T!Move PROVE BooksInv'
<1>1. PICK b \in others \cup {branch} : \E n \in 0 .. Len(b) : T!Rehydrate(SubSeq(b, 1, n))
  BY DEF T!Move
<1>2. Numbered(b) /\ \A c \in others' : Numbered(c)
  BY DEF T!Move, BooksInv, Noted
<1> QED BY <1>1, <1>2, RehydrateKeeps

\* One node or more, numbered from one.
LEMMA FirstMember == 1 \in Member
BY ServicesAssumption DEF T!TeamAssumption

\* The events a stage begins with say nothing about a stop.
LEMMA StartsDrafted ==
  ASSUME NEW stage \in T!Stages
  PROVE T!Starts(stage) \in Seq(Sketch) /\ \A i \in 1 .. Len(T!Starts(stage)) : T!Starts(stage)[i].kind \in Quiet
<1>1. PICK n \in Nat \ {0} : Member = 1 .. n
  BY ServicesAssumption DEF T!TeamAssumption
<1>2. \E k \in Nat : T!Members(stage) = 1 .. k /\ 1 .. k \subseteq Member
  <2>1. {1} = 1 .. 1 /\ 1 .. 1 \subseteq Member
    BY <1>1
  <2> QED BY <1>1, <2>1 DEF T!Members
<1>3. PICK k \in Nat : T!Members(stage) = 1 .. k /\ 1 .. k \subseteq Member
  BY <1>2
<1>4. ASSUME NEW m \in Member
      PROVE T!Ev("node_started", stage, m, FALSE) \in Sketch /\ T!Ev("node_started", stage, m, FALSE).kind \in Quiet
  BY DEF T!Ev, Sketch, Kinds, Places, Quiet, T!Terminal
<1>5. T!Starts(stage) = [m \in 1 .. k |-> T!Ev("node_started", stage, m, FALSE)]
  BY <1>3 DEF T!Starts
<1>6. PICK s : s = T!Starts(stage)
  OBVIOUS
<1>7. DOMAIN s = 1 .. k /\ s = [m \in 1 .. k |-> s[m]] /\ \A m \in 1 .. k : s[m] \in Sketch /\ s[m].kind \in Quiet
  BY <1>3, <1>4, <1>5, <1>6
<1>8. s \in Seq(Sketch) /\ Len(s) = k
  <2>1. s \in [1 .. k -> Sketch]
    BY <1>7
  <2>2. s \in Seq(Sketch)
    BY <1>3, <2>1, SeqDef
  <2> QED BY <1>3, <1>7, <2>2, LenProperties
<1> QED BY <1>6, <1>7, <1>8

\* A phase, where a stage records one, says nothing about a stop.
LEMMA PhaseDrafted ==
  ASSUME NEW p, NEW stage
  PROVE T!Phase(p, stage) \in Seq(Sketch) /\ \A i \in 1 .. Len(T!Phase(p, stage)) : T!Phase(p, stage)[i].kind \in Quiet
<1>1. "phase" \in Kinds /\ "phase" \in Quiet
  BY DEF Kinds, Quiet, T!Terminal
<1>2. PICK one : one = <<T!Plain("phase")>>
  OBVIOUS
<1>3. one \in Seq(Sketch) /\ Len(one) = 1 /\ one[1].kind \in Quiet
  BY <1>1, <1>2, FirstMember, PlainDrafted
<1>4. <<>> \in Seq(Sketch) /\ Len(<<>>) = 0
  OBVIOUS
<1>5. T!Phase(p, stage) = one \/ T!Phase(p, stage) = <<>>
  BY <1>2 DEF T!Phase
<1>6. CASE T!Phase(p, stage) = <<>>
  <2>1. \A i \in 1 .. Len(<<>>) : FALSE
    OBVIOUS
  <2> QED BY <1>4, <1>6, <2>1
<1>7. CASE T!Phase(p, stage) = one
  <2>1. \A i \in 1 .. Len(one) : i = 1
    BY <1>3
  <2>2. \A i \in 1 .. Len(one) : one[i].kind \in Quiet
    BY <1>3, <2>1
  <2> QED BY <1>3, <1>7, <2>2
<1> QED BY <1>5, <1>6, <1>7

\* A run goes to a stage.
LEMMA EnterBooks ==
  ASSUME BooksInv, NEW r \in Run, NEW stage \in T!Stages, NEW loop, NEW es \in Seq(Sketch), T!Enter(r, stage, loop, es),
         \A i \in 1 .. Len(es) : es[i].kind \in Quiet
  PROVE BooksInv'
<1>1. PICK ss : ss = T!Starts(stage)
  OBVIOUS
<1>2. ss \in Seq(Sketch) /\ \A i \in 1 .. Len(ss) : ss[i].kind \in Quiet
  BY <1>1, StartsDrafted
<1>3. PICK t : t = es \o ss
  OBVIOUS
<1>4. t \in Seq(Sketch) /\ \A i \in 1 .. Len(t) : t[i].kind \in Quiet
  <2>1. Len(t) = Len(es) + Len(ss) /\ Len(es) \in Nat /\ Len(ss) \in Nat /\ t \in Seq(Sketch)
        /\ (\A i \in 1 .. Len(es) : t[i] = es[i])
        /\ (\A i \in Len(es) + 1 .. Len(es) + Len(ss) : t[i] = ss[i - Len(es)] /\ i - Len(es) \in 1 .. Len(ss))
    BY <1>2, <1>3
  <2>2. \A i \in 1 .. Len(t) : i \in 1 .. Len(es) \/ i \in Len(es) + 1 .. Len(es) + Len(ss)
    BY <2>1
  <2> QED BY <1>2, <2>1, <2>2
<1>5. T!Emit(r, t) /\ reasons' = reasons
  BY <1>1, <1>3 DEF T!Enter
<1> QED BY <1>4, <1>5, EmitQuietly

\* Nothing is recorded.
LEMMA SameBooks == ASSUME BooksInv, UNCHANGED <<branch, others, records, seqs, reasons>> PROVE BooksInv'
BY DEF BooksInv, Noted

\* The handler of a run begins, or finds the stop.
LEMMA BeginBooks == ASSUME BooksInv, NEW r \in Run, T!Begin(r) PROVE BooksInv'
<1>1. PICK stage : stage = T!First(run[r].protocol)
  OBVIOUS
<1>2. stage \in T!Stages
  BY <1>1 DEF T!First, T!Stages
<1>3. CASE T!Enter(r, stage, 1, T!Phase(run[r].protocol, stage))
  BY <1>2, <1>3, PhaseDrafted, EnterBooks
<1>4. CASE T!Emit(r, T!Phase("debate", stage)) /\ reasons' = reasons
  BY <1>4, PhaseDrafted, EmitQuietly
<1>5. CASE UNCHANGED <<branch, others, records, seqs, reasons>>
  BY <1>5, SameBooks
<1> QED BY <1>1, <1>3, <1>4, <1>5 DEF T!Begin

\* The handler between two stages.
LEMMA StageBooks == ASSUME BooksInv, NEW r \in Run, T!StageOver(r) PROVE BooksInv'
<1>1. CASE UNCHANGED <<branch, others, records, seqs, reasons>>
  BY <1>1, SameBooks
<1>2. ASSUME NEW stage \in T!Stages, NEW loop, NEW p, NEW at,
             T!Enter(r, stage, loop, <<>>) \/ T!Enter(r, stage, loop, T!Phase(p, at))
      PROVE BooksInv'
  <2>1. <<>> \in Seq(Sketch) /\ \A i \in 1 .. Len(<<>>) : FALSE
    OBVIOUS
  <2>2. CASE T!Enter(r, stage, loop, <<>>)
    <3>1. PICK es : es = <<>>
      OBVIOUS
    <3>2. es \in Seq(Sketch) /\ (\A i \in 1 .. Len(es) : es[i].kind \in Quiet) /\ T!Enter(r, stage, loop, es)
      BY <2>1, <2>2, <3>1
    <3> QED BY <3>2, EnterBooks
  <2>3. CASE T!Enter(r, stage, loop, T!Phase(p, at))
    BY <2>3, PhaseDrafted, EnterBooks
  <2> QED BY <1>2, <2>2, <2>3
<1>3. {"critique", "verifier", "explorer", "synthesis"} \subseteq T!Stages
  BY DEF T!Stages
<1> QED BY <1>1, <1>2, <1>3 DEF T!StageOver, T!session

\* A run starts.
LEMMA StartBooks == ASSUME BooksInv, NEW r \in Run, NEW p, T!Start(r, p) PROVE BooksInv'
<1>1. PICK es : es = <<T!Plain("started")>>
  OBVIOUS
<1>2. "started" \in Kinds /\ "started" \in Quiet
  BY DEF Kinds, Quiet, T!Terminal
<1>3. es \in Seq(Sketch) /\ (\A i \in 1 .. Len(es) : es[i].kind \in Quiet)
  BY <1>1, <1>2, FirstMember, PlainDrafted
<1>4. T!Emit(r, es) /\ reasons' = reasons
  BY <1>1 DEF T!Start
<1> QED BY <1>3, <1>4, EmitQuietly

\* A run is over: no stop is pending.
LEMMA OverBooks ==
  ASSUME BooksInv, NEW r \in Run, NEW end \in T!Terminal, T!Emit(r, <<T!Plain(end)>>), reasons' = reasons \ {r}
  PROVE BooksInv'
<1>1. end \in Kinds
  BY DEF Kinds, T!Terminal
<1> QED BY <1>1, FirstMember, EmitStops

\* A stop is asked for: it is recorded and pending, unless it was already.
LEMMA StopBooks == ASSUME BooksInv, NEW r \in Run, T!RequestStop(r) PROVE BooksInv'
<1>1. CASE UNCHANGED <<branch, others, records, seqs, reasons>>
  BY <1>1, SameBooks
<1>2. CASE T!Emit(r, <<T!Plain("stop_requested")>>) /\ reasons' = reasons \cup {r}
  <2>1. "stop_requested" \in Kinds
    BY DEF Kinds
  <2> QED BY <1>2, <2>1, FirstMember, EmitStops
<1> QED BY <1>1, <1>2 DEF T!RequestStop, T!session

\* A node is through, and what became of it is recorded.
LEMMA NodeBooks ==
  ASSUME AskedInv, BooksInv, NEW r \in Run, NEW m \in Member, NEW ok \in BOOLEAN, T!Completes(r, m, ok),
         reasons' = reasons
  PROVE BooksInv'
<1>1. run[r].at \in Places
  BY DEF AskedInv, RunRecord, Places
<1>2. PICK e : e = T!Ev("node_completed", run[r].at, m, ok)
  OBVIOUS
<1>3. e \in Sketch /\ e.kind \in Quiet
  BY <1>1, <1>2 DEF T!Ev, Sketch, Kinds, Quiet, T!Terminal
<1>4. PICK es : es = <<e>>
  OBVIOUS
<1>5. es \in Seq(Sketch) /\ \A i \in 1 .. Len(es) : es[i].kind \in Quiet
  BY <1>3, <1>4
<1>6. T!Emit(r, es)
  BY <1>2, <1>4 DEF T!Completes
<1> QED BY <1>5, <1>6, EmitQuietly

\* Every step of the teams keeps the books.
LEMMA TeamKeepsBooks == ASSUME AskedInv, BooksInv, [T!Next]_teaming PROVE BooksInv'
<1>1. CASE UNCHANGED <<branch, others, records, seqs, reasons>>
  BY <1>1, SameBooks
<1>2. ASSUME NEW r \in Run, T!Fails(r) \/ T!Written(r) \/ T!ResultNotWritten(r) PROVE BooksInv'
  <2>1. PICK end : T!Emit(r, <<T!Plain(end)>>) /\ reasons' = reasons \ {r}
                   /\ (end = "failed" \/ (run[r].at = "writing" /\ end = run[r].end))
    BY <1>2 DEF T!Fails, T!Written, T!ResultNotWritten, T!Over
  <2>2. end \in T!Terminal
    BY <2>1 DEF AskedInv, AskedFact, T!Terminal
  <2> QED BY <2>1, <2>2, OverBooks
<1>3. ASSUME NEW r \in Run, NEW m \in Member, T!Timeout(r, m) \/ T!GraceOver(r, m) \/ \E ok \in BOOLEAN : T!NodeEnds(r, m, ok)
      PROVE BooksInv'
  <2>1. UNCHANGED <<branch, others, records, seqs, reasons>>
        \/ \E ok \in BOOLEAN : T!Completes(r, m, ok) /\ reasons' = reasons
    BY <1>3 DEF T!Timeout, T!GraceOver, T!NodeEnds, T!session
  <2> QED BY <1>1, <2>1, NodeBooks
<1>4. CASE T!ChangeBranch \/ T!Restart
  BY <1>4, MoveKeeps DEF T!ChangeBranch, T!Restart
<1>5. CASE UNCHANGED teaming
  BY <1>1, <1>5 DEF teaming
<1> QED
  BY <1>2, <1>3, <1>4, <1>5, StartBooks, BeginBooks, StageBooks, StopBooks DEF T!Next

\* A new session has nothing on its branch.
LEMMA InitBooks == ASSUME T!Init PROVE BooksInv
<1>1. branch = <<>> /\ others = {} /\ records = [r \in Run |-> None] /\ reasons = {} /\ seqs = [r \in Run |-> 0]
  BY DEF T!Init
<1>2. Numbered(branch) /\ Len(branch) = 0 /\ DOMAIN branch = {}
  <2>1. <<>> \in Seq(Entry) /\ DOMAIN <<>> = {} /\ Len(<<>>) = 0
    OBVIOUS
  <2> QED BY <1>1, <2>1 DEF Numbered
<1>3. ASSUME NEW r \in Run PROVE T!Reduce(r, <<>>) = None /\ ~T!StopPending(r, <<>>)
  <2>1. <<>> \in Seq({0}) /\ 0 \in {0} /\ DOMAIN <<>> = {}
    OBVIOUS
  <2>2. T!EventsOf(r, <<>>) = <<>>
    BY <2>1, EventsOneMore
  <2>3. Replay(None, <<>>) = None
    BY <2>1, ReplayOneMore
  <2> QED BY <2>1, <2>2, <2>3 DEF T!Reduce, Replay, T!StopPending
<1> QED BY <1>1, <1>2, <1>3 DEF BooksInv, Noted

(***************************************************************************)
(* The parts of the sum                                                    *)
(***************************************************************************)

\* A step of the sum is a step of one part and leaves the others' state alone.
LEMMA StepsOfServices ==
  ASSUME [SumNext]_<<part, fleetVars, teaming, watching>> PROVE [T!Next]_teaming /\ [W!Next]_watching
<1>1. CASE InTeam
  BY <1>1 DEF SumNext, InTeam, InFleet, InPeers, T!Next
<1>2. CASE InPeers
  BY <1>2 DEF SumNext, InTeam, InFleet, InPeers, W!Next
<1>3. CASE InFleet
  BY <1>3 DEF InFleet
<1>4. CASE UNCHANGED <<part, fleetVars, teaming, watching>>
  BY <1>4
<1> QED BY <1>1, <1>2, <1>3, <1>4 DEF SumNext

\* A run that was asked to stop before its end was decided does not end completed, whatever its
\* nodes, its result and the session do, unless the session went to another place.
THEOREM ServicesStoppedIsNotCompleted == SumSpec => []StoppedIsNotCompleted
<1>1. SumInit => AskedInv
  BY InitAsked DEF SumInit
<1>2. AskedInv /\ [SumNext]_<<part, fleetVars, teaming, watching>> => AskedInv'
  BY StepsOfServices, TeamKeeps
<1>3. AskedInv => StoppedIsNotCompleted
  BY DEF AskedInv, AskedFact, StoppedIsNotCompleted, T!StoppedIsNotCompleted
<1> QED BY <1>1, <1>2, <1>3, PTL DEF SumSpec

\* What the session keeps of its runs, and of the stops asked for, is what its branch says of them
\* however often branches were changed or the session restarted under a run that records its events.
THEOREM ServicesReplayAgrees == SumSpec => []ReplayAgrees
<1>1. SumInit => AskedInv /\ BooksInv
  BY InitAsked, InitBooks DEF SumInit
<1>2. AskedInv /\ BooksInv /\ [SumNext]_<<part, fleetVars, teaming, watching>> => AskedInv' /\ BooksInv'
  BY StepsOfServices, TeamKeeps, TeamKeepsBooks
<1>3. BooksInv => ReplayAgrees
  <2>1. SUFFICES ASSUME BooksInv, NEW r \in Run
                 PROVE records[r] = T!Reduce(r, branch) /\ (r \in reasons) = T!StopPending(r, branch)
    BY DEF ReplayAgrees, T!ReplayAgrees
  <2>2. records[r] = T!Reduce(r, branch)
    BY <2>1 DEF BooksInv, Noted
  <2>3. r \in reasons <=> T!StopPending(r, branch)
    BY <2>1 DEF BooksInv
  <2>4. T!StopPending(r, branch) \in BOOLEAN
    BY DEF T!StopPending
  <2> QED BY <2>2, <2>3, <2>4
<1> QED BY <1>1, <1>2, <1>3, PTL DEF SumSpec

\* Once a stop has reached a run, none of its nodes starts and no failed call is made again: a
\* timeout, a retry or the end of a stage that comes after the stop finds nothing that runs.
THEOREM ServicesNothingStartsStopped == SumSpec => T!NothingStartsStopped
<1>1. SumInit => AbortInv
  BY InitAbort DEF SumInit
<1>2. AbortInv /\ [SumNext]_<<part, fleetVars, teaming, watching>> => AbortInv' /\ KeepsStopped
  BY StepsOfServices, TeamKeepsStopped
<1>3. KeepsStopped => [\A r \in Run, m \in Member : r \in aborted =>
                         /\ node'[r][m].call = "running" => node[r][m].call = "running"
                         /\ node'[r][m].tries <= node[r][m].tries]_T!teamVars
  BY DEF KeepsStopped, Starts
<1> QED BY <1>1, <1>2, <1>3, PTL DEF SumSpec, T!NothingStartsStopped

\* A peer is called stalled or asleep only after more than the threshold of looks at the same
\* activity, however its status, its errors and its record moved between the looks.
THEOREM ServicesStalledIsSound == SumSpec => []StalledIsSound
<1>1. SumInit => LooksInv
  BY InitLooks DEF SumInit
<1>2. LooksInv /\ [SumNext]_<<part, fleetVars, teaming, watching>> => LooksInv'
  BY StepsOfServices, WatchKeeps
<1>3. LooksInv => StalledIsSound
  BY DEF LooksInv, LooksCounted, StalledIsSound, W!StalledIsSound
<1> QED BY <1>1, <1>2, <1>3, PTL DEF SumSpec
=============================================================================
