---------------------------- MODULE MailboxProofs ----------------------------
(***************************************************************************)
(* Proofs about the inbox of an agent: whatever the number of senders, of  *)
(* messages and of faults, a living session loses no message it read, no   *)
(* message is given twice, those of one sender are given in the order they *)
(* were sent in, and a prompt counts only mail that is there.              *)
(***************************************************************************)
EXTENDS Mailbox, FiniteSetTheorems, WellFoundedInduction, TLAPS

\* What the assumptions say of the constants.
LEMMA MailboxTypes ==
  /\ IsFiniteSet(Msg) /\ Corrupt \subseteq Msg
  /\ Uuid \in [Msg -> Nat] /\ \A m, k \in Msg : Uuid[m] = Uuid[k] => m = k
  /\ MaxClock \in Nat /\ Keep \in Nat /\ MaxPokeRetries \in Nat
  /\ MaxLost \in Nat /\ MaxThrows \in Nat /\ MaxUserTurns \in Nat
BY MailboxAssumption

(***************************************************************************)
(* A finite set of messages can be put in the order of its file names      *)
(***************************************************************************)

Pairs == {ss \in Nat \X Nat : ss[1] < ss[2]}

\* The natural numbers below a number are well-founded.
LEMMA LessIsWellFounded == IsWellFoundedOn(Pairs, Nat)
BY NatLessThanWellFounded DEF OpToRel, Pairs

\* A set of numbers has a least one.
LEMMA LeastNumber ==
  ASSUME NEW T, T \subseteq Nat, T # {}
  PROVE \E n \in T : \A k \in T : n <= k
<1>1. PICK n \in T : \A k \in T : ~(<<k, n>> \in Pairs)
  BY LessIsWellFounded, WFMin
<1>2. ASSUME NEW k \in T PROVE n <= k
  <2>1. n \in Nat /\ k \in Nat /\ ~(k < n)
    BY <1>1 DEF Pairs
  <2> QED
    BY <2>1
<1> QED
  BY <1>2

Stamps == stamp \in [Msg -> -1 .. MaxClock]

\* A set of messages has a first one by file name.
LEMMA FirstByName ==
  ASSUME Stamps, NEW S \in SUBSET Msg, S # {}
  PROVE \E m \in S : \A k \in S \ {m} : Before(m, k)
<1>1. /\ \A m \in S : stamp[m] \in Int /\ stamp[m] + 1 \in Nat /\ Uuid[m] \in Nat
      /\ \A m, k \in S : Uuid[m] = Uuid[k] => m = k
  BY MailboxTypes DEF Stamps
<1> DEFINE T == {stamp[m] + 1 : m \in S}
<1>2. T \subseteq Nat /\ T # {}
  BY <1>1
<1>3. PICK t \in T : \A k \in T : t <= k
  BY <1>2, LeastNumber
<1> DEFINE E == {m \in S : stamp[m] + 1 = t}
           U == {Uuid[m] : m \in E}
<1>4. U \subseteq Nat /\ U # {}
  BY <1>1
<1>5. PICK u \in U : \A k \in U : u <= k
  BY <1>4, LeastNumber
<1>6. PICK m \in E : Uuid[m] = u
  OBVIOUS
<1>7. ASSUME NEW k \in S \ {m} PROVE Before(m, k)
  <2>1. stamp[k] + 1 \in T /\ t <= stamp[k] + 1 /\ stamp[m] + 1 = t
    BY <1>3
  <2>2. stamp[m] <= stamp[k]
    BY <2>1, <1>1
  <2>3. CASE stamp[m] = stamp[k]
    <3>1. Uuid[k] \in U /\ u <= Uuid[k]
      BY <2>3, <2>1, <1>5
    <3> QED
      BY <3>1, <2>3, <1>1, <1>6 DEF Before
  <2> QED
    BY <2>2, <2>3, <1>1 DEF Before
<1> QED
  BY <1>7

Ordering(S, n, q) ==
  q \in [1 .. n -> S] /\ \A i, j \in 1 .. n : i < j => Before(q[i], q[j])

\* The first one before an ordering of the rest is an ordering.
LEMMA FirstThenRest ==
  ASSUME Stamps, NEW S \in SUBSET Msg, NEW n \in Nat \ {0}, NEW m \in S,
         \A k \in S \ {m} : Before(m, k), NEW r, Ordering(S \ {m}, n - 1, r)
  PROVE Ordering(S, n, [i \in 1 .. n |-> IF i = 1 THEN m ELSE r[i - 1]])
<1> DEFINE q == [i \in 1 .. n |-> IF i = 1 THEN m ELSE r[i - 1]]
<1>1. \A i \in 1 .. n : i # 1 => i - 1 \in 1 .. n - 1 /\ q[i] = r[i - 1] /\ r[i - 1] \in S \ {m}
  BY DEF Ordering
<1>2. q[1] = m
  OBVIOUS
<1>3. q \in [1 .. n -> S]
  BY <1>1
<1>4. ASSUME NEW i \in 1 .. n, NEW j \in 1 .. n, i < j PROVE Before(q[i], q[j])
  <2>1. j # 1
    BY <1>4
  <2>2. CASE i = 1
    BY <2>1, <2>2, <1>1, <1>2
  <2>3. CASE i # 1
    <3>1. i - 1 < j - 1 /\ i - 1 \in 1 .. n - 1 /\ j - 1 \in 1 .. n - 1
      BY <2>1, <2>3, <1>4
    <3>2. Before(r[i - 1], r[j - 1])
      BY <3>1 DEF Ordering
    <3> QED
      BY <3>2, <2>1, <2>3, <1>1
  <2> QED
    BY <2>2, <2>3
<1> QED
  BY <1>3, <1>4 DEF Ordering

\* Every set of messages can be put in the order of the names.
LEMMA OrderingExists ==
  ASSUME Stamps
  PROVE \A S \in SUBSET Msg : \E q : Ordering(S, Cardinality(S), q)
<1> DEFINE Bad == {S \in SUBSET Msg : ~\E q : Ordering(S, Cardinality(S), q)}
           Sizes == {Cardinality(S) : S \in Bad}
<1>1. \A S \in SUBSET Msg : IsFiniteSet(S) /\ Cardinality(S) \in Nat
  BY MailboxTypes, FS_Subset, FS_CardinalityType
<1>2. SUFFICES ASSUME Bad # {} PROVE FALSE
  OBVIOUS
<1>3. PICK n \in Sizes : \A k \in Sizes : n <= k
  <2>1. Sizes \subseteq Nat /\ Sizes # {}
    BY <1>1, <1>2
  <2> QED
    BY <2>1, LeastNumber
<1>4. PICK S \in Bad : Cardinality(S) = n
  OBVIOUS
<1>5. n \in Nat /\ S \in SUBSET Msg
  BY <1>1, <1>4
<1>6. S # {}
  <2>1. SUFFICES ASSUME S = {} PROVE FALSE
    OBVIOUS
  <2>2. Cardinality(S) = 0
    BY <2>1, FS_EmptySet
  <2>3. Ordering(S, 0, [i \in 1 .. 0 |-> i])
    BY DEF Ordering
  <2> QED
    BY <2>2, <2>3, <1>4
<1>7. PICK m \in S : \A k \in S \ {m} : Before(m, k)
  BY <1>5, <1>6, FirstByName
<1>8. Cardinality(S \ {m}) = n - 1 /\ n - 1 \in Nat
  BY <1>1, <1>4, <1>5, FS_RemoveElement
<1>9. S \ {m} \notin Bad
  <2>1. SUFFICES ASSUME S \ {m} \in Bad PROVE FALSE
    OBVIOUS
  <2>2. n - 1 \in Sizes
    BY <2>1, <1>8
  <2> QED
    BY <2>2, <1>3, <1>5
<1>10. PICK r : Ordering(S \ {m}, n - 1, r)
  BY <1>8, <1>9, <1>5
<1>11. n \in Nat \ {0}
  BY <1>8, <1>5
<1>12. \E q : Ordering(S, n, q)
  BY <1>5, <1>7, <1>10, <1>11, FirstThenRest
<1> QED
  BY <1>12, <1>4

\* What a drain receives is a list of messages of the set it reads, each of them once.
LEMMA InOrderLists ==
  ASSUME Stamps, NEW S \in SUBSET Msg
  PROVE /\ InOrder(S) \in Seq(S)
        /\ \A i, j \in DOMAIN InOrder(S) : InOrder(S)[i] = InOrder(S)[j] => i = j
        /\ \A m \in S : \E i \in DOMAIN InOrder(S) : InOrder(S)[i] = m
        /\ \A i, j \in DOMAIN InOrder(S) : i < j => Before(InOrder(S)[i], InOrder(S)[j])
<1> DEFINE n == Cardinality(S)
           q == InOrder(S)
<1>1. IsFiniteSet(S) /\ n \in Nat
  BY MailboxTypes, FS_Subset, FS_CardinalityType
<1>2. \E f \in [1 .. n -> S] : \A i, j \in 1 .. n : i < j => Before(f[i], f[j])
  BY OrderingExists DEF Ordering
<1>3. q \in [1 .. n -> S] /\ \A i, j \in 1 .. n : i < j => Before(q[i], q[j])
  BY <1>2 DEF InOrder
<1> HIDE DEF q
<1>4. ASSUME NEW i \in 1 .. n, NEW j \in 1 .. n, i < j PROVE q[i] # q[j]
  <2>1. Before(q[i], q[j]) /\ q[i] \in Msg
    BY <1>3, <1>4
  <2>2. stamp[q[i]] \in Int /\ Uuid[q[i]] \in Int
    BY <2>1, MailboxTypes DEF Stamps
  <2> QED
    BY <2>1, <2>2 DEF Before
<1>5. \A i, j \in 1 .. n : q[i] = q[j] => i = j
  BY <1>1, <1>4
<1>6. q \in Injection(1 .. n, S)
  BY <1>3, <1>5 DEF Injection, IsInjective
<1>7. Cardinality(1 .. n) = n /\ IsFiniteSet(1 .. n)
  BY <1>1, FS_Interval
<1>8. q \in Surjection(1 .. n, S)
  BY <1>1, <1>6, <1>7, FS_Injection
<1>9. \A m \in S : \E i \in 1 .. n : q[i] = m
  BY <1>8 DEF Surjection
<1>10. DOMAIN q = 1 .. n /\ q \in Seq(S)
  BY <1>1, <1>3
<1>11. q = InOrder(S)
  BY DEF q
<1> QED
  BY <1>3, <1>5, <1>9, <1>10, <1>11

(***************************************************************************)
(* Types                                                                   *)
(***************************************************************************)

MailTypes ==
  /\ now \in 0 .. MaxClock
  /\ stamp \in [Msg -> -1 .. MaxClock]
  /\ tmp \subseteq Msg /\ new \subseteq Msg /\ cur \subseteq Msg
  /\ tmp \cap new = {} /\ tmp \cap cur = {} /\ new \cap cur = {}
  /\ held \in Seq(Msg) /\ returned \in Seq(Msg)
  /\ step \in {"none", "ack", "prune", "return"}
PokeTypes == poke \in [notified : Nat, since : BOOLEAN, retries : Nat, fresh : BOOLEAN, timer : Timer]
TurnTypes ==
  /\ turn \in {"idle", "user", "announced", "later"} /\ prompt \in Nat
  /\ announced \subseteq Msg /\ heard \subseteq Msg /\ queued \in Nat
  /\ life \in {"up", "stopping", "down"}
  /\ faults \in [lost : 0 .. MaxLost, throws : 0 .. MaxThrows, turns : 0 .. MaxUserTurns]

\* Where a message is: in a directory only once it was sent; in hand or given only once it is in
\* no sender's tmp/; given only when it left new/.
Places ==
  /\ tmp \cup new \cup cur \subseteq Sent
  /\ Given \cup InHand \subseteq Sent \ tmp
  /\ Given \cap (InHand \cup new) = {}
  /\ step \in {"prune", "return"} => InHand \cap new = {}
  /\ step = "none" => held = <<>>
  /\ \A i, j \in DOMAIN held : held[i] = held[j] => i = j

\* A prompt that states a count is of the turn that runs, and a drain withdraws it first.
Stated ==
  /\ turn # "announced" => prompt = 0
  /\ step # "none" => prompt = 0

MailInv == MailTypes /\ Places /\ AtMostOnce /\ AtLeastOnce
PromptInv == Stated /\ prompt <= Pending

\* An empty mailbox satisfies the invariant.
LEMMA InitMail == Init => MailInv
<1> SUFFICES ASSUME Init PROVE MailInv
  OBVIOUS
<1>1. MailTypes
  BY MailboxTypes DEF Init, MailTypes
<1>2. Places /\ AtMostOnce /\ AtLeastOnce
  BY DEF Init, Places, Sent, Given, InHand, AtMostOnce, AtLeastOnce
<1> QED
  BY <1>1, <1>2 DEF MailInv

\* What leaves the directories and the drain alone keeps the invariant.
LEMMA SameMail ==
  ASSUME MailInv, UNCHANGED <<mail, drain, life>>
  PROVE MailInv'
<1>1. UNCHANGED <<now, stamp, tmp, new, cur, held, step, returned, life>>
  BY DEF mail, drain
<1>2. MailTypes'
  BY <1>1 DEF MailInv, MailTypes
<1>3. Given' = Given /\ InHand' = InHand /\ Sent' = Sent
  BY <1>1 DEF Given, InHand, Sent
<1>4. Places' /\ AtMostOnce' /\ AtLeastOnce'
  BY <1>1, <1>3 DEF MailInv, Places, AtMostOnce, AtLeastOnce
<1> QED
  BY <1>2, <1>4 DEF MailInv

\* One lemma per file operation: each keeps the invariant of the directories.
LEMMA WriteTmpMail ==
  ASSUME MailInv, NEW m \in Msg, WriteTmp(m)
  PROVE MailInv'
<1>1. /\ m \notin Sent /\ stamp' = [stamp EXCEPT ![m] = now] /\ tmp' = tmp \cup {m}
      /\ UNCHANGED <<now, new, cur, held, step, returned, life>>
  BY DEF WriteTmp, drain
<1>2. m \notin tmp \cup new \cup cur /\ m \notin Given \cup InHand
  BY <1>1 DEF MailInv, Places
<1>3. MailTypes'
  BY <1>1, <1>2, MailboxTypes DEF MailInv, MailTypes
<1>4. Sent' = Sent \cup {m}
  BY <1>1, MailboxTypes DEF MailInv, MailTypes, Sent
<1>5. Given' = Given /\ InHand' = InHand
  BY <1>1 DEF Given, InHand
<1>6. Places'
  BY <1>1, <1>2, <1>4, <1>5 DEF MailInv, Places
<1>7. AtMostOnce' /\ AtLeastOnce'
  BY <1>1, <1>4, <1>5 DEF MailInv, AtMostOnce, AtLeastOnce
<1> QED
  BY <1>3, <1>6, <1>7 DEF MailInv

LEMMA PublishMail ==
  ASSUME MailInv, NEW m \in Msg, Publish(m)
  PROVE MailInv'
<1>1. /\ m \in tmp /\ tmp' = tmp \ {m} /\ new' = new \cup {m}
      /\ UNCHANGED <<now, stamp, cur, held, step, returned, life>>
  BY DEF Publish, drain
<1>2. MailTypes'
  BY <1>1 DEF MailInv, MailTypes
<1>3. Given' = Given /\ InHand' = InHand /\ Sent' = Sent
  BY <1>1 DEF Given, InHand, Sent
<1>4. Places'
  BY <1>1, <1>3 DEF MailInv, Places
<1>5. AtMostOnce' /\ AtLeastOnce'
  BY <1>1, <1>3 DEF MailInv, AtMostOnce, AtLeastOnce
<1> QED
  BY <1>2, <1>4, <1>5 DEF MailInv

LEMMA MillisecondMail ==
  ASSUME MailInv, Millisecond
  PROVE MailInv'
<1>1. now' \in 0 .. MaxClock /\ UNCHANGED <<stamp, tmp, new, cur, held, step, returned, life>>
  BY MailboxTypes DEF MailInv, MailTypes, Millisecond, drain
<1>2. MailTypes'
  BY <1>1 DEF MailInv, MailTypes
<1>3. Places' /\ AtMostOnce' /\ AtLeastOnce'
  BY <1>1 DEF MailInv, Places, AtMostOnce, AtLeastOnce, Sent, Given, InHand
<1> QED
  BY <1>2, <1>3 DEF MailInv

LEMMA StartDrainMail ==
  ASSUME MailInv, step = "none", StartDrain, UNCHANGED <<mail, cur, returned>>,
         life' = life \/ life' = "stopping"
  PROVE MailInv'
<1>1. UNCHANGED <<now, stamp, tmp, new, cur, returned>>
  BY DEF mail
<1> DEFINE R == new \ Corrupt
<1>2. R \in SUBSET Msg /\ Stamps
  BY DEF MailInv, MailTypes, Stamps
<1>3. /\ held' \in Seq(R)
      /\ \A i, j \in DOMAIN held' : held'[i] = held'[j] => i = j
      /\ \A m \in R : \E i \in DOMAIN held' : held'[i] = m
      /\ step' = IF R = {} THEN "return" ELSE "ack"
  BY <1>2, InOrderLists DEF StartDrain, Receive
<1>4. InHand' \subseteq R /\ InHand = {} /\ Given' = Given /\ Sent' = Sent
  BY <1>1, <1>3 DEF InHand, Given, Sent, MailInv, Places
<1>5. MailTypes'
  <2>1. held' \in Seq(Msg)
    BY <1>2, <1>3
  <2> QED
    BY <2>1, <1>1, <1>3 DEF MailInv, MailTypes
<1>6. Places'
  <2>1. InHand' \subseteq new /\ new \subseteq Sent /\ new \cap tmp = {}
    BY <1>4 DEF MailInv, Places, MailTypes
  <2>2. step' # "none" /\ (step' \in {"prune", "return"} => InHand' = {})
    BY <1>3, <1>4
  <2> QED
    BY <2>1, <2>2, <1>1, <1>3, <1>4 DEF MailInv, Places
<1>7. AtMostOnce' /\ AtLeastOnce'
  BY <1>1, <1>4 DEF MailInv, AtMostOnce, AtLeastOnce
<1> QED
  BY <1>5, <1>6, <1>7 DEF MailInv

LEMMA AckMail ==
  ASSUME MailInv, Ack
  PROVE MailInv'
<1>1. UNCHANGED <<now, stamp, tmp, held, returned, life>> /\ step = "ack"
  BY DEF Ack
<1>2. Given' = Given /\ InHand' = InHand /\ Sent' = Sent
  BY <1>1 DEF Given, InHand, Sent
<1>3. CASE Unacked = {} /\ step' = "prune" /\ UNCHANGED <<new, cur>>
  <2>1. MailTypes'
    BY <1>1, <1>3 DEF MailInv, MailTypes
  <2>2. InHand \cap new = {}
    BY <1>3 DEF InHand, Unacked
  <2>3. Places'
    BY <2>2, <1>1, <1>2, <1>3 DEF MailInv, Places
  <2>4. AtMostOnce' /\ AtLeastOnce'
    BY <1>1, <1>2, <1>3 DEF MailInv, AtMostOnce, AtLeastOnce
  <2> QED
    BY <2>1, <2>3, <2>4 DEF MailInv
<1>4. ASSUME NEW i \in Unacked, new' = new \ {held[i]}, cur' = cur \cup {held[i]}, step' = step
      PROVE MailInv'
  <2>1. held[i] \in new /\ held[i] \in InHand
    BY DEF Unacked, InHand
  <2>2. MailTypes'
    BY <1>1, <1>4, <2>1 DEF MailInv, MailTypes
  <2>3. Places'
    BY <2>1, <1>1, <1>2, <1>4 DEF MailInv, Places
  <2>4. AtMostOnce' /\ AtLeastOnce'
    BY <2>1, <1>1, <1>2, <1>4 DEF MailInv, AtMostOnce, AtLeastOnce
  <2> QED
    BY <2>2, <2>3, <2>4 DEF MailInv
<1> QED
  BY <1>3, <1>4 DEF Ack

LEMMA PruneMail ==
  ASSUME MailInv, Prune
  PROVE MailInv'
<1>1. /\ step = "prune" /\ step' = "return" /\ cur' \subseteq cur
      /\ UNCHANGED <<now, stamp, tmp, new, held, returned, life>>
  BY DEF Prune, mail
<1>2. Given' = Given /\ InHand' = InHand /\ Sent' = Sent
  BY <1>1 DEF Given, InHand, Sent
<1>3. MailTypes'
  BY <1>1 DEF MailInv, MailTypes
<1>4. Places' /\ AtMostOnce' /\ AtLeastOnce'
  BY <1>1, <1>2 DEF MailInv, Places, AtMostOnce, AtLeastOnce
<1> QED
  BY <1>3, <1>4 DEF MailInv

LEMMA ReturnMail ==
  ASSUME MailInv, Return
  PROVE MailInv'
<1>1. /\ step = "return" /\ step' = "none" /\ held' = <<>>
      /\ UNCHANGED <<now, stamp, tmp, new, cur>>
      /\ life' = IF life = "stopping" THEN "down" ELSE life
  BY DEF Return, mail
<1>2. InHand' = {} /\ Sent' = Sent
  BY <1>1 DEF InHand, Sent
<1>3. CASE returned' = returned \o held
  <2>1. held \in Seq(Msg) /\ returned \in Seq(Msg)
    BY DEF MailInv, MailTypes
  <2>2. /\ DOMAIN returned = 1 .. Len(returned) /\ DOMAIN held = 1 .. Len(held)
        /\ DOMAIN returned' = 1 .. Len(returned) + Len(held)
        /\ Len(returned) \in Nat /\ Len(held) \in Nat
        /\ \A i \in 1 .. Len(returned) + Len(held) :
             returned'[i] = IF i <= Len(returned) THEN returned[i] ELSE held[i - Len(returned)]
    BY <2>1, <1>3
  <2>3. \A i \in 1 .. Len(returned) + Len(held) :
          IF i <= Len(returned) THEN i \in DOMAIN returned ELSE i - Len(returned) \in DOMAIN held
    BY <2>2
  <2>4. Given' \subseteq Given \cup InHand
    BY <2>2, <2>3 DEF Given, InHand
  <2>5. Given \subseteq Given'
    <3>1. \A i \in DOMAIN returned : i \in DOMAIN returned' /\ returned'[i] = returned[i]
      BY <2>2
    <3> QED
      BY <3>1 DEF Given
  <2>6. InHand \subseteq Given'
    <3>1. \A i \in DOMAIN held : i + Len(returned) \in DOMAIN returned'
                                 /\ returned'[i + Len(returned)] = held[i]
      BY <2>2
    <3> QED
      BY <3>1 DEF Given, InHand
  <2>7. AtMostOnce'
    <3> SUFFICES ASSUME NEW i \in DOMAIN returned', NEW j \in DOMAIN returned',
                        returned'[i] = returned'[j]
                 PROVE i = j
      BY DEF AtMostOnce
    <3>1. CASE i <= Len(returned) /\ j <= Len(returned)
      BY <3>1, <2>2, <2>3 DEF MailInv, AtMostOnce
    <3>2. CASE ~(i <= Len(returned)) /\ ~(j <= Len(returned))
      <4>1. held[i - Len(returned)] = held[j - Len(returned)]
        BY <3>2, <2>2
      <4>2. i - Len(returned) = j - Len(returned)
        BY <4>1, <3>2, <2>2, <2>3 DEF MailInv, Places
      <4> QED
        BY <4>2, <2>2
    <3>3. CASE (i <= Len(returned)) # (j <= Len(returned))
      <4>1. \E k \in DOMAIN returned, l \in DOMAIN held : returned[k] = held[l]
        <5>1. CASE i <= Len(returned)
          BY <5>1, <3>3, <2>2, <2>3
        <5>2. CASE ~(i <= Len(returned))
          BY <5>2, <3>3, <2>2, <2>3
        <5> QED
          BY <5>1, <5>2
      <4> QED
        BY <4>1 DEF MailInv, Places, Given, InHand
    <3> QED
      BY <3>1, <3>2, <3>3
  <2>8. MailTypes'
    BY <2>1, <1>1, <1>3 DEF MailInv, MailTypes
  <2>9. Places'
    BY <1>1, <1>2, <2>4 DEF MailInv, Places
  <2>10. AtLeastOnce'
    BY <1>1, <1>2, <2>5, <2>6 DEF MailInv, AtLeastOnce
  <2> QED
    BY <2>7, <2>8, <2>9, <2>10 DEF MailInv
<1>4. CASE life = "stopping" /\ UNCHANGED returned
  <2>1. Given' = Given
    BY <1>4 DEF Given
  <2>2. MailTypes'
    BY <1>1, <1>4 DEF MailInv, MailTypes
  <2>3. Places' /\ AtMostOnce' /\ AtLeastOnce'
    BY <1>1, <1>2, <1>4, <2>1 DEF MailInv, Places, AtMostOnce, AtLeastOnce
  <2> QED
    BY <2>2, <2>3 DEF MailInv
<1> QED
  BY <1>3, <1>4 DEF Return

LEMMA CrashMail ==
  ASSUME MailInv, Crash
  PROVE MailInv'
<1>1. /\ life' = "down" /\ step' = "none" /\ held' = <<>>
      /\ UNCHANGED <<now, stamp, tmp, new, cur, returned>>
  BY DEF Crash, mail
<1>2. Given' = Given /\ InHand' = {} /\ Sent' = Sent
  BY <1>1 DEF Given, InHand, Sent
<1>3. MailTypes'
  BY <1>1 DEF MailInv, MailTypes
<1>4. Places' /\ AtMostOnce' /\ AtLeastOnce'
  BY <1>1, <1>2 DEF MailInv, Places, AtMostOnce, AtLeastOnce
<1> QED
  BY <1>3, <1>4 DEF MailInv

\* Every step keeps the invariant of the directories.
LEMMA NextMail == MailInv /\ [Next]_vars => MailInv'
<1> SUFFICES ASSUME MailInv, [Next]_vars PROVE MailInv'
  OBVIOUS
<1>1. ASSUME NEW m \in Msg, WriteTmp(m) PROVE MailInv'
  BY <1>1, WriteTmpMail
<1>2. ASSUME NEW m \in Msg, Publish(m) PROVE MailInv'
  BY <1>2, PublishMail
<1>3. CASE Millisecond
  BY <1>3, MillisecondMail
<1>4. CASE Check \/ TimerFires \/ RetryWindowEnds \/ UserTurn \/ TurnEnd \/ AgentEnd \/ UNCHANGED vars
  <2>1. UNCHANGED <<mail, drain, life>>
    BY <1>4 DEF Check, TimerFires, RetryWindowEnds, UserTurn, TurnEnd, AgentEnd, vars
  <2> QED
    BY <2>1, SameMail
<1>5. CASE Read
  BY <1>5, StartDrainMail DEF Read, Running
<1>6. CASE Shutdown
  BY <1>6, StartDrainMail DEF Shutdown, Running
<1>7. CASE DrainStep
  BY <1>7, AckMail, PruneMail, ReturnMail DEF DrainStep
<1>8. CASE Crash
  BY <1>8, CrashMail
<1> QED
  BY <1>1, <1>2, <1>3, <1>4, <1>5, <1>6, <1>7, <1>8 DEF Next

\* A message that left the inbox of a living session was given to the agent, or is in the hands of
\* the drain that took it: whatever the senders do between two file operations of the drain, and
\* whichever of its steps a crash or a shutdown cuts off.
THEOREM MailAtLeastOnce == Spec => []AtLeastOnce
<1>1. MailInv => AtLeastOnce
  BY DEF MailInv
<1> QED
  BY InitMail, NextMail, <1>1, PTL DEF Spec

\* No message is given to the agent twice, however often it reads and whatever was pruned.
THEOREM MailAtMostOnce == Spec => []AtMostOnce
<1>1. MailInv => AtMostOnce
  BY DEF MailInv
<1> QED
  BY InitMail, NextMail, <1>1, PTL DEF Spec

(***************************************************************************)
(* The order in which the messages of one sender are given                 *)
(***************************************************************************)

\* Two messages of one sender that were sent in this order, at different times.
Earlier(m, k) == m[1] = k[1] /\ stamp[m] < stamp[k]

\* A sender numbers its messages as it sends them, and publishes one before it writes the next.
SendersInTurn ==
  /\ \A m \in Msg : stamp[m] <= now
  /\ \A m, k \in Msg :
       m[1] = k[1] /\ m[2] < k[2] /\ k \in Sent => m \in Sent \ tmp /\ stamp[m] <= stamp[k]

\* What the drain holds is in the order of the names.  Nothing a drain can still receive is
\* earlier than what was given, and nothing outside a drain is earlier than what it holds.
DrainsInTurn ==
  /\ \A i, j \in DOMAIN held : i < j => Before(held[i], held[j])
  /\ \A m \in Sent, k \in Given : Earlier(m, k) => m \notin InHand \cup (new \ Corrupt)
  /\ \A m \in Sent, k \in InHand : Earlier(m, k) => m \in InHand \/ m \notin new \ Corrupt

OrderInv == SendersInTurn /\ DrainsInTurn /\ SenderOrder

\* Messages are numbered per sender.
LEMMA Numbers ==
  /\ \A m \in Msg : m[2] \in Nat
  /\ \A m, k \in Msg : m[1] = k[1] /\ m[2] = k[2] => m = k
<1>1. \A m \in Msg : m \in Sender \X (Nat \ {0})
  BY MailboxAssumption
<1>2. \A m \in Sender \X (Nat \ {0}) : m[2] \in Nat /\ m = <<m[1], m[2]>>
  OBVIOUS
<1> QED
  BY <1>1, <1>2

\* A message that a later one of its sender follows has left the sender's tmp/.
LEMMA EarlierIsPublished ==
  ASSUME Stamps, SendersInTurn, NEW m \in Sent, NEW k \in Sent, Earlier(m, k)
  PROVE m \notin tmp
<1>1. m \in Msg /\ k \in Msg /\ stamp[m] \in Int /\ stamp[k] \in Int /\ m[2] \in Nat /\ k[2] \in Nat
  BY Numbers, MailboxTypes DEF Sent, Stamps
<1>2. CASE m[2] < k[2]
  BY <1>1, <1>2 DEF Earlier, SendersInTurn
<1>3. CASE k[2] < m[2]
  <2>1. stamp[k] <= stamp[m]
    BY <1>1, <1>3 DEF Earlier, SendersInTurn
  <2> QED
    BY <2>1, <1>1 DEF Earlier
<1>4. CASE m[2] = k[2]
  <2>1. m = k
    BY <1>1, <1>4, Numbers DEF Earlier
  <2> QED
    BY <2>1, <1>1 DEF Earlier
<1> QED
  BY <1>1, <1>2, <1>3, <1>4

\* No order holds or fails in an empty mailbox.
LEMMA InitOrder == Init => OrderInv
<1> SUFFICES ASSUME Init PROVE OrderInv
  OBVIOUS
<1>1. SendersInTurn
  BY DEF Init, SendersInTurn, Sent
<1>2. DrainsInTurn /\ SenderOrder
  BY DEF Init, DrainsInTurn, SenderOrder, Sent, Given, InHand
<1> QED
  BY <1>1, <1>2 DEF OrderInv

\* What leaves the directories and the drain alone keeps the order.
LEMMA SameOrder ==
  ASSUME OrderInv, UNCHANGED <<mail, drain>>
  PROVE OrderInv'
<1>1. UNCHANGED <<now, stamp, tmp, new, held, returned>>
  BY DEF mail, drain
<1>2. Given' = Given /\ InHand' = InHand /\ Sent' = Sent
  BY <1>1 DEF Given, InHand, Sent
<1>3. SendersInTurn'
  BY <1>1, <1>2 DEF OrderInv, SendersInTurn
<1>4. DrainsInTurn'
  BY <1>1, <1>2 DEF OrderInv, DrainsInTurn, Before, Earlier
<1>5. SenderOrder'
  BY <1>1 DEF OrderInv, SenderOrder
<1> QED
  BY <1>3, <1>4, <1>5 DEF OrderInv

\* One lemma per file operation: each keeps the order.
LEMMA WriteTmpOrder ==
  ASSUME MailInv, OrderInv, NEW m \in Msg, WriteTmp(m)
  PROVE OrderInv'
<1>1. /\ m \notin Sent /\ stamp' = [stamp EXCEPT ![m] = now] /\ tmp' = tmp \cup {m}
      /\ UNCHANGED <<now, new, held, returned>>
      /\ \A k \in Msg : k[1] = m[1] /\ k[2] < m[2] => k \in Sent \ tmp
  BY DEF WriteTmp, drain
<1>2. /\ stamp \in [Msg -> Int] /\ now \in Nat
      /\ Given \cup InHand \subseteq Msg \ {m} /\ Given \cup InHand \subseteq Sent
      /\ \A k \in Msg : stamp[k] <= now
  BY <1>1, MailboxTypes DEF MailInv, MailTypes, Places, OrderInv, SendersInTurn, Sent
<1>3. stamp'[m] = now /\ \A k \in Msg \ {m} : stamp'[k] = stamp[k]
  BY <1>1, <1>2
<1>4. Sent' = Sent \cup {m}
  BY <1>2, <1>3 DEF Sent
<1>5. Given' = Given /\ InHand' = InHand
  BY <1>1 DEF Given, InHand
<1>6. SendersInTurn'
  <2>1. \A k \in Msg : stamp'[k] <= now'
    BY <1>1, <1>2, <1>3
  <2>2. ASSUME NEW x \in Msg, NEW y \in Msg, x[1] = y[1], x[2] < y[2], y \in Sent'
        PROVE x \in (Sent \ tmp)' /\ stamp'[x] <= stamp'[y]
    <3>1. CASE y = m
      <4>1. x \in Sent \ tmp /\ x # m
        BY <2>2, <3>1, <1>1
      <4> QED
        BY <4>1, <3>1, <1>1, <1>2, <1>3, <1>4
    <3>2. CASE y # m
      <4>1. y \in Sent
        BY <3>2, <2>2, <1>4
      <4>2. x \in Sent \ tmp /\ stamp[x] <= stamp[y]
        BY <4>1, <2>2 DEF OrderInv, SendersInTurn
      <4>3. x # m
        BY <4>2, <1>1
      <4> QED
        BY <4>2, <4>3, <3>2, <1>1, <1>3, <1>4
    <3> QED
      BY <3>1, <3>2
  <2> QED
    BY <2>1, <2>2 DEF SendersInTurn
<1>7. ASSUME NEW x \in Sent', NEW y \in Given \cup InHand, Earlier(x, y)'
      PROVE x \in Sent /\ Earlier(x, y)
  <2>1. y \in Msg \ {m} /\ stamp'[y] = stamp[y] /\ stamp[y] <= now
    BY <1>2, <1>3
  <2>2. x # m
    <3>1. ~(now < stamp[y])
      BY <2>1, <1>2
    <3> QED
      BY <3>1, <2>1, <1>3, <1>7 DEF Earlier
  <2>3. x \in Sent /\ x \in Msg \ {m}
    BY <2>2, <1>4 DEF Sent
  <2> QED
    BY <2>1, <2>3, <1>3, <1>7 DEF Earlier
<1>8. DrainsInTurn'
  <2>1. \A i \in DOMAIN held : held[i] \in InHand
    BY DEF InHand
  <2>2. \A i, j \in DOMAIN held' : i < j => Before(held[i], held[j])'
    BY <2>1, <1>1, <1>2, <1>3 DEF OrderInv, DrainsInTurn, Before
  <2>3. \A x \in Sent', k \in Given' : Earlier(x, k)' => x \notin (InHand \cup (new \ Corrupt))'
    BY <1>1, <1>5, <1>7 DEF OrderInv, DrainsInTurn
  <2>4. \A x \in Sent', k \in InHand' : Earlier(x, k)' => x \in InHand' \/ x \notin (new \ Corrupt)'
    BY <1>1, <1>5, <1>7 DEF OrderInv, DrainsInTurn
  <2> QED
    BY <2>2, <2>3, <2>4, <1>1 DEF DrainsInTurn
<1>9. SenderOrder'
  <2>1. \A i \in DOMAIN returned : returned[i] \in Msg \ {m}
    BY <1>2 DEF Given
  <2> QED
    BY <2>1, <1>1, <1>3 DEF OrderInv, SenderOrder
<1> QED
  BY <1>6, <1>8, <1>9 DEF OrderInv

LEMMA PublishOrder ==
  ASSUME MailInv, OrderInv, NEW m \in Msg, Publish(m)
  PROVE OrderInv'
<1>1. /\ m \in tmp /\ tmp' = tmp \ {m} /\ new' = new \cup {m}
      /\ UNCHANGED <<now, stamp, held, returned>>
  BY DEF Publish, drain
<1>2. Given' = Given /\ InHand' = InHand /\ Sent' = Sent
  BY <1>1 DEF Given, InHand, Sent
<1>3. ASSUME NEW x \in Sent, NEW k \in Given \cup InHand, Earlier(x, k) PROVE x # m
  BY <1>1, <1>3, EarlierIsPublished DEF MailInv, MailTypes, Places, Stamps, OrderInv
<1>4. SendersInTurn'
  BY <1>1, <1>2 DEF OrderInv, SendersInTurn
<1>5. DrainsInTurn'
  BY <1>1, <1>2, <1>3 DEF OrderInv, DrainsInTurn, Before, Earlier
<1>6. SenderOrder'
  BY <1>1 DEF OrderInv, SenderOrder
<1> QED
  BY <1>4, <1>5, <1>6 DEF OrderInv

LEMMA MillisecondOrder ==
  ASSUME MailInv, OrderInv, Millisecond
  PROVE OrderInv'
<1>1. now' = now + 1 /\ UNCHANGED <<stamp, tmp, new, held, returned>>
  BY DEF Millisecond, drain
<1>2. Given' = Given /\ InHand' = InHand /\ Sent' = Sent
  BY <1>1 DEF Given, InHand, Sent
<1>3. SendersInTurn'
  <2>1. now \in Int /\ \A k \in Msg : stamp[k] \in Int
    BY MailboxTypes DEF MailInv, MailTypes
  <2> QED
    BY <2>1, <1>1, <1>2 DEF OrderInv, SendersInTurn
<1>4. DrainsInTurn'
  BY <1>1, <1>2 DEF OrderInv, DrainsInTurn, Before, Earlier
<1>5. SenderOrder'
  BY <1>1 DEF OrderInv, SenderOrder
<1> QED
  BY <1>3, <1>4, <1>5 DEF OrderInv

LEMMA StartDrainOrder ==
  ASSUME MailInv, OrderInv, StartDrain, UNCHANGED <<mail, returned>>
  PROVE OrderInv'
<1>1. UNCHANGED <<now, stamp, tmp, new, returned>>
  BY DEF mail
<1> DEFINE R == new \ Corrupt
<1>2. R \in SUBSET Msg /\ Stamps
  BY DEF MailInv, MailTypes, Stamps
<1>3. /\ held' \in Seq(R)
      /\ \A m \in R : \E i \in DOMAIN held' : held'[i] = m
      /\ \A i, j \in DOMAIN held' : i < j => Before(held'[i], held'[j])
  BY <1>2, InOrderLists DEF StartDrain, Receive
<1>4. InHand' = R /\ Given' = Given /\ Sent' = Sent
  BY <1>1, <1>3 DEF InHand, Given, Sent
<1>5. SendersInTurn'
  BY <1>1, <1>4 DEF OrderInv, SendersInTurn
<1>6. DrainsInTurn'
  BY <1>1, <1>3, <1>4 DEF OrderInv, DrainsInTurn, Before, Earlier
<1>7. SenderOrder'
  BY <1>1 DEF OrderInv, SenderOrder
<1> QED
  BY <1>5, <1>6, <1>7 DEF OrderInv

\* Acknowledging and pruning only take messages out of new/ and cur/.
LEMMA FewerNewOrder ==
  ASSUME OrderInv, new' \subseteq new, UNCHANGED <<now, stamp, tmp, held, returned>>
  PROVE OrderInv'
<1>1. Given' = Given /\ InHand' = InHand /\ Sent' = Sent
  BY DEF Given, InHand, Sent
<1>2. SendersInTurn'
  BY <1>1 DEF OrderInv, SendersInTurn
<1>3. DrainsInTurn'
  BY <1>1 DEF OrderInv, DrainsInTurn, Before, Earlier
<1>4. SenderOrder'
  BY DEF OrderInv, SenderOrder
<1> QED
  BY <1>2, <1>3, <1>4 DEF OrderInv

\* A drain that ends without giving what it held.
LEMMA DroppedOrder ==
  ASSUME OrderInv, held' = <<>>, UNCHANGED <<now, stamp, tmp, new, returned>>
  PROVE OrderInv'
<1>1. Given' = Given /\ InHand' = {} /\ Sent' = Sent
  BY DEF Given, InHand, Sent
<1>2. SendersInTurn'
  BY <1>1 DEF OrderInv, SendersInTurn
<1>3. DrainsInTurn'
  BY <1>1 DEF OrderInv, DrainsInTurn, Before, Earlier
<1>4. SenderOrder'
  BY DEF OrderInv, SenderOrder
<1> QED
  BY <1>2, <1>3, <1>4 DEF OrderInv

\* A drain that gives what it held.
LEMMA GivenOrder ==
  ASSUME MailInv, OrderInv, step = "return", held' = <<>>, returned' = returned \o held,
         UNCHANGED <<now, stamp, tmp, new>>
  PROVE OrderInv'
<1>1. held \in Seq(Msg) /\ returned \in Seq(Msg) /\ stamp \in [Msg -> Int]
  BY MailboxTypes DEF MailInv, MailTypes
<1>2. /\ DOMAIN returned = 1 .. Len(returned) /\ DOMAIN held = 1 .. Len(held)
      /\ DOMAIN returned' = 1 .. Len(returned) + Len(held)
      /\ Len(returned) \in Nat /\ Len(held) \in Nat
      /\ \A i \in 1 .. Len(returned) + Len(held) :
           returned'[i] = IF i <= Len(returned) THEN returned[i] ELSE held[i - Len(returned)]
  BY <1>1
<1>3. \A i \in DOMAIN returned' :
        IF i <= Len(returned) THEN i \in DOMAIN returned ELSE i - Len(returned) \in DOMAIN held
  BY <1>2
<1>4. Given' \subseteq Given \cup InHand /\ InHand' = {} /\ Sent' = Sent
  BY <1>2, <1>3 DEF Given, InHand, Sent
<1>5. InHand \cap new = {} /\ Given \cup InHand \subseteq Sent
  BY DEF MailInv, Places
<1>6. SendersInTurn'
  BY <1>4 DEF OrderInv, SendersInTurn
<1>7. DrainsInTurn'
  <2>1. ASSUME NEW m \in Sent, NEW k \in Given \cup InHand, Earlier(m, k)
        PROVE m \notin new \ Corrupt
    BY <2>1, <1>5 DEF OrderInv, DrainsInTurn
  <2>2. \A m \in Sent', k \in Given' : Earlier(m, k)' => m \notin (InHand \cup (new \ Corrupt))'
    BY <2>1, <1>4 DEF Earlier
  <2> QED
    BY <2>2, <1>4 DEF DrainsInTurn
<1>8. SenderOrder'
  <2> SUFFICES ASSUME NEW i \in DOMAIN returned', NEW j \in DOMAIN returned',
                      Earlier(returned'[i], returned'[j])
               PROVE i < j
    BY DEF SenderOrder, Earlier
  <2>1. CASE i <= Len(returned) /\ j <= Len(returned)
    BY <2>1, <1>2, <1>3 DEF OrderInv, SenderOrder, Earlier
  <2>2. CASE i <= Len(returned) /\ ~(j <= Len(returned))
    BY <2>2, <1>2
  <2>3. CASE ~(i <= Len(returned)) /\ j <= Len(returned)
    <3>1. returned'[i] \in InHand /\ returned'[j] \in Given
      BY <2>3, <1>2, <1>3 DEF InHand, Given
    <3> QED
      BY <3>1, <1>5 DEF OrderInv, DrainsInTurn
  <2>4. CASE ~(i <= Len(returned)) /\ ~(j <= Len(returned))
    <3> DEFINE a == i - Len(returned)
               b == j - Len(returned)
    <3>1. a \in DOMAIN held /\ b \in DOMAIN held /\ returned'[i] = held[a] /\ returned'[j] = held[b]
      BY <2>4, <1>2, <1>3
    <3>2. a \in Int /\ b \in Int /\ stamp[held[a]] \in Int /\ stamp[held[b]] \in Int
      BY <3>1, <1>1, <1>2
    <3>3. ~(b <= a)
      <4>1. stamp[held[a]] < stamp[held[b]]
        BY <3>1 DEF Earlier
      <4>2. a # b
        BY <4>1, <3>2
      <4>3. ~Before(held[b], held[a])
        <5>1. ~(stamp[held[b]] < stamp[held[a]]) /\ stamp[held[b]] # stamp[held[a]]
          BY <4>1, <3>2
        <5> QED
          BY <5>1, Zenon DEF Before
      <4>4. ~(b < a)
        BY <4>3, <3>1 DEF OrderInv, DrainsInTurn
      <4> QED
        BY <4>2, <4>4, <3>2
    <3> QED
      BY <3>2, <3>3, <1>2
  <2> QED
    BY <2>1, <2>2, <2>3, <2>4
<1> QED
  BY <1>6, <1>7, <1>8 DEF OrderInv

\* Every step keeps the order.
LEMMA NextOrder == MailInv /\ OrderInv /\ [Next]_vars => OrderInv'
<1> SUFFICES ASSUME MailInv, OrderInv, [Next]_vars PROVE OrderInv'
  OBVIOUS
<1>1. ASSUME NEW m \in Msg, WriteTmp(m) PROVE OrderInv'
  BY <1>1, WriteTmpOrder
<1>2. ASSUME NEW m \in Msg, Publish(m) PROVE OrderInv'
  BY <1>2, PublishOrder
<1>3. CASE Millisecond
  BY <1>3, MillisecondOrder
<1>4. CASE Check \/ TimerFires \/ RetryWindowEnds \/ UserTurn \/ TurnEnd \/ AgentEnd \/ UNCHANGED vars
  <2>1. UNCHANGED <<mail, drain>>
    BY <1>4 DEF Check, TimerFires, RetryWindowEnds, UserTurn, TurnEnd, AgentEnd, vars
  <2> QED
    BY <2>1, SameOrder
<1>5. CASE Read \/ Shutdown
  BY <1>5, StartDrainOrder DEF Read, Shutdown
<1>6. CASE Ack
  <2>1. new' \subseteq new /\ UNCHANGED <<now, stamp, tmp, held, returned>>
    BY <1>6 DEF Ack
  <2> QED
    BY <2>1, FewerNewOrder
<1>7. CASE Prune
  BY <1>7, FewerNewOrder DEF Prune, mail
<1>8. CASE Return
  BY <1>8, GivenOrder, DroppedOrder DEF Return, mail
<1>9. CASE Crash
  BY <1>9, DroppedOrder DEF Crash, mail
<1> QED
  BY <1>1, <1>2, <1>3, <1>4, <1>5, <1>6, <1>7, <1>8, <1>9 DEF Next, DrainStep

\* The messages a sender sent at different times are given in that order, over every number of
\* drains: none that a drain left behind is older than one it took from the same sender.
THEOREM MailSenderOrder == Spec => []SenderOrder
<1>1. OrderInv => SenderOrder
  BY DEF OrderInv
<1> QED
  BY InitMail, NextMail, InitOrder, NextOrder, <1>1, PTL DEF Spec

(***************************************************************************)
(* The state of the announcer                                              *)
(***************************************************************************)

LEMMA PendingIsNat == MailTypes => IsFiniteSet(new) /\ Pending \in Nat
BY MailboxTypes, FS_Subset, FS_CardinalityType DEF MailTypes, Pending

\* The number of pending messages is a number.
LEMMA PendingStaysNat == MailTypes' => IsFiniteSet(new') /\ Pending' \in Nat
BY MailboxTypes, FS_Subset, FS_CardinalityType DEF MailTypes, Pending

Poke == [notified : Nat, since : BOOLEAN, retries : Nat, fresh : BOOLEAN, timer : Timer]

\* The fields of the announcements keep their types, helper by helper.
LEMMA QuietType == Quiet \in Poke
BY DEF Quiet, Poke, Timer

LEMMA ResetType ==
  ASSUME NEW p \in Poke
  PROVE ResetPoke(p) \in Poke
BY DEF ResetPoke, Quiet, Poke, Timer

LEMMA DelayType ==
  ASSUME NEW p \in Poke, Pending \in Nat
  PROVE Delay(p) \in Timer
<1>1. p.notified \in Nat /\ p.since \in BOOLEAN /\ p.retries \in Nat /\ MaxPokeRetries \in Nat
  BY MailboxTypes DEF Poke
<1>2. CASE p.notified = 0
  BY <1>2 DEF Delay, Timer
<1>3. CASE p.notified > 0 /\ p.since
  BY <1>1, <1>3 DEF Delay, Timer
<1>4. CASE p.notified > 0 /\ ~p.since
  BY <1>1, <1>4 DEF Delay, Timer
<1> QED
  BY <1>1, <1>2, <1>3, <1>4

LEMMA ScheduleType ==
  ASSUME NEW p \in Poke, Pending \in Nat
  PROVE Schedule(p) \in Poke
<1>1. CASE Pending = 0
  BY <1>1, ResetType DEF Schedule
<1>2. CASE Pending > 0 /\ p.timer # "none"
  BY <1>2 DEF Schedule
<1>3. CASE Pending > 0 /\ p.timer = "none"
  <2>1. Schedule(p) = [p EXCEPT !.timer = Delay(p)]
    BY <1>3 DEF Schedule
  <2> QED
    BY <2>1, DelayType DEF Poke
<1> QED
  BY <1>1, <1>2, <1>3

LEMMA BoundaryType ==
  ASSUME NEW p \in Poke
  PROVE Boundary(p) \in Poke
<1>1. PICK s \in BOOLEAN : s = (p.since \/ p.notified > 0)
  OBVIOUS
<1>2. Boundary(p) = [p EXCEPT !.since = s]
  BY <1>1 DEF Boundary
<1> QED
  BY <1>2 DEF Poke

LEMMA AnnouncedType ==
  ASSUME NEW p \in Poke, Pending \in Nat
  PROVE Announced(p) \in Poke
<1>1. (IF p.notified > 0 THEN p.retries + 1 ELSE 0) \in Nat
  BY DEF Poke
<1> QED
  BY <1>1 DEF Announced, Poke, Timer

LEMMA WithoutTimer ==
  ASSUME NEW p \in Poke
  PROVE [p EXCEPT !.timer = "none"] \in Poke
BY DEF Poke, Timer

Faults == [lost : 0 .. MaxLost, throws : 0 .. MaxThrows, turns : 0 .. MaxUserTurns]

\* Faults are counted within their bound.
LEMMA FaultCounts ==
  ASSUME faults \in Faults
  PROVE /\ faults.lost < MaxLost => [faults EXCEPT !.lost = @ + 1] \in Faults
        /\ faults.throws < MaxThrows => [faults EXCEPT !.throws = @ + 1] \in Faults
        /\ faults.turns < MaxUserTurns => [faults EXCEPT !.turns = @ + 1] \in Faults
BY MailboxTypes DEF Faults

\* What an announcement to an idle agent changes.
LEMMA PokeIdleEffect ==
  ASSUME MailTypes, TurnTypes, NEW p \in Poke, PokeIdle(p)
  PROVE /\ poke' \in Poke
        /\ \/ turn' = "announced" /\ prompt' = Pending
           \/ turn' = "idle" /\ prompt' = 0
        /\ announced' \subseteq Msg /\ queued' \in Nat /\ faults' \in Faults
<1>1. Pending \in Nat /\ announced \cup new \subseteq Msg /\ queued + 1 \in Nat /\ 0 \in Nat
  BY PendingIsNat DEF MailTypes, TurnTypes
<1>2. announced \subseteq Msg /\ queued \in Nat /\ faults \in Faults
  BY DEF TurnTypes, Faults
<1>3. /\ faults.lost < MaxLost => [faults EXCEPT !.lost = @ + 1] \in Faults
      /\ faults.throws < MaxThrows => [faults EXCEPT !.throws = @ + 1] \in Faults
  BY <1>2, FaultCounts
<1>4. Announced(p) \in Poke /\ ResetPoke(p) \in Poke /\ Schedule(p) \in Poke
      /\ Schedule([p EXCEPT !.timer = "none"]) \in Poke
  BY <1>1, AnnouncedType, ResetType, ScheduleType, WithoutTimer
<1>5. CASE Inject(p)
  <2>1. CASE /\ poke' = Announced(p) /\ announced' = announced \cup new /\ queued' = queued + 1
             /\ turn' = "announced" /\ prompt' = Pending /\ UNCHANGED faults
    BY <2>1, <1>1, <1>2, <1>4
  <2>2. CASE /\ poke' = Announced(p) /\ announced' = announced \cup new /\ queued' = queued + 1
             /\ faults.lost < MaxLost /\ faults' = [faults EXCEPT !.lost = @ + 1]
             /\ turn' = "idle" /\ prompt' = 0
    BY <2>2, <1>1, <1>3, <1>4, Zenon
  <2>3. CASE /\ faults.throws < MaxThrows /\ faults' = [faults EXCEPT !.throws = @ + 1]
             /\ poke' = Schedule([p EXCEPT !.timer = "none"])
             /\ turn' = "idle" /\ prompt' = 0 /\ UNCHANGED <<announced, queued>>
    BY <2>3, <1>1, <1>2, <1>3, <1>4, Zenon
  <2> QED
    BY <2>1, <2>2, <2>3, <1>5, Zenon DEF Inject
<1>6. CASE ~Inject(p)
  BY <1>1, <1>2, <1>4, <1>6, Zenon DEF PokeIdle
<1> QED
  BY <1>5, <1>6

\* What a new timer changes.
LEMMA RescheduleEffect ==
  ASSUME MailTypes, TurnTypes, NEW p \in Poke, Reschedule(p)
  PROVE poke' \in Poke /\ queued' \in Nat
BY PendingIsNat, ScheduleType DEF Reschedule, TurnTypes

LEMMA PokeIsTyped == PokeTypes <=> poke \in Poke
BY DEF PokeTypes, Poke

CoreInv == MailTypes /\ PokeTypes /\ TurnTypes /\ PromptInv

\* Nothing is announced at first.
LEMMA InitCore == Init => CoreInv
<1> SUFFICES ASSUME Init PROVE CoreInv
  OBVIOUS
<1>1. MailTypes
  BY InitMail DEF MailInv
<1>2. PokeTypes
  BY QuietType, PokeIsTyped DEF Init
<1>3. TurnTypes
  BY MailboxTypes DEF Init, TurnTypes
<1>4. PromptInv
  BY <1>1, PendingIsNat DEF Init, PromptInv, Stated
<1> QED
  BY <1>1, <1>2, <1>3, <1>4 DEF CoreInv

\* What every step must show: the mail is dealt with above.
CoreStep == PokeTypes' /\ TurnTypes' /\ PromptInv'

\* What leaves the announcements alone keeps their invariant while mail only arrives.
LEMMA SameCore ==
  ASSUME CoreInv, UNCHANGED <<core, life, faults, step>>, Pending' >= Pending \/ prompt = 0, Pending' \in Nat
  PROVE CoreStep
<1>1. UNCHANGED <<poke, turn, prompt, announced, heard, queued, life, faults, step>>
  BY DEF core
<1>2. PokeTypes' /\ TurnTypes'
  BY <1>1 DEF CoreInv, PokeTypes, TurnTypes
<1>3. Stated'
  BY <1>1 DEF CoreInv, PromptInv, Stated
<1>4. prompt \in Nat /\ prompt <= Pending /\ Pending \in Nat
  BY PendingIsNat DEF CoreInv, TurnTypes, PromptInv
<1>5. prompt' <= Pending'
  BY <1>1, <1>4
<1> QED
  BY <1>2, <1>3, <1>5 DEF CoreStep, PromptInv

\* One lemma per event of the session: each keeps the invariant of the announcements.
LEMMA SendCore ==
  ASSUME CoreInv, MailTypes', NEW m \in Msg, WriteTmp(m) \/ Publish(m)
  PROVE CoreStep
<1>1. new \subseteq new' /\ UNCHANGED <<core, life, faults, step>>
  BY DEF WriteTmp, Publish, drain
<1>2. Pending \in Nat /\ Pending' \in Nat /\ IsFiniteSet(new')
  BY PendingIsNat, PendingStaysNat DEF CoreInv
<1>3. Pending' >= Pending
  BY <1>1, <1>2, FS_Subset DEF Pending
<1> QED
  BY <1>1, <1>2, <1>3, SameCore

LEMMA CheckCore ==
  ASSUME CoreInv, Check
  PROVE CoreStep
<1>1. step = "none" /\ Reschedule(poke) /\ UNCHANGED <<new, step, turn, prompt, announced, heard, life, faults>>
  BY DEF Check, Running, mail, drain
<1>2. poke' \in Poke /\ queued' \in Nat
  BY <1>1, RescheduleEffect, PokeIsTyped DEF CoreInv
<1>3. PokeTypes'
  BY <1>2 DEF PokeTypes, Poke
<1>4. TurnTypes'
  BY <1>1, <1>2 DEF CoreInv, TurnTypes
<1>5. PromptInv'
  BY <1>1 DEF CoreInv, PromptInv, Stated, Pending
<1> QED
  BY <1>3, <1>4, <1>5 DEF CoreStep

\* A poke at an idle agent, whoever calls it.
LEMMA PokeIdleCore ==
  ASSUME CoreInv, NEW p \in Poke, PokeIdle(p), step = "none", UNCHANGED <<new, step, heard, life>>
  PROVE CoreStep
<1>1. /\ poke' \in Poke
      /\ \/ turn' = "announced" /\ prompt' = Pending
         \/ turn' = "idle" /\ prompt' = 0
      /\ announced' \subseteq Msg /\ queued' \in Nat /\ faults' \in Faults
  BY PokeIdleEffect DEF CoreInv
<1>2. Pending \in Nat /\ Pending' = Pending
  BY PendingIsNat DEF CoreInv, Pending
<1>3. PokeTypes'
  BY <1>1 DEF PokeTypes, Poke
<1>4. TurnTypes'
  BY <1>1, <1>2 DEF CoreInv, TurnTypes, Faults
<1>5. PromptInv'
  BY <1>1, <1>2 DEF PromptInv, Stated
<1> QED
  BY <1>3, <1>4, <1>5 DEF CoreStep

\* A busy agent is left alone: only the timer is set anew.
LEMMA TimerCore ==
  ASSUME CoreInv, TimerFires
  PROVE CoreStep
<1> DEFINE p == [poke EXCEPT !.timer = "none"]
<1>1. step = "none" /\ UNCHANGED <<new, step, heard, life>>
  BY DEF TimerFires, Running, mail, drain
<1>2. p \in Poke
  BY WithoutTimer, PokeIsTyped DEF CoreInv
<1>3. PokeIdle(p) \/ (Reschedule(p) /\ UNCHANGED <<turn, prompt, announced, faults>>)
  BY DEF TimerFires
<1> HIDE DEF p
<1>4. CASE PokeIdle(p)
  BY <1>1, <1>2, <1>4, PokeIdleCore
<1>5. CASE Reschedule(p) /\ UNCHANGED <<turn, prompt, announced, faults>>
  <2>1. poke' \in Poke /\ queued' \in Nat
    BY <1>2, <1>5, RescheduleEffect DEF CoreInv
  <2>2. PokeTypes'
    BY <2>1 DEF PokeTypes, Poke
  <2>3. TurnTypes'
    BY <1>1, <1>5, <2>1 DEF CoreInv, TurnTypes
  <2>4. PromptInv'
    BY <1>1, <1>5 DEF CoreInv, PromptInv, Stated, Pending
  <2> QED
    BY <2>2, <2>3, <2>4 DEF CoreStep
<1> QED
  BY <1>3, <1>4, <1>5

LEMMA RetryWindowCore ==
  ASSUME CoreInv, RetryWindowEnds
  PROVE CoreStep
<1>1. /\ poke' = [poke EXCEPT !.fresh = FALSE]
      /\ UNCHANGED <<new, step, turn, prompt, announced, heard, queued, life, faults>>
  BY DEF RetryWindowEnds, mail, drain
<1>2. PokeTypes'
  BY <1>1 DEF CoreInv, PokeTypes
<1>3. TurnTypes'
  BY <1>1 DEF CoreInv, TurnTypes
<1>4. PromptInv'
  BY <1>1 DEF CoreInv, PromptInv, Stated, Pending
<1> QED
  BY <1>2, <1>3, <1>4 DEF CoreStep

LEMMA UserTurnCore ==
  ASSUME CoreInv, UserTurn
  PROVE CoreStep
<1>1. /\ turn = "idle" /\ turn' = "user" /\ faults' = [faults EXCEPT !.turns = @ + 1]
      /\ faults.turns < MaxUserTurns
      /\ UNCHANGED <<new, step, poke, prompt, announced, heard, queued, life>>
  BY DEF UserTurn, mail, drain
<1>2. PokeTypes'
  BY <1>1 DEF CoreInv, PokeTypes
<1>3. TurnTypes'
  <2>1. faults' \in Faults
    BY <1>1, FaultCounts DEF CoreInv, TurnTypes, Faults
  <2> QED
    BY <2>1, <1>1 DEF CoreInv, TurnTypes, Faults
<1>4. PromptInv'
  BY <1>1 DEF CoreInv, PromptInv, Stated, Pending
<1> QED
  BY <1>2, <1>3, <1>4 DEF CoreStep

LEMMA TurnEndCore ==
  ASSUME CoreInv, TurnEnd
  PROVE CoreStep
<1>1. /\ step = "none" /\ poke' = Boundary(poke) /\ turn' = "later" /\ prompt' = PromptAfter
      /\ heard' = announced /\ queued' = 0
      /\ UNCHANGED <<new, step, announced, life, faults>>
  BY DEF TurnEnd, Running, mail, drain
<1>2. prompt' = 0
  BY <1>1 DEF CoreInv, PromptInv, Stated, PromptAfter
<1>3. PokeTypes'
  BY <1>1, BoundaryType, PokeIsTyped DEF CoreInv, PokeTypes, Poke
<1>4. TurnTypes'
  BY <1>1, <1>2 DEF CoreInv, TurnTypes
<1>5. PromptInv'
  BY <1>1, <1>2, PendingIsNat DEF CoreInv, PromptInv, Stated, Pending
<1> QED
  BY <1>3, <1>4, <1>5 DEF CoreStep

LEMMA AgentEndCore ==
  ASSUME CoreInv, AgentEnd
  PROVE CoreStep
<1> DEFINE p == Boundary(poke)
<1>1. step = "none" /\ UNCHANGED <<new, step, heard, life>>
  BY DEF AgentEnd, Running, mail, drain
<1>2. p \in Poke
  BY BoundaryType, PokeIsTyped DEF CoreInv
<1>3. PokeIdle(p) \/ (Reschedule(p) /\ turn' = "idle" /\ prompt' = 0 /\ UNCHANGED <<announced, faults>>)
  BY DEF AgentEnd
<1> HIDE DEF p
<1>4. CASE PokeIdle(p)
  BY <1>1, <1>2, <1>4, PokeIdleCore
<1>5. CASE Reschedule(p) /\ turn' = "idle" /\ prompt' = 0 /\ UNCHANGED <<announced, faults>>
  <2>1. poke' \in Poke /\ queued' \in Nat
    BY <1>2, <1>5, RescheduleEffect DEF CoreInv
  <2>2. PokeTypes'
    BY <2>1 DEF PokeTypes, Poke
  <2>3. TurnTypes'
    BY <1>1, <1>5, <2>1 DEF CoreInv, TurnTypes
  <2>4. PromptInv'
    BY <1>1, <1>5, PendingIsNat DEF CoreInv, PromptInv, Stated, Pending
  <2> QED
    BY <2>2, <2>3, <2>4 DEF CoreStep
<1> QED
  BY <1>3, <1>4, <1>5

\* A drain withdraws the count its turn was told, before it takes the first message.
LEMMA StartDrainCore ==
  ASSUME CoreInv, Read \/ Shutdown
  PROVE CoreStep
<1>1. /\ poke' = Quiet /\ announced' = {} /\ heard' = {} /\ queued' = 0 /\ prompt' = PromptAfter
      /\ UNCHANGED <<new, turn, faults>> /\ life' \in {life, "stopping"}
  BY DEF Read, Shutdown, StartDrain, mail
<1>2. prompt' = 0
  BY <1>1 DEF CoreInv, PromptInv, Stated, PromptAfter
<1>3. PokeTypes'
  BY <1>1, QuietType DEF PokeTypes, Poke
<1>4. TurnTypes'
  BY <1>1, <1>2 DEF CoreInv, TurnTypes
<1>5. PromptInv'
  BY <1>1, <1>2, PendingIsNat DEF CoreInv, PromptInv, Stated, Pending
<1> QED
  BY <1>3, <1>4, <1>5 DEF CoreStep

\* While the drain takes messages out of new/, no count stands.
LEMMA DrainCore ==
  ASSUME CoreInv, MailTypes', DrainStep
  PROVE CoreStep
<1>1. /\ step # "none" /\ UNCHANGED <<poke, turn, prompt, announced, heard, queued, faults>>
      /\ life' \in {life, "down"}
  BY DEF DrainStep, Ack, Prune, Return, core
<1>2. prompt' = 0
  BY <1>1 DEF CoreInv, PromptInv, Stated
<1>3. PokeTypes' /\ TurnTypes'
  BY <1>1 DEF CoreInv, PokeTypes, TurnTypes
<1>4. PromptInv'
  BY <1>2, PendingStaysNat DEF PromptInv, Stated
<1> QED
  BY <1>3, <1>4 DEF CoreStep

LEMMA CrashCore ==
  ASSUME CoreInv, Crash
  PROVE CoreStep
<1>1. /\ poke' = Quiet /\ announced' = {} /\ heard' = {} /\ queued' = 0 /\ prompt' = 0
      /\ turn' = "idle" /\ life' = "down" /\ UNCHANGED <<new, faults>>
  BY DEF Crash, mail
<1>2. PokeTypes'
  BY <1>1, QuietType DEF PokeTypes, Poke
<1>3. TurnTypes'
  BY <1>1 DEF CoreInv, TurnTypes
<1>4. PromptInv'
  BY <1>1, PendingIsNat DEF CoreInv, PromptInv, Stated, Pending
<1> QED
  BY <1>2, <1>3, <1>4 DEF CoreStep

\* Every step keeps the invariant of the announcements.
LEMMA NextCore == CoreInv /\ MailTypes' /\ [Next]_vars => CoreInv'
<1> SUFFICES ASSUME CoreInv, MailTypes', [Next]_vars PROVE CoreStep
  BY DEF CoreInv, CoreStep
<1>1. ASSUME NEW m \in Msg, WriteTmp(m) \/ Publish(m) PROVE CoreStep
  BY <1>1, SendCore
<1>2. CASE Millisecond
  <2>1. UNCHANGED <<core, life, faults, step>> /\ Pending' = Pending
    BY <1>2 DEF Millisecond, drain, Pending
  <2> QED
    BY <2>1, PendingIsNat, SameCore DEF CoreInv
<1>3. CASE Check
  BY <1>3, CheckCore
<1>4. CASE TimerFires
  BY <1>4, TimerCore
<1>5. CASE RetryWindowEnds
  BY <1>5, RetryWindowCore
<1>6. CASE UserTurn
  BY <1>6, UserTurnCore
<1>7. CASE TurnEnd
  BY <1>7, TurnEndCore
<1>8. CASE AgentEnd
  BY <1>8, AgentEndCore
<1>9. CASE Read \/ Shutdown
  BY <1>9, StartDrainCore
<1>10. CASE DrainStep
  BY <1>10, DrainCore
<1>11. CASE Crash
  BY <1>11, CrashCore
<1>12. CASE UNCHANGED vars
  <2>1. UNCHANGED <<core, life, faults, step>> /\ Pending' = Pending
    BY <1>12 DEF vars, drain, mail, Pending
  <2> QED
    BY <2>1, PendingIsNat, SameCore DEF CoreInv
<1> QED
  BY <1>1, <1>2, <1>3, <1>4, <1>5, <1>6, <1>7, <1>8, <1>9, <1>10, <1>11, <1>12 DEF Next

\* The inductive invariant: the directories and the drain, and the announcements made from them.
THEOREM MailboxInvariant == Spec => [](MailInv /\ CoreInv)
<1>1. MailInv => MailTypes
  BY DEF MailInv
<1> QED
  BY InitMail, NextMail, InitCore, NextCore, <1>1, PTL DEF Spec

\* Every variable of the inbox and of its announcer has its type.
THEOREM MailTypeOK == Spec => []TypeOK
<1>1. MailInv /\ CoreInv => TypeOK
  BY DEF MailInv, CoreInv, MailTypes, PokeTypes, TurnTypes, TypeOK
<1> QED
  BY MailboxInvariant, <1>1, PTL

\* A turn that an announcement started never reads less than it was told: mail only arrives while
\* the prompt stands, and a drain withdraws the prompt before it takes mail away.
THEOREM MailPromptIsTrue == Spec => []PromptIsTrue
<1>1. CoreInv => PromptIsTrue
  BY DEF CoreInv, PromptInv, PromptIsTrue
<1> QED
  BY MailboxInvariant, <1>1, PTL

(***************************************************************************)
(* The inbox as its agent sees it                                          *)
(***************************************************************************)

Posted == [m \in Msg |-> IF m \in tmp THEN -1 ELSE stamp[m]]
Phase == IF life = "down" THEN "closed" ELSE IF step = "none" THEN "idle" ELSE "reading"
AgentSees == <<Posted, Phase, InHand, returned>>

\* A session that ended is in no drain.
DownIsDone == life = "down" => step = "none"

InboxInv == MailInv /\ OrderInv /\ CoreInv /\ DownIsDone

\* Only the end of a drain or a crash ends the session.
LEMMA NextDown == DownIsDone /\ [Next]_vars => DownIsDone'
<1> SUFFICES ASSUME DownIsDone, [Next]_vars PROVE DownIsDone'
  OBVIOUS
<1>1. CASE UNCHANGED <<life, step>>
  BY <1>1 DEF DownIsDone
<1>2. CASE Read \/ Shutdown
  BY <1>2 DEF Read, Shutdown, Running, DownIsDone
<1>3. CASE DrainStep
  BY <1>3 DEF DrainStep, Ack, Prune, Return, DownIsDone
<1>4. CASE Crash
  BY <1>4 DEF Crash, DownIsDone
<1>5. CASE \E m \in Msg : WriteTmp(m) \/ Publish(m)
  BY <1>1, <1>5 DEF WriteTmp, Publish, drain
<1>6. CASE Millisecond \/ Check \/ TimerFires \/ RetryWindowEnds \/ UserTurn \/ TurnEnd \/ AgentEnd \/ UNCHANGED vars
  BY <1>1, <1>6 DEF Millisecond, Check, TimerFires, RetryWindowEnds, UserTurn, TurnEnd, AgentEnd, drain, vars
<1> QED BY <1>2, <1>3, <1>4, <1>5, <1>6 DEF Next

\* What the agent cannot see is a stutter of its inbox.
LEMMA UnseenStep ==
  ASSUME Posted' = Posted, Phase' = Phase, InHand' = InHand, returned' = returned
  PROVE [Inbox!Next]_(Inbox!vars)
BY DEF Inbox!vars, Posted, Phase

\* A file in tmp/ is not sent yet.
LEMMA WriteTmpUnseen ==
  ASSUME InboxInv, NEW m \in Msg, WriteTmp(m) PROVE [Inbox!Next]_(Inbox!vars)
<1>1. stamp \in [Msg -> Int] /\ stamp[m] = -1 /\ tmp' = tmp \cup {m} /\ stamp' = [stamp EXCEPT ![m] = now]
      /\ UNCHANGED <<held, step, returned, life>>
  BY MailboxTypes DEF WriteTmp, Sent, drain, InboxInv, MailInv, MailTypes
<1>2. Posted' = Posted
  BY <1>1 DEF Posted
<1>3. Phase' = Phase /\ InHand' = InHand
  BY <1>1 DEF Phase, InHand
<1> QED BY <1>1, <1>2, <1>3, UnseenStep

\* The rename into new/ sends the message, after the earlier ones of its sender.
LEMMA PublishPosts ==
  ASSUME InboxInv, NEW m \in Msg, Publish(m) PROVE Inbox!Post(m)
<1>1. stamp \in [Msg -> -1 .. MaxClock] /\ m \in tmp /\ tmp' = tmp \ {m}
      /\ UNCHANGED <<stamp, held, step, returned, life>>
  BY DEF Publish, drain, InboxInv, MailInv, MailTypes
<1>2. m \in Sent /\ stamp[m] \in 0 .. MaxClock
  BY <1>1, MailboxTypes DEF InboxInv, MailInv, Places, Sent
<1>3. ASSUME NEW k \in Msg, k[1] = m[1], k[2] < m[2] PROVE Posted[k] \in 0 .. stamp[m]
  <2>1. k \in Sent \ tmp /\ stamp[k] <= stamp[m]
    BY <1>2, <1>3 DEF InboxInv, OrderInv, SendersInTurn
  <2>2. stamp[k] \in -1 .. MaxClock /\ stamp[k] # -1
    BY <1>1, <2>1 DEF Sent
  <2> QED BY <1>2, <2>1, <2>2, MailboxTypes DEF Posted
<1>4. Posted[m] = -1 /\ Posted' = [Posted EXCEPT ![m] = stamp[m]]
  BY <1>1 DEF Posted
<1>5. Phase' = Phase /\ InHand' = InHand /\ returned' = returned
  BY <1>1 DEF Phase, InHand
<1> QED BY <1>2, <1>3, <1>4, <1>5 DEF Inbox!Post, Posted, Phase

\* A drain takes all that can be read.
LEMMA DrainTakes ==
  ASSUME InboxInv, Running, StartDrain, UNCHANGED <<mail, returned>>, life' \in {"up", "stopping"}
  PROVE Inbox!Take
<1>1. UNCHANGED <<now, stamp, tmp, new, returned>> /\ life = "up" /\ step = "none"
  BY DEF mail, Running
<1> DEFINE R == new \ Corrupt
<1>2. R \in SUBSET Msg /\ Stamps
  BY DEF InboxInv, MailInv, MailTypes, Stamps
<1>3. held' \in Seq(R) /\ (\A m \in R : \E i \in DOMAIN held' : held'[i] = m) /\ step' \in {"return", "ack"}
  BY <1>2, InOrderLists DEF StartDrain, Receive
<1>4. InHand' = R
  BY <1>3 DEF InHand
<1>5. InHand = {}
  BY <1>1 DEF InboxInv, MailInv, Places, InHand
<1>6. R = {m \in Msg \ Corrupt : Posted[m] # -1} \ Given
  <2>1. \A m \in Msg : Posted[m] # -1 <=> m \in Sent \ tmp
    BY DEF Posted, Sent
  <2>2. \A m \in Sent \ tmp : m \in new \/ m \in Given
    BY <1>1, <1>5 DEF InboxInv, MailInv, AtLeastOnce
  <2>3. new \subseteq Sent /\ new \cap tmp = {} /\ new \cap Given = {} /\ new \subseteq Msg
    BY DEF InboxInv, MailInv, Places, MailTypes
  <2> QED BY <2>1, <2>2, <2>3
<1>7. Posted' = Posted
  BY <1>1 DEF Posted
<1>8. Phase = "idle" /\ Phase' = "reading"
  BY <1>1, <1>3 DEF Phase
<1> QED BY <1>1, <1>4, <1>6, <1>7, <1>8 DEF Inbox!Take, Inbox!Unread, Inbox!Given, Given, Posted, Phase

\* Cardinality means the same here and in the service.
LEMMA InboxCardinality == \A S : Inbox!Cardinality(S) = Cardinality(S)
BY DEF Inbox!Cardinality, Cardinality

\* The drain gives each message it took, oldest first.
LEMMA ReturnGives ==
  ASSUME InboxInv, Return PROVE Inbox!Give \/ Inbox!Close
<1>1. /\ step = "return" /\ step' = "none" /\ held' = <<>>
      /\ UNCHANGED <<now, stamp, tmp, new>>
      /\ life' = IF life = "stopping" THEN "down" ELSE life
  BY DEF Return, mail
<1>2. life \in {"up", "stopping"} /\ Phase = "reading" /\ Phase' \in {"idle", "closed"}
  BY <1>1 DEF InboxInv, DownIsDone, CoreInv, TurnTypes, Phase
<1>3. InHand' = {} /\ Posted' = Posted
  BY <1>1 DEF InHand, Posted
<1>4. CASE life = "stopping" /\ UNCHANGED returned
  <2>1. Phase' = "closed"
    BY <1>1, <1>4 DEF Phase
  <2> QED BY <1>2, <1>3, <1>4, <2>1 DEF Inbox!Close, Posted, Phase
<1>5. CASE returned' = returned \o held
  <2>1. held \in Seq(Msg) /\ stamp \in [Msg -> Int] /\ DOMAIN held = 1 .. Len(held) /\ Len(held) \in Nat
    BY MailboxTypes DEF InboxInv, MailInv, MailTypes
  <2>2. held \in [1 .. Len(held) -> InHand] /\ \A i, j \in DOMAIN held : held[i] = held[j] => i = j
    BY <2>1 DEF InHand, InboxInv, MailInv, Places
  <2>3. Len(held) = Cardinality(InHand)
    <3>1. held \in Bijection(1 .. Len(held), InHand)
      BY <2>1, <2>2 DEF InHand, Bijection, Injection, IsInjective, Surjection
    <3> QED BY <2>1, <3>1, FS_CountingElements DEF ExistsBijection
  <2>4. ASSUME NEW i \in DOMAIN held, NEW j \in DOMAIN held, i < j
        PROVE held[i] # held[j] /\ Posted[held[i]] <= Posted[held[j]]
    <3>1. Before(held[i], held[j]) /\ held[i] # held[j]
      BY <2>1, <2>2, <2>4 DEF InboxInv, OrderInv, DrainsInTurn
    <3>2. held[i] \in Msg \ tmp /\ held[j] \in Msg \ tmp
      BY <2>1 DEF InboxInv, MailInv, Places, InHand
    <3>3. stamp[held[i]] <= stamp[held[j]]
      BY <2>1, <3>1, <3>2 DEF Before
    <3> QED BY <3>1, <3>2, <3>3 DEF Posted
  <2>5. \E q \in [1 .. Cardinality(InHand) -> InHand] :
          /\ \A i, j \in DOMAIN q : i < j => q[i] # q[j] /\ Posted[q[i]] <= Posted[q[j]]
          /\ returned' = returned \o q
    BY <1>5, <2>2, <2>3, <2>4
  <2> QED BY <1>2, <1>3, <2>5, InboxCardinality DEF Inbox!Give, Posted, Phase
<1> QED BY <1>4, <1>5 DEF Return

\* A crash closes the inbox.
LEMMA CrashCloses ==
  ASSUME InboxInv, Crash PROVE Inbox!Close
<1>1. life # "down" /\ life' = "down" /\ held' = <<>> /\ UNCHANGED <<stamp, tmp, returned>>
  BY DEF Crash, mail
<1>2. Phase # "closed" /\ Phase' = "closed" /\ InHand' = {} /\ Posted' = Posted
  BY <1>1 DEF Phase, InHand, Posted
<1> QED BY <1>1, <1>2 DEF Inbox!Close, Posted, Phase

\* Every step of the inbox is one of the service, or one that the agent cannot see.
LEMMA InboxStep == InboxInv /\ [Next]_vars => [Inbox!Next]_(Inbox!vars)
<1> SUFFICES ASSUME InboxInv, [Next]_vars PROVE [Inbox!Next]_(Inbox!vars)
  OBVIOUS
<1>1. ASSUME NEW m \in Msg, WriteTmp(m) PROVE [Inbox!Next]_(Inbox!vars)
  BY <1>1, WriteTmpUnseen
<1>2. ASSUME NEW m \in Msg, Publish(m) PROVE Inbox!Next
  BY <1>2, PublishPosts DEF Inbox!Next
<1>3. CASE Millisecond \/ Check \/ TimerFires \/ RetryWindowEnds \/ UserTurn \/ TurnEnd \/ AgentEnd \/ UNCHANGED vars
  <2>1. UNCHANGED <<stamp, tmp, held, step, returned, life>>
    BY <1>3 DEF Millisecond, Check, TimerFires, RetryWindowEnds, UserTurn, TurnEnd, AgentEnd, mail, drain, vars
  <2>2. Posted' = Posted /\ Phase' = Phase /\ InHand' = InHand
    BY <2>1 DEF Posted, Phase, InHand
  <2> QED BY <2>1, <2>2, UnseenStep
<1>4. CASE Read \/ Shutdown
  BY <1>4, DrainTakes DEF Read, Shutdown, Running, Inbox!Next
<1>5. CASE Ack \/ Prune
  <2>1. UNCHANGED <<stamp, tmp, held, returned, life>> /\ step # "none" /\ step' # "none"
    BY <1>5 DEF Ack, Prune, mail
  <2>2. Posted' = Posted /\ Phase' = Phase /\ InHand' = InHand
    BY <2>1 DEF Posted, Phase, InHand
  <2> QED BY <2>1, <2>2, UnseenStep
<1>6. CASE Return
  BY <1>6, ReturnGives DEF Inbox!Next
<1>7. CASE Crash
  BY <1>7, CrashCloses DEF Inbox!Next
<1> QED BY <1>1, <1>2, <1>3, <1>4, <1>5, <1>6, <1>7 DEF Next, DrainStep

\* The directories, the acknowledgements and the drains are a way to keep the promise of
\* InboxService: a read gives all that was sent before it and not given, once and oldest first.
THEOREM MailImplementsInbox == Spec => ImplementsInbox
<1>1. Init => InboxInv /\ Inbox!Init
  <2>1. Init => MailInv /\ OrderInv /\ CoreInv
    BY InitMail, InitOrder, InitCore
  <2>2. Init => DownIsDone /\ Posted = [m \in Msg |-> -1] /\ Phase = "idle" /\ InHand = {} /\ returned = <<>>
    BY DEF Init, DownIsDone, Posted, Phase, InHand
  <2> QED BY <2>1, <2>2 DEF InboxInv, Inbox!Init, Posted, Phase
<1>2. InboxInv /\ [Next]_vars => InboxInv'
  <2>1. MailInv' => MailTypes'
    BY DEF MailInv
  <2> QED BY <2>1, NextMail, NextOrder, NextCore, NextDown DEF InboxInv
<1> QED BY <1>1, <1>2, InboxStep, PTL DEF Spec, Inbox!Spec, ImplementsInbox
=============================================================================
