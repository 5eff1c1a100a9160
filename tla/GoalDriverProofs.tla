-------------------------- MODULE GoalDriverProofs --------------------------
(***************************************************************************)
(* Proofs about a goal shared by any number of sessions: the prompt of an  *)
(* attempt is handed over at most once, a completion is that of the        *)
(* objective, hook and driver the goal has, and generations are new.       *)
(***************************************************************************)
EXTENDS GoalDriver, TLAPS

\* The bounds are natural numbers and nobody is no session.
LEMMA GoalNumbers ==
  /\ None \notin Session /\ Budget \in Nat /\ MaxTurns \in Nat
  /\ MaxRuns \in Nat /\ 1 <= MaxRuns /\ MaxEdits \in Nat
  /\ MaxHooks \in Nat /\ 1 <= MaxHooks /\ MaxEvents \in Nat
BY GoalAssumption

(***************************************************************************)
(* The inductive invariant                                                 *)
(***************************************************************************)

Attempts == (1 .. MaxRuns) \X (1 .. MaxTurns)
Threads == {Replacement} \cup (Session \X {"loop", "op", "dog", "end"})

FileTypes ==
  /\ goal \in Goal /\ late \in BOOLEAN /\ fresh \subseteq Threads
  /\ hook \in 0 .. MaxHooks /\ spent \in 0 .. MaxEvents

MemTypes == m \in [Session -> Memory]
SendTypes == sends \in [Attempts -> Nat]

\* Only a run that is going on has an owner.
OwnerRuns(g) == g.owner # Nobody => g.run /\ g.status = "active"

Checking == {"complete", "hook_runs", "passed", "failed"}

\* What a session may rely on while the revision it loaded is the current one, and what holds of it
\* always: it drives under no generation that was not given out, and no nudge beyond the bound is admitted.
Relies(s, r, g, fr) ==
  /\ r.driver <= g.ownerGen
  /\ r.dog \in {"admitting", "send", "contain"} => r.nudge <= MaxTurns
  /\ Loop(s) \in fr /\ r.loop = "claiming" => g.owner = Nobody
  /\ Loop(s) \in fr /\ r.loop \in {"admitting", "consuming"} => r.turn = g.used + 1
  /\ Dog(s) \in fr /\ r.dog = "admitting" => r.nudge = g.used + 1
  /\ Op(s) \in fr /\ r.op = "edit" => g.edits < MaxEdits
  /\ Op(s) \in fr /\ r.op \in Checking => r.vetted.edits = g.edits /\ r.vetted.owner = g.owner

AllRely == \A s \in Session : Relies(s, m[s], goal, fresh)

\* An attempt that was admitted and not yet handed over: by the loop, or as a nudge.
Hand == {"loop", "dog"}
Holds(r, h) == IF h = "loop" THEN r.loop \in {"dispatch", "deliver"} ELSE r.dog = "send"
Ticket(r, h) == IF h = "loop" THEN <<r.began, r.turn>> ELSE <<r.nudged, r.nudge>>

\* The attempt was given out: an earlier run's, or one the count of this run has passed.
Behind(a, g) == a[1] < g.start \/ (a[1] = g.start /\ a[2] <= g.used)

HeldOnce ==
  /\ \A s \in Session, h \in Hand : Holds(m[s], h) =>
       /\ Ticket(m[s], h) \in Attempts /\ Behind(Ticket(m[s], h), goal) /\ sends[Ticket(m[s], h)] = 0
  /\ \A s, t \in Session, h, k \in Hand :
       Holds(m[s], h) /\ Holds(m[t], k) /\ Ticket(m[s], h) = Ticket(m[t], k) => s = t /\ h = k

SentBehind == \A a \in Attempts : sends[a] <= 1 /\ (sends[a] = 1 => Behind(a, goal))

GoalInv ==
  /\ FileTypes /\ MemTypes /\ SendTypes
  /\ OwnerRuns(goal) /\ AllRely /\ HeldOnce /\ SentBehind

(***************************************************************************)
(* The helpers                                                             *)
(***************************************************************************)

LEMMA MemoryFields ==
  ASSUME NEW r \in Memory
  PROVE /\ r.loop \in LoopSteps /\ r.turn \in Turn /\ r.op \in OpSteps /\ r.dog \in DogSteps
        /\ r.nudge \in 0 .. MaxTurns + 1 /\ r.nudged \in 1 .. MaxRuns /\ r.as \in 0 .. MaxRuns
        /\ r.driver \in 0 .. MaxRuns /\ r.began \in 1 .. MaxRuns
        /\ r.pending \in Turn /\ r.cancelled \in SUBSET (1 .. MaxTurns)
BY DEF Memory

\* The types of the goal's fields.
LEMMA GoalFields ==
  ASSUME NEW g \in Goal
  PROVE /\ g.owner \in Owner /\ g.ownerGen \in 0 .. MaxRuns /\ g.adm \in Turn /\ g.repl \in Turn
        /\ g.used \in Turn /\ g.start \in 1 .. MaxRuns /\ g.edits \in 0 .. MaxEdits
        /\ g.run \in BOOLEAN /\ g.there \in BOOLEAN /\ g.level \in 0 .. 3
        /\ g.status \in {"active", "paused", "complete"} /\ g.checkHook \in 0 .. MaxHooks
BY DEF Goal

\* No owner is a possible owner.
LEMMA NobodyOwns == Nobody \in Owner
BY GoalNumbers DEF Nobody, Owner

\* What the operations that stop a run or end a tick of the watchdog leave alone.
SameLoop(q, r) == /\ q.loop = r.loop /\ q.turn = r.turn /\ q.began = r.began
                  /\ q.op = r.op /\ q.driver = r.driver /\ q.vetted = r.vetted
SameDog(q, r) == q.dog = r.dog /\ q.nudge = r.nudge /\ q.nudged = r.nudged /\ q.as = r.as

\* Cancelling the pending prompt touches neither loop nor watchdog.
LEMMA CancelPendingKeeps ==
  ASSUME NEW r \in Memory
  PROVE CancelPending(r) \in Memory /\ SameLoop(CancelPending(r), r) /\ SameDog(CancelPending(r), r)
<1>0. r.pending \in Turn /\ r.cancelled \in SUBSET (1 .. MaxTurns)
  BY MemoryFields
<1>1. CASE r.pending = 0
  BY <1>1 DEF CancelPending, SameLoop, SameDog
<1>2. CASE r.pending # 0
  <2>1. r.pending \in 1 .. MaxTurns
    BY <1>0, <1>2, GoalNumbers DEF Turn
  <2>2. r.cancelled \cup {r.pending} \in SUBSET (1 .. MaxTurns) /\ 0 \in Turn
    BY <1>0, <2>1, GoalNumbers DEF Turn
  <2>3. [r EXCEPT !.cancelled = @ \cup {r.pending}, !.pending = 0] \in Memory
    BY <2>2 DEF Memory
  <2> QED BY <1>2, <2>3 DEF CancelPending, SameLoop, SameDog, Memory
<1> QED BY <1>1, <1>2

\* Stopping the local run touches no thread's place.
LEMMA StopLocalRunKeeps ==
  ASSUME NEW r \in Memory
  PROVE StopLocalRun(r) \in Memory /\ SameLoop(StopLocalRun(r), r) /\ SameDog(StopLocalRun(r), r)
<1>1. CASE r.driver = 0
  BY <1>1 DEF StopLocalRun, SameLoop, SameDog
<1>2. CASE r.driver # 0
  <2>1. PICK q \in Memory : q = CancelPending(r) /\ SameLoop(q, r) /\ SameDog(q, r)
    BY CancelPendingKeeps
  <2>2. [q EXCEPT !.stopReq = TRUE, !.waiting = FALSE] \in Memory
    BY DEF Memory
  <2> QED BY <1>2, <2>1, <2>2 DEF StopLocalRun, SameLoop, SameDog, Memory
<1> QED BY <1>1, <1>2

\* Refreshing the display changes neither loop nor watchdog.
LEMMA RefreshUiKeeps ==
  ASSUME NEW r \in Memory, NEW g
  PROVE RefreshUi(r, g) \in Memory /\ SameLoop(RefreshUi(r, g), r) /\ SameDog(RefreshUi(r, g), r)
BY StopLocalRunKeeps DEF RefreshUi, SameLoop, SameDog

\* Clearing the watchdog's timer keeps the loop.
LEMMA NoTickKeeps ==
  ASSUME NEW r \in Memory
  PROVE NoTick(r) \in Memory /\ SameLoop(NoTick(r), r) /\ NoTick(r).dog = "off"
<1>1. 0 \in 0 .. MaxTurns + 1 /\ 0 \in 0 .. MaxRuns /\ 1 \in 1 .. MaxRuns /\ "off" \in DogSteps
  BY GoalNumbers DEF DogSteps
<1>2. [r EXCEPT !.dog = "off", !.nudge = 0, !.as = 0, !.nudged = 1] \in Memory
  BY <1>1 DEF Memory
<1> QED BY <1>2 DEF NoTick, SameLoop, Memory

\* A stop keeps everything that counts, and only takes the owner away.
LEMMA RevokedKeeps ==
  ASSUME goal \in Goal, NEW g \in Goal
  PROVE /\ Revoked(g) \in Goal /\ OwnerRuns(Revoked(g))
        /\ Revoked(g).status = g.status /\ Revoked(g).start = g.start /\ Revoked(g).edits = g.edits
        /\ Revoked(g).ownerGen = g.ownerGen /\ Revoked(g).used >= g.used /\ Revoked(g).run = g.run
        /\ Revoked(g).owner = g.owner \/ Revoked(g).owner = Nobody
        /\ (g.run /\ g.status = "active") => Revoked(g) = g
<1>1. CASE g.run /\ g.status = "active"
  <2>1. g.used \in Nat
    BY GoalFields, GoalNumbers DEF Turn
  <2>2. Revoked(g) = g
    BY <1>1 DEF Revoked
  <2>3. g.used >= g.used
    BY <2>1
  <2>4. OwnerRuns(g)
    BY <1>1 DEF OwnerRuns
  <2> QED BY <1>1, <2>2, <2>3, <2>4
<1>2. CASE ~(g.run /\ g.status = "active")
  <2>0. g.used \in Turn /\ goal.adm \in Turn
    BY GoalFields
  <2>1. Larger(g.used, goal.adm) \in Turn /\ Larger(g.used, goal.adm) >= g.used /\ 0 \in Turn
    BY <2>0, GoalNumbers DEF Larger, Turn
  <2>2. [g EXCEPT !.owner = Nobody, !.adm = 0, !.repl = 0, !.used = Larger(g.used, goal.adm)] \in Goal
    BY <2>1, NobodyOwns DEF Goal
  <2> QED BY <1>2, <2>1, <2>2 DEF Revoked, OwnerRuns, Goal
<1> QED BY <1>1, <1>2

(***************************************************************************)
(* What a step may do to the invariant                                     *)
(***************************************************************************)

Own(s) == {Replacement, Loop(s), Op(s), Dog(s), End(s)}

\* A step that leaves the file alone may load; one that writes it makes every other revision stale.
Knows(s) == (goal' = goal /\ fresh' \subseteq fresh \cup Own(s)) \/ fresh' \subseteq Own(s)

Forward ==
  /\ goal'.ownerGen >= goal.ownerGen
  /\ goal'.start > goal.start \/ (goal'.start = goal.start /\ goal'.used >= goal.used)

\* A step of s to memory r that types, keeps the file well and s within what it may rely on.
Proceeds(s, r) ==
  /\ r \in Memory /\ Becomes(s, r)
  /\ goal' \in Goal /\ OwnerRuns(goal') /\ Forward /\ Knows(s)
  /\ late' \in BOOLEAN /\ hook' \in 0 .. MaxHooks /\ spent' \in 0 .. MaxEvents
  /\ Relies(s, r, goal', fresh')

\* The memory of one session changes, the others' stay.
LEMMA Becoming ==
  ASSUME MemTypes, NEW s \in Session, NEW r, Becomes(s, r)
  PROVE m'[s] = r /\ \A t \in Session : t # s => m'[t] = m[t]
BY DEF MemTypes, Becomes

\* The threads of two sessions are different threads.
LEMMA ThreadsDiffer ==
  ASSUME NEW s \in Session, NEW t \in Session, t # s
  PROVE Loop(t) \notin Own(s) /\ Op(t) \notin Own(s) /\ Dog(t) \notin Own(s)
BY GoalNumbers DEF Own, Loop, Op, Dog, End, Replacement

\* A step whose commit each reader can rely on keeps types and reliances.
LEMMA ProceedingTypes ==
  ASSUME GoalInv, NEW s \in Session, NEW r, Proceeds(s, r)
  PROVE FileTypes' /\ MemTypes' /\ OwnerRuns(goal)' /\ AllRely'
<1>1. m \in [Session -> Memory] /\ r \in Memory /\ m' = [m EXCEPT ![s] = r] /\ MemTypes
  BY DEF GoalInv, MemTypes, Proceeds, Becomes
<1>2. MemTypes'
  BY <1>1 DEF MemTypes
<1>3. Own(s) \subseteq Threads
  BY DEF Own, Threads, Loop, Op, Dog, End
<1>4. FileTypes'
  BY <1>3 DEF GoalInv, FileTypes, Proceeds, Knows
<1>5. OwnerRuns(goal)'
  BY DEF Proceeds, OwnerRuns
<1>6. ASSUME NEW t \in Session PROVE Relies(t, m'[t], goal', fresh')
  <2>1. CASE t = s
    BY <2>1, <1>1, Becoming DEF Proceeds, Becomes
  <2>2. CASE t # s
    <3>1. m'[t] = m[t]
      BY <1>1, <2>2
    <3>2. Relies(t, m[t], goal, fresh) /\ m[t] \in Memory
      BY <1>1 DEF GoalInv, AllRely
    <3>3. /\ Loop(t) \in fresh' => goal' = goal /\ Loop(t) \in fresh
          /\ Op(t) \in fresh' => goal' = goal /\ Op(t) \in fresh
          /\ Dog(t) \in fresh' => goal' = goal /\ Dog(t) \in fresh
      BY <2>2, ThreadsDiffer DEF Proceeds, Knows
    <3>4. m[t].driver \in Nat /\ goal.ownerGen \in Nat /\ goal'.ownerGen \in Nat
      BY <3>2, MemoryFields, GoalFields, GoalNumbers DEF Proceeds, GoalInv, FileTypes
    <3>5. goal'.ownerGen >= goal.ownerGen
      BY DEF Proceeds, Forward
    <3>6. m[t].driver <= goal'.ownerGen
      BY <3>2, <3>4, <3>5 DEF Relies
    <3> QED BY <3>1, <3>2, <3>3, <3>6 DEF Relies
  <2> QED BY <2>1, <2>2
<1>7. AllRely'
  BY <1>6 DEF AllRely
<1> QED BY <1>2, <1>4, <1>5, <1>7

\* An attempt behind the file's count stays behind it.
LEMMA BehindStays ==
  ASSUME goal \in Goal, goal' \in Goal, Forward, NEW a \in Attempts, Behind(a, goal)
  PROVE Behind(a, goal')
<1>1. /\ goal.start \in Nat /\ goal'.start \in Nat /\ goal.used \in Nat /\ goal'.used \in Nat
      /\ a[1] \in Nat /\ a[2] \in Nat
  BY GoalFields, GoalNumbers DEF Attempts, Turn
<1> QED BY <1>1 DEF Behind, Forward

\* No hand of s takes up an attempt.
TakesNone(s, r) == \A h \in Hand : Holds(r, h) => Holds(m[s], h) /\ Ticket(r, h) = Ticket(m[s], h)

\* A step that takes no attempt and sends nothing keeps the invariant.
LEMMA KeepsTickets ==
  ASSUME GoalInv, NEW s \in Session, NEW r, Proceeds(s, r), TakesNone(s, r), sends' = sends
  PROVE GoalInv'
<1>1. FileTypes' /\ MemTypes' /\ OwnerRuns(goal)' /\ AllRely' /\ SendTypes'
  BY ProceedingTypes DEF GoalInv, SendTypes
<1>2. goal \in Goal /\ goal' \in Goal /\ Forward /\ MemTypes /\ Becomes(s, r)
  BY DEF GoalInv, FileTypes, Proceeds
<1>3. ASSUME NEW t \in Session, NEW h \in Hand, Holds(m'[t], h)
      PROVE Holds(m[t], h) /\ Ticket(m'[t], h) = Ticket(m[t], h)
  BY <1>2, <1>3, Becoming DEF TakesNone
<1>4. HeldOnce'
  <2>1. ASSUME NEW t \in Session, NEW h \in Hand, Holds(m'[t], h)
        PROVE /\ Ticket(m'[t], h) \in Attempts /\ Behind(Ticket(m'[t], h), goal')
              /\ sends'[Ticket(m'[t], h)] = 0
    <3>1. /\ Ticket(m[t], h) \in Attempts /\ Behind(Ticket(m[t], h), goal)
          /\ sends[Ticket(m[t], h)] = 0 /\ Ticket(m'[t], h) = Ticket(m[t], h)
      BY <1>3, <2>1 DEF GoalInv, HeldOnce
    <3> QED BY <1>2, <3>1, BehindStays
  <2>2. ASSUME NEW t \in Session, NEW u \in Session, NEW h \in Hand, NEW k \in Hand,
               Holds(m'[t], h), Holds(m'[u], k), Ticket(m'[t], h) = Ticket(m'[u], k)
        PROVE t = u /\ h = k
    BY <1>3, <2>2 DEF GoalInv, HeldOnce
  <2> QED BY <2>1, <2>2 DEF HeldOnce
<1>5. SentBehind'
  BY <1>2, BehindStays DEF GoalInv, SentBehind
<1> QED BY <1>1, <1>4, <1>5 DEF GoalInv

\* The next attempt of the run, which nobody holds and nobody was given.
NextAttempt(g) == <<g.start, g.used + 1>>

\* The next attempt was neither sent nor taken.
LEMMA NextIsNew ==
  ASSUME GoalInv, NextAttempt(goal) \in Attempts
  PROVE /\ sends[NextAttempt(goal)] = 0
        /\ \A t \in Session, h \in Hand : Holds(m[t], h) => Ticket(m[t], h) # NextAttempt(goal)
<1>1. goal.start \in Nat /\ goal.used \in Nat
  BY GoalFields, GoalNumbers DEF GoalInv, FileTypes, Turn
<1>2. ~Behind(NextAttempt(goal), goal)
  BY <1>1 DEF Behind, NextAttempt
<1>3. sends[NextAttempt(goal)] \in Nat /\ sends[NextAttempt(goal)] <= 1 /\ sends[NextAttempt(goal)] # 1
  BY <1>2 DEF GoalInv, SendTypes, SentBehind
<1> QED BY <1>2, <1>3 DEF GoalInv, HeldOnce

\* Admitting the next attempt puts it in one hand only.
LEMMA TakesNext ==
  ASSUME GoalInv, NEW s \in Session, NEW r, Proceeds(s, r), sends' = sends,
         NEW h \in Hand, Ticket(r, h) = NextAttempt(goal), NextAttempt(goal) \in Attempts,
         goal'.start = goal.start, goal'.used >= goal.used + 1,
         \A k \in Hand : k # h /\ Holds(r, k) => Holds(m[s], k) /\ Ticket(r, k) = Ticket(m[s], k)
  PROVE GoalInv'
<1>1. FileTypes' /\ MemTypes' /\ OwnerRuns(goal)' /\ AllRely' /\ SendTypes'
  BY ProceedingTypes DEF GoalInv, SendTypes
<1>2. goal \in Goal /\ goal' \in Goal /\ Forward /\ MemTypes /\ Becomes(s, r) /\ m'[s] = r
  BY Becoming DEF GoalInv, FileTypes, Proceeds
<1>3. ASSUME NEW t \in Session, NEW k \in Hand, Holds(m'[t], k), t # s \/ k # h
      PROVE Holds(m[t], k) /\ Ticket(m'[t], k) = Ticket(m[t], k)
  BY <1>2, <1>3, Becoming
<1>4. /\ goal.start \in Nat /\ goal.used \in Nat /\ goal'.used \in Nat
  BY <1>2, GoalFields, GoalNumbers DEF Turn
<1>5. Behind(NextAttempt(goal), goal') /\ sends'[NextAttempt(goal)] = 0
  BY <1>4, NextIsNew DEF Behind, NextAttempt
<1>6. HeldOnce'
  <2>1. ASSUME NEW t \in Session, NEW k \in Hand, Holds(m'[t], k)
        PROVE /\ Ticket(m'[t], k) \in Attempts /\ Behind(Ticket(m'[t], k), goal')
              /\ sends'[Ticket(m'[t], k)] = 0
    <3>1. CASE t = s /\ k = h
      BY <3>1, <1>2, <1>5
    <3>2. CASE t # s \/ k # h
      <4>1. /\ Ticket(m[t], k) \in Attempts /\ Behind(Ticket(m[t], k), goal)
            /\ sends[Ticket(m[t], k)] = 0 /\ Ticket(m'[t], k) = Ticket(m[t], k)
        BY <1>3, <2>1, <3>2 DEF GoalInv, HeldOnce
      <4> QED BY <1>2, <4>1, BehindStays
    <3> QED BY <3>1, <3>2
  <2>2. ASSUME NEW t \in Session, NEW u \in Session, NEW k \in Hand, NEW l \in Hand,
               Holds(m'[t], k), Holds(m'[u], l), Ticket(m'[t], k) = Ticket(m'[u], l)
        PROVE t = u /\ k = l
    <3>1. CASE (t # s \/ k # h) /\ (u # s \/ l # h)
      BY <1>3, <2>2, <3>1 DEF GoalInv, HeldOnce
    <3>2. CASE t = s /\ k = h /\ (u # s \/ l # h)
      BY <1>2, <1>3, <2>2, <3>2, NextIsNew
    <3>3. CASE u = s /\ l = h /\ (t # s \/ k # h)
      BY <1>2, <1>3, <2>2, <3>3, NextIsNew
    <3> QED BY <3>1, <3>2, <3>3
  <2> QED BY <2>1, <2>2 DEF HeldOnce
<1>7. SentBehind'
  BY <1>2, BehindStays DEF GoalInv, SentBehind
<1> QED BY <1>1, <1>6, <1>7 DEF GoalInv

\* Handing the prompt over sends the attempt that hand held.
LEMMA HandsOver ==
  ASSUME GoalInv, NEW s \in Session, NEW r, Proceeds(s, r), TakesNone(s, r), goal' = goal,
         NEW h \in Hand, Holds(m[s], h), ~Holds(r, h), CountSend(Ticket(m[s], h)[1], Ticket(m[s], h)[2])
  PROVE GoalInv'
<1>1. FileTypes' /\ MemTypes' /\ OwnerRuns(goal)' /\ AllRely'
  BY ProceedingTypes
<1>2. MemTypes /\ Becomes(s, r) /\ m'[s] = r
  BY Becoming DEF GoalInv, Proceeds
<1>3. PICK a \in Attempts : a = Ticket(m[s], h) /\ Behind(a, goal) /\ sends[a] = 0
  BY DEF GoalInv, HeldOnce
<1>4. sends \in [Attempts -> Nat] /\ sends' = [sends EXCEPT ![a] = 1]
  <2>1. a = <<a[1], a[2]>>
    BY <1>3 DEF Attempts
  <2>2. sends' = [sends EXCEPT ![a] = @ + 1]
    BY <1>3, <2>1 DEF CountSend
  <2>3. sends \in [Attempts -> Nat]
    BY DEF GoalInv, SendTypes
  <2> QED BY <1>3, <2>2, <2>3
<1>5. SendTypes'
  BY <1>4 DEF SendTypes
<1>6. sends'[a] = 1 /\ \A b \in Attempts : b # a => sends'[b] = sends[b]
  BY <1>3, <1>4
<1>7. SentBehind'
  BY <1>3, <1>6 DEF GoalInv, SentBehind
<1>8. ASSUME NEW t \in Session, NEW k \in Hand, Holds(m'[t], k)
      PROVE Holds(m[t], k) /\ Ticket(m'[t], k) = Ticket(m[t], k) /\ (t # s \/ k # h)
  BY <1>2, <1>8, Becoming DEF TakesNone
<1>9. HeldOnce'
  <2>1. ASSUME NEW t \in Session, NEW k \in Hand, Holds(m'[t], k)
        PROVE /\ Ticket(m'[t], k) \in Attempts /\ Behind(Ticket(m'[t], k), goal')
              /\ sends'[Ticket(m'[t], k)] = 0
    <3>1. /\ Ticket(m[t], k) \in Attempts /\ Behind(Ticket(m[t], k), goal) /\ sends[Ticket(m[t], k)] = 0
          /\ Ticket(m'[t], k) = Ticket(m[t], k) /\ Ticket(m[t], k) # a
      BY <1>3, <1>8, <2>1 DEF GoalInv, HeldOnce
    <3> QED BY <1>6, <3>1
  <2>2. ASSUME NEW t \in Session, NEW u \in Session, NEW k \in Hand, NEW l \in Hand,
               Holds(m'[t], k), Holds(m'[u], l), Ticket(m'[t], k) = Ticket(m'[u], l)
        PROVE t = u /\ k = l
    BY <1>8, <2>2 DEF GoalInv, HeldOnce
  <2> QED BY <2>1, <2>2 DEF HeldOnce
<1> QED BY <1>1, <1>5, <1>7, <1>9 DEF GoalInv

(***************************************************************************)
(* Steps after which a session relies on nothing new                       *)
(***************************************************************************)

LoopRests(r) == r.loop \notin {"claiming", "admitting", "consuming", "dispatch", "deliver"}
OpRests(r)   == r.op \notin Checking \cup {"edit"}
DogRests(r)  == r.dog \notin {"admitting", "send", "contain"}

\* r comes from q without relying on more or holding more.
AtEase(r, q) ==
  /\ r.driver <= q.driver
  /\ LoopRests(r) \/ (r.loop = q.loop /\ r.turn = q.turn /\ r.began = q.began)
  /\ OpRests(r) \/ (r.op = q.op /\ r.vetted = q.vetted)
  /\ DogRests(r) \/ (r.dog = q.dog /\ r.nudge = q.nudge /\ r.nudged = q.nudged)

\* What a thread has just loaded or committed it does not rely on yet.
Informs(s, r) ==
  /\ fresh' \subseteq fresh \cup Own(s)
  /\ Loop(s) \in fresh' => Loop(s) \in fresh \/ LoopRests(r)
  /\ Op(s) \in fresh' => Op(s) \in fresh \/ OpRests(r)
  /\ Dog(s) \in fresh' => Dog(s) \in fresh \/ DogRests(r)

\* What the invariant says of one session.
LEMMA Here ==
  ASSUME GoalInv, NEW s \in Session
  PROVE /\ m[s] \in Memory /\ goal \in Goal /\ Relies(s, m[s], goal, fresh) /\ OwnerRuns(goal)
        /\ late \in BOOLEAN /\ hook \in 0 .. MaxHooks /\ spent \in 0 .. MaxEvents
        /\ fresh \subseteq Threads
BY DEF GoalInv, FileTypes, MemTypes, AllRely

\* The count of outside events stays in its bound.
LEMMA SpentTypes ==
  ASSUME GoalInv, Event \/ Normal
  PROVE spent' \in 0 .. MaxEvents
BY GoalNumbers DEF GoalInv, FileTypes, Event, Normal

\* A session whose loop and watchdog only come to rest takes no attempt.
LEMMA EaseTakesNone ==
  ASSUME NEW s, NEW r, AtEase(r, m[s])
  PROVE TakesNone(s, r)
BY DEF AtEase, TakesNone, Holds, Ticket, Hand, LoopRests, DogRests

\* A step that leaves the goal alone and lets threads come to rest keeps the invariant.
LEMMA Waits ==
  ASSUME GoalInv, NEW s \in Session, NEW r \in Memory, Becomes(s, r), AtEase(r, m[s]),
         goal' = goal, Informs(s, r), sends' = sends,
         late' \in BOOLEAN, hook' \in 0 .. MaxHooks, spent' \in 0 .. MaxEvents
  PROVE GoalInv'
<1>1. /\ m[s] \in Memory /\ goal \in Goal /\ Relies(s, m[s], goal, fresh) /\ OwnerRuns(goal)
  BY Here
<1>2. Forward
  BY <1>1, GoalFields, GoalNumbers DEF Forward, Turn
<1>3. r.driver \in Nat /\ m[s].driver \in Nat /\ goal.ownerGen \in Nat
  BY <1>1, MemoryFields, GoalFields, GoalNumbers
<1>4. r.driver <= goal'.ownerGen
  BY <1>1, <1>3 DEF Relies, AtEase
<1>5. Relies(s, r, goal', fresh')
  BY <1>1, <1>4 DEF Relies, AtEase, Informs, LoopRests, OpRests, DogRests, Checking
<1>6. Knows(s)
  BY DEF Knows, Informs
<1>7. Proceeds(s, r)
  BY <1>1, <1>2, <1>5, <1>6 DEF Proceeds
<1> QED BY <1>7, EaseTakesNone, KeepsTickets

\* A commit whose writer keeps no revision a thread of it relies on.
LEMMA Commits ==
  ASSUME GoalInv, NEW s \in Session, NEW r \in Memory, Becomes(s, r), AtEase(r, m[s]),
         NEW g \in Goal, NEW knows, Commit(g, knows), knows \subseteq Own(s),
         Loop(s) \in knows => LoopRests(r), Op(s) \in knows => OpRests(r), Dog(s) \in knows => DogRests(r),
         g.ownerGen = goal.ownerGen,
         g.start > goal.start \/ (g.start = goal.start /\ g.used >= goal.used),
         sends' = sends, late' \in BOOLEAN, hook' \in 0 .. MaxHooks, spent' \in 0 .. MaxEvents
  PROVE GoalInv'
<1>1. /\ m[s] \in Memory /\ goal \in Goal /\ Relies(s, m[s], goal, fresh)
  BY Here
<1>2. /\ goal' \in Goal /\ OwnerRuns(goal') /\ goal'.start = g.start /\ goal'.ownerGen = g.ownerGen
      /\ goal'.used >= g.used /\ fresh' = knows
  BY <1>1, RevokedKeeps DEF Commit
<1>3. /\ goal.used \in Nat /\ g.used \in Nat /\ goal'.used \in Nat /\ goal.start \in Nat /\ g.start \in Nat
      /\ goal.ownerGen \in Nat /\ r.driver \in Nat /\ m[s].driver \in Nat
  BY <1>1, <1>2, GoalFields, MemoryFields, GoalNumbers DEF Turn
<1>4. Forward
  BY <1>2, <1>3 DEF Forward
<1>5. r.driver <= goal'.ownerGen
  BY <1>1, <1>2, <1>3 DEF Relies, AtEase
<1>6. DogRests(r) \/ r.nudge <= MaxTurns
  BY <1>1 DEF Relies, AtEase, DogRests
<1>7. Relies(s, r, goal', fresh')
  BY <1>2, <1>5, <1>6 DEF Relies, LoopRests, OpRests, DogRests, Checking
<1>8. Knows(s)
  BY <1>2 DEF Knows
<1>9. Proceeds(s, r)
  BY <1>2, <1>4, <1>7, <1>8 DEF Proceeds
<1> QED BY <1>9, EaseTakesNone, KeepsTickets

\* The steps of the loop that only move it on.
LEMMA Moves ==
  ASSUME GoalInv, NEW s \in Session, NEW pc \in LoopSteps, Step(s, pc),
         pc \notin {"claiming", "admitting", "consuming", "dispatch", "deliver"},
         goal' = goal, fresh' \subseteq fresh \cup {Loop(s)}, sends' = sends,
         late' \in BOOLEAN, hook' = hook, spent' \in 0 .. MaxEvents
  PROVE GoalInv'
<1>1. m[s] \in Memory /\ hook \in 0 .. MaxHooks
  BY Here
<1>2. [m[s] EXCEPT !.loop = pc] \in Memory
  BY <1>1 DEF Memory
<1>3. m[s].driver <= m[s].driver
  BY <1>1, MemoryFields, GoalNumbers
<1>4. AtEase([m[s] EXCEPT !.loop = pc], m[s]) /\ LoopRests([m[s] EXCEPT !.loop = pc])
  BY <1>1, <1>3 DEF AtEase, LoopRests, Memory
<1>5. Informs(s, [m[s] EXCEPT !.loop = pc])
  BY <1>4, GoalNumbers DEF Informs, Own, Loop, Op, Dog
<1> QED BY <1>1, <1>2, <1>4, <1>5, Waits DEF Step

(***************************************************************************)
(* The loop                                                                *)
(***************************************************************************)

\* The loads on whose revision a claim or an admission relies.
LEMMA Prepares ==
  ASSUME GoalInv, NEW s \in Session, NEW pc \in {"claiming", "admitting", "consuming"},
         Load(Loop(s)), Step(s, pc),
         pc = "claiming" => goal.owner = Nobody,
         pc # "claiming" => m[s].turn = goal.used + 1,
         UNCHANGED <<goal, late, hook, sends, spent>>
  PROVE GoalInv'
<1> DEFINE r == [m[s] EXCEPT !.loop = pc]
<1>1. /\ m[s] \in Memory /\ goal \in Goal /\ Relies(s, m[s], goal, fresh) /\ OwnerRuns(goal)
      /\ late \in BOOLEAN /\ hook \in 0 .. MaxHooks /\ spent \in 0 .. MaxEvents
  BY Here
<1>2. r \in Memory
  BY <1>1 DEF Memory, LoopSteps
<1>3. /\ r.loop = pc /\ r.turn = m[s].turn /\ r.op = m[s].op /\ r.vetted = m[s].vetted
      /\ r.dog = m[s].dog /\ r.nudge = m[s].nudge /\ r.nudged = m[s].nudged /\ r.driver = m[s].driver
  BY <1>1 DEF Memory
<1>4. /\ Op(s) \in fresh' => Op(s) \in fresh
      /\ Dog(s) \in fresh' => Dog(s) \in fresh
  BY DEF Load, Loop, Op, Dog
<1>5. Relies(s, r, goal', fresh')
  BY <1>1, <1>3, <1>4 DEF Relies
<1>6. Forward /\ Knows(s)
  BY <1>1, GoalFields, GoalNumbers DEF Forward, Turn, Knows, Load, Own
<1>7. Proceeds(s, r)
  BY <1>1, <1>2, <1>5, <1>6 DEF Proceeds, Step
<1>8. TakesNone(s, r)
  BY <1>3 DEF TakesNone, Holds, Ticket, Hand
<1> QED BY <1>7, <1>8, KeepsTickets

\* One lemma per step of a run: each keeps the invariant.
LEMMA StartAllowedStep ==
  ASSUME GoalInv, NEW s \in Session, NEW pc \in {"allowed", "resuming"}, StartAllowed(s, pc)
  PROVE GoalInv'
<1> DEFINE r == [m[s] EXCEPT !.loop = pc, !.stopReq = FALSE]
<1>1. m[s] \in Memory /\ hook \in 0 .. MaxHooks /\ late \in BOOLEAN /\ spent \in 0 .. MaxEvents
  BY Here
<1>2. r \in Memory
  BY <1>1 DEF Memory, LoopSteps
<1>3. r.driver <= m[s].driver
  BY <1>1, MemoryFields, GoalNumbers DEF Memory
<1>4. AtEase(r, m[s]) /\ LoopRests(r)
  BY <1>1, <1>3 DEF AtEase, LoopRests, Memory
<1>5. Informs(s, r)
  BY <1>4 DEF Informs, StartAllowed
<1> QED BY <1>1, <1>2, <1>4, <1>5, Waits DEF StartAllowed

LEMMA StartLoadStep ==
  ASSUME GoalInv, NEW s \in Session, StartLoad(s)
  PROVE GoalInv'
<1>1. late \in BOOLEAN /\ spent \in 0 .. MaxEvents
  BY Here
<1>2. PICK pc \in {"starting", "restarting", "off"} : Step(s, pc)
  BY DEF StartLoad
<1>3. fresh' \subseteq fresh \cup {Loop(s)}
  BY DEF StartLoad, Load
<1>4. pc \in LoopSteps
  BY <1>2 DEF LoopSteps
<1> QED BY <1>1, <1>2, <1>3, <1>4, Moves DEF StartLoad

\* What a start writes.
LEMMA StartTypes ==
  ASSUME NEW g \in Goal
  PROVE /\ g.start < MaxRuns => StartRun(g) \in Goal /\ StartRun(g).start = g.start + 1
        /\ StartRun(g).ownerGen = g.ownerGen
        /\ ResumeRun(g) \in Goal /\ ResumeRun(g).start = g.start /\ ResumeRun(g).used = g.used
        /\ ResumeRun(g).ownerGen = g.ownerGen
<1>1. 0 \in Turn /\ Budget \in {0, Budget} /\ 0 \in {0, Budget} /\ "none" \in CheckStatus /\ 0 \in 0 .. 3
  BY GoalNumbers DEF Turn, CheckStatus
<1>2. ResumeRun(g) \in Goal
  BY <1>1 DEF ResumeRun, Goal
<1>3. ASSUME g.start < MaxRuns PROVE StartRun(g) \in Goal
  <2>1. g.start + 1 \in 1 .. MaxRuns
    BY <1>3, GoalFields, GoalNumbers
  <2> QED BY <1>1, <2>1 DEF StartRun, Goal
<1> QED BY <1>2, <1>3 DEF StartRun, ResumeRun, Goal

LEMMA StartCommitStep ==
  ASSUME GoalInv, NEW s \in Session, StartCommit(s)
  PROVE GoalInv'
<1>1. /\ m[s] \in Memory /\ goal \in Goal /\ hook \in 0 .. MaxHooks /\ late \in BOOLEAN
      /\ spent \in 0 .. MaxEvents
  BY Here
<1>2. CASE Step(s, "off") /\ UNCHANGED <<goal, fresh, late>>
  BY <1>1, <1>2, Moves DEF StartCommit, LoopSteps
<1>3. CASE /\ m[s].loop = "starting" => goal.start < MaxRuns
           /\ Commit(IF m[s].loop = "starting" THEN StartRun(goal) ELSE ResumeRun(goal), {})
           /\ late' = FALSE /\ Step(s, "claim")
  <2>8. m[s].loop = "starting" => goal.start < MaxRuns
    BY <1>3
  <2>0. /\ m[s].loop = "starting" => StartRun(goal) \in Goal /\ StartRun(goal).start = goal.start + 1
        /\ StartRun(goal).ownerGen = goal.ownerGen
        /\ ResumeRun(goal) \in Goal /\ ResumeRun(goal).start = goal.start
        /\ ResumeRun(goal).used = goal.used /\ ResumeRun(goal).ownerGen = goal.ownerGen
    BY <1>1, <2>8, StartTypes
  <2> DEFINE r == [m[s] EXCEPT !.loop = "claim"]
             g == IF m[s].loop = "starting" THEN StartRun(goal) ELSE ResumeRun(goal)
  <2>1. g \in Goal /\ g.ownerGen = goal.ownerGen
    BY <2>0
  <2>2. g.start = goal.start + 1 \/ (g.start = goal.start /\ g.used = goal.used)
    BY <2>0
  <2>3. g.start > goal.start \/ (g.start = goal.start /\ g.used >= goal.used)
    BY <1>1, <2>2, GoalFields, GoalNumbers DEF Turn
  <2>4. r \in Memory
    BY <1>1 DEF Memory, LoopSteps
  <2>5. AtEase(r, m[s])
    <3>1. r.driver <= m[s].driver
      BY <1>1, MemoryFields, GoalNumbers DEF Memory
    <3> QED BY <1>1, <3>1 DEF AtEase, LoopRests, Memory
  <2>6. Becomes(s, r) /\ Commit(g, {})
    BY <1>3 DEF Step
  <2>7. sends' = sends /\ late' \in BOOLEAN /\ hook' \in 0 .. MaxHooks /\ spent' \in 0 .. MaxEvents
    BY <1>1, <1>3 DEF StartCommit
  <2> HIDE DEF g, r
  <2> QED BY <2>1, <2>3, <2>4, <2>5, <2>6, <2>7, Commits
<1> QED BY <1>2, <1>3 DEF StartCommit

LEMMA ClaimLoadStep ==
  ASSUME GoalInv, NEW s \in Session, ClaimLoad(s)
  PROVE GoalInv'
<1>1. late \in BOOLEAN /\ spent \in 0 .. MaxEvents
  BY Here
<1>2. CASE Active /\ goal.owner = Nobody
  BY <1>2, Prepares DEF ClaimLoad
<1>3. CASE ~(Active /\ goal.owner = Nobody)
  BY <1>1, <1>3, Moves DEF ClaimLoad, LoopSteps
<1> QED BY <1>2, <1>3

\* The claim gives out the next generation.
LEMMA Claims ==
  ASSUME GoalInv, NEW s \in Session, NEW next \in {"top", "interrupt"},
         Matches(Loop(s)), goal.ownerGen < MaxRuns, m[s].loop = "claiming",
         Commit([goal EXCEPT !.owner = [by |-> s, gen |-> goal.ownerGen + 1], !.ownerGen = goal.ownerGen + 1], {}),
         Becomes(s, [m[s] EXCEPT !.loop = next, !.driver = goal.ownerGen + 1, !.stopReq = FALSE,
                                 !.closed = FALSE]),
         UNCHANGED <<late, hook, sends>>, spent' \in 0 .. MaxEvents
  PROVE GoalInv'
<1>1. /\ m[s] \in Memory /\ goal \in Goal /\ Relies(s, m[s], goal, fresh)
      /\ late \in BOOLEAN /\ hook \in 0 .. MaxHooks
  BY Here
<1>2. goal.ownerGen + 1 \in 0 .. MaxRuns
  BY <1>1, GoalFields, GoalNumbers
<1>3. [by |-> s, gen |-> goal.ownerGen + 1] \in Owner
  BY <1>2 DEF Owner
<1>4. PICK g \in Goal : g = [goal EXCEPT !.owner = [by |-> s, gen |-> goal.ownerGen + 1],
                                         !.ownerGen = goal.ownerGen + 1]
  BY <1>1, <1>2, <1>3 DEF Goal
<1>5. g.start = goal.start /\ g.used = goal.used /\ g.ownerGen = goal.ownerGen + 1
  BY <1>1, <1>4 DEF Goal
<1>6. /\ goal' \in Goal /\ OwnerRuns(goal') /\ goal'.start = goal.start
      /\ goal'.ownerGen = goal.ownerGen + 1 /\ goal'.used >= goal.used /\ fresh' = {}
  BY <1>1, <1>4, <1>5, RevokedKeeps DEF Commit
<1>7. Forward
  BY <1>1, <1>6, GoalFields, GoalNumbers DEF Forward
<1>8. PICK r : r = [m[s] EXCEPT !.loop = next, !.driver = goal.ownerGen + 1, !.stopReq = FALSE,
                                !.closed = FALSE]
  OBVIOUS
<1>9. r \in Memory
  BY <1>1, <1>2, <1>8 DEF Memory, LoopSteps
<1>10. /\ r.loop = next /\ r.driver = goal.ownerGen + 1 /\ r.dog = m[s].dog /\ r.nudge = m[s].nudge
       /\ r.nudged = m[s].nudged
  BY <1>1, <1>8 DEF Memory
<1>11. Relies(s, r, goal', fresh')
  BY <1>1, <1>2, <1>6, <1>10 DEF Relies
<1>12. Proceeds(s, r)
  BY <1>1, <1>6, <1>7, <1>8, <1>9, <1>11 DEF Proceeds, Knows
<1>13. TakesNone(s, r)
  BY <1>10 DEF TakesNone, Holds, Ticket, Hand
<1> QED BY <1>12, <1>13, KeepsTickets

LEMMA ClaimStep ==
  ASSUME GoalInv, NEW s \in Session, Claim(s)
  PROVE GoalInv'
<1>1. late \in BOOLEAN /\ spent \in 0 .. MaxEvents
  BY Here
<1>2. CASE ~Matches(Loop(s)) /\ Step(s, "off") /\ UNCHANGED <<goal, fresh, spent>>
  BY <1>1, <1>2, Moves DEF Claim, LoopSteps
<1>3. CASE ~(~Matches(Loop(s)) /\ Step(s, "off") /\ UNCHANGED <<goal, fresh, spent>>)
  <2>1. PICK next \in {"top", "interrupt"} :
          /\ IF next = "top" THEN Normal ELSE Event
          /\ Becomes(s, [m[s] EXCEPT !.loop = next, !.driver = goal.ownerGen + 1, !.stopReq = FALSE,
                                     !.closed = FALSE])
    BY <1>3 DEF Claim
  <2>2. spent' \in 0 .. MaxEvents
    BY <2>1, SpentTypes
  <2>3. /\ Matches(Loop(s)) /\ goal.ownerGen < MaxRuns /\ m[s].loop = "claiming"
        /\ Commit([goal EXCEPT !.owner = [by |-> s, gen |-> goal.ownerGen + 1],
                               !.ownerGen = goal.ownerGen + 1], {})
        /\ UNCHANGED <<late, hook, sends>>
    BY <1>3 DEF Claim
  <2> QED BY <2>1, <2>2, <2>3, Claims
<1> QED BY <1>2, <1>3

LEMMA LoopTopStep ==
  ASSUME GoalInv, NEW s \in Session, LoopTop(s)
  PROVE GoalInv'
<1>1. m[s] \in Memory /\ goal \in Goal /\ late \in BOOLEAN /\ hook \in 0 .. MaxHooks /\ spent \in 0 .. MaxEvents
  BY Here
<1>2. CASE Step(s, "release") \/ Step(s, "interrupt")
  BY <1>1, <1>2, Moves DEF LoopTop, LoopSteps
<1>3. CASE ~(Step(s, "release") \/ Step(s, "interrupt"))
  <2> DEFINE attempt == goal.used + 1
  <2>1. PICK r : /\ r = [m[s] EXCEPT !.turn = attempt, !.waiting = TRUE,
                              !.pending = IF attempt > 1 THEN attempt ELSE 0,
                              !.loop = IF attempt = 1 THEN "admit" ELSE "reserve"]
                 /\ Becomes(s, r) /\ attempt <= MaxTurns
    BY <1>3 DEF LoopTop
  <2>2. attempt \in Turn /\ (IF attempt > 1 THEN attempt ELSE 0) \in Turn
    BY <1>1, <2>1, GoalFields, GoalNumbers DEF Turn
  <2>3. (IF attempt = 1 THEN "admit" ELSE "reserve") \in LoopSteps
    BY DEF LoopSteps
  <2> HIDE DEF attempt
  <2>4. r \in Memory
    BY <1>1, <2>1, <2>2, <2>3 DEF Memory
  <2>5. /\ r.loop \in {"admit", "reserve"} /\ r.op = m[s].op /\ r.vetted = m[s].vetted /\ r.dog = m[s].dog
        /\ r.nudge = m[s].nudge /\ r.nudged = m[s].nudged /\ r.driver = m[s].driver
    BY <1>1, <2>1 DEF Memory
  <2>6. AtEase(r, m[s])
    BY <1>1, <2>5, MemoryFields, GoalNumbers DEF AtEase, LoopRests
  <2>7. goal' = goal /\ sends' = sends /\ fresh' = fresh /\ late' = late /\ hook' = hook /\ spent' = spent
    BY DEF LoopTop
  <2>8. Informs(s, r)
    BY <2>7 DEF Informs
  <2> QED BY <1>1, <2>1, <2>4, <2>6, <2>7, <2>8, Waits
<1> QED BY <1>2, <1>3

LEMMA AdmitLoadStep ==
  ASSUME GoalInv, NEW s \in Session, AdmitLoad(s)
  PROVE GoalInv'
<1>1. late \in BOOLEAN /\ spent \in 0 .. MaxEvents
  BY Here
<1>2. CASE Admissible(m[s].turn)
  BY <1>2, Prepares DEF AdmitLoad, Admissible
<1>3. CASE ~Admissible(m[s].turn)
  BY <1>1, <1>3, Moves DEF AdmitLoad, LoopSteps
<1> QED BY <1>2, <1>3

\* An admission: the attempt is the next of the run, and is in the loop's hand from then on, or in none.
LEMMA Admits ==
  ASSUME GoalInv, NEW s \in Session, MatchesAsOwner(Loop(s), s), m[s].loop \in {"admitting", "consuming"},
         NEW pc \in {"dispatch", "deliver", "release", "interrupt"}, StepAdmitted(s, pc),
         NEW g \in Goal, Commit(g, {}), g.start = goal.start, g.ownerGen = goal.ownerGen,
         g.used = m[s].turn, UNCHANGED <<late, hook, sends>>, spent' \in 0 .. MaxEvents
  PROVE GoalInv'
<1>1. /\ m[s] \in Memory /\ goal \in Goal /\ Relies(s, m[s], goal, fresh)
      /\ late \in BOOLEAN /\ hook \in 0 .. MaxHooks
  BY Here
<1>2. PICK r : r = [m[s] EXCEPT !.loop = pc, !.began = goal.start] /\ Becomes(s, r)
  BY DEF StepAdmitted
<1>3. r \in Memory
  BY <1>1, <1>2, GoalFields DEF Memory, LoopSteps
<1>4. /\ r.loop = pc /\ r.began = goal.start /\ r.turn = m[s].turn /\ r.driver = m[s].driver
      /\ r.op = m[s].op /\ r.vetted = m[s].vetted /\ r.dog = m[s].dog /\ r.nudge = m[s].nudge
      /\ r.nudged = m[s].nudged
  BY <1>1, <1>2 DEF Memory
<1>5. m[s].turn = goal.used + 1
  BY <1>1 DEF Relies, MatchesAsOwner, Matches
<1>6. /\ goal' \in Goal /\ OwnerRuns(goal') /\ goal'.start = goal.start
      /\ goal'.ownerGen = goal.ownerGen /\ goal'.used >= goal.used + 1 /\ fresh' = {}
  BY <1>1, <1>5, RevokedKeeps DEF Commit
<1>7. goal.used \in Nat /\ goal'.used \in Nat /\ goal.ownerGen \in Nat
  BY <1>1, <1>6, GoalFields, GoalNumbers DEF Turn
<1>8. Forward
  BY <1>6, <1>7 DEF Forward
<1>9. Relies(s, r, goal', fresh')
  BY <1>1, <1>4, <1>6 DEF Relies
<1>10. Proceeds(s, r)
  BY <1>1, <1>2, <1>3, <1>6, <1>8, <1>9 DEF Proceeds, Knows
<1>11. CASE pc \in {"release", "interrupt"}
  <2>1. TakesNone(s, r)
    BY <1>4, <1>11 DEF TakesNone, Holds, Ticket, Hand
  <2> QED BY <1>10, <2>1, KeepsTickets
<1>12. CASE pc \in {"dispatch", "deliver"}
  <2>1. Ticket(r, "loop") = NextAttempt(goal)
    BY <1>4, <1>5 DEF Ticket, NextAttempt
  <2>2. NextAttempt(goal) \in Attempts
    BY <1>1, <1>5, <1>7, MemoryFields, GoalFields, GoalNumbers DEF NextAttempt, Attempts, Turn
  <2>3. \A k \in Hand : k # "loop" /\ Holds(r, k) => Holds(m[s], k) /\ Ticket(r, k) = Ticket(m[s], k)
    BY <1>4 DEF Holds, Ticket, Hand
  <2>4. "loop" \in Hand
    BY DEF Hand
  <2> QED BY <1>6, <1>10, <2>1, <2>2, <2>3, <2>4, TakesNext
<1> QED BY <1>11, <1>12

\* A goal with an admitted attempt is a goal.
LEMMA AdmittedTypes ==
  ASSUME goal \in Goal, NEW n \in Turn
  PROVE /\ Admitted(n) \in Goal /\ Admitted(n).start = goal.start
        /\ Admitted(n).ownerGen = goal.ownerGen /\ Admitted(n).used = n
        /\ [Admitted(n) EXCEPT !.repl = 0] \in Goal
        /\ [Admitted(n) EXCEPT !.repl = 0].start = goal.start
        /\ [Admitted(n) EXCEPT !.repl = 0].ownerGen = goal.ownerGen
        /\ [Admitted(n) EXCEPT !.repl = 0].used = n
<1>1. Admitted(n) \in Goal
  BY DEF Admitted, Goal
<1>2. 0 \in Turn
  BY GoalNumbers DEF Turn
<1>3. [Admitted(n) EXCEPT !.repl = 0] \in Goal
  BY <1>1, <1>2 DEF Goal
<1> QED BY <1>1, <1>3 DEF Admitted, Goal

LEMMA AdmitStep ==
  ASSUME GoalInv, NEW s \in Session, Admit(s)
  PROVE GoalInv'
<1>1. m[s].turn \in Turn /\ goal \in Goal /\ late \in BOOLEAN /\ spent \in 0 .. MaxEvents
  BY Here, MemoryFields
<1>2. CASE ~MatchesAsOwner(Loop(s), s) /\ Step(s, "release") /\ UNCHANGED <<goal, fresh, spent>>
  BY <1>1, <1>2, Moves DEF Admit, LoopSteps
<1>3. CASE ~(~MatchesAsOwner(Loop(s), s) /\ Step(s, "release") /\ UNCHANGED <<goal, fresh, spent>>)
  <2>1. PICK pc \in {"dispatch", "release"} : StepAdmitted(s, pc)
    BY <1>3 DEF Admit
  <2>2. spent' \in 0 .. MaxEvents
    BY <1>3, SpentTypes DEF Admit
  <2>3. /\ MatchesAsOwner(Loop(s), s) /\ m[s].loop = "admitting"
        /\ Commit(Admitted(m[s].turn), {}) /\ UNCHANGED <<late, hook, sends>>
    BY <1>3 DEF Admit
  <2> QED BY <1>1, <2>1, <2>2, <2>3, AdmittedTypes, Admits
<1> QED BY <1>2, <1>3

LEMMA ConsumeLoadStep ==
  ASSUME GoalInv, NEW s \in Session, ConsumeLoad(s)
  PROVE GoalInv'
<1>1. late \in BOOLEAN /\ spent \in 0 .. MaxEvents
  BY Here
<1>2. CASE Load(Loop(s)) /\ Step(s, "consuming") /\ m[s].turn = goal.used + 1
  BY <1>2, Prepares DEF ConsumeLoad
<1>3. CASE Step(s, "interrupt") /\ fresh' = fresh
  BY <1>1, <1>3, Moves DEF ConsumeLoad, LoopSteps
<1> QED BY <1>2, <1>3 DEF ConsumeLoad

LEMMA ConsumeStep ==
  ASSUME GoalInv, NEW s \in Session, Consume(s)
  PROVE GoalInv'
<1>1. m[s].turn \in Turn /\ goal \in Goal /\ late \in BOOLEAN /\ spent \in 0 .. MaxEvents
  BY Here, MemoryFields
<1>2. CASE ~MatchesAsOwner(Loop(s), s) /\ Step(s, "interrupt") /\ UNCHANGED <<goal, fresh, spent>>
  BY <1>1, <1>2, Moves DEF Consume, LoopSteps
<1>3. CASE ~(~MatchesAsOwner(Loop(s), s) /\ Step(s, "interrupt") /\ UNCHANGED <<goal, fresh, spent>>)
  <2>1. PICK pc \in {"deliver", "interrupt"} : StepAdmitted(s, pc)
    BY <1>3 DEF Consume
  <2>2. spent' \in 0 .. MaxEvents
    BY <1>3, SpentTypes DEF Consume
  <2>3. /\ MatchesAsOwner(Loop(s), s) /\ m[s].loop = "consuming"
        /\ Commit([Admitted(m[s].turn) EXCEPT !.repl = 0], {}) /\ UNCHANGED <<late, hook, sends>>
    BY <1>3 DEF Consume
  <2> QED BY <1>1, <2>1, <2>2, <2>3, AdmittedTypes, Admits
<1> QED BY <1>2, <1>3

\* The prompt of the attempt in the loop's hand is handed to the agent.
LEMMA Prompts ==
  ASSUME GoalInv, NEW s \in Session, m[s].loop \in {"dispatch", "deliver"},
         Becomes(s, [m[s] EXCEPT !.loop = "turn", !.host = "goal"]), CountSend(m[s].began, m[s].turn),
         UNCHANGED <<goal, fresh, late, hook, spent>>
  PROVE GoalInv'
<1>1. /\ m[s] \in Memory /\ goal \in Goal /\ Relies(s, m[s], goal, fresh) /\ OwnerRuns(goal)
      /\ late \in BOOLEAN /\ hook \in 0 .. MaxHooks /\ spent \in 0 .. MaxEvents
  BY Here
<1>2. PICK r : r = [m[s] EXCEPT !.loop = "turn", !.host = "goal"] /\ Becomes(s, r)
  OBVIOUS
<1>3. r \in Memory
  BY <1>1, <1>2 DEF Memory, LoopSteps
<1>4. /\ r.loop = "turn" /\ r.driver = m[s].driver /\ r.op = m[s].op /\ r.vetted = m[s].vetted
      /\ r.dog = m[s].dog /\ r.nudge = m[s].nudge /\ r.nudged = m[s].nudged
  BY <1>1, <1>2 DEF Memory
<1>5. Relies(s, r, goal', fresh')
  BY <1>1, <1>4 DEF Relies
<1>6. Forward
  BY <1>1, GoalFields, GoalNumbers DEF Forward, Turn
<1>7. Proceeds(s, r)
  BY <1>1, <1>2, <1>3, <1>5, <1>6 DEF Proceeds, Knows
<1>8. TakesNone(s, r) /\ "loop" \in Hand /\ Holds(m[s], "loop") /\ ~Holds(r, "loop")
  BY <1>4 DEF TakesNone, Holds, Ticket, Hand
<1>9. CountSend(Ticket(m[s], "loop")[1], Ticket(m[s], "loop")[2])
  BY DEF Ticket
<1> QED BY <1>7, <1>8, <1>9, HandsOver

LEMMA DispatchStep ==
  ASSUME GoalInv, NEW s \in Session, Dispatch(s)
  PROVE GoalInv'
<1>1. late \in BOOLEAN /\ spent \in 0 .. MaxEvents
  BY Here
<1>2. CASE Becomes(s, [m[s] EXCEPT !.loop = "turn", !.host = "goal"]) /\ CountSend(m[s].began, m[s].turn) /\ Normal
  BY <1>2, Prompts DEF Dispatch, Normal
<1>3. CASE (Step(s, "release") \/ Step(s, "interrupt")) /\ UNCHANGED sends /\ (Event \/ Normal)
  <2>1. spent' \in 0 .. MaxEvents
    BY <1>3, SpentTypes
  <2> QED BY <1>1, <1>3, <2>1, Moves DEF Dispatch, LoopSteps
<1> QED BY <1>2, <1>3 DEF Dispatch

LEMMA DeliverStep ==
  ASSUME GoalInv, NEW s \in Session, Deliver(s)
  PROVE GoalInv'
<1>1. m[s] \in Memory /\ late \in BOOLEAN /\ hook \in 0 .. MaxHooks /\ spent \in 0 .. MaxEvents
  BY Here
<1>2. CASE Becomes(s, [m[s] EXCEPT !.loop = "turn", !.host = "goal"]) /\ CountSend(m[s].began, m[s].turn) /\ Normal
  BY <1>2, Prompts DEF Deliver, Normal
<1>3. CASE Step(s, "interrupt") /\ Event /\ UNCHANGED sends
  <2>1. spent' \in 0 .. MaxEvents
    BY <1>3, SpentTypes
  <2> QED BY <1>1, <1>3, <2>1, Moves DEF Deliver, LoopSteps
<1>4. CASE Becomes(s, [m[s] EXCEPT !.loop = "turn", !.swallowed = m[s].waiting]) /\ Normal /\ UNCHANGED sends
  <2>1. PICK r : r = [m[s] EXCEPT !.loop = "turn", !.swallowed = m[s].waiting] /\ Becomes(s, r)
    BY <1>4
  <2>2. r \in Memory
    BY <1>1, <2>1 DEF Memory, LoopSteps
  <2>3. r.driver <= m[s].driver
    BY <1>1, <2>1, MemoryFields, GoalNumbers DEF Memory
  <2>4. AtEase(r, m[s])
    BY <1>1, <2>1, <2>3 DEF AtEase, LoopRests, Memory
  <2>5. Informs(s, r)
    BY DEF Informs, Deliver
  <2> QED BY <1>1, <1>4, <2>1, <2>2, <2>4, <2>5, Waits DEF Deliver, Normal
<1> QED BY <1>2, <1>3, <1>4 DEF Deliver

\* The commits of the loop after which it only goes on.
LEMMA MovesAndCommits ==
  ASSUME GoalInv, NEW s \in Session, NEW pc \in LoopSteps, Step(s, pc),
         pc \notin {"claiming", "admitting", "consuming", "dispatch", "deliver"},
         NEW g \in Goal, NEW knows \in SUBSET {Replacement}, Commit(g, knows),
         g.ownerGen = goal.ownerGen, g.start = goal.start, g.used >= goal.used,
         sends' = sends, late' \in BOOLEAN, hook' = hook, spent' \in 0 .. MaxEvents
  PROVE GoalInv'
<1>1. m[s] \in Memory /\ hook \in 0 .. MaxHooks
  BY Here
<1>2. PICK r : r = [m[s] EXCEPT !.loop = pc] /\ Becomes(s, r)
  BY DEF Step
<1>3. r \in Memory
  BY <1>1, <1>2 DEF Memory
<1>4. r.driver <= m[s].driver
  BY <1>1, <1>2, MemoryFields, GoalNumbers DEF Memory
<1>5. AtEase(r, m[s])
  BY <1>1, <1>2, <1>4 DEF AtEase, LoopRests, Memory
<1>6. knows \subseteq Own(s) /\ Loop(s) \notin knows /\ Op(s) \notin knows /\ Dog(s) \notin knows
  BY GoalNumbers DEF Own, Loop, Op, Dog, Replacement
<1> QED BY <1>1, <1>2, <1>3, <1>5, <1>6, Commits

\* Admission never lowers the count of attempts.
LEMMA UsedGrows ==
  ASSUME goal \in Goal, NEW n \in Turn
  PROVE goal.used >= goal.used /\ Larger(goal.used, n) >= goal.used /\ Larger(goal.used, n) \in Turn
BY GoalFields, GoalNumbers DEF Turn, Larger

LEMMA ReserveLoadStep ==
  ASSUME GoalInv, NEW s \in Session, ReserveLoad(s)
  PROVE GoalInv'
<1>1. late \in BOOLEAN /\ spent \in 0 .. MaxEvents
  BY Here
<1>2. PICK pc \in {"reserving", "release"} : Step(s, pc)
  BY DEF ReserveLoad
<1>3. fresh' \subseteq fresh \cup {Loop(s)}
  BY DEF ReserveLoad, Load
<1>4. pc \in LoopSteps
  BY <1>2 DEF LoopSteps
<1> QED BY <1>1, <1>2, <1>3, <1>4, Moves DEF ReserveLoad

LEMMA ReserveStep ==
  ASSUME GoalInv, NEW s \in Session, Reserve(s)
  PROVE GoalInv'
<1>1. m[s].turn \in Turn /\ goal \in Goal /\ late \in BOOLEAN /\ spent \in 0 .. MaxEvents
  BY Here, MemoryFields
<1>2. CASE ~MatchesAsOwner(Loop(s), s) /\ Step(s, "release") /\ UNCHANGED <<goal, fresh, spent>>
  BY <1>1, <1>2, Moves DEF Reserve, LoopSteps
<1>3. CASE ~(~MatchesAsOwner(Loop(s), s) /\ Step(s, "release") /\ UNCHANGED <<goal, fresh, spent>>)
  <2>1. PICK pc \in {"handoff", "release"} : Step(s, pc)
    BY <1>3 DEF Reserve
  <2>2. spent' \in 0 .. MaxEvents
    BY <1>3, SpentTypes DEF Reserve
  <2>3. PICK g : g = [goal EXCEPT !.repl = m[s].turn] /\ Commit(g, {Replacement})
    BY <1>3 DEF Reserve
  <2>4. g \in Goal /\ g.ownerGen = goal.ownerGen /\ g.start = goal.start /\ g.used >= goal.used
    BY <1>1, <2>3, UsedGrows DEF Goal
  <2>5. pc \in LoopSteps /\ sends' = sends /\ late' \in BOOLEAN /\ hook' = hook
    BY <1>1, <2>1 DEF LoopSteps, Reserve
  <2> QED BY <2>1, <2>2, <2>3, <2>4, <2>5, MovesAndCommits
<1> QED BY <1>2, <1>3

LEMMA HandOffStep ==
  ASSUME GoalInv, NEW s \in Session, HandOff(s)
  PROVE GoalInv'
<1>1. m[s] \in Memory /\ late \in BOOLEAN /\ hook \in 0 .. MaxHooks /\ spent \in 0 .. MaxEvents
  BY Here
<1>2. spent' \in 0 .. MaxEvents
  BY SpentTypes DEF HandOff
<1>3. CASE Step(s, "interrupt")
  BY <1>1, <1>2, <1>3, Moves DEF HandOff, LoopSteps
<1>4. CASE Becomes(s, [NoTick(m[s]) EXCEPT !.loop = "consume"])
  <2>1. PICK q \in Memory : q = NoTick(m[s]) /\ SameLoop(q, m[s]) /\ q.dog = "off"
    BY <1>1, NoTickKeeps
  <2>2. PICK r : r = [q EXCEPT !.loop = "consume"] /\ Becomes(s, r)
    BY <1>4, <2>1
  <2>3. r \in Memory
    BY <2>2 DEF Memory, LoopSteps
  <2>4. r.loop = "consume" /\ r.op = q.op /\ r.vetted = q.vetted /\ r.dog = "off" /\ r.driver = q.driver
    BY <2>1, <2>2 DEF Memory
  <2>5. AtEase(r, m[s])
    BY <1>1, <2>1, <2>4, MemoryFields, GoalNumbers DEF AtEase, LoopRests, DogRests, SameLoop
  <2>6. Informs(s, r)
    BY DEF Informs, HandOff
  <2> QED BY <1>1, <1>2, <2>2, <2>3, <2>5, <2>6, Waits DEF HandOff
<1> QED BY <1>3, <1>4 DEF HandOff

LEMMA ProgressLoadStep ==
  ASSUME GoalInv, NEW s \in Session, ProgressLoad(s)
  PROVE GoalInv'
<1>1. m[s] \in Memory /\ late \in BOOLEAN /\ hook \in 0 .. MaxHooks /\ spent \in 0 .. MaxEvents
  BY Here
<1>2. PICK pc \in {"progress", "release"} : Becomes(s, [m[s] EXCEPT !.loop = pc, !.pending = 0])
  BY DEF ProgressLoad
<1>3. PICK r : r = [m[s] EXCEPT !.loop = pc, !.pending = 0] /\ Becomes(s, r)
  BY <1>2
<1>4. r \in Memory
  <2>1. 0 \in Turn /\ pc \in LoopSteps
    BY GoalNumbers DEF LoopSteps, Turn
  <2> QED BY <1>1, <1>3, <2>1 DEF Memory
<1>5. /\ r.loop = pc /\ r.op = m[s].op /\ r.vetted = m[s].vetted /\ r.dog = m[s].dog
      /\ r.nudge = m[s].nudge /\ r.nudged = m[s].nudged /\ r.driver = m[s].driver
  BY <1>1, <1>3 DEF Memory
<1>6. AtEase(r, m[s]) /\ LoopRests(r)
  BY <1>1, <1>5, MemoryFields, GoalNumbers DEF AtEase, LoopRests
<1>7. fresh' \subseteq fresh \cup {Loop(s)}
  BY DEF ProgressLoad, Load
<1>8. Informs(s, r)
  BY <1>6, <1>7 DEF Informs, Own, Loop, Op, Dog
<1> QED BY <1>1, <1>3, <1>4, <1>6, <1>8, Waits DEF ProgressLoad

LEMMA ProgressStep ==
  ASSUME GoalInv, NEW s \in Session, Progress(s)
  PROVE GoalInv'
<1>1. m[s].turn \in Turn /\ goal \in Goal /\ late \in BOOLEAN /\ spent \in 0 .. MaxEvents
  BY Here, MemoryFields
<1>2. CASE ~MatchesAsOwner(Loop(s), s) /\ Step(s, "release") /\ UNCHANGED <<goal, fresh, late, spent>>
  BY <1>1, <1>2, Moves DEF Progress, LoopSteps
<1>3. CASE ~(~MatchesAsOwner(Loop(s), s) /\ Step(s, "release") /\ UNCHANGED <<goal, fresh, late, spent>>)
  <2>1. PICK pc \in {"top", "interrupt"} : Step(s, pc)
    BY <1>3 DEF Progress
  <2>2. spent' \in 0 .. MaxEvents
    BY <1>3, SpentTypes DEF Progress
  <2>3. PICK g : /\ g = [goal EXCEPT !.used = Larger(goal.used, m[s].turn), !.adm = 0, !.level = 0]
                 /\ Commit(g, {})
    BY <1>3 DEF Progress
  <2>4. Larger(goal.used, m[s].turn) >= goal.used /\ Larger(goal.used, m[s].turn) \in Turn
    BY <1>1, UsedGrows
  <2>5. 0 \in Turn /\ 0 \in 0 .. 3
    BY GoalNumbers DEF Turn
  <2>6. g \in Goal
    BY <1>1, <2>3, <2>4, <2>5 DEF Goal
  <2>7. g.ownerGen = goal.ownerGen /\ g.start = goal.start /\ g.used >= goal.used
    BY <1>1, <2>3, <2>4 DEF Goal
  <2>8. pc \in LoopSteps /\ sends' = sends /\ late' \in BOOLEAN /\ hook' = hook
    BY <1>3, <2>1 DEF LoopSteps, Progress
  <2> QED BY <2>1, <2>2, <2>3, <2>6, <2>7, <2>8, MovesAndCommits
<1> QED BY <1>2, <1>3

LEMMA InterruptLoadStep ==
  ASSUME GoalInv, NEW s \in Session, InterruptLoad(s)
  PROVE GoalInv'
<1>1. late \in BOOLEAN /\ spent \in 0 .. MaxEvents
  BY Here
<1>2. PICK pc \in {"interrupting", "release"} : Step(s, pc)
  BY DEF InterruptLoad
<1>3. fresh' \subseteq fresh \cup {Loop(s)}
  BY DEF InterruptLoad, Load
<1>4. pc \in LoopSteps
  BY <1>2 DEF LoopSteps
<1> QED BY <1>1, <1>2, <1>3, <1>4, Moves DEF InterruptLoad

LEMMA ReleaseLoadStep ==
  ASSUME GoalInv, NEW s \in Session, ReleaseLoad(s)
  PROVE GoalInv'
<1>1. late \in BOOLEAN /\ spent \in 0 .. MaxEvents
  BY Here
<1>2. fresh' \subseteq fresh \cup {Loop(s)}
  BY DEF ReleaseLoad, Load
<1> QED BY <1>1, <1>2, Moves DEF ReleaseLoad, LoopSteps

\* A stopped goal is a goal.
LEMMA StoppedTypes ==
  ASSUME NEW g \in Goal
  PROVE /\ Stopped(g) \in Goal /\ Stopped(g).start = g.start /\ Stopped(g).used = g.used
        /\ Stopped(g).ownerGen = g.ownerGen /\ Stopped(g).owner = g.owner /\ Stopped(g).edits = g.edits
        /\ Stopped(g).status = g.status /\ Stopped(g).run = FALSE
BY DEF Stopped, Goal

\* The commits after which the session itself stops, or ends what it was doing.
LEMMA Ends ==
  ASSUME GoalInv, NEW s \in Session, NEW r \in Memory, Becomes(s, r), AtEase(r, m[s]),
         NEW g \in Goal, (Commit(g, {}) \/ UNCHANGED <<goal, fresh>>),
         g.ownerGen = goal.ownerGen, g.start = goal.start, g.used = goal.used,
         UNCHANGED <<late, hook, sends>>, spent' \in 0 .. MaxEvents
  PROVE GoalInv'
<1>1. late \in BOOLEAN /\ hook \in 0 .. MaxHooks /\ goal \in Goal
  BY Here
<1>2. CASE Commit(g, {})
  <2>1. g.used >= goal.used
    BY <1>1, GoalFields, GoalNumbers DEF Turn
  <2>2. {} \subseteq Own(s) /\ Loop(s) \notin {} /\ Op(s) \notin {} /\ Dog(s) \notin {}
    OBVIOUS
  <2> QED BY <1>1, <1>2, <2>1, <2>2, Commits
<1>3. CASE UNCHANGED <<goal, fresh>>
  <2>1. Informs(s, r)
    BY <1>3 DEF Informs
  <2> QED BY <1>1, <1>3, <2>1, Waits
<1> QED BY <1>2, <1>3

LEMMA InterruptStep ==
  ASSUME GoalInv, NEW s \in Session, Interrupt(s)
  PROVE GoalInv'
<1>1. m[s] \in Memory /\ goal \in Goal /\ late \in BOOLEAN /\ spent \in 0 .. MaxEvents
  BY Here
<1>2. CASE ~MatchesAsOwner(Loop(s), s) /\ Step(s, "release") /\ UNCHANGED <<goal, fresh>>
  BY <1>1, <1>2, Moves DEF Interrupt, LoopSteps
<1>3. CASE /\ MatchesAsOwner(Loop(s), s) /\ Commit(Stopped(goal), {})
           /\ Becomes(s, [StopLocalRun(m[s]) EXCEPT !.loop = "release"])
  <2>1. PICK q \in Memory : q = StopLocalRun(m[s]) /\ SameLoop(q, m[s]) /\ SameDog(q, m[s])
    BY <1>1, StopLocalRunKeeps
  <2>2. PICK r : r = [q EXCEPT !.loop = "release"] /\ Becomes(s, r)
    BY <1>3, <2>1
  <2>3. r \in Memory
    BY <2>2 DEF Memory, LoopSteps
  <2>4. /\ r.loop = "release" /\ r.op = q.op /\ r.vetted = q.vetted /\ r.dog = q.dog
        /\ r.nudge = q.nudge /\ r.nudged = q.nudged /\ r.driver = q.driver
    BY <2>1, <2>2 DEF Memory
  <2>5. AtEase(r, m[s])
    BY <1>1, <2>1, <2>4, MemoryFields, GoalNumbers DEF AtEase, LoopRests, SameLoop, SameDog
  <2>6. UNCHANGED <<late, hook, sends>> /\ spent' = spent
    BY DEF Interrupt
  <2> QED BY <1>1, <1>3, <2>2, <2>3, <2>5, <2>6, StoppedTypes, Ends
<1> QED BY <1>2, <1>3 DEF Interrupt

LEMMA ReleaseStep ==
  ASSUME GoalInv, NEW s \in Session, Release(s)
  PROVE GoalInv'
<1>1. m[s] \in Memory /\ goal \in Goal /\ spent \in 0 .. MaxEvents
  BY Here
<1>2. PICK q \in Memory : q = CancelPending(m[s]) /\ SameLoop(q, m[s]) /\ SameDog(q, m[s])
  BY <1>1, CancelPendingKeeps
<1>3. PICK r : /\ r = [q EXCEPT !.loop = "off", !.driver = 0, !.waiting = FALSE, !.stopReq = FALSE,
                                !.turn = 0, !.swallowed = FALSE]
               /\ Becomes(s, r)
  BY <1>2 DEF Release
<1>4. 0 \in 0 .. MaxRuns /\ 0 \in Turn
  BY GoalNumbers DEF Turn
<1>5. r \in Memory
  BY <1>3, <1>4 DEF Memory, LoopSteps
<1>6. /\ r.loop = "off" /\ r.op = q.op /\ r.vetted = q.vetted /\ r.dog = q.dog
      /\ r.nudge = q.nudge /\ r.nudged = q.nudged /\ r.driver = 0
  BY <1>2, <1>3 DEF Memory
<1>7. AtEase(r, m[s])
  BY <1>1, <1>2, <1>6, MemoryFields, GoalNumbers DEF AtEase, LoopRests, SameLoop, SameDog
<1>8. UNCHANGED <<late, hook, sends>> /\ spent' = spent /\ (Commit(Stopped(goal), {}) \/ UNCHANGED <<goal, fresh>>)
  BY DEF Release
<1> QED BY <1>1, <1>3, <1>5, <1>7, <1>8, StoppedTypes, Ends

(***************************************************************************)
(* Operators and tools                                                     *)
(***************************************************************************)

\* What the handler of an accepted operation takes down.
LEMMA OpLoads ==
  ASSUME GoalInv, NEW s \in Session, Load(Op(s)), NEW o \in Command \cup Tool, Accepts(s, o),
         NEW q \in Memory, SameLoop(q, m[s]), SameDog(q, m[s]), NEW stop \in BOOLEAN,
         Becomes(s, [q EXCEPT !.op = o, !.stopReq = stop,
                              !.vetted = IF o = "complete"
                                         THEN [edits |-> goal.edits, hook |-> hook, owner |-> goal.owner] ELSE @]),
         UNCHANGED <<goal, late, hook, sends>>, spent' \in 0 .. MaxEvents
  PROVE GoalInv'
<1>1. /\ m[s] \in Memory /\ goal \in Goal /\ Relies(s, m[s], goal, fresh) /\ OwnerRuns(goal)
      /\ late \in BOOLEAN /\ hook \in 0 .. MaxHooks
  BY Here
<1>2. PICK v : v = (IF o = "complete" THEN [edits |-> goal.edits, hook |-> hook, owner |-> goal.owner] ELSE q.vetted)
  OBVIOUS
<1>3. v \in [edits : 0 .. MaxEdits, hook : 0 .. MaxHooks, owner : Owner]
  <2>1. goal.edits \in 0 .. MaxEdits /\ goal.owner \in Owner
    BY <1>1, GoalFields
  <2>2. q.vetted \in [edits : 0 .. MaxEdits, hook : 0 .. MaxHooks, owner : Owner]
    BY DEF Memory
  <2> QED BY <1>1, <1>2, <2>1, <2>2
<1>4. o \in OpSteps
  BY DEF OpSteps
<1>5. PICK r : r = [q EXCEPT !.op = o, !.stopReq = stop, !.vetted = v] /\ Becomes(s, r)
  BY <1>2 DEF Memory
<1>6. r \in Memory
  BY <1>3, <1>4, <1>5 DEF Memory
<1>7. /\ r.loop = q.loop /\ r.turn = q.turn /\ r.began = q.began /\ r.driver = q.driver
      /\ r.op = o /\ r.vetted = v /\ r.dog = q.dog /\ r.nudge = q.nudge /\ r.nudged = q.nudged
  BY <1>5 DEF Memory
<1>8. /\ Loop(s) \in fresh' => Loop(s) \in fresh
      /\ Dog(s) \in fresh' => Dog(s) \in fresh
  BY DEF Load, Loop, Op, Dog
<1>9. o = "edit" => goal.edits < MaxEdits
  BY DEF Accepts
<1>10. o \in Checking => o = "complete" /\ v.edits = goal.edits /\ v.owner = goal.owner
  BY <1>2 DEF Checking, Command, Tool
<1>11. Relies(s, r, goal', fresh')
  BY <1>1, <1>7, <1>8, <1>9, <1>10 DEF Relies, SameLoop, SameDog
<1>12. Forward /\ Knows(s)
  BY <1>1, GoalFields, GoalNumbers DEF Forward, Turn, Knows, Load, Own
<1>13. Proceeds(s, r)
  BY <1>1, <1>5, <1>6, <1>11, <1>12 DEF Proceeds
<1>14. TakesNone(s, r)
  BY <1>7 DEF TakesNone, Holds, Ticket, Hand, SameLoop, SameDog
<1> QED BY <1>13, <1>14, KeepsTickets

\* One lemma per step of an operation.
LEMMA OpLoadStep ==
  ASSUME GoalInv, NEW s \in Session, OpLoad(s)
  PROVE GoalInv'
<1>1. m[s] \in Memory /\ late \in BOOLEAN /\ hook \in 0 .. MaxHooks /\ spent \in 0 .. MaxEvents
  BY Here
<1>2. CASE Becomes(s, StopLocalRun(m[s])) /\ UNCHANGED <<fresh, spent>>
  <2>1. PICK r \in Memory : r = StopLocalRun(m[s]) /\ SameLoop(r, m[s]) /\ SameDog(r, m[s])
    BY <1>1, StopLocalRunKeeps
  <2>2. AtEase(r, m[s])
    BY <1>1, <2>1, MemoryFields, GoalNumbers DEF AtEase, SameLoop, SameDog
  <2>3. Informs(s, r)
    BY <1>2 DEF Informs
  <2> QED BY <1>1, <1>2, <2>1, <2>2, <2>3, Waits DEF OpLoad
<1>3. CASE ~(Becomes(s, StopLocalRun(m[s])) /\ UNCHANGED <<fresh, spent>>)
  <2>1. PICK o \in Operations \cap (Command \cup Tool) :
          /\ Accepts(s, o)
          /\ LET r == IF o \in {"edit", "pause", "stop", "clear"} THEN CancelPending(m[s]) ELSE m[s] IN
               Becomes(s, [r EXCEPT !.op = o, !.stopReq = @ /\ o \notin {"pause", "clear"},
                       !.vetted = IF o = "complete"
                                  THEN [edits |-> goal.edits, hook |-> hook, owner |-> goal.owner] ELSE @])
          /\ IF o = "edit" /\ goal.check = "checking" THEN Normal ELSE Event
    BY <1>3 DEF OpLoad
  <2>2. PICK q \in Memory : /\ q = IF o \in {"edit", "pause", "stop", "clear"} THEN CancelPending(m[s]) ELSE m[s]
                            /\ SameLoop(q, m[s]) /\ SameDog(q, m[s])
    BY <1>1, CancelPendingKeeps DEF SameLoop, SameDog
  <2>3. PICK stop : stop = (q.stopReq /\ o \notin {"pause", "clear"})
    OBVIOUS
  <2>4. q.stopReq \in BOOLEAN
    BY DEF Memory
  <2>5. stop \in BOOLEAN
    BY <2>3
  <2>6. Becomes(s, [q EXCEPT !.op = o, !.stopReq = stop,
                             !.vetted = IF o = "complete"
                                        THEN [edits |-> goal.edits, hook |-> hook, owner |-> goal.owner] ELSE @])
    BY <2>1, <2>2, <2>3
  <2>7. spent' \in 0 .. MaxEvents
    BY <2>1, SpentTypes
  <2>8. Load(Op(s)) /\ UNCHANGED <<goal, late, hook, sends>>
    BY <1>3 DEF OpLoad
  <2> QED BY <2>1, <2>2, <2>5, <2>6, <2>7, <2>8, OpLoads
<1> QED BY <1>2, <1>3

LEMMA SteerSendStep ==
  ASSUME GoalInv, NEW s \in Session, SteerSend(s)
  PROVE GoalInv'
<1>1. m[s] \in Memory /\ late \in BOOLEAN /\ hook \in 0 .. MaxHooks /\ spent \in 0 .. MaxEvents
  BY Here
<1>2. PICK o \in {"none", "steer_failed"}, host \in {"idle", "goal", "user"} :
        Becomes(s, [m[s] EXCEPT !.op = o, !.host = host])
  <2>1. m[s].host \in {"idle", "goal", "user"}
    BY <1>1 DEF Memory
  <2>2. CASE Becomes(s, [m[s] EXCEPT !.op = "none", !.host = IF @ = "idle" THEN "user" ELSE @])
    BY <2>1, <2>2
  <2>3. CASE Becomes(s, [m[s] EXCEPT !.op = "steer_failed"])
    <3>1. [m[s] EXCEPT !.op = "steer_failed"] = [m[s] EXCEPT !.op = "steer_failed", !.host = m[s].host]
      BY <1>1 DEF Memory
    <3> QED BY <2>1, <2>3, <3>1
  <2> QED BY <2>2, <2>3 DEF SteerSend
<1>3. PICK r : r = [m[s] EXCEPT !.op = o, !.host = host] /\ Becomes(s, r)
  BY <1>2
<1>4. r \in Memory
  BY <1>1, <1>3 DEF Memory, OpSteps
<1>5. /\ r.op = o /\ r.loop = m[s].loop /\ r.turn = m[s].turn /\ r.began = m[s].began /\ r.dog = m[s].dog
      /\ r.nudge = m[s].nudge /\ r.nudged = m[s].nudged /\ r.driver = m[s].driver
  BY <1>1, <1>3 DEF Memory
<1>6. AtEase(r, m[s])
  BY <1>1, <1>5, MemoryFields, GoalNumbers DEF AtEase, OpRests, Checking
<1>7. Informs(s, r)
  BY DEF Informs, SteerSend
<1> QED BY <1>1, <1>3, <1>4, <1>6, <1>7, Waits DEF SteerSend, Normal

LEMMA HookEndsStep ==
  ASSUME GoalInv, NEW s \in Session, HookEnds(s)
  PROVE GoalInv'
<1>1. /\ m[s] \in Memory /\ goal \in Goal /\ Relies(s, m[s], goal, fresh) /\ OwnerRuns(goal)
      /\ late \in BOOLEAN /\ hook \in 0 .. MaxHooks /\ spent \in 0 .. MaxEvents
  BY Here
<1>2. PICK o \in {"passed", "failed"} : Becomes(s, [m[s] EXCEPT !.op = o])
  BY DEF HookEnds
<1>3. PICK r : r = [m[s] EXCEPT !.op = o] /\ Becomes(s, r)
  BY <1>2
<1>4. r \in Memory
  BY <1>1, <1>3 DEF Memory, OpSteps
<1>5. /\ r.op = o /\ r.vetted = m[s].vetted /\ r.loop = m[s].loop /\ r.turn = m[s].turn
      /\ r.began = m[s].began /\ r.dog = m[s].dog /\ r.nudge = m[s].nudge /\ r.nudged = m[s].nudged
      /\ r.driver = m[s].driver
  BY <1>1, <1>3 DEF Memory
<1>6. goal' = goal /\ fresh' = fresh /\ late' = late /\ hook' = hook /\ sends' = sends /\ spent' = spent
  BY DEF HookEnds
<1>7. Relies(s, r, goal', fresh')
  BY <1>1, <1>5, <1>6 DEF Relies, HookEnds, Checking
<1>8. Forward /\ Knows(s)
  BY <1>1, <1>6, GoalFields, GoalNumbers DEF Forward, Turn, Knows
<1>9. Proceeds(s, r)
  BY <1>1, <1>3, <1>4, <1>6, <1>7, <1>8 DEF Proceeds
<1>10. TakesNone(s, r)
  BY <1>5 DEF TakesNone, Holds, Ticket, Hand
<1> QED BY <1>6, <1>9, <1>10, KeepsTickets

\* What a command or tool writes, as long as nothing was written since it loaded.
LEMMA OutcomeTypes ==
  ASSUME GoalInv, NEW s \in Session, NEW o \in Command \cup Tool \cup {"steer_failed"},
         m[s].op = o, Matches(Op(s))
  PROVE /\ Outcome(s, o) \in Goal /\ Outcome(s, o).start = goal.start /\ Outcome(s, o).used = goal.used
        /\ Outcome(s, o).ownerGen = goal.ownerGen /\ Outcome(s, o).owner = goal.owner
        /\ Outcome(s, o).status = "complete" => goal.status = "complete"
        /\ o = "complete" => /\ Outcome(s, o).edits = goal.edits
                             /\ Outcome(s, o).run = goal.run /\ Outcome(s, o).status = goal.status
<1>1. m[s] \in Memory /\ goal \in Goal /\ Relies(s, m[s], goal, fresh)
  BY Here
<1>2. PICK h \in Goal : h = Stopped(goal) /\ h.start = goal.start /\ h.used = goal.used
                        /\ h.ownerGen = goal.ownerGen /\ h.owner = goal.owner /\ h.status = goal.status
  BY <1>1, StoppedTypes
<1>3. CASE o = "edit"
  <2>1. goal.edits + 1 \in 0 .. MaxEdits
    BY <1>1, <1>3, GoalFields, GoalNumbers DEF Relies, Matches
  <2>2. Outcome(s, o) = [goal EXCEPT !.edits = goal.edits + 1, !.check = "none"]
    BY <1>3 DEF Outcome
  <2> QED BY <1>1, <1>3, <2>1, <2>2 DEF Goal, CheckStatus
<1>4. CASE o = "stop"
  BY <1>2, <1>4 DEF Outcome
<1>5. CASE o \in {"pause", "block", "steer_failed"}
  <2>1. Outcome(s, o) = [h EXCEPT !.status = "paused"]
    BY <1>2, <1>5 DEF Outcome
  <2> QED BY <1>2, <1>5, <2>1 DEF Goal
<1>6. CASE o = "clear"
  <2>1. Outcome(s, o) = [h EXCEPT !.there = FALSE]
    BY <1>2, <1>6 DEF Outcome
  <2> QED BY <1>2, <1>6, <2>1 DEF Goal
<1>7. CASE o = "complete"
  <2>1. m[s].vetted.hook \in 0 .. MaxHooks
    BY <1>1 DEF Memory
  <2>2. Outcome(s, o) = [goal EXCEPT !.check = "checking", !.checkHook = m[s].vetted.hook]
    BY <1>7 DEF Outcome
  <2> QED BY <1>1, <2>1, <2>2 DEF Goal, CheckStatus
<1>8. CASE o = "steer"
  BY <1>1, <1>8 DEF Outcome
<1> QED BY <1>3, <1>4, <1>5, <1>6, <1>7, <1>8 DEF Command, Tool

\* The record of a check under way: the thread knows its revision, and what it vetted still holds.
LEMMA CheckStarts ==
  ASSUME GoalInv, NEW s \in Session, m[s].op = "complete", Matches(Op(s)),
         Commit(Outcome(s, "complete"), {Op(s)}),
         NEW q \in Memory, SameLoop(q, m[s]), SameDog(q, m[s]), Becomes(s, [q EXCEPT !.op = "hook_runs"]),
         UNCHANGED <<late, hook, sends, spent>>
  PROVE GoalInv'
<1>1. /\ m[s] \in Memory /\ goal \in Goal /\ Relies(s, m[s], goal, fresh) /\ OwnerRuns(goal)
      /\ late \in BOOLEAN /\ hook \in 0 .. MaxHooks /\ spent \in 0 .. MaxEvents
  BY Here
<1>2. PICK g \in Goal : /\ g = Outcome(s, "complete") /\ g.start = goal.start /\ g.used = goal.used
                        /\ g.ownerGen = goal.ownerGen /\ g.owner = goal.owner /\ g.edits = goal.edits
                        /\ g.run = goal.run /\ g.status = goal.status
  BY OutcomeTypes DEF Tool
<1>3. /\ goal' \in Goal /\ OwnerRuns(goal') /\ goal'.start = goal.start /\ goal'.ownerGen = goal.ownerGen
      /\ goal'.used >= goal.used /\ goal'.edits = goal.edits /\ fresh' = {Op(s)}
  BY <1>1, <1>2, RevokedKeeps DEF Commit
<1>4. goal'.owner = goal.owner
  BY <1>1, <1>2, RevokedKeeps DEF Commit, OwnerRuns
<1>5. PICK r : r = [q EXCEPT !.op = "hook_runs"] /\ Becomes(s, r)
  OBVIOUS
<1>6. r \in Memory
  BY <1>5 DEF Memory, OpSteps
<1>7. /\ r.op = "hook_runs" /\ r.vetted = q.vetted /\ r.loop = q.loop /\ r.turn = q.turn
      /\ r.began = q.began /\ r.dog = q.dog /\ r.nudge = q.nudge /\ r.nudged = q.nudged /\ r.driver = q.driver
  BY <1>5 DEF Memory
<1>8. Loop(s) \notin fresh' /\ Dog(s) \notin fresh' /\ fresh' \subseteq Own(s)
  BY <1>3 DEF Loop, Op, Dog, Own
<1>9. m[s].vetted.edits = goal.edits /\ m[s].vetted.owner = goal.owner
  BY <1>1 DEF Relies, Matches, Checking
<1>10. Relies(s, r, goal', fresh')
  BY <1>1, <1>3, <1>4, <1>7, <1>8, <1>9 DEF Relies, SameLoop, SameDog
<1>11. Forward
  BY <1>1, <1>3, GoalFields, GoalNumbers DEF Forward
<1>12. Proceeds(s, r)
  BY <1>1, <1>3, <1>5, <1>6, <1>8, <1>10, <1>11 DEF Proceeds, Knows
<1>13. TakesNone(s, r)
  BY <1>7 DEF TakesNone, Holds, Ticket, Hand, SameLoop, SameDog
<1> QED BY <1>12, <1>13, KeepsTickets

\* A step that puts the operator's thread to rest in a memory that is otherwise as relied on.
LEMMA OpRestsEase ==
  ASSUME NEW q \in Memory, NEW p \in Memory, SameLoop(q, p), SameDog(q, p),
         NEW o \in OpSteps, o \notin Checking \cup {"edit"}
  PROVE /\ [q EXCEPT !.op = o] \in Memory
        /\ AtEase([q EXCEPT !.op = o], p) /\ OpRests([q EXCEPT !.op = o])
<1>1. PICK r : r = [q EXCEPT !.op = o]
  OBVIOUS
<1>2. r \in Memory
  BY <1>1 DEF Memory
<1>3. /\ r.op = o /\ r.loop = q.loop /\ r.turn = q.turn /\ r.began = q.began /\ r.dog = q.dog
      /\ r.nudge = q.nudge /\ r.nudged = q.nudged /\ r.driver = q.driver
  BY <1>1 DEF Memory
<1>4. AtEase(r, p) /\ OpRests(r)
  BY <1>3, MemoryFields, GoalNumbers DEF AtEase, OpRests, SameLoop, SameDog
<1> QED BY <1>1, <1>2, <1>4

LEMMA OpCommitStep ==
  ASSUME GoalInv, NEW s \in Session, OpCommit(s)
  PROVE GoalInv'
<1> DEFINE o == m[s].op
<1>1. m[s] \in Memory /\ goal \in Goal /\ late \in BOOLEAN /\ hook \in 0 .. MaxHooks /\ spent \in 0 .. MaxEvents
  BY Here
<1>2. o \in Command \cup Tool \cup {"steer_failed"}
  BY DEF OpCommit
<1>3. UNCHANGED <<late, hook, sends>>
  BY DEF OpCommit
<1>4. CASE /\ Matches(Op(s)) /\ Normal /\ Commit(Outcome(s, o), IF Continuation(o) = "none" THEN {} ELSE {Op(s)})
           /\ LET r == IF o = "stop" THEN [m[s] EXCEPT !.waiting = FALSE, !.stopReq = FALSE] ELSE m[s] IN
                Becomes(s, [(IF o \in {"clear", "steer_failed"} THEN StopLocalRun(r) ELSE RefreshUi(r, goal'))
                            EXCEPT !.op = Continuation(o)])
  <2>1. PICK p : p = IF o = "stop" THEN [m[s] EXCEPT !.waiting = FALSE, !.stopReq = FALSE] ELSE m[s]
    OBVIOUS
  <2>2. p \in Memory /\ SameLoop(p, m[s]) /\ SameDog(p, m[s])
    BY <1>1, <2>1 DEF Memory, SameLoop, SameDog
  <2>3. PICK q : q = IF o \in {"clear", "steer_failed"} THEN StopLocalRun(p) ELSE RefreshUi(p, goal')
    OBVIOUS
  <2>4. q \in Memory /\ SameLoop(q, m[s]) /\ SameDog(q, m[s])
    BY <2>2, <2>3, StopLocalRunKeeps, RefreshUiKeeps DEF SameLoop, SameDog
  <2>5. Becomes(s, [q EXCEPT !.op = Continuation(o)])
    BY <1>4, <2>1, <2>3
  <2>6. CASE o = "complete"
    <3>1. Continuation(o) = "hook_runs"
      BY <2>6 DEF Continuation
    <3>2. Commit(Outcome(s, "complete"), {Op(s)})
      BY <1>4, <2>6, <3>1
    <3>3. UNCHANGED <<late, hook, sends, spent>>
      BY <1>3, <1>4 DEF Normal
    <3> QED BY <1>4, <2>4, <2>5, <2>6, <3>1, <3>2, <3>3, CheckStarts
  <2>7. CASE o # "complete"
    <3>1. Continuation(o) \in {"none", "steer_send"}
      BY <1>2, <2>7 DEF Continuation
    <3>2. PICK pc \in OpSteps \ (Checking \cup {"edit"}) : pc = Continuation(o)
      BY <3>1 DEF OpSteps, Checking
    <3>3. PICK r \in Memory : r = [q EXCEPT !.op = pc] /\ AtEase(r, m[s]) /\ OpRests(r)
      BY <1>1, <2>4, <3>2, OpRestsEase
    <3>4. PICK g \in Goal : /\ g = Outcome(s, o) /\ g.start = goal.start /\ g.used = goal.used
                            /\ g.ownerGen = goal.ownerGen
      BY <1>2, <1>4, OutcomeTypes
    <3>5. PICK knows : knows = IF Continuation(o) = "none" THEN {} ELSE {Op(s)}
      OBVIOUS
    <3>6. knows \subseteq Own(s) /\ Loop(s) \notin knows /\ Dog(s) \notin knows
      BY <3>5 DEF Own, Loop, Op, Dog
    <3>7. g.used >= goal.used
      BY <1>1, <3>4, GoalFields, GoalNumbers DEF Turn
    <3>8. Commit(g, knows) /\ Becomes(s, r)
      BY <1>4, <2>5, <3>2, <3>3, <3>4, <3>5
    <3>9. sends' = sends /\ late' \in BOOLEAN /\ hook' \in 0 .. MaxHooks /\ spent' \in 0 .. MaxEvents
      BY <1>1, <1>3, <1>4 DEF Normal
    <3> HIDE DEF o
    <3> QED BY <3>3, <3>4, <3>6, <3>7, <3>8, <3>9, Commits
  <2> QED BY <2>6, <2>7
<1>5. CASE /\ Matches(Op(s)) /\ o \notin Tool /\ Normal /\ Commit(Outcome(s, o), {})
           /\ Becomes(s, [StopLocalRun(m[s]) EXCEPT !.op = "none"])
  <2>1. PICK q \in Memory : q = StopLocalRun(m[s]) /\ SameLoop(q, m[s]) /\ SameDog(q, m[s])
    BY <1>1, StopLocalRunKeeps
  <2>2. PICK r \in Memory : r = [q EXCEPT !.op = "none"] /\ AtEase(r, m[s])
    BY <1>1, <2>1, OpRestsEase DEF OpSteps, Checking
  <2>3. PICK g \in Goal : /\ g = Outcome(s, o) /\ g.start = goal.start /\ g.used = goal.used
                          /\ g.ownerGen = goal.ownerGen
    BY <1>2, <1>5, OutcomeTypes
  <2>4. spent' \in 0 .. MaxEvents
    BY <1>5, SpentTypes
  <2> HIDE DEF o
  <2> QED BY <1>3, <1>5, <2>1, <2>2, <2>3, <2>4, Ends
<1>6. CASE /\ ~Matches(Op(s)) /\ UNCHANGED <<goal, fresh, spent>>
           /\ Becomes(s, [(IF o \in Tool THEN m[s] ELSE StopLocalRun(m[s])) EXCEPT !.op = "none"])
  <2>1. PICK q \in Memory : /\ q = IF o \in Tool THEN m[s] ELSE StopLocalRun(m[s])
                            /\ SameLoop(q, m[s]) /\ SameDog(q, m[s])
    BY <1>1, StopLocalRunKeeps DEF SameLoop, SameDog
  <2>2. PICK r \in Memory : r = [q EXCEPT !.op = "none"] /\ AtEase(r, m[s])
    BY <1>1, <2>1, OpRestsEase DEF OpSteps, Checking
  <2>3. Becomes(s, r)
    BY <1>6, <2>1, <2>2
  <2> HIDE DEF o
  <2> QED BY <1>1, <1>3, <1>6, <2>2, <2>3, Ends
<1> QED BY <1>4, <1>5, <1>6 DEF OpCommit

\* Unchanged threads are at ease.
LEMMA SameIsEase ==
  ASSUME NEW r \in Memory, NEW q \in Memory, SameLoop(r, q), SameDog(r, q)
  PROVE AtEase(r, q)
BY MemoryFields, GoalNumbers DEF AtEase, SameLoop, SameDog

\* A fresh session is typed and at rest.
LEMMA FreshTypes == Fresh \in Memory /\ AtEase(Fresh, Fresh) /\ LoopRests(Fresh) /\ OpRests(Fresh) /\ DogRests(Fresh)
<1>1. Fresh \in Memory
  <2>1. /\ "off" \in LoopSteps /\ 0 \in Turn /\ "none" \in OpSteps /\ "off" \in DogSteps
        /\ 0 \in 0 .. MaxTurns + 1 /\ 0 \in 0 .. MaxRuns /\ 1 \in 1 .. MaxRuns
        /\ {} \in SUBSET (1 .. MaxTurns)
    BY GoalNumbers DEF LoopSteps, Turn, OpSteps, DogSteps
  <2>2. [edits |-> 0, hook |-> 0, owner |-> Nobody] \in [edits : 0 .. MaxEdits, hook : 0 .. MaxHooks, owner : Owner]
    BY NobodyOwns, GoalNumbers
  <2> QED BY <2>1, <2>2 DEF Fresh, Memory
<1>2. LoopRests(Fresh) /\ OpRests(Fresh) /\ DogRests(Fresh)
  BY DEF LoopRests, OpRests, DogRests, Fresh, Checking
<1> QED BY <1>1, <1>2, SameIsEase DEF SameLoop, SameDog

\* One lemma per event of the host.
LEMMA SettleCheckStep ==
  ASSUME GoalInv, NEW s \in Session, SettleCheck(s)
  PROVE GoalInv'
<1>1. /\ m[s] \in Memory /\ goal \in Goal /\ late \in BOOLEAN /\ hook \in 0 .. MaxHooks
      /\ spent \in 0 .. MaxEvents
  BY Here
<1>2. PICK q \in Memory : /\ q = IF Matches(Op(s)) THEN RefreshUi(m[s], goal') ELSE m[s]
                          /\ SameLoop(q, m[s]) /\ SameDog(q, m[s])
  BY <1>1, RefreshUiKeeps DEF SameLoop, SameDog
<1>3. PICK r : r = [q EXCEPT !.op = "none", !.vetted = Fresh.vetted] /\ Becomes(s, r)
  BY <1>2 DEF SettleCheck
<1>4. Fresh.vetted \in [edits : 0 .. MaxEdits, hook : 0 .. MaxHooks, owner : Owner]
  BY FreshTypes DEF Memory
<1>5. r \in Memory
  BY <1>3, <1>4 DEF Memory, OpSteps
<1>6. /\ r.op = "none" /\ r.loop = q.loop /\ r.turn = q.turn /\ r.began = q.began /\ r.dog = q.dog
      /\ r.nudge = q.nudge /\ r.nudged = q.nudged /\ r.driver = q.driver
  BY <1>3 DEF Memory
<1>7. AtEase(r, m[s])
  BY <1>1, <1>2, <1>6, MemoryFields, GoalNumbers DEF AtEase, OpRests, Checking, SameLoop, SameDog
<1>8. PICK h \in Goal : h = Stopped(goal) /\ h.start = goal.start /\ h.used = goal.used /\ h.ownerGen = goal.ownerGen
  BY <1>1, StoppedTypes
<1>9. PICK g : g = IF HookPassed(s) THEN [h EXCEPT !.status = "complete", !.check = "passed"]
                   ELSE [goal EXCEPT !.check = "failed"]
  OBVIOUS
<1>10. g \in Goal
  BY <1>1, <1>8, <1>9 DEF Goal, CheckStatus
<1>11. g.start = goal.start /\ g.used = goal.used /\ g.ownerGen = goal.ownerGen
  BY <1>1, <1>8, <1>9 DEF Goal
<1>12. Commit(g, {}) \/ UNCHANGED <<goal, fresh>>
  BY <1>8, <1>9 DEF SettleCheck
<1>13. UNCHANGED <<late, hook, sends>> /\ spent' = spent
  BY DEF SettleCheck
<1> QED BY <1>1, <1>3, <1>5, <1>7, <1>10, <1>11, <1>12, <1>13, Ends

\* Closing a session lets its watchdog rest.
LEMMA ClosedKeeps ==
  ASSUME NEW r \in Memory
  PROVE /\ Closed(r) \in Memory /\ SameLoop(Closed(r), r) /\ AtEase(Closed(r), r)
<1>1. PICK q \in Memory : q = (IF r.dog \in {"admit", "admitting"} THEN r ELSE NoTick(r)) /\ SameLoop(q, r)
                          /\ (q.dog = "off" \/ SameDog(q, r))
  BY NoTickKeeps DEF SameLoop, SameDog
<1>2. PICK p : p = [q EXCEPT !.closed = TRUE]
  OBVIOUS
<1>3. p \in Memory
  BY <1>2 DEF Memory
<1>4. SameLoop(p, r) /\ (p.dog = "off" \/ SameDog(p, r))
  BY <1>1, <1>2 DEF Memory, SameLoop, SameDog
<1>5. AtEase(p, r)
  BY <1>4, MemoryFields, GoalNumbers DEF AtEase, DogRests, SameLoop, SameDog
<1> QED BY <1>1, <1>2, <1>3, <1>4, <1>5 DEF Closed

\* Ease carries over a change of neither loop nor watchdog.
LEMMA EaseAgain ==
  ASSUME NEW r, NEW q \in Memory, NEW p, AtEase(q, p), SameLoop(r, q), SameDog(r, q)
  PROVE AtEase(r, p)
BY DEF AtEase, SameLoop, SameDog, LoopRests, OpRests, DogRests

LEMMA ShutdownStep ==
  ASSUME GoalInv, NEW s \in Session, Shutdown(s)
  PROVE GoalInv'
<1>1. m[s] \in Memory /\ late \in BOOLEAN /\ hook \in 0 .. MaxHooks /\ spent \in 0 .. MaxEvents
  BY Here
<1>2. PICK q \in Memory : q = Closed(m[s]) /\ SameLoop(q, m[s]) /\ AtEase(q, m[s])
  BY <1>1, ClosedKeeps
<1>3. UNCHANGED <<goal, late, hook, sends>>
  BY DEF Shutdown
<1>4. CASE Load(Op(s)) /\ Called(s, [q EXCEPT !.op = "shutdown"])
  <2>1. PICK r \in Memory : r = [q EXCEPT !.op = "shutdown"] /\ AtEase(r, q) /\ OpRests(r)
    BY OpRestsEase DEF OpSteps, Checking, SameLoop, SameDog
  <2>2. /\ r.loop = q.loop /\ r.turn = q.turn /\ r.began = q.began /\ r.dog = q.dog
        /\ r.nudge = q.nudge /\ r.nudged = q.nudged /\ r.driver = q.driver
    BY <2>1 DEF Memory
  <2>3. AtEase(r, m[s])
    BY <1>2, <2>1, <2>2 DEF AtEase, LoopRests, DogRests
  <2>4. Informs(s, r)
    BY <1>4, <2>1 DEF Informs, Load, Own, Loop, Op, Dog
  <2>5. Becomes(s, r) /\ spent' \in 0 .. MaxEvents
    BY <1>4, <2>1, SpentTypes DEF Called
  <2> QED BY <1>1, <1>3, <2>1, <2>3, <2>4, <2>5, Waits
<1>5. CASE Called(s, StopLocalRun(q)) /\ UNCHANGED fresh
  <2>1. PICK r \in Memory : r = StopLocalRun(q) /\ SameLoop(r, q) /\ SameDog(r, q)
    BY StopLocalRunKeeps
  <2>2. AtEase(r, m[s])
    BY <1>2, <2>1, EaseAgain
  <2>3. Informs(s, r)
    BY <1>5 DEF Informs
  <2>4. Becomes(s, r) /\ spent' \in 0 .. MaxEvents
    BY <1>5, <2>1, SpentTypes DEF Called
  <2> QED BY <1>1, <1>3, <2>1, <2>2, <2>3, <2>4, Waits
<1> QED BY <1>2, <1>4, <1>5 DEF Shutdown

LEMMA ShutdownCommitStep ==
  ASSUME GoalInv, NEW s \in Session, ShutdownCommit(s)
  PROVE GoalInv'
<1>1. m[s] \in Memory /\ goal \in Goal /\ spent \in 0 .. MaxEvents
  BY Here
<1>2. PICK q \in Memory : q = StopLocalRun(m[s]) /\ SameLoop(q, m[s]) /\ SameDog(q, m[s])
  BY <1>1, StopLocalRunKeeps
<1>3. PICK r \in Memory : r = [q EXCEPT !.op = "none"] /\ AtEase(r, m[s])
  BY <1>1, <1>2, OpRestsEase DEF OpSteps, Checking
<1>4. Becomes(s, r)
  BY <1>2, <1>3 DEF ShutdownCommit
<1>5. /\ Commit(Stopped(goal), {}) \/ UNCHANGED <<goal, fresh>>
      /\ UNCHANGED <<late, hook, sends>> /\ spent' = spent
  BY DEF ShutdownCommit
<1> QED BY <1>1, <1>3, <1>4, <1>5, StoppedTypes, Ends

(***************************************************************************)
(* The agent, and what comes from outside                                  *)
(***************************************************************************)

\* A step in which the loop, the operator's thread and the watchdog of a session stay where they are.
LEMMA Aside ==
  ASSUME GoalInv, NEW s \in Session, NEW r \in Memory, Becomes(s, r), SameLoop(r, m[s]), SameDog(r, m[s]),
         goal' = goal, fresh' \subseteq fresh \cup {End(s)}, sends' = sends,
         late' \in BOOLEAN, hook' \in 0 .. MaxHooks, spent' \in 0 .. MaxEvents
  PROVE GoalInv'
<1>1. m[s] \in Memory
  BY Here
<1>2. AtEase(r, m[s])
  BY <1>1, SameIsEase
<1>3. Informs(s, r)
  BY DEF Informs, Own, Loop, Op, Dog, End
<1> QED BY <1>2, <1>3, Waits

LEMMA UserTurnStep ==
  ASSUME GoalInv, NEW s \in Session, UserTurn(s)
  PROVE GoalInv'
<1>1. m[s] \in Memory /\ late \in BOOLEAN /\ hook \in 0 .. MaxHooks
  BY Here
<1>2. PICK r : r = [m[s] EXCEPT !.host = "user"] /\ Called(s, r)
  BY DEF UserTurn
<1>3. r \in Memory /\ SameLoop(r, m[s]) /\ SameDog(r, m[s])
  BY <1>1, <1>2 DEF Memory, SameLoop, SameDog
<1>4. Becomes(s, r) /\ spent' \in 0 .. MaxEvents
  BY <1>2, SpentTypes DEF Called
<1> QED BY <1>1, <1>3, <1>4, Aside DEF UserTurn

LEMMA TurnEndsStep ==
  ASSUME GoalInv, NEW s \in Session, TurnEnds(s)
  PROVE GoalInv'
<1>1. m[s] \in Memory /\ late \in BOOLEAN /\ hook \in 0 .. MaxHooks
  BY Here
<1>2. PICK end \in {"ok", "error"} : /\ IF end = "ok" THEN Normal ELSE Event
                                     /\ Becomes(s, [m[s] EXCEPT !.host = "idle", !.ending = end])
  BY DEF TurnEnds
<1>3. PICK r : r = [m[s] EXCEPT !.host = "idle", !.ending = end] /\ Becomes(s, r)
  BY <1>2
<1>4. r \in Memory /\ SameLoop(r, m[s]) /\ SameDog(r, m[s])
  BY <1>1, <1>3 DEF Memory, SameLoop, SameDog
<1>5. spent' \in 0 .. MaxEvents
  BY <1>2, SpentTypes
<1> QED BY <1>1, <1>3, <1>4, <1>5, Aside DEF TurnEnds

LEMMA SettleStep ==
  ASSUME GoalInv, NEW s \in Session, Settle(s)
  PROVE GoalInv'
<1>1. m[s] \in Memory /\ late \in BOOLEAN /\ hook \in 0 .. MaxHooks /\ spent \in 0 .. MaxEvents
  BY Here
<1>2. PICK q \in Memory, end \in {"no", "pausing"} :
         Becomes(s, [q EXCEPT !.ending = end]) /\ SameLoop(q, m[s]) /\ SameDog(q, m[s])
  <2>1. CASE Becomes(s, [m[s] EXCEPT !.ending = "pausing"])
    BY <1>1, <2>1 DEF SameLoop, SameDog
  <2>2. CASE Becomes(s, [(IF ~Local(s) THEN m[s]
                          ELSE IF goal.there /\ Mine(s) THEN [m[s] EXCEPT !.waiting = FALSE]
                          ELSE StopLocalRun(m[s])) EXCEPT !.ending = "no"])
    <3>1. PICK q : q = (IF ~Local(s) THEN m[s]
                        ELSE IF goal.there /\ Mine(s) THEN [m[s] EXCEPT !.waiting = FALSE]
                        ELSE StopLocalRun(m[s]))
      OBVIOUS
    <3>2. /\ [m[s] EXCEPT !.waiting = FALSE] \in Memory
          /\ SameLoop([m[s] EXCEPT !.waiting = FALSE], m[s]) /\ SameDog([m[s] EXCEPT !.waiting = FALSE], m[s])
      BY <1>1 DEF Memory, SameLoop, SameDog
    <3>3. q \in Memory /\ SameLoop(q, m[s]) /\ SameDog(q, m[s])
      BY <1>1, <3>1, <3>2, StopLocalRunKeeps DEF SameLoop, SameDog
    <3> QED BY <2>2, <3>1, <3>3
  <2> QED BY <2>1, <2>2 DEF Settle
<1>3. PICK r : r = [q EXCEPT !.ending = end] /\ Becomes(s, r)
  BY <1>2
<1>4. r \in Memory /\ SameLoop(r, m[s]) /\ SameDog(r, m[s])
  BY <1>2, <1>3 DEF Memory, SameLoop, SameDog
<1>5. fresh' \subseteq fresh \cup {End(s)}
  BY DEF Settle, Load
<1> QED BY <1>1, <1>3, <1>4, <1>5, Aside DEF Settle

LEMMA SettleErrorStep ==
  ASSUME GoalInv, NEW s \in Session, SettleError(s)
  PROVE GoalInv'
<1>1. m[s] \in Memory /\ goal \in Goal /\ spent \in 0 .. MaxEvents
  BY Here
<1>2. PICK q \in Memory : q = StopLocalRun(m[s]) /\ SameLoop(q, m[s]) /\ SameDog(q, m[s])
  BY <1>1, StopLocalRunKeeps
<1>3. PICK r : r = [q EXCEPT !.ending = "no"] /\ Becomes(s, r)
  BY <1>2 DEF SettleError
<1>4. r \in Memory /\ SameLoop(r, m[s]) /\ SameDog(r, m[s])
  BY <1>2, <1>3 DEF Memory, SameLoop, SameDog
<1>5. AtEase(r, m[s])
  BY <1>1, <1>4, SameIsEase
<1>6. PICK h \in Goal : h = Stopped(goal) /\ h.start = goal.start /\ h.used = goal.used /\ h.ownerGen = goal.ownerGen
  BY <1>1, StoppedTypes
<1>7. PICK g : g = [h EXCEPT !.status = "paused"]
  OBVIOUS
<1>8. g \in Goal /\ g.start = goal.start /\ g.used = goal.used /\ g.ownerGen = goal.ownerGen
  BY <1>6, <1>7 DEF Goal
<1>9. /\ Commit(g, {}) \/ UNCHANGED <<goal, fresh>>
      /\ UNCHANGED <<late, hook, sends>> /\ spent' = spent
  BY <1>6, <1>7 DEF SettleError
<1> QED BY <1>1, <1>3, <1>4, <1>5, <1>8, <1>9, Ends

\* Nothing moves but the clock or the settings.
LEMMA Elsewhere ==
  ASSUME GoalInv, UNCHANGED <<goal, fresh, m, sends>>,
         late' \in BOOLEAN, hook' \in 0 .. MaxHooks, spent' \in 0 .. MaxEvents
  PROVE GoalInv'
BY DEF GoalInv, FileTypes, MemTypes, SendTypes, AllRely, HeldOnce, SentBehind

LEMMA SaveHookStep ==
  ASSUME GoalInv, SaveHook
  PROVE GoalInv'
<1>1. late \in BOOLEAN /\ hook \in 0 .. MaxHooks /\ spent \in 0 .. MaxEvents
  BY DEF GoalInv, FileTypes
<1>2. hook + 1 \in 0 .. MaxHooks
  BY <1>1, GoalNumbers DEF SaveHook
<1> QED BY <1>1, <1>2, Elsewhere DEF SaveHook

LEMMA LateStep ==
  ASSUME GoalInv, Late
  PROVE GoalInv'
<1>1. hook \in 0 .. MaxHooks /\ spent' \in 0 .. MaxEvents
  BY SpentTypes DEF GoalInv, FileTypes, Late
<1> QED BY <1>1, Elsewhere DEF Late

LEMMA CrashStep ==
  ASSUME GoalInv, NEW s \in Session, Crash(s)
  PROVE GoalInv'
<1>1. m[s] \in Memory /\ late \in BOOLEAN /\ hook \in 0 .. MaxHooks
  BY Here
<1>2. Becomes(s, Fresh) /\ spent' \in 0 .. MaxEvents
  BY SpentTypes DEF Crash, Called
<1>3. Fresh.driver <= m[s].driver
  BY <1>1, MemoryFields, GoalNumbers DEF Fresh
<1>4. AtEase(Fresh, m[s])
  BY <1>3, FreshTypes DEF AtEase
<1>5. Informs(s, Fresh)
  BY DEF Informs, Crash
<1> QED BY <1>1, <1>2, <1>4, <1>5, FreshTypes, Waits DEF Crash

(***************************************************************************)
(* The watchdog                                                            *)
(***************************************************************************)

LEMMA DogRestsEase ==
  ASSUME NEW r \in Memory, NEW q \in Memory, SameLoop(r, q), DogRests(r)
  PROVE AtEase(r, q)
BY MemoryFields, GoalNumbers DEF AtEase, SameLoop

\* The watchdog's next place is a place.
LEMMA StepDogTypes ==
  ASSUME NEW r \in Memory, NEW pc \in DogSteps
  PROVE /\ [r EXCEPT !.dog = pc] \in Memory /\ SameLoop([r EXCEPT !.dog = pc], r)
        /\ [r EXCEPT !.dog = pc].dog = pc /\ [r EXCEPT !.dog = pc].nudge = r.nudge
        /\ [r EXCEPT !.dog = pc].nudged = r.nudged
BY DEF Memory, SameLoop

\* Clearing the timer lets the watchdog rest.
LEMMA NoTickEase ==
  ASSUME NEW r \in Memory
  PROVE NoTick(r) \in Memory /\ AtEase(NoTick(r), r) /\ DogRests(NoTick(r))
<1>1. NoTick(r) \in Memory /\ SameLoop(NoTick(r), r) /\ DogRests(NoTick(r))
  BY NoTickKeeps DEF DogRests
<1> QED BY <1>1, DogRestsEase

\* A tick that ends without having written.
LEMMA TickOver ==
  ASSUME GoalInv, NEW s \in Session, TickEnds(s), UNCHANGED <<goal, fresh, late, hook, sends, spent>>
  PROVE GoalInv'
<1>1. m[s] \in Memory /\ late \in BOOLEAN /\ hook \in 0 .. MaxHooks /\ spent \in 0 .. MaxEvents
  BY Here
<1>2. PICK r \in Memory : r = NoTick(m[s]) /\ AtEase(r, m[s])
  BY <1>1, NoTickEase
<1>3. Informs(s, r) /\ Becomes(s, r)
  BY <1>2 DEF Informs, TickEnds
<1> QED BY <1>1, <1>2, <1>3, Waits

\* One lemma per step of the watchdog.
LEMMA DogLoadStep ==
  ASSUME GoalInv, NEW s \in Session, DogLoad(s)
  PROVE GoalInv'
<1>1. m[s] \in Memory /\ late \in BOOLEAN /\ hook \in 0 .. MaxHooks /\ spent \in 0 .. MaxEvents
  BY Here
<1>2. PICK pc \in {"warn", "nudge", "hard"} : StepDog(s, pc)
  BY DEF DogLoad
<1>3. PICK r \in Memory : r = [m[s] EXCEPT !.dog = pc] /\ SameLoop(r, m[s]) /\ r.dog = pc
  <2>1. pc \in DogSteps
    BY DEF DogSteps
  <2> QED BY <1>1, <2>1, StepDogTypes
<1>4. DogRests(r) /\ AtEase(r, m[s])
  BY <1>1, <1>3, DogRestsEase DEF DogRests
<1>5. Becomes(s, r)
  BY <1>2, <1>3 DEF StepDog
<1>6. Informs(s, r)
  BY <1>4 DEF Informs, DogLoad, Load, Own, Loop, Op, Dog
<1> QED BY <1>1, <1>3, <1>4, <1>5, <1>6, Waits DEF DogLoad

LEMMA DogMarkStep ==
  ASSUME GoalInv, NEW s \in Session, DogMark(s)
  PROVE GoalInv'
<1>1. /\ m[s] \in Memory /\ goal \in Goal /\ late \in BOOLEAN /\ hook \in 0 .. MaxHooks
      /\ spent \in 0 .. MaxEvents
  BY Here
<1>2. CASE TickEnds(s) /\ UNCHANGED <<goal, fresh>>
  BY <1>2, TickOver DEF DogMark
<1>3. CASE ~(TickEnds(s) /\ UNCHANGED <<goal, fresh>>)
  <2>1. PICK level \in 0 .. 3, knows \in SUBSET {Dog(s)} :
          /\ Commit([goal EXCEPT !.level = level], knows)
          /\ \/ StepDog(s, "nudge")
             \/ Becomes(s, [m[s] EXCEPT !.dog = "admit", !.nudge = goal.used + 1, !.as = m[s].driver])
             \/ TickEnds(s)
    BY <1>3 DEF DogMark
  <2>2. PICK g : g = [goal EXCEPT !.level = level]
    OBVIOUS
  <2>3. g \in Goal /\ g.start = goal.start /\ g.used = goal.used /\ g.ownerGen = goal.ownerGen
    BY <1>1, <2>2 DEF Goal
  <2>4. g.used >= goal.used
    BY <1>1, <2>3, GoalFields, GoalNumbers DEF Turn
  <2>5. PICK r \in Memory : Becomes(s, r) /\ AtEase(r, m[s]) /\ DogRests(r)
    <3>1. CASE StepDog(s, "nudge")
      <4>0. "nudge" \in DogSteps
        BY DEF DogSteps
      <4>1. PICK r \in Memory : r = [m[s] EXCEPT !.dog = "nudge"] /\ SameLoop(r, m[s]) /\ r.dog = "nudge"
        BY <1>1, <4>0, StepDogTypes
      <4>2. DogRests(r)
        BY <4>1 DEF DogRests
      <4> QED BY <1>1, <3>1, <4>1, <4>2, DogRestsEase DEF StepDog
    <3>2. CASE Becomes(s, [m[s] EXCEPT !.dog = "admit", !.nudge = goal.used + 1, !.as = m[s].driver])
      <4>1. PICK r : r = [m[s] EXCEPT !.dog = "admit", !.nudge = goal.used + 1, !.as = m[s].driver]
        OBVIOUS
      <4>2. goal.used + 1 \in 0 .. MaxTurns + 1 /\ m[s].driver \in 0 .. MaxRuns /\ "admit" \in DogSteps
        BY <1>1, GoalFields, MemoryFields, GoalNumbers DEF Turn, DogSteps
      <4>3. r \in Memory
        BY <1>1, <4>1, <4>2 DEF Memory
      <4>4. SameLoop(r, m[s]) /\ DogRests(r)
        BY <1>1, <4>1 DEF Memory, SameLoop, DogRests
      <4> QED BY <1>1, <3>2, <4>1, <4>3, <4>4, DogRestsEase
    <3>3. CASE TickEnds(s)
      BY <1>1, <3>3, NoTickEase DEF TickEnds
    <3> QED BY <2>1, <3>1, <3>2, <3>3
  <2>6. knows \subseteq Own(s) /\ Loop(s) \notin knows /\ Op(s) \notin knows
    BY <2>1 DEF Own, Loop, Op, Dog
  <2>7. UNCHANGED <<late, hook, sends, spent>>
    BY DEF DogMark
  <2> QED BY <1>1, <2>1, <2>2, <2>3, <2>4, <2>5, <2>6, <2>7, Commits
<1> QED BY <1>2, <1>3

LEMMA DogAdmitLoadStep ==
  ASSUME GoalInv, NEW s \in Session, DogAdmitLoad(s)
  PROVE GoalInv'
<1>1. /\ m[s] \in Memory /\ goal \in Goal /\ Relies(s, m[s], goal, fresh) /\ OwnerRuns(goal)
      /\ late \in BOOLEAN /\ hook \in 0 .. MaxHooks /\ spent \in 0 .. MaxEvents
  BY Here
<1>2. CASE TickEnds(s) /\ UNCHANGED fresh
  BY <1>2, TickOver DEF DogAdmitLoad
<1>3. CASE Admissible(m[s].nudge) /\ Load(Dog(s)) /\ StepDog(s, "admitting")
  <2>0. "admitting" \in DogSteps
    BY DEF DogSteps
  <2>1. PICK r \in Memory : /\ r = [m[s] EXCEPT !.dog = "admitting"] /\ SameLoop(r, m[s]) /\ r.dog = "admitting"
                            /\ r.nudge = m[s].nudge /\ r.nudged = m[s].nudged
    <3>1. PICK r : r = [m[s] EXCEPT !.dog = "admitting"]
      OBVIOUS
    <3>2. r \in Memory
      BY <1>1, <2>0, <3>1, StepDogTypes
    <3>3. /\ SameLoop(r, m[s]) /\ r.dog = "admitting" /\ r.nudge = m[s].nudge /\ r.nudged = m[s].nudged
      BY <1>1, <3>1 DEF Memory, SameLoop
    <3> QED BY <3>1, <3>2, <3>3
  <2>2. m[s].nudge = goal.used + 1 /\ m[s].nudge <= MaxTurns
    BY <1>3 DEF Admissible, DogAdmitLoad
  <2>3. UNCHANGED <<goal, late, hook, sends, spent>> /\ Becomes(s, r)
    BY <1>3, <2>1 DEF DogAdmitLoad, StepDog
  <2>4. /\ Loop(s) \in fresh' => Loop(s) \in fresh
        /\ Op(s) \in fresh' => Op(s) \in fresh
    BY <1>3 DEF Load, Loop, Op, Dog
  <2>5. Relies(s, r, goal', fresh')
    BY <1>1, <2>1, <2>2, <2>3, <2>4 DEF Relies, SameLoop
  <2>6. Forward /\ Knows(s)
    BY <1>1, <1>3, <2>3, GoalFields, GoalNumbers DEF Forward, Turn, Knows, Load, Own
  <2>7. Proceeds(s, r)
    BY <1>1, <2>1, <2>3, <2>5, <2>6 DEF Proceeds
  <2>8. TakesNone(s, r)
    BY <2>1 DEF TakesNone, Holds, Ticket, Hand, SameLoop
  <2> QED BY <2>3, <2>7, <2>8, KeepsTickets
<1> QED BY <1>2, <1>3 DEF DogAdmitLoad

\* The nudge is the next attempt of the run, and in the watchdog's hand from then on, or in none.
LEMMA DogAdmitStep ==
  ASSUME GoalInv, NEW s \in Session, DogAdmit(s)
  PROVE GoalInv'
<1>1. /\ m[s] \in Memory /\ goal \in Goal /\ Relies(s, m[s], goal, fresh) /\ OwnerRuns(goal)
      /\ late \in BOOLEAN /\ hook \in 0 .. MaxHooks /\ spent \in 0 .. MaxEvents
  BY Here
<1>2. UNCHANGED <<late, hook, sends, spent>> /\ m[s].dog = "admitting"
  BY DEF DogAdmit
<1>3. CASE TickEnds(s) /\ UNCHANGED <<goal, fresh>>
  BY <1>2, <1>3, TickOver
<1>4. CASE ~(TickEnds(s) /\ UNCHANGED <<goal, fresh>>)
  <2>1. Matches(Dog(s)) /\ Commit(Admitted(m[s].nudge), {Dog(s)})
    BY <1>4 DEF DogAdmit
  <2>2. m[s].nudge = goal.used + 1 /\ m[s].nudge <= MaxTurns
    BY <1>1, <1>2, <2>1 DEF Relies, Matches
  <2>3. goal.used \in Nat /\ m[s].nudge \in Turn
    BY <1>1, <2>2, MemoryFields, GoalFields, GoalNumbers DEF Turn
  <2>4. PICK g \in Goal : g = Admitted(m[s].nudge) /\ g.start = goal.start /\ g.ownerGen = goal.ownerGen
                          /\ g.used = m[s].nudge
    BY <1>1, <2>3, AdmittedTypes
  <2>5. /\ goal' \in Goal /\ OwnerRuns(goal') /\ goal'.start = goal.start
        /\ goal'.ownerGen = goal.ownerGen /\ goal'.used >= goal.used + 1 /\ fresh' = {Dog(s)}
    BY <1>1, <2>1, <2>2, <2>4, RevokedKeeps DEF Commit
  <2>6. goal'.used \in Nat /\ goal.ownerGen \in Nat
    BY <1>1, <2>5, GoalFields, GoalNumbers DEF Turn
  <2>7. Forward
    BY <2>3, <2>5, <2>6 DEF Forward
  <2>8. fresh' \subseteq Own(s) /\ Loop(s) \notin fresh' /\ Op(s) \notin fresh'
    BY <2>5 DEF Own, Loop, Op, Dog
  <2>9. CASE TickEnds(s)
    <3>1. PICK r \in Memory : r = NoTick(m[s]) /\ AtEase(r, m[s]) /\ DogRests(r) /\ SameLoop(r, m[s])
      BY <1>1, NoTickEase, NoTickKeeps
    <3>2. Relies(s, r, goal', fresh')
      BY <1>1, <2>5, <2>8, <3>1 DEF Relies, SameLoop, DogRests
    <3>3. Proceeds(s, r)
      BY <1>1, <1>2, <2>5, <2>7, <2>8, <2>9, <3>1, <3>2 DEF Proceeds, Knows, TickEnds
    <3> QED BY <1>2, <3>1, <3>3, EaseTakesNone, KeepsTickets
  <2>10. CASE ~TickEnds(s)
    <3>1. PICK next \in {"send", "contain"} : Becomes(s, [m[s] EXCEPT !.dog = next, !.nudged = goal.start])
      BY <1>4, <2>10 DEF DogAdmit
    <3>2. PICK r : r = [m[s] EXCEPT !.dog = next, !.nudged = goal.start] /\ Becomes(s, r)
      BY <3>1
    <3>3. goal.start \in 1 .. MaxRuns /\ next \in DogSteps
      BY <1>1, GoalFields DEF DogSteps
    <3>4. r \in Memory
      BY <1>1, <3>2, <3>3 DEF Memory
    <3>5. SameLoop(r, m[s]) /\ r.dog = next /\ r.nudge = m[s].nudge /\ r.nudged = goal.start
      BY <1>1, <3>2 DEF Memory, SameLoop
    <3>6. Relies(s, r, goal', fresh')
      BY <1>1, <2>2, <2>5, <2>8, <3>5 DEF Relies, SameLoop
    <3>7. Proceeds(s, r)
      BY <1>1, <1>2, <2>5, <2>7, <2>8, <3>2, <3>4, <3>6 DEF Proceeds, Knows
    <3>8. CASE next = "contain"
      <4>1. TakesNone(s, r)
        BY <3>5, <3>8 DEF TakesNone, Holds, Ticket, Hand, SameLoop
      <4> QED BY <1>2, <3>7, <4>1, KeepsTickets
    <3>9. CASE next = "send"
      <4>1. Ticket(r, "dog") = NextAttempt(goal) /\ "dog" \in Hand
        BY <2>2, <3>5 DEF Ticket, NextAttempt, Hand
      <4>2. NextAttempt(goal) \in Attempts
        BY <2>2, <2>3, <3>3, GoalNumbers DEF NextAttempt, Attempts
      <4>3. \A k \in Hand : k # "dog" /\ Holds(r, k) => Holds(m[s], k) /\ Ticket(r, k) = Ticket(m[s], k)
        BY <3>5 DEF Holds, Ticket, Hand, SameLoop
      <4> QED BY <1>2, <2>5, <3>7, <4>1, <4>2, <4>3, TakesNext
    <3> QED BY <3>8, <3>9
  <2> QED BY <2>9, <2>10
<1> QED BY <1>3, <1>4

\* The nudge leaves the watchdog's hand, whether the input handler swallows it or not.
LEMMA DogSendStep ==
  ASSUME GoalInv, NEW s \in Session, DogSend(s)
  PROVE GoalInv'
<1>1. /\ m[s] \in Memory /\ goal \in Goal /\ Relies(s, m[s], goal, fresh) /\ OwnerRuns(goal)
      /\ late \in BOOLEAN /\ hook \in 0 .. MaxHooks /\ spent \in 0 .. MaxEvents
  BY Here
<1>2. UNCHANGED <<goal, fresh, late, hook, spent>> /\ m[s].dog = "send"
  BY DEF DogSend
<1>3. m[s].nudge <= MaxTurns
  BY <1>1, <1>2 DEF Relies
<1>4. m[s].nudge \in Turn
  BY <1>1, <1>3, MemoryFields, GoalNumbers DEF Turn
<1>5. CASE TickEnds(s) /\ UNCHANGED sends
  BY <1>2, <1>5, TickOver
<1>6. CASE Becomes(s, [m[s] EXCEPT !.dog = "contain", !.pending = m[s].nudge]) /\ UNCHANGED sends
  <2>1. PICK r : r = [m[s] EXCEPT !.dog = "contain", !.pending = m[s].nudge] /\ Becomes(s, r)
    BY <1>6
  <2>2. r \in Memory
    BY <1>1, <1>4, <2>1 DEF Memory, DogSteps
  <2>3. SameLoop(r, m[s]) /\ r.dog = "contain" /\ r.nudge = m[s].nudge
    BY <1>1, <2>1 DEF Memory, SameLoop
  <2>4. Relies(s, r, goal', fresh')
    BY <1>1, <1>2, <1>3, <2>3 DEF Relies, SameLoop
  <2>5. Forward
    BY <1>1, <1>2, GoalFields, GoalNumbers DEF Forward, Turn
  <2>6. Proceeds(s, r)
    BY <1>1, <1>2, <2>1, <2>2, <2>4, <2>5 DEF Proceeds, Knows
  <2>7. TakesNone(s, r)
    BY <2>3 DEF TakesNone, Holds, Ticket, Hand, SameLoop
  <2> QED BY <1>6, <2>6, <2>7, KeepsTickets
<1>7. CASE LET swallowed == m[s].nudge \in m[s].cancelled IN
             /\ Becomes(s, [NoTick(m[s]) EXCEPT !.pending = m[s].nudge,
                                         !.host = IF swallowed THEN @ ELSE "goal"])
             /\ IF swallowed THEN UNCHANGED sends ELSE CountSend(m[s].nudged, m[s].nudge)
  <2>1. PICK q \in Memory : q = NoTick(m[s]) /\ SameLoop(q, m[s]) /\ q.dog = "off"
    BY <1>1, NoTickKeeps
  <2>2. PICK host : host = IF m[s].nudge \in m[s].cancelled THEN q.host ELSE "goal"
    OBVIOUS
  <2>3. host \in {"idle", "goal", "user"}
    BY <2>2 DEF Memory
  <2>4. PICK r : r = [q EXCEPT !.pending = m[s].nudge, !.host = host] /\ Becomes(s, r)
    BY <1>7, <2>1, <2>2
  <2>5. r \in Memory
    BY <1>4, <2>3, <2>4 DEF Memory
  <2>6. SameLoop(r, m[s]) /\ r.dog = "off" /\ DogRests(r)
    BY <2>1, <2>4 DEF Memory, SameLoop, DogRests
  <2>7. AtEase(r, m[s])
    BY <1>1, <2>5, <2>6, DogRestsEase
  <2>8. CASE m[s].nudge \in m[s].cancelled
    <3>1. Informs(s, r) /\ sends' = sends
      BY <1>2, <1>7, <2>8 DEF Informs
    <3> QED BY <1>1, <1>2, <2>4, <2>5, <2>7, <3>1, Waits
  <2>9. CASE m[s].nudge \notin m[s].cancelled
    <3>1. CountSend(Ticket(m[s], "dog")[1], Ticket(m[s], "dog")[2])
      BY <1>7, <2>9 DEF Ticket
    <3>2. Relies(s, r, goal', fresh')
      BY <1>1, <1>2, <2>6 DEF Relies, SameLoop
    <3>3. Forward
      BY <1>1, <1>2, GoalFields, GoalNumbers DEF Forward, Turn
    <3>4. Proceeds(s, r)
      BY <1>1, <1>2, <2>4, <2>5, <3>2, <3>3 DEF Proceeds, Knows
    <3>5. "dog" \in Hand /\ Holds(m[s], "dog") /\ ~Holds(r, "dog")
      BY <1>2, <2>6 DEF Hand, Holds
    <3> QED BY <1>2, <2>7, <3>1, <3>4, <3>5, EaseTakesNone, HandsOver
  <2> QED BY <2>8, <2>9
<1> QED BY <1>5, <1>6, <1>7 DEF DogSend

LEMMA DogContainStep ==
  ASSUME GoalInv, NEW s \in Session, DogContain(s)
  PROVE GoalInv'
<1>1. m[s] \in Memory /\ goal \in Goal /\ spent \in 0 .. MaxEvents
  BY Here
<1>2. CASE TickEnds(s) /\ UNCHANGED <<goal, fresh>>
  BY <1>2, TickOver DEF DogContain
<1>3. CASE Commit(Stopped(goal), {}) /\ Becomes(s, NoTick(StopLocalRun(m[s])))
  <2>1. PICK q \in Memory : q = StopLocalRun(m[s]) /\ SameLoop(q, m[s])
    BY <1>1, StopLocalRunKeeps
  <2>2. PICK r \in Memory : r = NoTick(q) /\ SameLoop(r, q) /\ DogRests(r)
    BY <2>1, NoTickKeeps, NoTickEase
  <2>3. SameLoop(r, m[s])
    BY <2>1, <2>2 DEF SameLoop
  <2>4. AtEase(r, m[s])
    BY <1>1, <2>2, <2>3, DogRestsEase
  <2>5. Becomes(s, r) /\ UNCHANGED <<late, hook, sends>> /\ spent' = spent
    BY <1>3, <2>1, <2>2 DEF DogContain
  <2> QED BY <1>1, <1>3, <2>4, <2>5, StoppedTypes, Ends
<1> QED BY <1>2, <1>3 DEF DogContain

(***************************************************************************)
(* The invariant                                                           *)
(***************************************************************************)

LEMMA GoalInitially == Init => GoalInv
<1> SUFFICES ASSUME Init PROVE GoalInv
  OBVIOUS
<1>1. FileTypes
  <2>1. goal \in Goal
    <3>1. /\ 0 \in Turn /\ 0 \in 0 .. MaxRuns /\ 1 \in 1 .. MaxRuns /\ 0 \in 0 .. MaxEdits
          /\ 0 \in 0 .. MaxHooks /\ Budget \in {0, Budget} /\ "none" \in CheckStatus /\ 0 \in 0 .. 3
      BY GoalNumbers DEF Turn, CheckStatus
    <3> QED BY <3>1, NobodyOwns DEF Init, Goal
  <2>2. late \in BOOLEAN /\ fresh \subseteq Threads /\ hook \in 0 .. MaxHooks /\ spent \in 0 .. MaxEvents
    <3>1. late = FALSE /\ fresh = {} /\ hook = 1 /\ spent = 0
      BY DEF Init
    <3>2. hook \in 0 .. MaxHooks /\ spent \in 0 .. MaxEvents
      BY <3>1, GoalNumbers
    <3> QED BY <3>1, <3>2
  <2> QED BY <2>1, <2>2 DEF FileTypes
<1>2. ASSUME NEW s \in Session
      PROVE /\ m[s] \in Memory /\ SameDog(m[s], Fresh) /\ m[s].driver = 0 /\ m[s].op = "none"
            /\ m[s].loop \in {"claim", "off"}
  <2>1. PICK pc \in {"claim", "off"} : m[s] = [Fresh EXCEPT !.loop = pc]
    BY DEF Init
  <2>2. m[s] \in Memory
    BY <2>1, FreshTypes DEF Memory, LoopSteps
  <2>3. m[s].loop = pc /\ m[s].op = Fresh.op /\ m[s].driver = Fresh.driver /\ SameDog(m[s], Fresh)
    BY <2>1, FreshTypes DEF Memory, SameDog
  <2> QED BY <2>2, <2>3 DEF Fresh
<1>3. MemTypes
  <2>1. m = [s \in Session |-> m[s]]
    BY DEF Init
  <2> QED BY <1>2, <2>1 DEF MemTypes
<1>4. SendTypes /\ SentBehind
  BY DEF Init, SendTypes, SentBehind, Attempts
<1>5. OwnerRuns(goal)
  BY DEF Init, OwnerRuns
<1>6. ASSUME NEW s \in Session PROVE m[s].dog = "off"
  BY <1>2 DEF SameDog, Fresh
<1>7. AllRely
  BY <1>2, <1>6 DEF AllRely, Relies, Init, Checking
<1>8. HeldOnce
  BY <1>2, <1>6 DEF HeldOnce, Holds
<1> QED BY <1>1, <1>3, <1>4, <1>5, <1>7, <1>8 DEF GoalInv

\* Every step of a run keeps the invariant.
LEMMA LoopKeepsInv ==
  ASSUME GoalInv, NEW s \in Session, LoopStep(s)
  PROVE GoalInv'
BY StartLoadStep, StartCommitStep, ClaimLoadStep, ClaimStep, LoopTopStep, AdmitLoadStep, AdmitStep,
   DispatchStep, ReserveLoadStep, ReserveStep, HandOffStep, ConsumeLoadStep, ConsumeStep, DeliverStep,
   ProgressLoadStep, ProgressStep, InterruptLoadStep, InterruptStep, ReleaseLoadStep, ReleaseStep
   DEF LoopStep

\* Every step of a session keeps the invariant.
LEMMA SessionKeepsInv ==
  ASSUME GoalInv, NEW s \in Session,
         \/ LoopStep(s) \/ OpStep(s) \/ AgentStep(s) \/ DogStep(s)
         \/ Starts(s) \/ OpLoad(s) \/ Shutdown(s) \/ UserTurn(s) \/ Crash(s)
  PROVE GoalInv'
<1>1. CASE LoopStep(s)
  BY <1>1, LoopKeepsInv
<1>2. CASE OpStep(s)
  BY <1>2, OpCommitStep, SteerSendStep, HookEndsStep, SettleCheckStep, ShutdownCommitStep DEF OpStep
<1>3. CASE AgentStep(s)
  BY <1>3, TurnEndsStep, SettleStep, SettleErrorStep DEF AgentStep
<1>4. CASE DogStep(s)
  BY <1>4, DogLoadStep, DogMarkStep, DogAdmitLoadStep, DogAdmitStep, DogSendStep, DogContainStep DEF DogStep
<1>5. CASE Starts(s)
  BY <1>5, StartAllowedStep DEF Starts
<1>6. CASE OpLoad(s) \/ Shutdown(s) \/ UserTurn(s) \/ Crash(s)
  BY <1>6, OpLoadStep, ShutdownStep, UserTurnStep, CrashStep
<1> QED BY <1>1, <1>2, <1>3, <1>4, <1>5, <1>6

\* Every step keeps the invariant.
LEMMA GoalNext == GoalInv /\ [Next]_vars => GoalInv'
<1> SUFFICES ASSUME GoalInv, [Next]_vars PROVE GoalInv'
  OBVIOUS
<1>1. CASE UNCHANGED vars
  <2>1. late' \in BOOLEAN /\ hook' \in 0 .. MaxHooks /\ spent' \in 0 .. MaxEvents
    BY <1>1 DEF vars, GoalInv, FileTypes
  <2> QED BY <1>1, <2>1, Elsewhere DEF vars
<1>2. CASE Next
  BY <1>2, SessionKeepsInv, SaveHookStep, LateStep DEF Next
<1> QED BY <1>1, <1>2

\* The inductive invariant: an attempt that was admitted lies behind the count of the file, is held by
\* one thread at most and was not sent while it is held; a thread whose revision is current may rely
\* on what it read.
THEOREM GoalInvariant == Spec => []GoalInv
<1>1. Init => GoalInv
  BY GoalInitially
<1>2. GoalInv /\ [Next]_vars => GoalInv'
  BY GoalNext
<1> QED BY <1>1, <1>2, PTL DEF Spec

\* Every variable keeps its type, however many sessions and runs there are.
THEOREM GoalTypeOK == Spec => []TypeOK
<1>1. GoalInv => TypeOK
  <2> SUFFICES ASSUME GoalInv PROVE TypeOK
    OBVIOUS
  <2>1. \A a \in DOMAIN sends : a \in (1 .. MaxRuns) \X Turn /\ sends[a] \in Nat
    BY GoalNumbers DEF GoalInv, SendTypes, Attempts, Turn
  <2> QED BY <2>1 DEF GoalInv, FileTypes, MemTypes, TypeOK, Threads
<1> QED BY <1>1, GoalInvariant, PTL

\* The prompt of an attempt is handed over at most once (goal-run-loop.ts, goal-watchdog.ts),
\* whatever stops, resumes, nudges or crashes between its admission and its send.
THEOREM GoalSentOnce == Spec => []SentOnce
<1>1. GoalInv => SentOnce
  BY DEF GoalInv, SendTypes, SentBehind, SentOnce
<1> QED BY <1>1, GoalInvariant, PTL

(***************************************************************************)
(* What a write may change                                                 *)
(***************************************************************************)

\* A write that neither completes the goal nor gives it an owner.
Kept == /\ goal'.status = "complete" => goal.status = "complete"
        /\ goal'.owner = goal.owner \/ goal'.owner = Nobody

\* A write under the same owner respects completion and generation.
LEMMA KeptWhenWritten ==
  ASSUME GoalInv, NEW g \in Goal, NEW knows, Commit(g, knows), g.owner = goal.owner,
         g.status = "complete" => goal.status = "complete"
  PROVE Kept
<1>1. goal \in Goal
  BY DEF GoalInv, FileTypes
<1> QED BY <1>1, RevokedKeeps DEF Commit, Kept

\* So does a stop.
LEMMA KeptWhenStopped ==
  ASSUME GoalInv, Commit(Stopped(goal), {})
  PROVE Kept
<1>1. goal \in Goal
  BY DEF GoalInv, FileTypes
<1> QED BY <1>1, StoppedTypes, KeptWhenWritten

\* So does an admission.
LEMMA KeptWhenAdmitted ==
  ASSUME GoalInv, NEW n \in Turn, NEW knows,
         Commit(Admitted(n), knows) \/ Commit([Admitted(n) EXCEPT !.repl = 0], knows)
  PROVE Kept
<1>1. goal \in Goal
  BY DEF GoalInv, FileTypes
<1>2. Admitted(n) \in Goal /\ [Admitted(n) EXCEPT !.repl = 0] \in Goal
  BY <1>1, AdmittedTypes
<1>3. /\ Admitted(n).owner = goal.owner /\ Admitted(n).status = goal.status
      /\ [Admitted(n) EXCEPT !.repl = 0].owner = goal.owner
      /\ [Admitted(n) EXCEPT !.repl = 0].status = goal.status
  BY <1>1, <1>2 DEF Admitted, Goal
<1> QED BY <1>2, <1>3, KeptWhenWritten

\* No step of a run but the claim changes owner or completes.
LEMMA LoopKeeps ==
  ASSUME GoalInv, NEW s \in Session, LoopStep(s), ~Claim(s)
  PROVE Kept
<1>1. m[s] \in Memory /\ m[s].turn \in Turn /\ goal \in Goal
  BY Here, MemoryFields
<1>2. CASE goal' = goal
  BY <1>2 DEF Kept
<1>3. CASE StartCommit(s)
  <2>1. CASE goal' = goal
    BY <2>1 DEF Kept
  <2>2. CASE goal' # goal
    <3>1. PICK g : /\ g = IF m[s].loop = "starting" THEN StartRun(goal) ELSE ResumeRun(goal)
                   /\ Commit(g, {}) /\ (m[s].loop = "starting" => goal.start < MaxRuns)
      BY <1>3, <2>2 DEF StartCommit
    <3>2. g \in Goal
      BY <1>1, <3>1, StartTypes
    <3>3. g.owner = goal.owner /\ g.status = "active"
      BY <1>1, <3>1 DEF StartRun, ResumeRun, Goal
    <3> QED BY <3>1, <3>2, <3>3, KeptWhenWritten
  <2> QED BY <2>1, <2>2
<1>4. CASE Admit(s) \/ Consume(s)
  <2>1. CASE goal' = goal
    BY <2>1 DEF Kept
  <2>2. CASE goal' # goal
    <3>1. Commit(Admitted(m[s].turn), {}) \/ Commit([Admitted(m[s].turn) EXCEPT !.repl = 0], {})
      BY <1>4, <2>2 DEF Admit, Consume
    <3> QED BY <1>1, <3>1, KeptWhenAdmitted
  <2> QED BY <2>1, <2>2
<1>5. CASE Reserve(s)
  <2>1. CASE goal' = goal
    BY <2>1 DEF Kept
  <2>2. CASE goal' # goal
    <3>1. PICK g : g = [goal EXCEPT !.repl = m[s].turn] /\ Commit(g, {Replacement})
      BY <1>5, <2>2 DEF Reserve
    <3>2. g \in Goal /\ g.owner = goal.owner /\ g.status = goal.status
      BY <1>1, <3>1 DEF Goal
    <3> QED BY <3>1, <3>2, KeptWhenWritten
  <2> QED BY <2>1, <2>2
<1>6. CASE Progress(s)
  <2>1. CASE goal' = goal
    BY <2>1 DEF Kept
  <2>2. CASE goal' # goal
    <3>1. PICK g : /\ g = [goal EXCEPT !.used = Larger(goal.used, m[s].turn), !.adm = 0, !.level = 0]
                   /\ Commit(g, {})
      BY <1>6, <2>2 DEF Progress
    <3>2. Larger(goal.used, m[s].turn) \in Turn /\ 0 \in Turn /\ 0 \in 0 .. 3
      BY <1>1, UsedGrows, GoalNumbers DEF Turn
    <3>3. g \in Goal
      BY <1>1, <3>1, <3>2 DEF Goal
    <3>4. g.owner = goal.owner /\ g.status = goal.status
      BY <1>1, <3>1 DEF Goal
    <3> QED BY <3>1, <3>3, <3>4, KeptWhenWritten
  <2> QED BY <2>1, <2>2
<1>7. CASE Interrupt(s) \/ Release(s)
  <2>1. Commit(Stopped(goal), {}) \/ goal' = goal
    BY <1>7 DEF Interrupt, Release
  <2> QED BY <2>1, KeptWhenStopped DEF Kept
<1>8. CASE StartLoad(s) \/ ClaimLoad(s) \/ LoopTop(s) \/ AdmitLoad(s) \/ Dispatch(s) \/ ReserveLoad(s)
           \/ HandOff(s) \/ ConsumeLoad(s) \/ Deliver(s) \/ ProgressLoad(s) \/ InterruptLoad(s) \/ ReleaseLoad(s)
  <2>1. goal' = goal
    BY <1>8 DEF StartLoad, ClaimLoad, LoopTop, AdmitLoad, Dispatch, ReserveLoad, HandOff, ConsumeLoad,
                Deliver, ProgressLoad, InterruptLoad, ReleaseLoad
  <2> QED BY <1>2, <2>1
<1> QED BY <1>3, <1>4, <1>5, <1>6, <1>7, <1>8 DEF LoopStep

\* An operation completes only what its hook saw.
LEMMA OpKeeps ==
  ASSUME GoalInv, NEW s \in Session,
         OpCommit(s) \/ SteerSend(s) \/ HookEnds(s) \/ ShutdownCommit(s)
  PROVE Kept
<1>1. CASE OpCommit(s)
  <2>1. CASE goal' = goal
    BY <2>1 DEF Kept
  <2>2. CASE goal' # goal
    <3>1. PICK o \in Command \cup Tool \cup {"steer_failed"} :
             m[s].op = o /\ Matches(Op(s)) /\ \E knows : Commit(Outcome(s, o), knows)
      BY <1>1, <2>2 DEF OpCommit
    <3>2. /\ Outcome(s, o) \in Goal /\ Outcome(s, o).owner = goal.owner
          /\ Outcome(s, o).status = "complete" => goal.status = "complete"
      BY <3>1, OutcomeTypes
    <3> QED BY <3>1, <3>2, KeptWhenWritten
  <2> QED BY <2>1, <2>2
<1>2. CASE SteerSend(s) \/ HookEnds(s)
  BY <1>2 DEF SteerSend, HookEnds, Kept
<1>3. CASE ShutdownCommit(s)
  BY <1>3, KeptWhenStopped DEF ShutdownCommit, Kept
<1> QED BY <1>1, <1>2, <1>3

\* Host events and crashes complete nothing.
LEMMA OtherKeeps ==
  ASSUME GoalInv, NEW s \in Session,
         AgentStep(s) \/ DogStep(s) \/ Starts(s) \/ OpLoad(s) \/ Shutdown(s) \/ UserTurn(s) \/ Crash(s)
  PROVE Kept
<1>1. m[s] \in Memory /\ goal \in Goal /\ Relies(s, m[s], goal, fresh)
  BY Here
<1>2. CASE SettleError(s)
  <2>1. CASE goal' = goal
    BY <2>1 DEF Kept
  <2>2. CASE goal' # goal
    <3>1. PICK h \in Goal : h = Stopped(goal) /\ h.owner = goal.owner
      BY <1>1, StoppedTypes
    <3>2. PICK g : g = [h EXCEPT !.status = "paused"] /\ Commit(g, {})
      BY <1>2, <2>2, <3>1 DEF SettleError
    <3>3. g \in Goal /\ g.owner = goal.owner /\ g.status = "paused"
      BY <3>1, <3>2 DEF Goal
    <3> QED BY <3>2, <3>3, KeptWhenWritten
  <2> QED BY <2>1, <2>2
<1>3. CASE DogMark(s)
  <2>1. CASE goal' = goal
    BY <2>1 DEF Kept
  <2>2. CASE goal' # goal
    <3>1. PICK level \in 0 .. 3 : \E knows : Commit([goal EXCEPT !.level = level], knows)
      BY <1>3, <2>2 DEF DogMark
    <3>2. PICK g : g = [goal EXCEPT !.level = level]
      OBVIOUS
    <3>3. g \in Goal /\ g.owner = goal.owner /\ g.status = goal.status
      BY <1>1, <3>2 DEF Goal
    <3> QED BY <3>1, <3>2, <3>3, KeptWhenWritten
  <2> QED BY <2>1, <2>2
<1>4. CASE DogAdmit(s)
  <2>1. CASE goal' = goal
    BY <2>1 DEF Kept
  <2>2. CASE goal' # goal
    <3>1. Commit(Admitted(m[s].nudge), {Dog(s)})
      BY <1>4, <2>2 DEF DogAdmit
    <3>2. m[s].nudge \in Turn
      BY <1>1, <1>4, MemoryFields, GoalNumbers DEF Relies, DogAdmit, Turn
    <3> QED BY <3>1, <3>2, KeptWhenAdmitted
  <2> QED BY <2>1, <2>2
<1>5. CASE DogContain(s)
  BY <1>5, KeptWhenStopped DEF DogContain, Kept
<1>6. CASE \/ TurnEnds(s) \/ Settle(s) \/ DogLoad(s) \/ DogAdmitLoad(s) \/ DogSend(s)
           \/ StartAllowed(s, "allowed") \/ StartAllowed(s, "resuming")
           \/ OpLoad(s) \/ Shutdown(s) \/ UserTurn(s) \/ Crash(s)
  <2>1. goal' = goal
    BY <1>6 DEF TurnEnds, Settle, DogLoad, DogAdmitLoad, DogSend, StartAllowed, OpLoad, Shutdown, UserTurn, Crash
  <2> QED BY <2>1 DEF Kept
<1> QED BY <1>2, <1>3, <1>4, <1>5, <1>6 DEF AgentStep, DogStep, Starts

\* Only a check that settles completes the goal, and only a claim gives it an owner.
LEMMA OnlyTwoWrite ==
  ASSUME GoalInv, [Next]_vars
  PROVE Kept \/ \E s \in Session : Claim(s) \/ SettleCheck(s)
<1>1. CASE goal' = goal
  BY <1>1 DEF Kept
<1>2. CASE UNCHANGED vars \/ SaveHook \/ Late
  BY <1>1, <1>2 DEF vars, SaveHook, Late
<1>3. ASSUME NEW s \in Session,
             \/ LoopStep(s) \/ OpStep(s) \/ AgentStep(s) \/ DogStep(s)
             \/ Starts(s) \/ OpLoad(s) \/ Shutdown(s) \/ UserTurn(s) \/ Crash(s)
      PROVE Kept \/ Claim(s) \/ SettleCheck(s)
  <2>1. CASE LoopStep(s)
    BY <2>1, LoopKeeps
  <2>2. CASE OpStep(s)
    BY <2>2, OpKeeps DEF OpStep
  <2>3. CASE AgentStep(s) \/ DogStep(s) \/ Starts(s) \/ OpLoad(s) \/ Shutdown(s) \/ UserTurn(s) \/ Crash(s)
    BY <2>3, OtherKeeps
  <2> QED BY <1>3, <2>1, <2>2, <2>3
<1> QED BY <1>2, <1>3 DEF Next

\* A goal completes only on the hook run of the objective, hook and driver it still has
\* (goal-completion.ts): the hook ran outside every lock, and whatever changed meanwhile undoes it.
THEOREM GoalCompletionIsCurrent == Spec => CompletionIsCurrent
<1> DEFINE Vetted(s) == /\ m[s].op = "passed"
                        /\ m[s].vetted = [edits |-> goal.edits, hook |-> hook, owner |-> goal.owner]
<1>1. ASSUME GoalInv, [Next]_vars, goal.status # "complete", goal'.status = "complete"
      PROVE \E s \in Session : Vetted(s)
  <2>1. PICK s \in Session : Claim(s) \/ SettleCheck(s)
    BY <1>1, OnlyTwoWrite DEF Kept
  <2>2. m[s] \in Memory /\ goal \in Goal /\ Relies(s, m[s], goal, fresh)
    BY <1>1, Here
  <2>3. goal' # goal
    BY <1>1
  <2>4. CASE Claim(s)
    <3>1. PICK g : /\ g = [goal EXCEPT !.owner = [by |-> s, gen |-> goal.ownerGen + 1],
                                       !.ownerGen = goal.ownerGen + 1]
                   /\ Commit(g, {}) /\ goal.ownerGen < MaxRuns
      BY <2>3, <2>4 DEF Claim
    <3>2. goal.ownerGen + 1 \in 0 .. MaxRuns
      BY <2>2, <3>1, GoalFields, GoalNumbers
    <3>3. g \in Goal /\ g.status = goal.status
      BY <2>2, <3>1, <3>2 DEF Goal, Owner
    <3> QED BY <1>1, <2>2, <3>1, <3>3, RevokedKeeps DEF Commit
  <2>5. CASE SettleCheck(s)
    <3>1. CASE HookPassed(s)
      <4>1. m[s].op = "passed" /\ hook = m[s].vetted.hook /\ Op(s) \in fresh
        BY <2>3, <2>5, <3>1 DEF HookPassed, SettleCheck, Matches
      <4>2. m[s].vetted.edits = goal.edits /\ m[s].vetted.owner = goal.owner
        BY <2>2, <4>1 DEF Relies, Checking
      <4>3. m[s].vetted \in [edits : 0 .. MaxEdits, hook : 0 .. MaxHooks, owner : Owner]
        BY <2>2 DEF Memory
      <4>4. m[s].vetted = [edits |-> m[s].vetted.edits, hook |-> m[s].vetted.hook, owner |-> m[s].vetted.owner]
        BY <4>3
      <4> QED BY <4>1, <4>2, <4>4
    <3>2. CASE ~HookPassed(s)
      <4>1. PICK g : g = [goal EXCEPT !.check = "failed"] /\ Commit(g, {})
        BY <2>3, <2>5, <3>2 DEF SettleCheck
      <4>2. g \in Goal /\ g.status = goal.status
        BY <2>2, <4>1 DEF Goal, CheckStatus
      <4> QED BY <1>1, <2>2, <4>1, <4>2, RevokedKeeps DEF Commit
    <3> QED BY <3>1, <3>2
  <2> QED BY <2>1, <2>4, <2>5
<1>2. GoalInv /\ [Next]_vars
        => [goal.status # "complete" /\ goal'.status = "complete" => \E s \in Session : Vetted(s)]_vars
  BY <1>1
<1> HIDE DEF Vetted
<1>3. Spec => [][goal.status # "complete" /\ goal'.status = "complete" => \E s \in Session : Vetted(s)]_vars
  BY <1>2, GoalInvariant, PTL DEF Spec
<1> USE DEF Vetted
<1> QED BY <1>3 DEF CompletionIsCurrent

\* A new owner takes the place of nobody, under a generation beyond that of every driver, however
\* stale (goal-ownership.ts).
THEOREM GoalGenerationsAreNew == Spec => GenerationsAreNew
<1> DEFINE NewGen == goal'.owner # goal.owner /\ goal'.owner # Nobody =>
                       goal.owner = Nobody /\ \A s \in Session : m[s].driver < goal'.owner.gen
<1>1. ASSUME GoalInv, [Next]_vars PROVE NewGen
  <2> SUFFICES ASSUME goal'.owner # goal.owner, goal'.owner # Nobody
               PROVE goal.owner = Nobody /\ \A s \in Session : m[s].driver < goal'.owner.gen
    OBVIOUS
  <2>1. PICK s \in Session : Claim(s) \/ SettleCheck(s)
    BY <1>1, OnlyTwoWrite DEF Kept
  <2>2. m[s] \in Memory /\ goal \in Goal /\ Relies(s, m[s], goal, fresh)
    BY <1>1, Here
  <2>3. goal' # goal
    OBVIOUS
  <2>4. CASE Claim(s)
    <3>1. PICK g : /\ g = [goal EXCEPT !.owner = [by |-> s, gen |-> goal.ownerGen + 1],
                                       !.ownerGen = goal.ownerGen + 1]
                   /\ Commit(g, {}) /\ goal.ownerGen < MaxRuns
      BY <2>3, <2>4 DEF Claim
    <3>2. m[s].loop = "claiming" /\ Loop(s) \in fresh
      BY <2>3, <2>4 DEF Claim, Matches
    <3>3. goal.owner = Nobody
      BY <2>2, <3>2 DEF Relies
    <3>4. goal.ownerGen + 1 \in 0 .. MaxRuns
      BY <2>2, <3>1, GoalFields, GoalNumbers
    <3>5. g \in Goal /\ g.owner.gen = goal.ownerGen + 1
      BY <2>2, <3>1, <3>4 DEF Goal, Owner
    <3>6. goal'.owner.gen = goal.ownerGen + 1
      BY <2>2, <3>1, <3>5, RevokedKeeps DEF Commit
    <3>7. ASSUME NEW t \in Session PROVE m[t].driver < goal.ownerGen + 1
      <4>1. m[t] \in Memory /\ Relies(t, m[t], goal, fresh)
        BY <1>1, Here
      <4>2. m[t].driver \in Nat /\ goal.ownerGen \in Nat
        BY <2>2, <4>1, MemoryFields, GoalFields, GoalNumbers
      <4> QED BY <4>1, <4>2 DEF Relies
    <3> QED BY <3>3, <3>6, <3>7
  <2>5. CASE SettleCheck(s)
    <3>1. PICK h \in Goal : h = Stopped(goal) /\ h.owner = goal.owner
      BY <2>2, StoppedTypes
    <3>2. PICK g : /\ g = IF HookPassed(s) THEN [h EXCEPT !.status = "complete", !.check = "passed"]
                          ELSE [goal EXCEPT !.check = "failed"]
                   /\ Commit(g, {})
      BY <2>3, <2>5, <3>1 DEF SettleCheck
    <3>3. g \in Goal /\ g.owner = goal.owner
      BY <2>2, <3>1, <3>2 DEF Goal, CheckStatus
    <3> QED BY <2>2, <3>2, <3>3, RevokedKeeps DEF Commit
  <2> QED BY <2>1, <2>4, <2>5
<1>2. GoalInv /\ [Next]_vars => [NewGen]_vars
  BY <1>1
<1>3. Spec => [][NewGen]_vars
  BY <1>2, GoalInvariant, PTL DEF Spec
<1> QED BY <1>3 DEF GenerationsAreNew
=============================================================================
