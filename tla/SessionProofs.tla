---------------------------- MODULE SessionProofs ----------------------------
(***************************************************************************)
(* Proofs about what a session has for itself beside its mail: the files   *)
(* it watches, for every set of paths, links, configurations and files and *)
(* whatever reloads are under way; and the lease of its boosted model, for *)
(* every number of commands, resets, runs and failures, with any handler   *)
(* at any await of another, up to where a command crosses another handler. *)
(***************************************************************************)
EXTENDS MCSession, FiniteSetTheorems, TLAPS

(***************************************************************************)
(* The watched files                                                       *)
(***************************************************************************)

\* What waits is finite, and the batch timer is never set but over.
Gathered ==
  /\ IsFiniteSet(timers) /\ IsFiniteSet(batch) /\ armed \in {"none", "running"}
  /\ W!NoChangeIsStuck

Stat == [size : Nat, mtime : Nat]
Reading == [path : Path, step : {"opened", "first", "rest", "read"}, fd : Inode,
            before : Stat \cup {None}, first : Nat \cup {None}, rest : Nat \cup {None}]

\* The times a hash has met grow, up to the time the file has now.
Ordered(r, now_) ==
  /\ r \in Reading
  /\ r.step # "opened" => r.before \in Stat /\ r.before.mtime <= now_[r.fd].mtime
  /\ r.step \in {"rest", "read"} =>
       r.first \in Nat /\ r.before.mtime <= r.first /\ r.first <= now_[r.fd].mtime
  /\ r.step = "read" => r.rest \in Nat /\ r.first <= r.rest /\ r.rest <= now_[r.fd].mtime

Hashes ==
  /\ node \in [Path -> Inode \cup {None}] /\ data \in [Inode -> Stat]
  /\ reading # None => Ordered(reading, data)
  /\ W!HashIsWhole

(***************************************************************************)
(* The boosted model                                                       *)
(***************************************************************************)

\* A lease in a session where everything may come between two awaits of a handler, also what the
\* runs do not follow.
LeaseSpec == B!Init /\ [][B!Next]_boosting

AtWork(h) == at[h] \in B!Busy

\* No handler is past its checks beside a command that is.
CommandsAlone == \A c \in Command : \A h \in B!Handler \ {c} : ~(AtWork(c) /\ AtWork(h))

\* What a handler at a step may rely on.
Place(h) ==
  /\ h \in B!Restorer => at[h] \in {"idle", "revert", "reverted", "failed"}
  /\ at[h] \in {"count", "pick"} => lease.original = B!Unset /\ ~lease.revertFailed
  /\ at[h] \in {"pick", "switch", "switched"} => lease.yieldsUsed < MaxYields
  /\ at[h] \in {"switch", "refused"} => lease.original = "base" /\ model = "base"
  /\ at[h] = "switch" => asked[h] = "boost"
  /\ at[h] \in {"switched", "dispatch"} => lease.original = "base" /\ model = "boost"
  /\ at[h] \in {"switch", "switched", "dispatch"} => ~lease.revertFailed
  /\ at[h] = "dispatch" => lease.yieldsUsed = accepted + 1
  /\ at[h] = "revert" => asked[h] = "base"
  /\ at[h] = "reverted" => model = "base"
  /\ at[h] \in {"switch", "switched", "dispatch", "revert", "reverted", "failed"} => waiting = {}

\* The lease: what it records is the session's own model, and what waits finds the boosted one.
Leased ==
  /\ lease.original # "boost"
  /\ lease.original = B!Unset => model = "base"
  /\ waiting # {} => model = "boost" /\ ~lease.revertFailed
  /\ lease.yieldsUsed <= MaxYields /\ accepted <= MaxYields
  /\ (\A c \in Command : at[c] # "dispatch") => lease.yieldsUsed = accepted
  /\ \A c \in Command : ranOn[c] # "base"

Sound == CommandsAlone /\ Leased /\ \A h \in B!Handler : Place(h)

BoostInv == B!TypeOK /\ (crossed \/ Sound)

(***************************************************************************)
(* The watched files: no change is stuck                                   *)
(***************************************************************************)

\* The instance counts as the library does.
LEMMA SameCount == \A S : W!Cardinality(S) = Cardinality(S)
BY DEF Cardinality, W!Cardinality

\* What is empty is gathered, and a cap is positive.
LEMMA NothingGathered ==
  ASSUME timers' = {}, batch' = {}, armed' = "none", overflow' = FALSE, due' = {}
  PROVE Gathered'
<1>1. IsFiniteSet(timers') /\ IsFiniteSet(batch') /\ timers' \cup batch' = {}
  BY FS_EmptySet
<1>2. Cardinality(timers' \cup batch') = 0 /\ MaxPending \in Nat \ {0}
  BY <1>1, FS_EmptySet, SessionAssumption DEF W!FileWatchAssumption
<1> QED BY <1>1, <1>2, SameCount DEF Gathered, W!NoChangeIsStuck

\* Sets that are bounded by what waited before.
LEMMA FewerWait ==
  ASSUME Gathered, NEW T, NEW S, T \subseteq timers \cup batch, S \subseteq timers \cup batch
  PROVE IsFiniteSet(T) /\ IsFiniteSet(S) /\ Cardinality(T \cup S) <= MaxPending
<1>1. IsFiniteSet(timers \cup batch) /\ T \cup S \subseteq timers \cup batch
  BY FS_Union DEF Gathered
<1>2. /\ IsFiniteSet(T) /\ IsFiniteSet(S) /\ IsFiniteSet(T \cup S)
      /\ Cardinality(T \cup S) <= Cardinality(timers \cup batch)
  BY <1>1, FS_Subset
<1>3. Cardinality(timers \cup batch) \in Nat /\ Cardinality(T \cup S) \in Nat /\ MaxPending \in Nat
  BY <1>1, <1>2, FS_CardinalityType, SessionAssumption DEF W!FileWatchAssumption
<1> QED BY <1>2, <1>3, SameCount DEF Gathered, W!NoChangeIsStuck

\* A change that is scheduled is under a timer, or is counted with the batch timer running.
LEMMA EventGathers == ASSUME Gathered, NEW p \in Path, W!Event(p) PROVE Gathered'
<1>1. CASE W!Admits(p)
  <2>1. timers' = timers \cup {p} /\ due' = due \cup {p} /\ UNCHANGED <<batch, armed, overflow>>
    BY <1>1 DEF W!Event, W!Schedule
  <2>2. CASE p \in timers \cup batch
    <3>1. IsFiniteSet(timers') /\ IsFiniteSet(batch') /\ Cardinality(timers' \cup batch') <= MaxPending
      BY <2>1, <2>2, FewerWait
    <3> QED BY <2>1, <3>1, SameCount DEF Gathered, W!NoChangeIsStuck
  <2>3. CASE p \notin timers \cup batch
    <3>1. IsFiniteSet(timers') /\ IsFiniteSet(batch') /\ IsFiniteSet(timers \cup batch)
      BY <2>1, FS_AddElement, FS_Union DEF Gathered
    <3>2. timers' \cup batch' = (timers \cup batch) \cup {p}
      BY <2>1
    <3>3. Cardinality(timers' \cup batch') = Cardinality(timers \cup batch) + 1
      BY <2>3, <3>1, <3>2, FS_AddElement
    <3>4. Cardinality(timers \cup batch) < MaxPending
      BY <1>1, <2>3, SameCount DEF W!Admits
    <3>5. Cardinality(timers \cup batch) \in Nat /\ MaxPending \in Nat
      BY <3>1, FS_CardinalityType, SessionAssumption DEF W!FileWatchAssumption
    <3>6. Cardinality(timers' \cup batch') <= MaxPending
      BY <3>3, <3>4, <3>5
    <3> QED BY <2>1, <3>1, <3>6, SameCount DEF Gathered, W!NoChangeIsStuck
  <2> QED BY <2>2, <2>3
<1>2. CASE ~W!Admits(p)
  BY <1>2 DEF W!Event, W!Schedule, W!Arm, Gathered, W!NoChangeIsStuck
<1> QED BY <1>1, <1>2

\* A debounced path joins the batch, or is counted.
LEMMA DebouncedGathers == ASSUME Gathered, NEW p \in Path, W!Debounced(p) PROVE Gathered'
<1>1. p \in timers /\ timers' = timers \ {p} /\ armed' = "running"
  BY DEF W!Debounced, W!Arm, Gathered
<1>2. \/ batch' = batch \cup {p} /\ UNCHANGED <<overflow, due>>
      \/ due' = due \ {p} /\ UNCHANGED batch
  BY DEF W!Debounced
<1>3. IsFiniteSet(timers') /\ IsFiniteSet(batch') /\ Cardinality(timers' \cup batch') <= MaxPending
  BY <1>1, <1>2, FewerWait
<1> QED BY <1>1, <1>2, <1>3, SameCount DEF Gathered, W!NoChangeIsStuck

\* What a link's move schedules is its own change.
LEMMA LinkGathers ==
  ASSUME NEW p \in Path, NEW i, W!LinkMoves(p, i)
  PROVE Gathered'
<1>1. /\ timers' = (IF i # None THEN {p} ELSE {}) /\ due' = timers'
      /\ batch' = {} /\ armed' = "none" /\ overflow' = FALSE
  BY DEF W!LinkMoves
<1>2. IsFiniteSet({p}) /\ Cardinality({p}) = 1 /\ IsFiniteSet({}) /\ Cardinality({}) = 0
  BY FS_Singleton, FS_EmptySet
<1>3. MaxPending \in Nat \ {0} /\ timers' \cup batch' = timers'
  BY <1>1, SessionAssumption DEF W!FileWatchAssumption
<1>4. IsFiniteSet(timers') /\ IsFiniteSet(batch') /\ Cardinality(timers' \cup batch') <= MaxPending
  BY <1>1, <1>2, <1>3
<1> QED BY <1>1, <1>4, SameCount DEF Gathered, W!NoChangeIsStuck

\* What is sent waits no more, but for a path that changed again.
LEMMA BatchGathers == ASSUME Gathered, W!SendBatch PROVE Gathered'
<1>1. /\ timers' = timers /\ batch' = {} /\ overflow' = FALSE /\ armed' = "none"
      /\ due' = due \ (batch \ timers)
  BY DEF W!SendBatch
<1>2. IsFiniteSet(timers') /\ IsFiniteSet(batch') /\ Cardinality(timers' \cup batch') <= MaxPending
  BY <1>1, FewerWait
<1> QED BY <1>1, <1>2, SameCount DEF Gathered, W!NoChangeIsStuck

\* What leaves timers and batch alone.
LEMMA SameGathers == ASSUME Gathered, UNCHANGED <<timers, batch, armed, overflow, due>> PROVE Gathered'
BY DEF Gathered, W!NoChangeIsStuck

\* Every step of the extension and of the file system keeps what is gathered.
LEMMA WatchGathers == ASSUME Gathered, [W!Next]_observing PROVE Gathered'
<1> USE DEF W!timing
<1>1. ASSUME NEW l \in Loader, W!Reload(l) \/ W!Reloaded(l) PROVE Gathered'
  <2>1. CASE W!Reload(l)
    BY <2>1, SameGathers DEF W!Reload
  <2>2. CASE W!Reloaded(l)
    BY <2>2, NothingGathered DEF W!Reloaded, W!StartFileWatch, W!StopFileWatch
  <2> QED BY <1>1, <2>1, <2>2
<1>2. ASSUME NEW ok \in BOOLEAN, W!Saved(ok) PROVE Gathered'
  BY <1>2, NothingGathered DEF W!Saved, W!StartFileWatch, W!StopFileWatch
<1>3. CASE W!Shutdown
  BY <1>3, NothingGathered DEF W!Shutdown, W!StopFileWatch
<1>4. CASE W!OpenSettings \/ W!CloseSettings \/ (\E c \in Config : W!Edit(c))
  BY <1>4, SameGathers DEF W!OpenSettings, W!CloseSettings, W!Edit
<1>5. CASE (\E p \in Path : W!Open(p)) \/ W!Check \/ W!ReadPart \/ W!Hashed
  BY <1>5, SameGathers DEF W!Open, W!Check, W!ReadPart, W!Hashed, W!Hashing
<1>6. CASE \/ \E i \in Inode, size \in {1, MaxBytes + 1} : W!Write(i, size)
           \/ \E p \in Path, i \in Inode \cup {None} : W!Replace(p, i)
           \/ \E c \in Config \cup {None} : W!EditOutside(c)
  BY <1>6, SameGathers DEF W!Write, W!Replace, W!EditOutside, W!Changes
<1>7. CASE UNCHANGED observing
  BY <1>7, SameGathers DEF observing
<1> QED
  BY <1>1, <1>2, <1>3, <1>4, <1>5, <1>6, <1>7, EventGathers, DebouncedGathers, LinkGathers, BatchGathers
  DEF W!Next

(***************************************************************************)
(* The watched files: a hash is of one state of one file                   *)
(***************************************************************************)

\* A bound of the hash's size is a number, so is what is above it.
LEMMA Sizes == MaxBytes \in Nat /\ 1 \in Nat /\ MaxBytes + 1 \in Nat
BY SessionAssumption DEF W!FileWatchAssumption

\* What leaves files and hashes alone.
LEMMA SameHashes == ASSUME Hashes, UNCHANGED <<node, data, reading, report>> PROVE Hashes'
BY DEF Hashes, Ordered, W!HashIsWhole

\* What is told has no hash, or that of one state.
LEMMA TellHashes ==
  ASSUME Hashes, NEW p, NEW h, W!Tell(p, h), h # None => h[2] = h[3], UNCHANGED <<node, data>>
  PROVE Hashes'
<1>1. report' = report \cup {[path |-> p, hash |-> h]} /\ reading' = None
  BY DEF W!Tell
<1>2. W!HashIsWhole'
  BY <1>1 DEF Hashes, W!HashIsWhole
<1> QED BY <1>1, <1>2 DEF Hashes

\* A file that is opened is one that lies at the path.
LEMMA OpenHashes == ASSUME Hashes, NEW p \in Path, W!Open(p) PROVE Hashes'
<1>1. UNCHANGED <<node, data>>
  BY DEF W!Open, W!Hashing, W!files
<1>2. CASE node[p] = None \/ data[node[p]].size > MaxBytes
  BY <1>1, <1>2, TellHashes DEF W!Open
<1>3. CASE ~(node[p] = None \/ data[node[p]].size > MaxBytes)
  <2>1. /\ reading' = [path |-> p, step |-> "opened", fd |-> node[p], before |-> None, first |-> None, rest |-> None]
        /\ report' = report /\ node[p] \in Inode
    BY <1>3 DEF W!Open, Hashes
  <2>2. reading' \in Reading /\ reading'.step = "opened"
    BY <2>1 DEF Reading
  <2>3. Ordered(reading, data)'
    BY <2>2 DEF Ordered
  <2> QED BY <1>1, <2>1, <2>3 DEF Hashes, W!HashIsWhole
<1> QED BY <1>2, <1>3

\* The first look remembers size and time.
LEMMA CheckHashes == ASSUME Hashes, W!Check PROVE Hashes'
<1>1. UNCHANGED <<node, data>> /\ reading \in Reading
  BY DEF W!Check, W!Hashing, W!files, Hashes, Ordered
<1>2. CASE node[reading.path] # reading.fd \/ data[reading.fd].size > MaxBytes
  BY <1>1, <1>2, TellHashes DEF W!Check
<1>3. CASE ~(node[reading.path] # reading.fd \/ data[reading.fd].size > MaxBytes)
  <2>1. reading' = [reading EXCEPT !.step = "first", !.before = data[reading.fd]] /\ report' = report
    BY <1>3 DEF W!Check
  <2>2. data[reading.fd] \in Stat
    BY <1>1 DEF Hashes, Reading
  <2>3. /\ reading' \in Reading /\ reading'.step = "first" /\ reading'.before = data[reading.fd]
        /\ reading'.fd = reading.fd
    BY <1>1, <2>1, <2>2 DEF Reading
  <2>4. Ordered(reading, data)'
    BY <1>1, <2>2, <2>3 DEF Ordered, Stat
  <2> QED BY <1>1, <2>1, <2>4 DEF Hashes, W!HashIsWhole
<1> QED BY <1>2, <1>3

\* Each part is read at a time not before that of the part before it.
LEMMA ReadHashes == ASSUME Hashes, W!ReadPart PROVE Hashes'
<1>1. UNCHANGED <<node, data, report>> /\ reading \in Reading /\ Ordered(reading, data)
  BY DEF W!ReadPart, W!Hashing, W!files, Hashes, Ordered
<1>2. data[reading.fd] \in Stat /\ data[reading.fd].mtime \in Nat
  BY <1>1 DEF Hashes, Reading, Stat
<1>3. CASE reading.step = "first"
  <2>1. reading' = [reading EXCEPT !.step = "rest", !.first = data[reading.fd].mtime]
    BY <1>3 DEF W!ReadPart
  <2>2. /\ reading' \in Reading /\ reading'.step = "rest" /\ reading'.first = data[reading.fd].mtime
        /\ reading'.before = reading.before /\ reading'.fd = reading.fd
    BY <1>1, <1>2, <2>1 DEF Reading
  <2>3. Ordered(reading, data)'
    BY <1>1, <1>2, <1>3, <2>2 DEF Ordered
  <2> QED BY <1>1, <2>3 DEF Hashes, W!HashIsWhole
<1>4. CASE reading.step = "rest"
  <2>1. reading' = [reading EXCEPT !.step = "read", !.rest = data[reading.fd].mtime]
    BY <1>4 DEF W!ReadPart
  <2>2. /\ reading' \in Reading /\ reading'.step = "read" /\ reading'.rest = data[reading.fd].mtime
        /\ reading'.before = reading.before /\ reading'.fd = reading.fd /\ reading'.first = reading.first
    BY <1>1, <1>2, <2>1 DEF Reading
  <2>3. Ordered(reading, data)'
    BY <1>1, <1>2, <1>4, <2>2 DEF Ordered
  <2> QED BY <1>1, <2>3 DEF Hashes, W!HashIsWhole
<1> QED BY <1>3, <1>4 DEF W!ReadPart

\* Times that grow and come out where they began have not moved in between.
LEMMA HashedHashes == ASSUME Hashes, W!Hashed PROVE Hashes'
<1>1. UNCHANGED <<node, data>> /\ reading \in Reading /\ Ordered(reading, data) /\ reading.step = "read"
  BY DEF W!Hashed, W!Hashing, W!files, Hashes, Ordered
<1>2. CASE data[reading.fd] = reading.before
  <2>1. reading.first = reading.rest
    BY <1>1, <1>2 DEF Ordered, Stat
  <2>2. W!Tell(reading.path, <<reading.fd, reading.first, reading.rest>>)
    BY <1>2 DEF W!Hashed
  <2> QED BY <1>1, <2>1, <2>2, TellHashes
<1>3. CASE data[reading.fd] # reading.before
  <2>1. W!Tell(reading.path, None)
    BY <1>3 DEF W!Hashed
  <2> QED BY <1>1, <2>1, TellHashes
<1> QED BY <1>2, <1>3

\* A write moves the time of its file on.
LEMMA WriteHashes == ASSUME Hashes, NEW i \in Inode, NEW size \in Nat, W!Write(i, size) PROVE Hashes'
<1>1. data' = [data EXCEPT ![i] = [size |-> size, mtime |-> @.mtime + 1]] /\ UNCHANGED <<node, reading, report>>
  BY DEF W!Write, W!Changes, W!hashing
<1>2. data \in [Inode -> Stat] /\ data[i] \in Stat
  BY DEF Hashes
<1>3. [size |-> size, mtime |-> data[i].mtime + 1] \in Stat
  BY <1>2 DEF Stat
<1>4. data' \in [Inode -> Stat]
  BY <1>1, <1>2, <1>3
<1>5. ASSUME NEW j \in Inode PROVE data[j].mtime \in Nat /\ data'[j].mtime \in Nat /\ data[j].mtime <= data'[j].mtime
  BY <1>1, <1>2 DEF Stat
<1>6. ASSUME reading # None PROVE Ordered(reading, data)'
  <2>1. Ordered(reading, data) /\ reading \in Reading /\ reading.fd \in Inode
    BY <1>6 DEF Hashes, Ordered, Reading
  <2>2. data[reading.fd].mtime \in Nat /\ data'[reading.fd].mtime \in Nat
        /\ data[reading.fd].mtime <= data'[reading.fd].mtime
    BY <1>5, <2>1
  <2> QED BY <1>1, <2>1, <2>2 DEF Ordered, Stat
<1> QED BY <1>1, <1>4, <1>6 DEF Hashes, W!HashIsWhole

\* What moves at a path is a file or nothing.
LEMMA MoveHashes ==
  ASSUME Hashes, NEW p \in Path, NEW i \in Inode \cup {None}, node' = [node EXCEPT ![p] = i],
         UNCHANGED <<data, reading, report>>
  PROVE Hashes'
BY DEF Hashes, Ordered, W!HashIsWhole

\* Every step of the extension and of the file system keeps what is hashed.
LEMMA WatchHashes == ASSUME Hashes, [W!Next]_observing PROVE Hashes'
<1> USE DEF W!files, W!hashing
<1>1. CASE \/ \E l \in Loader : W!Reload(l) \/ W!Reloaded(l)
           \/ \E ok \in BOOLEAN : W!Saved(ok)
           \/ W!Shutdown \/ W!OpenSettings \/ W!CloseSettings \/ \E c \in Config : W!Edit(c)
  BY <1>1, SameHashes
  DEF W!Reload, W!Reloaded, W!Saved, W!Shutdown, W!OpenSettings, W!CloseSettings, W!Edit
<1>2. CASE \E p \in Path : W!Event(p) \/ W!Debounced(p)
  BY <1>2, SameHashes DEF W!Event, W!Debounced
<1>3. CASE W!SendBatch
  BY <1>3 DEF W!SendBatch, Hashes, Ordered, W!HashIsWhole
<1>4. ASSUME NEW p \in Path, NEW i \in Inode \cup {None}, W!LinkMoves(p, i) \/ W!Replace(p, i) PROVE Hashes'
  BY <1>4, MoveHashes DEF W!LinkMoves, W!Replace, W!Changes
<1>5. CASE \E i \in Inode, size \in {1, MaxBytes + 1} : W!Write(i, size)
  BY <1>5, WriteHashes, Sizes
<1>6. CASE \E c \in Config \cup {None} : W!EditOutside(c)
  BY <1>6, SameHashes DEF W!EditOutside, W!Changes
<1>7. CASE UNCHANGED observing
  BY <1>7, SameHashes DEF observing
<1> QED
  BY <1>1, <1>2, <1>3, <1>4, <1>5, <1>6, <1>7, OpenHashes, CheckHashes, ReadHashes, HashedHashes DEF W!Next

\* At first nothing waits and nothing is read.
LEMMA InitWatch == ASSUME W!Init PROVE Gathered /\ Hashes
<1>1. /\ timers = {} /\ batch = {} /\ armed = "none" /\ overflow = FALSE /\ due = {} /\ reading = None /\ report = {}
  BY DEF W!Init
<1>2. IsFiniteSet(timers) /\ IsFiniteSet(batch) /\ Cardinality(timers \cup batch) = 0 /\ MaxPending \in Nat \ {0}
  BY <1>1, FS_EmptySet, SessionAssumption DEF W!FileWatchAssumption
<1>3. Gathered
  BY <1>1, <1>2, SameCount DEF Gathered, W!NoChangeIsStuck
<1>4. PICK i \in Inode : node = [p \in Path |-> i]
  BY SessionAssumption DEF W!Init, W!FileWatchAssumption
<1>5. node \in [Path -> Inode \cup {None}]
  BY <1>4
<1>6. data \in [Inode -> Stat]
  BY DEF W!Init, Stat
<1> QED BY <1>1, <1>3, <1>5, <1>6 DEF Hashes, W!HashIsWhole

(***************************************************************************)
(* The boosted model: what waits is boosted, and a lease knows its model   *)
(***************************************************************************)

\* What the bounds are, and who the handlers.
LEMMA Bounds ==
  /\ Command \cap B!Restorer = {} /\ MaxYields \in Nat \ {0} /\ MaxTime \in Nat /\ MaxFailures \in Nat
  /\ MaxResets \in Nat /\ MaxEnds \in Nat /\ MaxRuns \in Nat
  /\ B!Handler = Command \cup B!Restorer
  /\ "settle" \in B!Restorer /\ "reset" \in B!Restorer /\ "shutdown" \in B!Restorer
BY SessionAssumption DEF B!BoostAssumption, B!Restorer, B!Handler

Lease == [yieldsUsed : Nat, original : B!Model \cup {B!Unset}, revertFailed : BOOLEAN,
          startedAt : 0 .. MaxTime \cup {-1}]

\* What the steps make of the lease's counts.
LEMMA Counts ==
  ASSUME B!TypeOK
  PROVE /\ lease \in Lease
        /\ lease' = [lease EXCEPT !.yieldsUsed = 0, !.startedAt = -1] =>
             /\ lease' \in Lease /\ lease'.yieldsUsed = 0
             /\ lease'.original = lease.original /\ lease'.revertFailed = lease.revertFailed
        /\ lease' = [lease EXCEPT !.startedAt = clock, !.yieldsUsed = @ + 1] =>
             /\ lease' \in Lease /\ lease'.yieldsUsed = lease.yieldsUsed + 1
             /\ lease'.original = lease.original /\ lease'.revertFailed = lease.revertFailed
        /\ \A c \in Command :
             lease' = [lease EXCEPT !.yieldsUsed = IF @ = 0 THEN 0 ELSE @ - 1, !.startedAt = saved[c]] =>
               /\ lease' \in Lease
               /\ lease'.yieldsUsed = IF lease.yieldsUsed = 0 THEN 0 ELSE lease.yieldsUsed - 1
               /\ lease'.original = lease.original /\ lease'.revertFailed = lease.revertFailed
<1>1. lease \in Lease /\ lease.yieldsUsed \in Nat /\ clock \in 0 .. MaxTime
  BY DEF B!TypeOK, Lease
<1>2. ASSUME lease' = [lease EXCEPT !.yieldsUsed = 0, !.startedAt = -1]
      PROVE /\ lease' \in Lease /\ lease'.yieldsUsed = 0
            /\ lease'.original = lease.original /\ lease'.revertFailed = lease.revertFailed
  <2>1. lease' = [yieldsUsed |-> 0, original |-> lease.original,
                  revertFailed |-> lease.revertFailed, startedAt |-> -1]
    BY <1>1, <1>2 DEF Lease
  <2>2. lease.original \in B!Model \cup {B!Unset} /\ lease.revertFailed \in BOOLEAN
    BY <1>1 DEF Lease
  <2>3. lease' \in Lease
    BY <1>1, <2>1, <2>2 DEF Lease
  <2> QED BY <2>1, <2>3
<1>3. ASSUME lease' = [lease EXCEPT !.startedAt = clock, !.yieldsUsed = @ + 1]
      PROVE /\ lease' \in Lease /\ lease'.yieldsUsed = lease.yieldsUsed + 1
            /\ lease'.original = lease.original /\ lease'.revertFailed = lease.revertFailed
  <2>1. lease' = [yieldsUsed |-> lease.yieldsUsed + 1, original |-> lease.original,
                  revertFailed |-> lease.revertFailed, startedAt |-> clock]
    BY <1>1, <1>3 DEF Lease
  <2>2. lease.original \in B!Model \cup {B!Unset} /\ lease.revertFailed \in BOOLEAN
    BY <1>1 DEF Lease
  <2>3. lease' \in Lease
    BY <1>1, <2>1, <2>2 DEF Lease
  <2> QED BY <2>1, <2>3
<1>4. ASSUME NEW c \in Command,
             lease' = [lease EXCEPT !.yieldsUsed = IF @ = 0 THEN 0 ELSE @ - 1, !.startedAt = saved[c]]
      PROVE /\ lease' \in Lease /\ lease'.yieldsUsed = IF lease.yieldsUsed = 0 THEN 0 ELSE lease.yieldsUsed - 1
            /\ lease'.original = lease.original /\ lease'.revertFailed = lease.revertFailed
  <2>1. lease' = [yieldsUsed |-> IF lease.yieldsUsed = 0 THEN 0 ELSE lease.yieldsUsed - 1, original |-> lease.original,
                  revertFailed |-> lease.revertFailed, startedAt |-> saved[c]]
    BY <1>1, <1>4 DEF Lease
  <2>2. lease.original \in B!Model \cup {B!Unset} /\ lease.revertFailed \in BOOLEAN
    BY <1>1 DEF Lease
  <2>3. lease' \in Lease
    BY <1>1, <2>1, <2>2 DEF Lease, B!TypeOK
  <2> QED BY <2>1, <2>3
<1> QED BY <1>1, <1>2, <1>3, <1>4

\* Every step keeps the types.
LEMMA BoostTyped == ASSUME B!TypeOK, [B!Next]_boosting PROVE B!TypeOK'
<1> USE Bounds DEF B!TypeOK, B!Goto, B!Cross, B!Fail, B!Steps, B!Busy, B!Model, B!Unset, B!host, B!handlers
<1>1. ASSUME NEW c \in Command, B!Begin(c) \/ B!FollowUp(c) PROVE B!TypeOK'
  BY <1>1 DEF B!Begin, B!FollowUp
<1>2. ASSUME NEW c \in Command, B!Renew(c) PROVE B!TypeOK'
  BY <1>2, Counts DEF B!Renew, Lease
<1>3. ASSUME NEW c \in Command, B!Check(c) PROVE B!TypeOK'
  BY <1>3 DEF B!Check
<1>4. ASSUME NEW c \in Command, B!Count(c) PROVE B!TypeOK'
  BY <1>4 DEF B!Count
<1>5. ASSUME NEW c \in Command, B!Pick(c) PROVE B!TypeOK'
  BY <1>5 DEF B!Pick
<1>6. ASSUME NEW c \in Command, B!Switched(c) PROVE B!TypeOK'
  BY <1>6, Counts DEF B!Switched, Lease
<1>7. ASSUME NEW c \in Command, B!Refused(c) PROVE B!TypeOK'
  BY <1>7 DEF B!Refused
<1>8. ASSUME NEW c \in Command, B!Dispatch(c) PROVE B!TypeOK'
  <2>1. lease' \in Lease
    BY <1>8, Counts DEF B!Dispatch
  <2> QED BY <1>8, <2>1 DEF B!Dispatch, B!Deliver, Lease
<1>9. ASSUME NEW h \in B!Handler, B!SetModel(h) PROVE B!TypeOK'
  BY <1>9 DEF B!SetModel
<1>10. ASSUME NEW h \in B!Handler, B!Reverted(h) PROVE B!TypeOK'
  BY <1>10 DEF B!Reverted, B!End
<1>11. ASSUME NEW h \in B!Handler, B!RevertFailed(h) PROVE B!TypeOK'
  BY <1>11 DEF B!RevertFailed, B!End
<1>12. CASE B!AgentSettled
  BY <1>12 DEF B!AgentSettled, B!StartRestore
<1>13. CASE B!Reset
  <2>1. lease' \in Lease
    BY <1>13, Counts DEF B!Reset
  <2>2. used' \in [failures : 0 .. MaxFailures, resets : 0 .. MaxResets, ends : 0 .. MaxEnds, runs : 0 .. MaxRuns]
    BY <1>13 DEF B!Reset
  <2>3. at' \in [B!Handler -> B!Steps] /\ asked' \in [B!Handler -> B!Model \cup {B!Unset}] /\ crossed' \in BOOLEAN
    BY <1>13 DEF B!Reset, B!StartRestore
  <2> QED BY <1>13, <2>1, <2>2, <2>3 DEF B!Reset, Lease
<1>14. CASE B!Shutdown
  <2>1. used' \in [failures : 0 .. MaxFailures, resets : 0 .. MaxResets, ends : 0 .. MaxEnds, runs : 0 .. MaxRuns]
    BY <1>14 DEF B!Shutdown
  <2>2. at' \in [B!Handler -> B!Steps] /\ asked' \in [B!Handler -> B!Model \cup {B!Unset}] /\ crossed' \in BOOLEAN
    BY <1>14 DEF B!Shutdown, B!StartRestore
  <2> QED BY <1>14, <2>1, <2>2 DEF B!Shutdown
<1>15. CASE B!UserRun \/ B!Tick
  BY <1>15 DEF B!UserRun, B!Tick
<1>16. CASE UNCHANGED boosting
  BY <1>16 DEF boosting
<1> QED
  BY <1>1, <1>2, <1>3, <1>4, <1>5, <1>6, <1>7, <1>8, <1>9, <1>10, <1>11, <1>12, <1>13, <1>14, <1>15, <1>16
  DEF B!Next, B!Step

\* At first the lease is empty and the model the session's own.
LEMMA InitBoost == ASSUME B!Init PROVE BoostInv
<1>1. B!TypeOK
  <2>1. lease \in Lease
    BY DEF B!Init, Lease, B!Model, B!Unset
  <2>2. used \in [failures : 0 .. MaxFailures, resets : 0 .. MaxResets, ends : 0 .. MaxEnds, runs : 0 .. MaxRuns]
    BY Bounds DEF B!Init
  <2>3. /\ at \in [B!Handler -> B!Steps] /\ saved \in [Command -> 0 .. MaxTime \cup {-1}]
        /\ asked \in [B!Handler -> B!Model \cup {B!Unset}] /\ ranOn \in [Command -> B!Model \cup {B!Unset}]
    BY DEF B!Init, B!Steps
  <2>4. model \in B!Model /\ clock \in 0 .. MaxTime
    BY Bounds DEF B!Init, B!Model
  <2> QED BY <2>1, <2>2, <2>3, <2>4 DEF B!Init, B!TypeOK, Lease
<1>2. \A h \in B!Handler : at[h] = "idle"
  BY DEF B!Init
<1>3. Leased /\ CommandsAlone
  BY <1>2, Bounds DEF B!Init, Leased, CommandsAlone, AtWork, B!Busy, B!Unset
<1>4. \A h \in B!Handler : Place(h)
  BY <1>2 DEF Place
<1> QED BY <1>1, <1>3, <1>4 DEF BoostInv, Sound

\* A command past its checks goes on, or one goes past them while no handler is: the others stay.
LEMMA CommandKeeps ==
  ASSUME B!TypeOK, Sound, NEW c \in Command, \A h \in B!Handler \ {c} : ~AtWork(h),
         NEW to, at' = [at EXCEPT ![c] = to], Place(c)', Leased'
  PROVE Sound'
<1>1. c \in B!Handler /\ at'[c] = to /\ \A h \in B!Handler \ {c} : at'[h] = at[h]
  BY Bounds DEF B!TypeOK
<1>2. CommandsAlone'
  BY <1>1, Bounds DEF CommandsAlone, AtWork, Sound
<1>3. ASSUME NEW h \in B!Handler \ {c} PROVE Place(h)'
  <2>1. at'[h] = at[h] /\ at[h] \notin B!Busy /\ (h \in B!Restorer => at[h] = "idle")
    BY <1>1 DEF AtWork, Sound, Place, B!Busy
  <2> QED BY <2>1 DEF Place, B!Busy
<1> QED BY <1>2, <1>3 DEF Sound

\* A restore goes on or starts, while no command is past its checks: other restores stay.
LEMMA RestorerKeeps ==
  ASSUME B!TypeOK, Sound, NEW r \in B!Restorer, \A c \in Command : ~AtWork(c),
         NEW to, at' = [at EXCEPT ![r] = to], Place(r)', Leased',
         \A h \in B!Handler \ {r} : asked'[h] = asked[h], model' \in {model, "base"}, waiting' \subseteq waiting
  PROVE Sound'
<1>1. r \in B!Handler /\ at'[r] = to /\ \A h \in B!Handler \ {r} : at'[h] = at[h]
  BY Bounds DEF B!TypeOK
<1>2. CommandsAlone'
  BY <1>1, Bounds DEF CommandsAlone, AtWork
<1>3. ASSUME NEW h \in B!Handler \ {r} PROVE Place(h)'
  <2>1. at'[h] = at[h] /\ at[h] \in {"idle", "begin", "check", "done", "revert", "reverted", "failed"}
    BY <1>1, Bounds DEF AtWork, Sound, Place, B!TypeOK, B!Steps, B!Busy
  <2>2. Place(h) /\ asked'[h] = asked[h]
    BY DEF Sound
  <2> QED BY <2>1, <2>2 DEF Place
<1> QED BY <1>2, <1>3 DEF Sound

\* No handler past its checks moves, and the lease forgets at most its yields.
LEMMA OthersKeep ==
  ASSUME B!TypeOK, Sound, Leased',
         \A h \in B!Handler : at'[h] = at[h] \/ (~AtWork(h) /\ ~AtWork(h)' /\ h \notin B!Restorer),
         UNCHANGED <<asked, model>>, waiting' \subseteq waiting,
         lease'.original = lease.original, lease'.revertFailed = lease.revertFailed,
         \/ lease'.yieldsUsed = lease.yieldsUsed /\ accepted' = accepted
         \/ lease'.yieldsUsed = 0 /\ \A c \in Command : at[c] # "dispatch"
  PROVE Sound'
<1>1. CommandsAlone'
  <2>1. \A h \in B!Handler : AtWork(h)' => AtWork(h)
    BY DEF AtWork
  <2> QED BY <2>1, Bounds DEF CommandsAlone, Sound
<1>2. ASSUME NEW h \in B!Handler PROVE Place(h)'
  <2>1. CASE at'[h] = at[h]
    <3>1. at[h] = "dispatch" => h \in Command
      BY Bounds DEF Sound, Place
    <3> QED BY <2>1, <3>1, Bounds DEF Sound, Place
  <2>2. CASE ~AtWork(h)' /\ h \notin B!Restorer
    BY <2>2 DEF Place, AtWork, B!Busy
  <2> QED BY <2>1, <2>2
<1> QED BY <1>1, <1>2 DEF Sound

\* Before a command is past its checks nothing but the lease's time may change.
LEMMA BeginKeeps ==
  ASSUME B!TypeOK, Sound, NEW c \in Command, B!Begin(c) \/ B!Renew(c) PROVE Sound'
<1>1. /\ \A h \in B!Handler : at'[h] = at[h] \/ (~AtWork(h) /\ ~AtWork(h)' /\ h \notin B!Restorer)
      /\ at[c] \in {"idle", "begin"} /\ at'[c] # "dispatch" /\ \A k \in Command \ {c} : at'[k] = at[k]
      /\ UNCHANGED <<asked, model, waiting, ranOn>>
  BY Bounds DEF B!Begin, B!Renew, B!Goto, B!TypeOK, AtWork, B!Busy, B!host
<1>2. CASE UNCHANGED <<lease, accepted>>
  <2>1. Leased'
    BY <1>1, <1>2 DEF Sound, Leased
  <2> QED BY <1>1, <1>2, <2>1, OthersKeep
<1>3. CASE B!Expired /\ lease' = [lease EXCEPT !.yieldsUsed = 0, !.startedAt = -1] /\ accepted' = 0
  <2>1. /\ lease'.yieldsUsed = 0 /\ lease'.original = lease.original /\ lease'.revertFailed = lease.revertFailed
        /\ lease.original = B!Unset
    BY <1>3, Counts DEF B!Expired
  <2>2. Leased'
    BY <1>1, <1>3, <2>1, Bounds DEF Sound, Leased, B!Unset
  <2>3. \A k \in Command : at[k] # "dispatch"
    BY <2>1, Bounds DEF Sound, Place, B!Unset
  <2> QED BY <1>1, <2>1, <2>2, <2>3, OthersKeep
<1> QED BY <1>2, <1>3 DEF B!Begin, B!Renew

\* A command that is past its checks is alone there.
LEMMA Alone ==
  ASSUME Sound, NEW c \in Command, AtWork(c)
  PROVE \A h \in B!Handler \ {c} : ~AtWork(h)
BY DEF Sound, CommandsAlone

\* A boost is denied, or goes past its checks with nothing owed.
LEMMA CheckKeeps == ASSUME B!TypeOK, Sound, NEW c \in Command, B!Check(c), ~crossed' PROVE Sound'
<1>1. at[c] = "check" /\ UNCHANGED <<lease, model, asked, waiting, ranOn, accepted>> /\ c \in B!Handler
  BY Bounds DEF B!Check, B!Goto, B!host
<1>2. CASE at' = [at EXCEPT ![c] = "done"]
  <2>1. /\ \A h \in B!Handler : at'[h] = at[h] \/ (~AtWork(h) /\ ~AtWork(h)' /\ h \notin B!Restorer)
        /\ at'[c] # "dispatch" /\ \A k \in Command \ {c} : at'[k] = at[k]
    BY <1>1, <1>2, Bounds DEF B!TypeOK, AtWork, B!Busy
  <2>2. Leased'
    BY <1>1, <2>1 DEF Sound, Leased
  <2> QED BY <1>1, <2>1, <2>2, OthersKeep
<1>3. CASE lease.original = B!Unset /\ ~lease.revertFailed /\ at' = [at EXCEPT ![c] = "count"] /\ B!Cross(c)
  <2>1. /\ \A h \in B!Handler \ {c} : ~AtWork(h)
        /\ at'[c] = "count" /\ \A k \in Command \ {c} : at'[k] = at[k]
    BY <1>1, <1>3, Bounds DEF B!Cross, AtWork, B!TypeOK
  <2>2. Leased'
    BY <1>1, <2>1 DEF Sound, Leased
  <2>3. Place(c)'
    BY <1>1, <1>3, <2>1, Bounds DEF Place
  <2> QED BY <1>3, <2>1, <2>2, <2>3, CommandKeeps
<1> QED BY <1>2, <1>3 DEF B!Check, B!Goto

\* There are yields left, and the model recorded is the session's own.
LEMMA PickKeeps ==
  ASSUME B!TypeOK, Sound, NEW c \in Command, B!Count(c) \/ B!Pick(c) PROVE Sound'
<1>1. /\ at[c] \in {"count", "pick"} /\ c \in B!Handler /\ UNCHANGED <<model, waiting, ranOn, accepted>>
      /\ \A h \in B!Handler \ {c} : ~AtWork(h)
  BY Bounds, Alone DEF B!Count, B!Pick, B!Goto, B!host, AtWork, B!Busy
<1>2. PICK to \in {"done", "pick", "switch"} :
        /\ at' = [at EXCEPT ![c] = to]
        /\ to # "switch" => UNCHANGED <<lease, asked>>
        /\ to = "pick" => lease.yieldsUsed < MaxYields
        /\ to = "switch" => /\ at[c] = "pick" /\ lease' = [lease EXCEPT !.original = model]
                            /\ \E m \in {"boost"} \cup (B!Model \ {model}) : asked' = [asked EXCEPT ![c] = m]
  BY DEF B!Count, B!Pick, B!Goto
<1>3. /\ lease.original = B!Unset /\ ~lease.revertFailed /\ model = "base" /\ waiting = {}
      /\ at[c] = "pick" => lease.yieldsUsed < MaxYields
  BY <1>1 DEF Sound, Place, Leased
<1>4. /\ lease'.yieldsUsed = lease.yieldsUsed /\ lease'.revertFailed = lease.revertFailed
      /\ to = "switch" => lease'.original = "base"
      /\ to # "switch" => lease'.original = lease.original
  BY <1>2, <1>3 DEF B!TypeOK
<1>5. /\ at'[c] = to /\ \A k \in Command \ {c} : at'[k] = at[k]
      /\ to = "switch" => asked'[c] = "boost"
  BY <1>1, <1>2, <1>3 DEF B!TypeOK, B!Model
<1>6. Leased'
  BY <1>1, <1>2, <1>3, <1>4, <1>5 DEF Sound, Leased, B!Unset
<1>7. Place(c)'
  BY <1>1, <1>2, <1>3, <1>4, <1>5, Bounds DEF Place
<1> QED BY <1>1, <1>2, <1>6, <1>7, CommandKeeps

\* The model is boosted, a yield used or the recorded model dropped with the switch refused.
LEMMA SwitchKeeps ==
  ASSUME B!TypeOK, Sound, NEW c \in Command, B!SetModel(c) /\ at[c] = "switch" PROVE Sound'
<1>1. /\ c \in B!Handler /\ UNCHANGED <<lease, asked, waiting, ranOn, accepted>>
      /\ \A h \in B!Handler \ {c} : ~AtWork(h)
  BY Bounds, Alone DEF B!SetModel, B!host, AtWork, B!Busy
<1>2. PICK to \in {"switched", "refused", "done"} :
        at' = [at EXCEPT ![c] = to] /\ model' = IF to = "switched" THEN asked[c] ELSE model
  BY DEF B!SetModel, B!Goto
<1>3. /\ lease.original = "base" /\ ~lease.revertFailed /\ lease.yieldsUsed < MaxYields
      /\ asked[c] = "boost" /\ model = "base" /\ waiting = {}
  BY <1>1 DEF Sound, Place
<1>4. at'[c] = to /\ \A k \in Command \ {c} : at'[k] = at[k]
  BY <1>1, <1>2 DEF B!TypeOK
<1>5. Leased'
  BY <1>1, <1>2, <1>3, <1>4 DEF Sound, Leased, B!Unset
<1>6. Place(c)'
  BY <1>1, <1>2, <1>3, <1>4, Bounds DEF Place
<1> QED BY <1>1, <1>2, <1>5, <1>6, CommandKeeps

LEMMA SwitchedKeeps ==
  ASSUME B!TypeOK, Sound, NEW c \in Command, B!Switched(c) PROVE Sound'
<1>1. /\ c \in B!Handler /\ at[c] = "switched" /\ at' = [at EXCEPT ![c] = "dispatch"]
      /\ UNCHANGED <<model, asked, waiting, ranOn, accepted>>
      /\ \A h \in B!Handler \ {c} : ~AtWork(h)
  BY Bounds, Alone DEF B!Switched, B!Goto, B!host, AtWork, B!Busy
<1>2. /\ lease.original = "base" /\ ~lease.revertFailed /\ lease.yieldsUsed < MaxYields
      /\ model = "boost" /\ waiting = {}
  BY <1>1 DEF Sound, Place
<1>3. /\ lease'.yieldsUsed = lease.yieldsUsed + 1
      /\ lease'.original = lease.original /\ lease'.revertFailed = lease.revertFailed
  BY Counts DEF B!Switched
<1>4. at'[c] = "dispatch" /\ \A k \in Command \ {c} : at'[k] = at[k] /\ at[k] # "dispatch"
  BY <1>1, Bounds DEF B!TypeOK, AtWork, B!Busy
<1>5. lease.yieldsUsed = accepted /\ lease.yieldsUsed \in Nat
  BY <1>1, <1>4 DEF Sound, Leased, B!TypeOK
<1>6. Leased'
  BY <1>1, <1>2, <1>3, <1>4, <1>5, Bounds DEF Sound, Leased, B!Unset
<1>7. Place(c)'
  BY <1>1, <1>2, <1>3, <1>4, <1>5, Bounds DEF Place
<1> QED BY <1>1, <1>6, <1>7, CommandKeeps

LEMMA RefusedKeeps ==
  ASSUME B!TypeOK, Sound, NEW c \in Command, B!Refused(c) PROVE Sound'
<1>1. /\ c \in B!Handler /\ at[c] = "refused" /\ at' = [at EXCEPT ![c] = "done"]
      /\ UNCHANGED <<model, asked, waiting, ranOn, accepted>> /\ lease' = [lease EXCEPT !.original = B!Unset]
      /\ \A h \in B!Handler \ {c} : ~AtWork(h)
  BY Bounds, Alone DEF B!Refused, B!Goto, B!host, AtWork, B!Busy
<1>2. model = "base" /\ at'[c] = "done" /\ \A k \in Command \ {c} : at'[k] = at[k]
  BY <1>1 DEF Sound, Place, B!TypeOK
<1>3. /\ lease'.yieldsUsed = lease.yieldsUsed /\ lease'.original = B!Unset
      /\ lease'.revertFailed = lease.revertFailed
  BY <1>1 DEF B!TypeOK
<1>4. Leased'
  BY <1>1, <1>2, <1>3 DEF Sound, Leased, B!Unset
<1>5. Place(c)'
  BY <1>2, Bounds DEF Place
<1> QED BY <1>1, <1>4, <1>5, CommandKeeps

\* The prompt runs or waits on the boosted model; or it is not sent, the yield is given back, and the
\* restore begins.
LEMMA DispatchKeeps ==
  ASSUME B!TypeOK, Sound, NEW c \in Command, B!Dispatch(c) PROVE Sound'
<1>1. /\ c \in B!Handler /\ at[c] = "dispatch" /\ UNCHANGED model
      /\ \A h \in B!Handler \ {c} : ~AtWork(h)
  BY Bounds, Alone DEF B!Dispatch, B!Goto, AtWork, B!Busy
<1>2. /\ lease.original = "base" /\ ~lease.revertFailed /\ model = "boost" /\ waiting = {}
      /\ lease.yieldsUsed = accepted + 1 /\ accepted \in Nat /\ lease.yieldsUsed <= MaxYields
  BY <1>1 DEF Sound, Place, Leased, B!TypeOK
<1>3. \A to : at' = [at EXCEPT ![c] = to] => at'[c] = to /\ \A k \in Command \ {c} : at'[k] = at[k]
  BY <1>1 DEF B!TypeOK
<1>4. CASE at' = [at EXCEPT ![c] = "done"] /\ B!Deliver(c) /\ accepted' = accepted + 1 /\ UNCHANGED <<lease, asked>>
  <2>1. \A k \in Command : ranOn'[k] # "base"
    BY <1>2, <1>4 DEF B!Deliver, B!TypeOK, Sound, Leased
  <2>2. Leased'
    BY <1>1, <1>2, <1>4, <2>1 DEF Sound, Leased, B!Unset
  <2>3. Place(c)'
    BY <1>3, <1>4, Bounds DEF Place
  <2> QED BY <1>1, <1>4, <2>2, <2>3, CommandKeeps
<1>5. CASE /\ at' = [at EXCEPT ![c] = "revert"] /\ UNCHANGED <<waiting, ranOn, accepted>>
           /\ lease' = [lease EXCEPT !.yieldsUsed = IF @ = 0 THEN 0 ELSE @ - 1, !.startedAt = saved[c]]
           /\ asked' = [asked EXCEPT ![c] = lease.original]
  <2>1. /\ lease'.yieldsUsed = accepted
        /\ lease'.original = lease.original /\ lease'.revertFailed = lease.revertFailed
    <3>1. /\ lease'.yieldsUsed = IF lease.yieldsUsed = 0 THEN 0 ELSE lease.yieldsUsed - 1
          /\ lease'.original = lease.original /\ lease'.revertFailed = lease.revertFailed
      BY <1>5, Counts
    <3> QED BY <1>2, <3>1
  <2>2. asked'[c] = "base" /\ at'[c] = "revert"
    BY <1>1, <1>2, <1>3, <1>5 DEF B!TypeOK
  <2>3. Leased'
    BY <1>1, <1>2, <1>5, <2>1, Bounds DEF Sound, Leased, B!Unset
  <2>4. Place(c)'
    BY <1>2, <1>5, <2>2, Bounds DEF Place
  <2> QED BY <1>1, <1>5, <2>3, <2>4, CommandKeeps
<1> QED BY <1>4, <1>5 DEF B!Dispatch, B!Goto, B!host

\* A handler of either kind goes on with a restore.
LEMMA RestoreGoesOn ==
  ASSUME B!TypeOK, Sound, NEW h \in B!Handler, at[h] \in {"revert", "reverted", "failed"},
         NEW to \in {"idle", "done", "reverted", "failed"}, at' = [at EXCEPT ![h] = to],
         UNCHANGED <<asked, waiting, ranOn, accepted>>, lease'.yieldsUsed = lease.yieldsUsed,
         to = "done" => h \notin B!Restorer,
         model' \in {model, "base"}, to = "reverted" => model' = "base",
         \/ lease'.original = lease.original
         \/ lease'.original = B!Unset /\ model' = "base"
  PROVE Sound'
<1>1. waiting = {} /\ at'[h] = to /\ \A k \in B!Handler \ {h} : at'[k] = at[k]
  BY DEF Sound, Place, B!TypeOK
<1>2. (\A c \in Command : at'[c] # "dispatch") => \A c \in Command : at[c] # "dispatch"
  BY <1>1, Bounds
<1>3. Leased'
  BY <1>1, <1>2 DEF Sound, Leased, B!Unset
<1>4. Place(h)'
  BY <1>1, Bounds DEF Place
<1>5. CASE h \in Command
  BY <1>3, <1>4, <1>5, Alone, CommandKeeps DEF AtWork, B!Busy
<1>6. CASE h \in B!Restorer
  <2>1. \A c \in Command : ~AtWork(c)
    BY <1>6, Bounds DEF Sound, CommandsAlone, AtWork, B!Busy
  <2> QED BY <1>3, <1>4, <1>6, <2>1, RestorerKeeps
<1> QED BY <1>5, <1>6, Bounds

\* The model is the session's own again, or the lease remembers which it is.
LEMMA RevertKeeps ==
  ASSUME B!TypeOK, Sound, NEW h \in B!Handler,
         (B!SetModel(h) /\ at[h] = "revert") \/ B!Reverted(h) \/ B!RevertFailed(h)
  PROVE Sound'
<1>1. CASE B!SetModel(h) /\ at[h] = "revert"
  <2>1. asked[h] = "base"
    BY <1>1 DEF Sound, Place
  <2>2. PICK to \in {"reverted", "failed"} :
          at' = [at EXCEPT ![h] = to] /\ (to = "reverted" => model' = "base") /\ model' \in {model, "base"}
    BY <1>1, <2>1 DEF B!SetModel, B!Goto
  <2>3. UNCHANGED <<lease, asked, waiting, ranOn, accepted>>
    BY <1>1 DEF B!SetModel, B!host
  <2>4. at[h] = "revert" /\ lease'.yieldsUsed = lease.yieldsUsed /\ lease'.original = lease.original
    BY <1>1, <2>3
  <2> QED BY <2>2, <2>3, <2>4, RestoreGoesOn
<1>2. CASE B!Reverted(h)
  <2>1. PICK to \in {"idle", "done"} : at' = [at EXCEPT ![h] = to] /\ (to = "done" => h \notin B!Restorer)
    BY <1>2 DEF B!Reverted, B!Goto, B!End
  <2>2. at[h] = "reverted" /\ model = "base" /\ UNCHANGED <<model, asked, waiting, ranOn, accepted>>
    BY <1>2 DEF B!Reverted, B!Goto, B!host, Sound, Place
  <2>3. lease'.yieldsUsed = lease.yieldsUsed /\ lease'.original = B!Unset
    BY <1>2 DEF B!Reverted, B!TypeOK
  <2> QED BY <2>1, <2>2, <2>3, RestoreGoesOn
<1>3. CASE B!RevertFailed(h)
  <2>1. PICK to \in {"idle", "done"} : at' = [at EXCEPT ![h] = to] /\ (to = "done" => h \notin B!Restorer)
    BY <1>3 DEF B!RevertFailed, B!Goto, B!End
  <2>2. at[h] = "failed" /\ UNCHANGED <<model, asked, waiting, ranOn, accepted>>
    BY <1>3 DEF B!RevertFailed, B!Goto, B!host
  <2>3. lease'.yieldsUsed = lease.yieldsUsed /\ lease'.original = lease.original
    BY <1>3 DEF B!RevertFailed, B!TypeOK
  <2> QED BY <2>1, <2>2, <2>3, RestoreGoesOn
<1> QED BY <1>1, <1>2, <1>3

\* A restore starts where the lease has a model recorded, no prompt waits and no command is past its
\* checks.
LEMMA RestoreStarts ==
  ASSUME B!TypeOK, Sound, Leased', NEW r \in B!Restorer, lease.original # B!Unset, B!StartRestore(r), ~crossed',
         waiting' = {}, UNCHANGED model
  PROVE Sound'
<1>1. /\ r \in B!Handler /\ at' = [at EXCEPT ![r] = "revert"] /\ at[r] = "idle"
      /\ asked' = [asked EXCEPT ![r] = lease.original]
  BY Bounds DEF B!StartRestore, B!Goto
<1>2. at'[r] = "revert" /\ asked'[r] = "base" /\ \A h \in B!Handler \ {r} : asked'[h] = asked[h]
  BY <1>1 DEF Sound, Leased, B!TypeOK, B!Model
<1>3. \A c \in Command : ~AtWork(c)
  BY Bounds DEF B!StartRestore, B!Cross, AtWork
<1>4. Place(r)'
  BY <1>2 DEF Place
<1> QED BY <1>1, <1>2, <1>3, <1>4, RestorerKeeps

\* A run settles or the session ends: the restore starts, or none is owed.
LEMMA SettledKeeps ==
  ASSUME B!TypeOK, Sound, B!AgentSettled \/ B!Shutdown, ~crossed' PROVE Sound'
<1>1. waiting' = {} /\ UNCHANGED <<lease, model, ranOn, accepted>>
  BY DEF B!AgentSettled, B!Shutdown
<1>2. PICK r \in B!Restorer :
        \/ lease.original # B!Unset /\ B!StartRestore(r)
        \/ UNCHANGED <<at, asked>>
  BY Bounds DEF B!AgentSettled, B!Shutdown
<1>3. \A c \in Command : at'[c] = at[c]
  BY <1>2, Bounds DEF B!StartRestore, B!Goto, B!TypeOK
<1>4. Leased'
  BY <1>1, <1>3 DEF Sound, Leased
<1>5. CASE UNCHANGED <<at, asked>>
  BY <1>1, <1>4, <1>5, OthersKeep
<1> QED BY <1>1, <1>2, <1>4, <1>5, RestoreStarts

\* A reset forgets what was used, not the model to go back to.
LEMMA ResetKeeps == ASSUME B!TypeOK, Sound, B!Reset, ~crossed' PROVE Sound'
<1>1. /\ accepted' = 0 /\ UNCHANGED <<model, waiting, ranOn>>
      /\ lease'.yieldsUsed = 0 /\ lease'.original = lease.original /\ lease'.revertFailed = lease.revertFailed
  BY Counts DEF B!Reset, B!host
<1>2. \A c \in Command : at'[c] = at[c] /\ ~AtWork(c)
  BY Bounds DEF B!Reset, B!StartRestore, B!Goto, B!TypeOK, B!Cross, AtWork
<1>3. Leased'
  BY <1>1, <1>2, Bounds DEF Sound, Leased, B!TypeOK
<1>4. CASE lease.revertFailed /\ lease.original # B!Unset /\ B!StartRestore("reset")
  <2>1. waiting' = {}
    BY <1>1, <1>4 DEF Sound, Leased
  <2> QED BY <1>1, <1>3, <1>4, <2>1, Bounds, RestoreStarts
<1>5. CASE UNCHANGED <<at, asked>>
  <2>1. \A c \in Command : at[c] # "dispatch"
    BY <1>2 DEF AtWork, B!Busy
  <2> QED BY <1>1, <1>3, <1>5, <2>1, OthersKeep
<1> QED BY <1>4, <1>5 DEF B!Reset

\* The host: what waits is taken up on the model of the session, which is the boosted one.
LEMMA HostKeeps ==
  ASSUME B!TypeOK, Sound, B!UserRun \/ B!Tick \/ UNCHANGED boosting \/ \E c \in Command : B!FollowUp(c)
  PROVE Sound'
<1>1. UNCHANGED <<at, asked, lease, model, accepted>> /\ waiting' \subseteq waiting
  BY DEF B!UserRun, B!Tick, B!FollowUp, B!handlers, B!host, boosting
<1>2. \A c \in Command : ranOn'[c] # "base"
  <2>1. CASE UNCHANGED ranOn
    BY <2>1 DEF Sound, Leased
  <2>2. ASSUME NEW c \in Command, B!FollowUp(c) PROVE \A k \in Command : ranOn'[k] # "base"
    BY <2>2 DEF B!FollowUp, Sound, Leased, B!TypeOK
  <2> QED BY <2>1, <2>2 DEF B!UserRun, B!Tick, B!host, boosting
<1>3. Leased'
  BY <1>1, <1>2 DEF Sound, Leased
<1> QED BY <1>1, <1>3, OthersKeep

\* Every step of the lease's handlers and of the host; a lease whose handlers crossed promises nothing.
LEMMA BoostKeeps == ASSUME BoostInv, [B!Next]_boosting PROVE BoostInv'
<1>1. crossed => crossed'
  BY DEF B!Next, B!Step, B!Begin, B!Renew, B!Check, B!Count, B!Pick, B!Switched, B!Refused, B!Dispatch,
         B!SetModel, B!Reverted, B!RevertFailed, B!AgentSettled, B!Reset, B!Shutdown, B!UserRun, B!FollowUp,
         B!Tick, B!StartRestore, B!Cross, boosting
<1>2. B!TypeOK' /\ B!TypeOK
  BY BoostTyped DEF BoostInv
<1>3. SUFFICES ASSUME ~crossed' PROVE Sound'
  BY <1>2 DEF BoostInv
<1>4. Sound
  BY <1>1, <1>3 DEF BoostInv
<1>5. ASSUME NEW h \in B!Handler, B!Step(h) PROVE Sound'
  <2>1. CASE B!SetModel(h) \/ B!Reverted(h) \/ B!RevertFailed(h)
    <3>1. at[h] = "switch" => h \in Command
      BY <1>4, Bounds DEF Sound, Place
    <3>2. B!SetModel(h) => at[h] \in {"switch", "revert"}
      BY DEF B!SetModel, B!Goto
    <3> QED BY <1>2, <1>4, <2>1, <3>1, <3>2, SwitchKeeps, RevertKeeps
  <2>2. CASE h \in Command /\ (B!Renew(h) \/ B!Check(h) \/ B!Count(h) \/ B!Pick(h))
    BY <1>2, <1>3, <1>4, <2>2, BeginKeeps, CheckKeeps, PickKeeps
  <2>3. CASE h \in Command /\ (B!Switched(h) \/ B!Refused(h) \/ B!Dispatch(h))
    BY <1>2, <1>4, <2>3, SwitchedKeeps, RefusedKeeps, DispatchKeeps
  <2> QED BY <1>5, <2>1, <2>2, <2>3 DEF B!Step
<1>6. ASSUME NEW c \in Command, B!Begin(c) PROVE Sound'
  BY <1>2, <1>4, <1>6, BeginKeeps
<1>7. CASE B!AgentSettled \/ B!Shutdown \/ B!Reset
  BY <1>2, <1>3, <1>4, <1>7, SettledKeeps, ResetKeeps
<1>8. CASE B!UserRun \/ B!Tick \/ UNCHANGED boosting \/ \E c \in Command : B!FollowUp(c)
  BY <1>2, <1>4, <1>8, HostKeeps
<1> QED BY <1>5, <1>6, <1>7, <1>8 DEF B!Next

LEMMA BoostInvariant == LeaseSpec => []BoostInv
<1>1. B!Init => BoostInv
  BY InitBoost
<1>2. BoostInv /\ [B!Next]_boosting => BoostInv'
  BY BoostKeeps
<1> QED BY <1>1, <1>2, PTL DEF LeaseSpec

(***************************************************************************)
(* The session: a step is one of one part                                  *)
(***************************************************************************)

\* A step of the session leaves the lease alone or is a step of it, and so for the watched files.
LEMMA StepsOfParts ==
  ASSUME [SumNext]_<<part, vars, boosting, observing>> PROVE [B!Next]_boosting /\ [W!Next]_observing
<1>1. CASE InMail
  BY <1>1 DEF InMail
<1>2. CASE InBoost
  <2>1. ASSUME NEW c \in Command,
               B!Renew(c) \/ B!Check(c) \/ B!Count(c) \/ B!Pick(c) \/ B!Switched(c) \/ B!Refused(c) \/ B!Dispatch(c)
        PROVE B!Next
    BY <2>1 DEF B!Next, B!Step, B!Handler
  <2>2. ASSUME NEW h \in B!Handler, B!SetModel(h) \/ B!Reverted(h) \/ B!RevertFailed(h) PROVE B!Next
    BY <2>2 DEF B!Next, B!Step
  <2> QED BY <1>2, <2>1, <2>2 DEF SumNext, InBoost, Followed, InMail, InWatch, B!Next
<1>3. CASE InWatch
  BY <1>3 DEF SumNext, InBoost, InMail, InWatch, W!Next
<1>4. CASE UNCHANGED <<part, vars, boosting, observing>>
  BY <1>4
<1> QED BY <1>1, <1>2, <1>3, <1>4 DEF SumNext

\* What the runs check of the session is a lease, followed up to where a command crosses.
LEMMA SessionIsLease == SumSpec => LeaseSpec
<1>1. SumInit => B!Init
  BY DEF SumInit
<1>2. [SumNext]_<<part, vars, boosting, observing>> => [B!Next]_boosting
  BY StepsOfParts
<1> QED BY <1>1, <1>2, PTL DEF SumSpec, LeaseSpec

\* A boosted prompt runs on the boosted model, also when it waited behind another run, whatever
\* fails, is reset, expires, settles or ends between two awaits of its handler, unless a command and
\* another handler were past their checks at once.
THEOREM SessionRunsBoosted == LeaseSpec => []RunsBoosted
<1>1. BoostInv => RunsBoosted
  BY DEF BoostInv, Sound, Leased, RunsBoosted, B!RunsBoosted
<1> QED BY <1>1, BoostInvariant, PTL

\* At rest a session on the boosted model knows the model to go back to, unless a command crossed
\* another handler: no failure, reset, end or expiry alone strands it.
THEOREM SessionNeverStranded == LeaseSpec => []B!NeverStranded
<1>1. BoostInv => B!NeverStranded
  BY DEF BoostInv, Sound, Leased, B!NeverStranded
<1> QED BY <1>1, BoostInvariant, PTL

\* A lease accepts as many prompts as it may yield and no more, and at rest it has used a yield for
\* each: what was denied or not sent is free; again unless a command crossed another handler.
THEOREM SessionYieldsAreAccepted == LeaseSpec => []B!YieldsAreAccepted
<1>1. ASSUME BoostInv PROVE B!YieldsAreAccepted
  <2>1. CASE crossed
    BY <2>1 DEF B!YieldsAreAccepted
  <2>2. CASE Sound
    <3>1. B!AtRest => \A c \in Command : at[c] # "dispatch"
      BY Bounds DEF B!AtRest
    <3> QED BY <2>2, <3>1 DEF Sound, Leased, B!YieldsAreAccepted
  <2> QED BY <1>1, <2>1, <2>2 DEF BoostInv
<1> QED BY <1>1, BoostInvariant, PTL

\* No change of a watched file is stuck: it waits under its own timer, in the batch or in the count
\* of those over the cap, with the batch timer running, whatever reloads or moved links come between.
THEOREM SessionNoChangeIsStuck == SumSpec => []NoChangeIsStuck
<1>1. SumInit => Gathered
  BY InitWatch DEF SumInit
<1>2. Gathered /\ [SumNext]_<<part, vars, boosting, observing>> => Gathered'
  BY StepsOfParts, WatchGathers
<1>3. Gathered => NoChangeIsStuck
  BY DEF Gathered, NoChangeIsStuck
<1> QED BY <1>1, <1>2, <1>3, PTL DEF SumSpec

\* A hash that is reported is of one content of the file, although it is read in parts and written
\* meanwhile, or another file takes its path.
THEOREM SessionHashIsWhole == SumSpec => []HashIsWhole
<1>1. SumInit => Hashes
  BY InitWatch DEF SumInit
<1>2. Hashes /\ [SumNext]_<<part, vars, boosting, observing>> => Hashes'
  BY StepsOfParts, WatchHashes
<1>3. Hashes => HashIsWhole
  BY DEF Hashes, HashIsWhole
<1> QED BY <1>1, <1>2, <1>3, PTL DEF SumSpec
=============================================================================
