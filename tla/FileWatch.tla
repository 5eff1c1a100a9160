----------------------------- MODULE FileWatch -----------------------------
(***************************************************************************)
(* The file watch extension (src/extensions/pi-file-watch/): watchers on   *)
(* the configured paths, a debounce timer per path, one batch that is sent *)
(* when its window ends, and a settings overlay that saves the            *)
(* configuration and starts the watchers anew.                             *)
(*                                                                         *)
(* A reload reads the configuration before it stops what runs, so reloads  *)
(* and saves overlap.  Sending a batch hashes each file while others       *)
(* write it: the read goes on in parts, and only the file system moves in  *)
(* between.  A write moves the modification time of its file.              *)
(***************************************************************************)
EXTENDS Naturals, Sequences, FiniteSets

CONSTANTS
  None,
  Path,         \* paths that a configuration or a directory can name
  Parent,       \* the watched directory a path lies in, or None
  Link,         \* configured paths that are symbolic links
  Config,       \* configurations: sets of paths
  Loader,       \* reloads that may be under way at once
  Inode,        \* files that may lie at a path
  MaxPending,   \* MAX_PENDING_PATHS, 256 in the code
  MaxBytes,     \* the hash limit
  MaxChanges    \* changes of files and of the configuration in a behaviour

FileWatchAssumption ==
  /\ \A c \in Config : c \subseteq Path
  /\ Inode # {}
  /\ MaxPending \in Nat \ {0} /\ MaxBytes \in Nat /\ MaxChanges \in Nat

VARIABLES
  disk,      \* .pi/file-watch.json: a configuration, or None: malformed
  config,    \* state.config, or None
  watching,  \* paths with an open watcher
  timers,    \* paths with a debounce timer
  batch,     \* paths in batchChanges
  armed,     \* batchTimer: "none", "running" or "fired" (set, but over)
  overflow,  \* overflowEvents > 0
  loads,     \* the configuration a reload has read, or None
  draft,     \* the configuration of the open overlay, or None
  saves,     \* configWriteChain
  up,        \* the session runs
  node,      \* the file at a path, or None
  data,      \* size and modification time of a file
  reading,   \* the hash under way: [path, step, fd, before, first, rest], or None
  sending,   \* paths of the batch still to describe
  report,    \* the descriptions of the batch
  due,       \* paths whose change is not yet reported, given up or counted
  changes

timing  == <<timers, batch, armed, overflow, due>>
setting == <<disk, config, watching, loads, draft, saves, up>>
files   == <<node, data>>
hashing == <<reading, sending, report>>
vars == <<timing, setting, files, hashing, changes>>

\* Everything in the extension runs between two batches, never during one.
Free == reading = None /\ sending = {}

Described(c) == {p \in c : node[p] # None}

Init ==
  /\ disk \in Config /\ config = None /\ watching = {}
  /\ timers = {} /\ batch = {} /\ armed = "none" /\ overflow = FALSE /\ due = {}
  /\ loads = [l \in Loader |-> None] /\ draft = None /\ saves = <<>> /\ up = TRUE
  /\ data = [i \in Inode |-> [size |-> 1, mtime |-> 0]]
  /\ LET i == CHOOSE i \in Inode : TRUE IN node = [p \in Path |-> i]
  /\ reading = None /\ sending = {} /\ report = {} /\ changes = 0

-----------------------------------------------------------------------------
(* startFileWatch and stopFileWatch.                                       *)

\* Watchers and timers end, what they had gathered is dropped.
StopFileWatch ==
  /\ timers' = {} /\ batch' = {} /\ armed' = "none" /\ overflow' = FALSE /\ due' = {}

StartFileWatch(c) ==
  /\ StopFileWatch
  /\ config' = c /\ watching' = Described(c)

-----------------------------------------------------------------------------
(* A session, its reloads and its settings overlay.                        *)

\* session_start, a tool or the command reads the configuration.
Reload(l) ==
  /\ Free /\ up /\ loads[l] = None /\ disk # None
  /\ loads' = [loads EXCEPT ![l] = disk]
  /\ UNCHANGED <<timing, disk, config, watching, draft, saves, up, files, hashing, changes>>

\* It has been read, whatever happened meanwhile.
Reloaded(l) ==
  /\ Free /\ loads[l] # None
  /\ StartFileWatch(loads[l])
  /\ loads' = [loads EXCEPT ![l] = None]
  /\ UNCHANGED <<disk, draft, saves, up, files, hashing, changes>>

\* The overlay edits what the session watches now.
OpenSettings ==
  /\ Free /\ up /\ config # None /\ draft = None
  /\ draft' = config
  /\ UNCHANGED <<timing, disk, config, watching, loads, saves, up, files, hashing, changes>>

CloseSettings ==
  /\ Free /\ draft # None
  /\ draft' = None
  /\ UNCHANGED <<timing, disk, config, watching, loads, saves, up, files, hashing, changes>>

\* persist: every edit is queued behind the earlier ones.
Edit(c) ==
  /\ Free /\ draft # None /\ c # draft /\ changes < MaxChanges
  /\ draft' = c /\ saves' = Append(saves, c) /\ changes' = changes + 1
  /\ UNCHANGED <<timing, disk, config, watching, loads, up, files, hashing>>

\* The oldest edit is written, or is not, and watched in either case.
Saved(ok) ==
  /\ Free /\ saves # <<>>
  /\ disk' = IF ok THEN Head(saves) ELSE disk
  /\ saves' = Tail(saves)
  /\ StartFileWatch(Head(saves))
  /\ UNCHANGED <<loads, draft, up, files, hashing, changes>>

\* session_shutdown; a reload or a save that is under way goes on.
Shutdown ==
  /\ Free /\ up
  /\ up' = FALSE /\ watching' = {} /\ draft' = None
  /\ StopFileWatch
  /\ UNCHANGED <<disk, config, loads, saves, files, hashing, changes>>

-----------------------------------------------------------------------------
(* Events.                                                                 *)

\* A path is watched itself or as a child of a directory.
Watched(p) == p \in watching \/ Parent[p] \in watching

Admits(p) == p \in timers \cup batch \/ Cardinality(timers \cup batch) < MaxPending

Arm == IF armed = "none" THEN "running" ELSE armed

\* scheduleFileUpdate: a debounce timer, or the overflow is counted.
Schedule(p) ==
  IF Admits(p)
  THEN timers' = timers \cup {p} /\ due' = due \cup {p} /\ UNCHANGED <<batch, armed, overflow>>
  ELSE overflow' = TRUE /\ armed' = Arm /\ UNCHANGED <<timers, batch, due>>

Event(p) ==
  /\ Free /\ config # None /\ Watched(p) /\ changes < MaxChanges
  /\ changes' = changes + 1
  /\ Schedule(p)
  /\ UNCHANGED <<setting, files, hashing>>

\* A link points elsewhere: everything is described and watched anew, and
\* only the link's own change is scheduled.
LinkMoves(p, i) ==
  /\ Free /\ config # None /\ p \in watching \cap Link /\ changes < MaxChanges
  /\ changes' = changes + 1
  /\ node' = [node EXCEPT ![p] = i]
  /\ watching' = {q \in config : node'[q] # None}
  /\ timers' = (IF i # None THEN {p} ELSE {}) /\ due' = timers'
  /\ batch' = {} /\ armed' = "none" /\ overflow' = FALSE
  /\ UNCHANGED <<disk, config, loads, draft, saves, up, data, hashing>>

\* queueBatchUpdate, when the debounce of a path ends.
Debounced(p) ==
  /\ Free /\ p \in timers
  /\ timers' = timers \ {p}
  /\ armed' = Arm
  /\ IF p \in batch \/ Cardinality((timers \ {p}) \cup batch) < MaxPending
     THEN batch' = batch \cup {p} /\ UNCHANGED <<overflow, due>>
     ELSE overflow' = TRUE /\ due' = due \ {p} /\ UNCHANGED batch
  /\ UNCHANGED <<setting, files, hashing, changes>>

\* Mistake: the timer of the batch that was sent stays set.
SendBatchTimerKept ==
  /\ Free /\ armed = "running"
  /\ batch # {} \/ overflow
  /\ sending' = batch /\ report' = {}
  /\ due' = due \ (batch \ timers) /\ batch' = {} /\ overflow' = FALSE /\ armed' = "fired"
  /\ UNCHANGED <<setting, files, reading, timers, changes>>

\* sendBatchUpdate: the window is over.
SendBatch ==
  /\ Free /\ armed = "running"
  /\ batch # {} \/ overflow
  /\ sending' = batch /\ report' = {}
  /\ due' = due \ (batch \ timers) /\ batch' = {} /\ overflow' = FALSE /\ armed' = "none"
  /\ UNCHANGED <<setting, files, reading, timers, changes>>

-----------------------------------------------------------------------------
(* buildFirewatchUpdate and fileHash.                                      *)

Tell(p, hash) ==
  /\ report' = report \cup {[path |-> p, hash |-> hash]}
  /\ sending' = sending \ {p} /\ reading' = None

Hashing == UNCHANGED <<timing, setting, files, changes>>

\* A file that is gone, replaced or too large is told without a hash.
Open(p) ==
  /\ reading = None /\ p \in sending
  /\ IF node[p] = None \/ data[node[p]].size > MaxBytes
     THEN Tell(p, None)
     ELSE /\ reading' = [path |-> p, step |-> "opened", fd |-> node[p], before |-> None, first |-> None, rest |-> None]
          /\ UNCHANGED <<sending, report>>
  /\ Hashing

\* The descriptor is of the file that lies at the path, and small enough.
Check ==
  /\ reading # None /\ reading.step = "opened"
  /\ IF node[reading.path] # reading.fd \/ data[reading.fd].size > MaxBytes
     THEN Tell(reading.path, None)
     ELSE /\ reading' = [reading EXCEPT !.step = "first", !.before = data[reading.fd]]
          /\ UNCHANGED <<sending, report>>
  /\ Hashing

ReadPart ==
  /\ reading # None /\ reading.step \in {"first", "rest"}
  /\ reading' = IF reading.step = "first"
                THEN [reading EXCEPT !.step = "rest", !.first = data[reading.fd].mtime]
                ELSE [reading EXCEPT !.step = "read", !.rest = data[reading.fd].mtime]
  /\ UNCHANGED <<sending, report>>
  /\ Hashing

\* Mistake: what was read is hashed without a second look at the file.
HashedAsRead ==
  /\ reading # None /\ reading.step = "read"
  /\ Tell(reading.path, <<reading.fd, reading.first, reading.rest>>)
  /\ Hashing

\* The hash counts only if size and time are what they were before.
Hashed ==
  /\ reading # None /\ reading.step = "read"
  /\ Tell(reading.path, IF data[reading.fd] = reading.before THEN <<reading.fd, reading.first, reading.rest>> ELSE None)
  /\ Hashing

-----------------------------------------------------------------------------
(* The file system.                                                        *)

Changes == changes < MaxChanges /\ changes' = changes + 1 /\ UNCHANGED <<timing, hashing>>

Write(i, size) ==
  /\ Changes
  /\ data' = [data EXCEPT ![i] = [size |-> size, mtime |-> @.mtime + 1]]
  /\ UNCHANGED <<setting, node>>

\* A file is replaced by a rename, or removed.
Replace(p, i) ==
  /\ Changes /\ i # node[p]
  /\ node' = [node EXCEPT ![p] = i]
  /\ UNCHANGED <<setting, data>>

\* Someone else edits the configuration.
EditOutside(c) ==
  /\ Changes /\ c # disk
  /\ disk' = c
  /\ UNCHANGED <<config, watching, loads, draft, saves, up, files>>

Next ==
  \/ \E l \in Loader : Reload(l)
  \/ \E l \in Loader : Reloaded(l)
  \/ OpenSettings \/ CloseSettings \/ Shutdown
  \/ \E c \in Config : Edit(c)
  \/ \E ok \in BOOLEAN : Saved(ok)
  \/ \E p \in Path : Event(p)
  \/ \E p \in Path, i \in Inode \cup {None} : LinkMoves(p, i)
  \/ \E p \in Path : Debounced(p)
  \/ SendBatch
  \/ \E p \in Path : Open(p)
  \/ Check \/ ReadPart \/ Hashed
  \/ \E i \in Inode, size \in {1, MaxBytes + 1} : Write(i, size)
  \/ \E p \in Path, i \in Inode \cup {None} : Replace(p, i)
  \/ \E c \in Config \cup {None} : EditOutside(c)

Spec == Init /\ [][Next]_vars

-----------------------------------------------------------------------------
(* What the extension promises.                                            *)

\* A change that was admitted waits under a debounce timer or in the batch,
\* what is in the batch or was counted has a timer that still runs, and the
\* pending paths stay within their cap, whatever reloads, link moves and
\* sends happen between the timers.
NoChangeIsStuck ==
  /\ due \subseteq timers \cup batch
  /\ batch # {} \/ overflow => armed = "running"
  /\ Cardinality(timers \cup batch) <= MaxPending

\* README.md: "Files that change during hashing ... omit the hash": a hash is
\* of one state of one file.
HashIsWhole == \A r \in report : r.hash # None => r.hash[2] = r.hash[3]
=============================================================================
