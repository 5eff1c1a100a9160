------------------------------- MODULE Spawner -------------------------------
(***************************************************************************)
(* The agents one session spawns and drives over stdin and stdout: their   *)
(* entries by name, the history of their output, deliberate stops, and the *)
(* notice about an agent that ends without a completion signal.                            *)
(***************************************************************************)
EXTENDS Naturals

CONSTANTS Child,     \* the processes a session may start
          Name,      \* the names given to spawn_agent
          None,
          Faults,    \* what may go wrong: "stdin" (a write fails), "overflow" (a frame too long)
          Window     \* MAX_RECENT_EVENTS: 100 in the code

\* What the constants have to be.
SpawnerAssumption == Window \in Nat /\ None \notin Child \cup Name

VARIABLES
  phase,     \* of the session: running, stopping, down
  agents,    \* the Map from names to children
  child,     \* what is known of each child, and its state
  since,     \* agent.recentEvents: the events after the last signal, Window when none is kept
  signalled, \* signalledAgents: names
  stop,      \* each deliberate stop of a child, by kill_agent or by shutdownAll
  spoke,     \* children that sent a completion signal
  notices    \* missing-DONE notices raised about each child

spawnerVars == <<phase, agents, child, since, signalled, stop, spoke, notices>>

By == {"kill", "shutdown"}

TypeOK ==
  /\ phase \in {"running", "stopping", "down"}
  /\ agents \in [Name -> Child \cup {None}]
  /\ child \in [Child -> [state : {"unborn", "up", "exited", "closed"}, name : Name \cup {None},
                          done : BOOLEAN, expected : BOOLEAN, signal : {"no", "term", "kill"}]]
  /\ since \in [Child -> 0 .. Window]
  /\ signalled \subseteq Name /\ spoke \subseteq Child
  /\ stop \in [By \X Child -> {"off", "aborted", "termed", "ended"}]
  /\ notices \in [Child -> 0 .. 2]

Init ==
  /\ phase = "running" /\ agents = [n \in Name |-> None]
  /\ child = [c \in Child |-> [state |-> "unborn", name |-> None, done |-> FALSE,
                               expected |-> FALSE, signal |-> "no"]]
  /\ since = [c \in Child |-> Window]
  /\ signalled = {} /\ spoke = {} /\ notices = [c \in Child |-> 0]
  /\ stop = [s \in By \X Child |-> "off"]

Up(c) == child[c].state = "up"

-----------------------------------------------------------------------------
(* spawn_agent, and what a child writes. *)

\* A name whose agent is still running is refused; one whose agent is done is free.
Spawn(n, c) ==
  /\ phase = "running" /\ child[c].state = "unborn"
  /\ agents[n] # None => child[agents[n]].done
  /\ agents' = [agents EXCEPT ![n] = c]
  /\ child' = [child EXCEPT ![c].state = "up", ![c].name = n]
  /\ UNCHANGED <<phase, since, signalled, stop, spoke, notices>>

\* The process cannot be started: the old entry is gone all the same.
SpawnFails(n) ==
  /\ phase = "running" /\ agents[n] # None /\ child[agents[n]].done
  /\ agents' = [agents EXCEPT ![n] = None]
  /\ UNCHANGED <<phase, child, since, signalled, stop, spoke, notices>>

\* Only the last Window events are kept.
Retain(c, e) ==
  [since EXCEPT ![c] = IF e = "signal" THEN 0 ELSE IF @ < Window THEN @ + 1 ELSE Window]

\* Output of a child that is marked done is dropped.
Emit(c, e) ==
  /\ Up(c)
  /\ since' = IF child[c].done THEN since ELSE Retain(c, e)
  /\ spoke' = IF e = "signal" THEN spoke \cup {c} ELSE spoke
  /\ UNCHANGED <<phase, agents, child, signalled, stop, notices>>

-----------------------------------------------------------------------------
(* The end of a child. *)

HasCompletionSignal(c) ==
  child[c].name \in signalled \/ since[c] < Window

\* Mistake: the end of a child already marked done is not looked at.
OnExitUnlessDone(c) ==
  /\ notices' = IF child[c].expected \/ child[c].done \/ HasCompletionSignal(c)
                THEN notices ELSE [notices EXCEPT ![c] = @ + 1]
  /\ UNCHANGED signalled

\* onAgentExit: a notice, unless the end was expected or a signal is found, which
\* is remembered under the agent's name.
OnExit(c) ==
  /\ notices' = IF child[c].expected \/ HasCompletionSignal(c)
                THEN notices ELSE [notices EXCEPT ![c] = @ + 1]
  /\ signalled' = IF ~child[c].expected /\ HasCompletionSignal(c)
                  THEN signalled \cup {child[c].name} ELSE signalled

Die(c) ==
  /\ Up(c) /\ child' = [child EXCEPT ![c].state = "exited"]
  /\ UNCHANGED <<phase, agents, since, signalled, stop, spoke, notices>>

\* The close event wakes the stops that wait for it; kill_agent then takes the
\* name out of the Map, whichever child bears it by now.
Close(c) ==
  /\ child[c].state = "exited"
  /\ child' = [child EXCEPT ![c].state = "closed", ![c].done = TRUE]
  /\ since' = Retain(c, "other")
  /\ OnExit(c)
  /\ stop' = [s \in By \X Child |->
       IF s[2] = c /\ stop[s] \in {"aborted", "termed"} THEN "ended" ELSE stop[s]]
  /\ agents' = IF stop[<<"kill", c>>] \in {"aborted", "termed"}
               THEN [agents EXCEPT ![child[c].name] = None] ELSE agents
  /\ UNCHANGED <<phase, spoke>>

\* A write to stdin fails later: the agent is done, whether or not it runs.
StdinFails(c) ==
  /\ "stdin" \in Faults /\ Up(c) /\ ~child[c].done
  /\ child' = [child EXCEPT ![c].done = TRUE]
  /\ UNCHANGED <<phase, agents, since, signalled, stop, spoke, notices>>

\* A frame longer than 8 MiB: the child is killed and reported as an error.
Overflow(c) ==
  /\ "overflow" \in Faults /\ Up(c) /\ ~child[c].done
  /\ child' = [child EXCEPT ![c].done = TRUE, ![c].signal = "kill"]
  /\ since' = Retain(c, "other")
  /\ OnExit(c)
  /\ UNCHANGED <<phase, agents, stop, spoke>>

-----------------------------------------------------------------------------
(* Deliberate stops: abort, wait, SIGTERM, wait, SIGKILL. *)

Kill(n) ==
  /\ phase # "down" /\ agents[n] # None
  /\ LET c == agents[n] IN
     IF child[c].done
     THEN agents' = [agents EXCEPT ![n] = None] /\ UNCHANGED <<child, stop>>
     ELSE /\ stop[<<"kill", c>>] = "off"
          /\ child' = [child EXCEPT ![c].expected = TRUE]
          /\ stop' = [stop EXCEPT ![<<"kill", c>>] = "aborted"] /\ UNCHANGED agents
  /\ UNCHANGED <<phase, since, signalled, spoke, notices>>

ForceKill(n) ==
  /\ phase # "down" /\ agents[n] # None /\ ~child[agents[n]].done
  /\ child' = [child EXCEPT ![agents[n]].expected = TRUE, ![agents[n]].signal = "kill"]
  /\ agents' = [agents EXCEPT ![n] = None]
  /\ UNCHANGED <<phase, since, signalled, stop, spoke, notices>>

Raise(c, s) == child' = [child EXCEPT ![c].signal = IF @ = "kill" THEN @ ELSE s]

\* Mistake: the second wait is for the child's end, with no limit.
WaitForEver(by, c) ==
  /\ stop[<<by, c>>] = "aborted"
  /\ stop' = [stop EXCEPT ![<<by, c>>] = IF child[c].done THEN "ended" ELSE "termed"]
  /\ IF child[c].done THEN UNCHANGED child ELSE Raise(c, "term")
  /\ agents' = IF child[c].done /\ by = "kill" THEN [agents EXCEPT ![child[c].name] = None] ELSE agents
  /\ UNCHANGED <<phase, since, signalled, spoke, notices>>

\* gracefulKill, when a wait of two seconds is over before the child has closed.
GiveUpWaiting(by, c) ==
  LET s == <<by, c>>
      ends == child[c].done \/ stop[s] = "termed"
  IN /\ stop[s] \in {"aborted", "termed"}
     /\ stop' = [stop EXCEPT ![s] = IF ends THEN "ended" ELSE "termed"]
     /\ IF child[c].done THEN UNCHANGED child
        ELSE Raise(c, IF stop[s] = "aborted" THEN "term" ELSE "kill")
     /\ agents' = IF ends /\ by = "kill" THEN [agents EXCEPT ![child[c].name] = None] ELSE agents
     /\ UNCHANGED <<phase, since, signalled, spoke, notices>>

Tracked == {agents[n] : n \in Name} \ {None}

\* Mistake: an agent somebody already asked to stop is left to them.
ShutdownOthers ==
  /\ phase = "running" /\ phase' = "stopping"
  /\ LET live == {c \in Tracked : ~child[c].done /\ ~child[c].expected} IN
     /\ child' = [c \in Child |-> IF c \in live THEN [child[c] EXCEPT !.expected = TRUE] ELSE child[c]]
     /\ stop' = [s \in By \X Child |-> IF s[1] = "shutdown" /\ s[2] \in live THEN "aborted" ELSE stop[s]]
  /\ UNCHANGED <<agents, since, signalled, spoke, notices>>

Shutdown ==
  /\ phase = "running" /\ phase' = "stopping"
  /\ LET live == {c \in Tracked : ~child[c].done} IN
     /\ child' = [c \in Child |-> IF c \in live THEN [child[c] EXCEPT !.expected = TRUE] ELSE child[c]]
     /\ stop' = [s \in By \X Child |-> IF s[1] = "shutdown" /\ s[2] \in live THEN "aborted" ELSE stop[s]]
  /\ UNCHANGED <<agents, since, signalled, spoke, notices>>

\* Promise.all: every stop of the shutdown has ended; the session is over, and
\* with it the stops and calls still under way.
Down ==
  /\ phase = "stopping" /\ \A c \in Child : stop[<<"shutdown", c>>] \in {"off", "ended"}
  /\ phase' = "down"
  /\ UNCHANGED <<agents, child, since, signalled, stop, spoke, notices>>

Next ==
  \/ \E n \in Name : SpawnFails(n) \/ Kill(n) \/ ForceKill(n)
  \/ \E n \in Name, c \in Child : Spawn(n, c)
  \/ \E c \in Child : Die(c) \/ Close(c) \/ StdinFails(c) \/ Overflow(c)
  \/ \E c \in Child, e \in {"signal", "other"} : Emit(c, e)
  \/ \E by \in By, c \in Child : GiveUpWaiting(by, c)
  \/ Shutdown \/ Down

\* Timers run out, and the close event of a process that has exited comes.
Fairness ==
  /\ \A by \in By, c \in Child : WF_spawnerVars(GiveUpWaiting(by, c))
  /\ \A c \in Child : WF_spawnerVars(Close(c)) /\ WF_spawnerVars(child[c].signal = "kill" /\ Die(c))
  /\ WF_spawnerVars(Down)

Spec == Init /\ [][Next]_spawnerVars /\ Fairness

-----------------------------------------------------------------------------
(* The session does not go down with an agent of its own still running and     *)
(* not killed, except one whose stdin broke and was written off while it ran,  *)
(* and one whose entry went with the end of an older agent of that name        *)
(* (spawner.ts, gracefulKill).                                                 *)
Replaced(c) == \E d \in Child \ {c} : child[d].name = child[c].name
                                       /\ stop[<<"kill", d>>] = "ended"
NoneLeftRunning == phase = "down" =>
  \A c \in Child : Up(c) => child[c].signal = "kill" \/ child[c].done \/ Replaced(c)

(* An agent that ends on its own without a signal is reported, unless an       *)
(* earlier agent of that name sent one; nothing is reported of an agent that   *)
(* was stopped on purpose before it closed (missing-done-notice.ts).           *)
SilentEndIsReported == \A c \in Child :
  /\ child[c].state = "closed" /\ ~child[c].expected /\ c \notin spoke
       /\ (\A d \in spoke : child[d].name # child[c].name) => notices[c] >= 1
  /\ child[c].expected => notices[c] = 0

(* Whatever its children do with their signals, and whoever else is stopping  *)
(* them, a session that shuts down does go down (gracefulKill, shutdownAll).   *)
SessionGoesDown == (phase = "stopping") ~> (phase = "down")
=============================================================================
