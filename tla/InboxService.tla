---------------------------- MODULE InboxService ----------------------------
(***************************************************************************)
(* What the inbox of a native agent (lib/transports/maildir.ts, with the   *)
(* session that reads it) promises the agent: a read gives every readable  *)
(* message that was sent when it began and that no read gave before, each  *)
(* once and oldest first, unless the session ends before it has.  No       *)
(* directories, no acknowledgements, no archive and no announcements.      *)
(***************************************************************************)
EXTENDS Integers, Sequences, FiniteSets

CONSTANTS Msg,      \* messages: <<sender, 1>>, <<sender, 2>>, ...
          Corrupt,  \* those nobody can read
          Time      \* a set of natural numbers

VARIABLES sent,   \* the time of each message that was sent, -1 of the others
          phase,  \* "idle", "reading" or, after the session, "closed"
          taken,  \* the messages that the read in progress found
          given   \* what the agent was given, in that order

vars == <<sent, phase, taken, given>>

Init == sent = [m \in Msg |-> -1] /\ phase = "idle" /\ taken = {} /\ given = <<>>

\* A sender sends its messages in turn, and time does not go back.
Post(m) ==
  /\ sent[m] = -1
  /\ \E t \in Time :
       /\ \A k \in Msg : k[1] = m[1] /\ k[2] < m[2] => sent[k] \in 0 .. t
       /\ sent' = [sent EXCEPT ![m] = t]
  /\ UNCHANGED <<phase, taken, given>>

Given == {given[i] : i \in DOMAIN given}
Unread == {m \in Msg \ Corrupt : sent[m] # -1} \ Given

Take ==
  /\ phase = "idle" /\ phase' = "reading"
  /\ taken' = Unread
  /\ UNCHANGED <<sent, given>>

Give ==
  /\ phase = "reading" /\ phase' \in {"idle", "closed"}
  /\ \E q \in [1 .. Cardinality(taken) -> taken] :
       /\ \A i, j \in DOMAIN q : i < j => q[i] # q[j] /\ sent[q[i]] <= sent[q[j]]
       /\ given' = given \o q
  /\ taken' = {} /\ UNCHANGED sent

Close ==
  /\ phase # "closed" /\ phase' = "closed"
  /\ taken' = {} /\ UNCHANGED <<sent, given>>

Next == Take \/ Give \/ Close \/ \E m \in Msg : Post(m)

Spec == Init /\ [][Next]_vars
=============================================================================
