----------------------------- MODULE AgentsPane -----------------------------
(***************************************************************************)
(* The Agent Hub side pane of a Zellij tab (src/agent-hub-pane/): a panel  *)
(* that polls the registry and the terminal, shows the agents of a scope   *)
(* and, on a key or a click, focuses an agent's pane, closes it or starts  *)
(* a new agent beside the lead.                                            *)
(*                                                                         *)
(* What the panel knows is old when it is used: the frame was drawn from   *)
(* an earlier reading of the registry, the focus was asked of the terminal *)
(* before a key arrived, a prompt names a process that may end before it   *)
(* is answered.  A handler and the zellij commands it runs are one step;   *)
(* text typed in one read is a single key or a "burst" with a confirmation *)
(* in it; a record whose heartbeat is 30 s old is taken with one whose     *)
(* process has ended; every row takes one line.                            *)
(***************************************************************************)
EXTENDS Naturals, Sequences, FiniteSets, SequencesExt

CONSTANTS
  None,
  Agent,       \* ids of agents, numbers: the order in which rows are sorted
  Lead,        \* the agent whose name is the scope
  Newcomer,    \* the agent whose name the user types after "n"
  Foreign,     \* agents the panel does not show: external ones and those of other scopes
  Terminal,    \* panes of the tab
  Capacity,    \* rows the panel has room for
  QueueCap,    \* MAX of pendingInput, 16 in the code
  MaxChanges   \* changes of the world in a behaviour

Scope == Agent \ Foreign

\* Processes, each start of an agent one, and the records of agents.
Turn == 1 .. MaxChanges + 1
Proc == Agent \X Turn
Record == [start : Turn, status : {"waiting", "running"}, pane : Terminal, live : BOOLEAN]

PaneAssumption ==
  /\ Agent \subseteq Nat /\ {Lead, Newcomer} \subseteq Scope /\ Scope \ {Newcomer} \subseteq Terminal
  /\ None \notin Record /\ \A ps \in SUBSET Proc : ps # None
  /\ Capacity \in Nat \ {0} /\ QueueCap \in Nat /\ MaxChanges \in Nat

VARIABLES
  registry,    \* records of agents: [start, status, pane, live] or None
  panes,       \* the processes of a pane, a set of <<agent, start>>; None: closed if closed
  focus,       \* the panel has the keyboard
  jam,         \* process.stdout.writableNeedDrain
  panel,       \* the variables of main, see Init
  checking,    \* the inspection under way, [generation, saw], or None
  generation,  \* focusGeneration
  queue,       \* pendingInput
  replaying,   \* the queue is being replayed
  paused,      \* startupPaused
  stopped,
  did,         \* what the last step did outside: [kind, asked, found, occupant] or None
  changes

vars == <<registry, panes, focus, jam, panel, checking, generation, queue, replaying,
          paused, stopped, did, changes>>
world == <<registry, panes, focus, jam, changes>>

\* The agents the panel knows of, and its snapshot: both leave out the foreign ones.
Present(reg) == {a \in Scope : reg[a] # None}
Snapshot == [a \in Agent |-> IF a \in Scope THEN registry[a] ELSE None]

\* The lead, and the lead of a choice made with "l", which is never passed on.
LeadOf(reg, chosen) ==
  LET l == IF chosen = None THEN Lead ELSE chosen
  IN  IF reg[l] = None THEN None ELSE l

Resolved(reg, chosen) == LET l == LeadOf(reg, chosen) IN l # None /\ reg[l].live

\* The order of rows: the lead, then the others.
Order == SetToSortSeq(Agent, <)
Rows(reg, chosen) ==
  LET l == LeadOf(reg, chosen)
  IN  (IF l = None THEN <<>> ELSE <<l>>) \o SelectSeq(Order, LAMBDA a : a # l /\ a \in Present(reg))

IndexOf(rows, a) == IF \E i \in DOMAIN rows : rows[i] = a THEN CHOOSE i \in DOMAIN rows : rows[i] = a ELSE 0

Larger(x, y) == IF x > y THEN x ELSE y
Smaller(x, y) == IF x < y THEN x ELSE y

\* The part of the rows that is shown, the selected one among them.
PageRows(rows, sel, off) ==
  LET i == Larger(1, IndexOf(rows, sel)) - 1
      o == IF i < off THEN i ELSE IF i >= off + Capacity THEN i - Capacity + 1 ELSE off
  IN  [off |-> o, lines |-> SubSeq(rows, o + 1, Smaller(Len(rows), o + Capacity))]

\* A frame: prompts that are late or whose keyboard is gone are dropped, the
\* registry is read, the selection is kept by id.
Drawn(p) ==
  IF jam THEN p ELSE
  LET rows == Rows(registry, p.chosen)
      sel  == IF p.sel = None /\ rows # <<>> THEN rows[1] ELSE p.sel
      page == PageRows(rows, sel, p.off)
      lost == sel # None /\ sel \notin Range(rows)
      here == p.ctx = "here"
  IN [p EXCEPT !.on = p.ctx # "none", !.view = Snapshot, !.sel = sel, !.off = page.off, !.lines = page.lines,
               !.naming = @ /\ here,
               !.creation = IF here /\ p.creation # None /\ p.creation.age # "late" THEN @ ELSE None,
               !.conf = IF here /\ ~lost /\ p.conf # None /\ ~p.conf.late THEN @ ELSE None]

Init ==
  /\ registry = [a \in Agent |-> IF a \notin Scope \ {Newcomer} THEN None
                                 ELSE [start |-> 1, status |-> "waiting", pane |-> a, live |-> TRUE]]
  /\ panes = [t \in Terminal |-> IF t \in Scope \ {Newcomer} THEN {<<t, 1>>} ELSE {}]
  /\ focus = TRUE /\ jam = FALSE
  /\ panel = [ctx |-> "none", on |-> FALSE, sel |-> None, chosen |-> None, off |-> 0, lines |-> <<>>,
              view |-> [a \in Agent |-> None], conf |-> None, naming |-> FALSE, creation |-> None]
  /\ checking = None /\ generation = 0 /\ queue = <<>> /\ replaying = FALSE
  /\ paused \in BOOLEAN /\ stopped = FALSE /\ did = None /\ changes = 0

-----------------------------------------------------------------------------
(* The terminal and the registry, as navigator.act finds them.             *)

\* Mistake: a record is believed to own the pane it names.
ReachableThoughShared(a) ==
  /\ focus /\ a \in Present(registry) /\ registry[a].live
  /\ panes[registry[a].pane] # None

\* The checks before a pane is focused, closed or a helper put beside it: no other row claims it.
Reachable(a) ==
  /\ focus /\ a \in Present(registry) /\ registry[a].live
  /\ panes[registry[a].pane] # None
  /\ \A b \in Present(registry) : registry[b].pane = registry[a].pane => b = a

\* The prompt still says what the registry says.
CloseConfirmationMatches(request, a) ==
  registry[a] # None /\ ~request.late /\ request.rec = registry[a]

\* nameAvailable: no record claims the name.
NameAvailable == registry[Newcomer] = None

-----------------------------------------------------------------------------
(* Polling.                                                                *)

\* refresh: draw, then ask the terminal unless an answer is awaited.
Refresh ==
  /\ ~stopped /\ ~replaying
  /\ panel' = Drawn(panel)
  /\ checking' = IF checking = None THEN [generation |-> generation, saw |-> focus] ELSE checking
  /\ did' = None
  /\ UNCHANGED <<world, generation, queue, replaying, paused, stopped>>

\* The answer, or a failure; it is not used when the panel itself has moved
\* the keyboard since the question.
Inspected(answer) ==
  /\ ~stopped /\ ~replaying /\ checking # None
  /\ answer \in {"none", IF checking.saw THEN "here" ELSE "away"}
  /\ IF checking.generation = generation
     THEN /\ LET p == [panel EXCEPT !.ctx = answer, !.on = answer # "none"]
             IN  panel' = IF paused THEN p ELSE Drawn(p)
          /\ replaying' = (queue # <<>>)
     ELSE UNCHANGED <<panel, replaying>>
  /\ checking' = None /\ did' = None
  /\ UNCHANGED <<world, generation, queue, paused, stopped>>

\* The delay after the start is over; a refresh follows.
StartupOver ==
  /\ ~stopped /\ ~replaying /\ paused
  /\ paused' = FALSE
  /\ panel' = Drawn(panel)
  /\ checking' = IF checking = None THEN [generation |-> generation, saw |-> focus] ELSE checking
  /\ did' = None
  /\ UNCHANGED <<world, generation, queue, replaying, stopped>>

-----------------------------------------------------------------------------
(* Keys.                                                                   *)

Key == [type : {"c", "y", "n", "l", "j", "k", "enter", "burst"}, line : {0}]
         \cup [type : {"click"}, line : 1 .. Capacity + 1]

\* Input before the first answer of the terminal is kept for later.
Unknown == panel.ctx = "none" /\ checking # None

\* A key comes from the terminal, or from the queue when that is replayed.
Comes(key, replay) ==
  /\ ~stopped
  /\ IF replay
     THEN /\ replaying /\ Head(queue) = key
          /\ queue' = Tail(queue) /\ replaying' = (Len(queue) > 1)
     ELSE /\ ~replaying /\ focus /\ ~panel.naming /\ ~Unknown
          /\ UNCHANGED <<queue, replaying>>

Queue(key) ==
  /\ ~stopped /\ ~replaying /\ focus /\ ~panel.naming /\ Unknown
  /\ queue' = IF Len(queue) < QueueCap THEN Append(queue, key) ELSE queue
  /\ did' = None
  /\ UNCHANGED <<world, panel, checking, generation, replaying, paused, stopped>>

Nothing == UNCHANGED <<generation, registry, panes, focus>> /\ did' = None
Rest == UNCHANGED <<jam, changes, checking, paused, stopped>>

\* A confirmation inside other text, or one that was queued, answers no prompt.
Refused(key, replay) ==
  /\ key.type = "burst" \/ (replay /\ key.type \in {"c", "y", "enter"})
  /\ Comes(key, replay)
  /\ panel' = IF replay /\ key.type # "burst" THEN [panel EXCEPT !.conf = None]
              ELSE Drawn([panel EXCEPT !.conf = None, !.creation = None])
  /\ Nothing /\ Rest

\* Keys that would need a prompt or rows that are not there.
Idle(key, replay) ==
  /\ key.type # "burst" /\ ~(replay /\ key.type \in {"c", "y", "enter"})
  /\ panel.creation = None
  /\ \/ ~panel.on \/ Present(panel.view) = {}
     \/ key.type \in {"c", "l"} /\ panel.sel \notin Range(panel.lines)
     \/ key.type = "y" /\ panel.conf = None
     \/ key.line > Len(panel.lines) /\ panel.conf = None
  /\ Comes(key, replay)
  /\ UNCHANGED panel
  /\ Nothing /\ Rest

Acts(key, replay) ==
  /\ panel.on /\ Present(panel.view) # {} /\ panel.creation = None
  /\ Comes(key, replay)

\* "c": a prompt for the selected row, as the last frame showed it.
Close ==
  /\ Acts([type |-> "c", line |-> 0], FALSE) /\ panel.sel \in Range(panel.lines)
  /\ panel' = Drawn(IF panel.ctx # "here" THEN panel
                    ELSE [panel EXCEPT !.conf = [id |-> panel.sel, rec |-> panel.view[panel.sel], late |-> FALSE]])
  /\ Nothing /\ Rest

\* "n": an open prompt is dropped, else the name of a new agent is asked for.
Cancel(replay) ==
  /\ Acts([type |-> "n", line |-> 0], replay)
  /\ panel' = Drawn(IF panel.conf # None THEN [panel EXCEPT !.conf = None]
                    ELSE [panel EXCEPT !.naming = ~replay /\ panel.ctx = "here"])
  /\ Nothing /\ Rest

\* "y" or Enter at a prompt: the pane is closed if everything is still as shown.
Confirm(key, ok) ==
  /\ key.type \in {"y", "enter"} /\ panel.conf # None
  /\ Acts(key, FALSE)
  /\ LET request == panel.conf
         a       == request.id
         closes  == a \in Range(panel.lines) /\ CloseConfirmationMatches(request, a) /\ Reachable(a) /\ ok
     IN IF closes
        THEN /\ did' = [kind |-> "close", asked |-> request, found |-> registry[a],
                        occupant |-> panes[registry[a].pane]]
             /\ panes' = [panes EXCEPT ![registry[a].pane] = None]
             /\ registry' = [b \in Agent |->
                              IF registry[b] # None /\ <<b, registry[b].start>> \in panes[registry[a].pane]
                              THEN [registry[b] EXCEPT !.live = FALSE] ELSE registry[b]]
        ELSE did' = None /\ UNCHANGED <<panes, registry>>
  /\ panel' = Drawn([panel EXCEPT !.conf = None])
  /\ UNCHANGED <<focus, generation>> /\ Rest

\* "l": the selected agent leads this panel.
Lead_(replay) ==
  /\ Acts([type |-> "l", line |-> 0], replay) /\ panel.sel \in Range(panel.lines)
  /\ panel' = Drawn([panel EXCEPT !.conf = None, !.chosen = panel.sel])
  /\ Nothing /\ Rest

Move(key, replay) ==
  /\ key.type \in {"j", "k"}
  /\ Acts(key, replay)
  /\ LET rows == Rows(panel.view, panel.chosen)
         i    == IndexOf(rows, panel.sel)
         to   == IF key.type = "j" THEN Smaller(Len(rows), i + 1) ELSE Larger(1, Larger(i, 1) - 1)
     IN  panel' = Drawn([panel EXCEPT !.conf = None, !.sel = rows[to]])
  /\ Nothing /\ Rest

\* Enter or a click: the agent's pane gets the keyboard.
Focus(key, replay, ok) ==
  /\ (key.type = "enter" /\ panel.conf = None) \/ key.line \in 1 .. Len(panel.lines)
  /\ Acts(key, replay) /\ ~(replay /\ key.type = "enter")
  /\ LET a == IF key.type = "enter" THEN panel.sel ELSE panel.lines[key.line]
         p == [panel EXCEPT !.conf = None, !.sel = a]
     IN IF a \in Range(panel.lines) /\ Reachable(a) /\ ok
        THEN /\ panel' = [p EXCEPT !.ctx = IF @ = "none" THEN @ ELSE "away"]
             /\ generation' = generation + 1 /\ focus' = FALSE
             /\ did' = [kind |-> "focus", asked |-> a, found |-> registry[a], occupant |-> panes[registry[a].pane]]
        ELSE /\ panel' = IF a \in Range(panel.lines) THEN Drawn(p) ELSE p
             /\ did' = None /\ UNCHANGED <<generation, focus>>
  /\ UNCHANGED <<registry, panes>> /\ Rest

\* A click below the rows only takes back an open prompt.
ClickBelow(key, replay) ==
  /\ key.line > Len(panel.lines) /\ panel.conf # None
  /\ Acts(key, replay)
  /\ panel' = [panel EXCEPT !.conf = None]
  /\ Nothing /\ Rest

-----------------------------------------------------------------------------
(* A new agent: its name, a prompt, a second and separate confirmation.    *)

\* Enter after the name; an invalid name only ends the entry.
Named(valid) ==
  /\ ~stopped /\ ~replaying /\ focus /\ panel.naming
  /\ LET l == LeadOf(registry, panel.chosen)
     IN  panel' = Drawn([panel EXCEPT
           !.naming = FALSE,
           !.creation = IF valid /\ Resolved(registry, panel.chosen) /\ NameAvailable
                        THEN [lead |-> l, start |-> registry[l].start, pane |-> registry[l].pane, age |-> "armed"]
                        ELSE None])
  /\ Nothing /\ Rest /\ UNCHANGED <<queue, replaying>>

\* Escape while the name is typed.
NotNamed ==
  /\ ~stopped /\ ~replaying /\ focus /\ panel.naming
  /\ panel' = Drawn([panel EXCEPT !.naming = FALSE])
  /\ Nothing /\ Rest /\ UNCHANGED <<queue, replaying>>

\* The lead is the process the prompt was armed for.
LeadUnchanged(r) ==
  /\ r.age # "late" /\ Resolved(registry, panel.chosen) /\ NameAvailable
  /\ registry[r.lead] # None
  /\ registry[r.lead].start = r.start /\ registry[r.lead].pane = r.pane

\* A key at the prompt: Enter just after the name is not taken, Enter or "y"
\* starts the agent if the lead is as it was, any other key gives up.
Create(key, replay, ok) ==
  /\ panel.creation # None
  /\ key.type # "burst" /\ ~(replay /\ key.type \in {"c", "y", "enter"})
  /\ Comes(key, replay)
  /\ LET r    == panel.creation
         wait == key.type = "enter" /\ r.age = "armed"
         p    == [panel EXCEPT !.creation = None]
     IN IF wait THEN panel' = Drawn(panel) /\ Nothing
        ELSE IF key.type \in {"y", "enter"} /\ ~replay /\ LeadUnchanged(r) /\ Reachable(r.lead) /\ ok
        THEN /\ generation' = generation + 1
             /\ focus' = FALSE
             /\ panel' = Drawn([p EXCEPT !.ctx = IF @ = "none" THEN @ ELSE "away"])
             /\ did' = [kind |-> "create", asked |-> r, found |-> registry[r.lead],
                        occupant |-> panes[registry[r.lead].pane]]
             /\ UNCHANGED <<registry, panes>>
        ELSE panel' = Drawn(p) /\ Nothing
  /\ Rest

Quit ==
  /\ ~stopped /\ ~replaying /\ focus /\ ~panel.naming /\ panel.creation = None
  /\ stopped' = TRUE /\ did' = None
  /\ UNCHANGED <<world, panel, checking, generation, queue, replaying, paused>>

-----------------------------------------------------------------------------
(* The world outside.                                                      *)

Changes ==
  /\ changes < MaxChanges /\ ~stopped /\ ~replaying
  /\ changes' = changes + 1 /\ did' = None
  /\ UNCHANGED <<panel, checking, generation, queue, replaying, paused, stopped>>

\* The process of a record ends and leaves the pane to its shell.
Dies(a) ==
  /\ Changes /\ registry[a] # None /\ registry[a].live
  /\ registry' = [registry EXCEPT ![a].live = FALSE]
  /\ panes' = [t \in Terminal |-> IF panes[t] = None THEN None ELSE panes[t] \ {<<a, registry[a].start>>}]
  /\ UNCHANGED <<focus, jam>>

Reaped(a) ==
  /\ Changes /\ registry[a] # None /\ ~registry[a].live
  /\ registry' = [registry EXCEPT ![a] = None]
  /\ UNCHANGED <<panes, focus, jam>>

\* An agent starts in a pane, in front of one that is suspended there or alone.
Starts(a, t) ==
  /\ Changes /\ registry[a] = None /\ panes[t] # None
  /\ registry' = [registry EXCEPT ![a] = [start |-> 1, status |-> "waiting", pane |-> t, live |-> TRUE]]
  /\ panes' = [panes EXCEPT ![t] = @ \cup {<<a, 1>>}]
  /\ UNCHANGED <<focus, jam>>

\* A session is replaced: the record starts anew.
Reloads(a) ==
  /\ Changes /\ registry[a] # None /\ registry[a].live
  /\ registry' = [registry EXCEPT ![a].start = @ + 1]
  /\ panes' = [panes EXCEPT ![registry[a].pane] = (@ \ {<<a, registry[a].start>>}) \cup {<<a, registry[a].start + 1>>}]
  /\ UNCHANGED <<focus, jam>>

Works(a) ==
  /\ Changes /\ registry[a] # None /\ registry[a].live
  /\ registry' = [registry EXCEPT ![a].status = IF @ = "waiting" THEN "running" ELSE "waiting"]
  /\ UNCHANGED <<panes, focus, jam>>

UserMoves == Changes /\ focus' = ~focus /\ UNCHANGED <<registry, panes, jam>>

OutputJams == Changes /\ jam' = ~jam /\ UNCHANGED <<registry, panes, focus>>

\* Time passes at a prompt.
PromptAges ==
  /\ ~stopped /\ ~replaying
  /\ \/ /\ panel.conf # None /\ ~panel.conf.late
        /\ panel' = [panel EXCEPT !.conf.late = TRUE]
     \/ /\ panel.creation # None /\ panel.creation.age # "late"
        /\ panel' = [panel EXCEPT !.creation.age = IF @ = "armed" THEN "open" ELSE "late"]
  /\ did' = None
  /\ UNCHANGED <<world, checking, generation, queue, replaying, paused, stopped>>

Next ==
  \/ Refresh \/ StartupOver
  \/ \E answer \in {"none", "here", "away"} : Inspected(answer)
  \/ \E key \in Key : Queue(key)
  \/ \E key \in Key, replay \in BOOLEAN : Refused(key, replay)
  \/ \E key \in Key, replay \in BOOLEAN : Idle(key, replay)
  \/ Close
  \/ \E replay \in BOOLEAN : Cancel(replay)
  \/ \E key \in Key, ok \in BOOLEAN : Confirm(key, ok)
  \/ \E replay \in BOOLEAN : Lead_(replay)
  \/ \E key \in Key, replay \in BOOLEAN : Move(key, replay)
  \/ \E key \in Key, replay, ok \in BOOLEAN : Focus(key, replay, ok)
  \/ \E key \in Key, replay \in BOOLEAN : ClickBelow(key, replay)
  \/ \E valid \in BOOLEAN : Named(valid)
  \/ NotNamed
  \/ \E key \in Key, replay, ok \in BOOLEAN : Create(key, replay, ok)
  \/ Quit
  \/ \E a \in Agent : Dies(a)
  \/ \E a \in Agent : Reaped(a)
  \/ \E a \in Agent, t \in Terminal : Starts(a, t)
  \/ \E a \in Agent : Reloads(a)
  \/ \E a \in Agent : Works(a)
  \/ UserMoves \/ OutputJams \/ PromptAges

Spec == Init /\ [][Next]_vars

-----------------------------------------------------------------------------
(* What the user may rely on.                                              *)

\* A pane is closed only while the process the prompt named runs in it, with
\* the start, the status and the pane the prompt showed; a new agent is put
\* beside the process its prompt was armed for, in the pane it had then; a
\* focus goes to the pane the agent shown really runs in; and each time no
\* other agent of the scope is in that pane.
ActsAsAsked ==
  did # None =>
    LET a == CASE did.kind = "close" -> did.asked.id [] did.kind = "create" -> did.asked.lead [] OTHER -> did.asked
    IN  /\ did.occupant \cap (Scope \X Turn) = {<<a, did.found.start>>}
        /\ did.kind = "close" => did.asked.rec = did.found
        /\ did.kind = "create" => did.asked.start = did.found.start
=============================================================================
