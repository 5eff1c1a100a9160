------------------------------ MODULE DeskProofs ------------------------------
(***************************************************************************)
(* Theorems about ScheduleTimer, for every set of processes, every clock,  *)
(* every cron expression and every number of starts and edits, and about   *)
(* AgentsPane, for every set of agents and panes and every capacity.       *)
(***************************************************************************)
EXTENDS MCDesk, WellFoundedInduction, TLAPS

Pairs == {ss \in Nat \X Nat : ss[1] < ss[2]}

\* The natural numbers below a number are well-founded.
LEMMA LessIsWellFounded == IsWellFoundedOn(Pairs, Nat)
BY NatLessThanWellFounded DEF OpToRel, Pairs

\* A set of minutes that is not empty has a last one.
LEMMA LastMinute ==
  ASSUME NEW S, S \subseteq Minute, S # {}
  PROVE \E m \in S : \A n \in S : n <= m
<1> DEFINE T == {MaxMinute - m : m \in S}
<1>1. MaxMinute \in Nat /\ \A m \in S : m \in Nat /\ m <= MaxMinute
  BY TimerAssumption DEF Minute
<1>2. T \subseteq Nat /\ T # {}
  BY <1>1
<1>3. PICK x \in T : \A y \in T : ~(<<y, x>> \in Pairs)
  BY <1>2, LessIsWellFounded, WFMin
<1>4. PICK m \in S : x = MaxMinute - m
  OBVIOUS
<1>5. ASSUME NEW n \in S PROVE n <= m
  <2>1. MaxMinute - n \in T
    OBVIOUS
  <2>2. ~(MaxMinute - n < MaxMinute - m)
    BY <2>1, <1>2, <1>3, <1>4 DEF Pairs
  <2> QED
    BY <2>2, <1>1
<1> QED
  BY <1>5

\* The newest minute recorded as delivered is one of them.
LEMMA NewestDelivered == Newest = None \/ Newest \in Delivered
<1>1. CASE Delivered = {}
  BY <1>1 DEF Newest
<1>2. CASE Delivered # {}
  <2>1. \E m \in Delivered : \A n \in Delivered : n <= m
    BY <1>2, LastMinute DEF Delivered
  <2> QED
    BY <2>1, <1>2 DEF Newest
<1> QED
  BY <1>1, <1>2

\* What a catch-up chooses is a minute of the clock.
LEMMA ChosenMinute ==
  ASSUME Missed # {}, now \in Minute
  PROVE (CHOOSE m \in Missed : \A n \in Missed : n <= m) \in Minute
<1>1. Missed \subseteq Minute
  BY TimerAssumption DEF Missed, Minute
<1>2. \E m \in Missed : \A n \in Missed : n <= m
  BY <1>1, LastMinute
<1> QED
  BY <1>1, <1>2

-----------------------------------------------------------------------------
(* Types                                                                   *)

LEMMA TimerInitType == Init => TypeOK
<1> SUFFICES ASSUME Init PROVE TypeOK
  OBVIOUS
<1>1. now \in Minute /\ starts \in Nat /\ edits \in Nat
  BY TimerAssumption DEF Init, Minute
<1>2. env \in {"none", "on", "off"} /\ tool \in {"idle", "prompted", "undoing", "removing"}
  BY DEF Init
<1>3. prompt \in BOOLEAN /\ undone \in BOOLEAN
  BY DEF Init
<1>4. /\ slot \in [Minute -> {"none", "reserved", "admitted", "called", "returned"}]
      /\ up \in [Process -> {"down", "up", "stopping"}]
      /\ config \in [Process -> BOOLEAN] /\ timer \in [Process -> BOOLEAN]
      /\ ticked \in [Process -> Minute \cup {None}]
      /\ starting \in [Process -> {"no", "reconcile", "catchup"}]
  BY DEF Init
<1>5. lastRun \in [Process -> Minute \cup {None}] /\ active \in [Process -> SUBSET Minute]
  BY DEF Init
<1> QED
  BY <1>1, <1>2, <1>3, <1>4, <1>5 DEF Init, TypeOK

\* A run that goes on is a run.
LEMMA StepType ==
  ASSUME TypeOK, NEW r \in runs, NEW to \in {"claim", "dispatch", "admit", "send", "mark"}, Step(r, to)
  PROVE runs' \subseteq Run
BY DEF TypeOK, Step, Run

\* What the end of a run changes.
LEMMA EndsType ==
  ASSUME TypeOK, NEW r \in runs, Ends(r)
  PROVE runs' \subseteq Run /\ active' \in [Process -> SUBSET Minute]
<1>1. r.of \in Process
  BY DEF TypeOK, Run
<1> QED
  BY <1>1 DEF TypeOK, Ends

\* Every step keeps the types.
LEMMA TimerTypeStep == ASSUME TypeOK, [Next]_vars PROVE TypeOK'
<1> USE DEF clockVars, fileVars, hostVars, workVars
<1>1. CASE MinutePasses
  BY <1>1, TimerAssumption DEF MinutePasses, TypeOK, Minute
<1>2. CASE Registry
  <2>1. env' \in {"none", "on", "off"} /\ prompt' \in BOOLEAN /\ undone' \in BOOLEAN
    BY <1>2 DEF Registry, Add, AddEnv, DropPrompt, Remove, EditByHand, TypeOK
  <2>2. tool' \in {"idle", "prompted", "undoing", "removing"} /\ edits' \in Nat
    BY <1>2 DEF Registry, Add, AddEnv, DropPrompt, Remove, EditByHand, TypeOK
  <2> QED
    BY <1>2, <2>1, <2>2 DEF Registry, TypeOK
<1>3. ASSUME NEW p \in Process, Scheduler(p) PROVE TypeOK'
  <2>1. CASE Start(p)
    BY <2>1 DEF Start, TypeOK
  <2>2. CASE CatchUp(p)
    <3> DEFINE m == CHOOSE m \in Missed : \A n \in Missed : n <= m
    <3>0. Missed # {} => [of |-> p, by |-> "catchup", read |-> FALSE, minute |-> m] \in List
      BY ChosenMinute DEF TypeOK, List
    <3> HIDE DEF m
    <3>1. lists' \subseteq List
      BY <2>2, <3>0 DEF CatchUp, TypeOK, m
    <3> QED
      BY <2>2, <3>1 DEF CatchUp, TypeOK
  <2>3. CASE SetTimer(p)
    BY <2>3 DEF SetTimer, TypeOK
  <2>4. CASE Tick(p)
    <3>0. [of |-> p, minute |-> now, by |-> "tick", read |-> FALSE] \in List
      BY DEF TypeOK, List
    <3>1. lists' \subseteq List
      BY <2>4, <3>0 DEF Tick, TypeOK
    <3> QED
      BY <2>4, <3>1 DEF Tick, TypeOK
  <2>5. CASE Stop(p)
    <3>1. InFlight(p) \subseteq Process \X {"list", "run"} \X {"tick", "catchup"} \X Minute
      BY DEF InFlight, TypeOK, List, Run
    <3> QED
      BY <2>5, <3>1 DEF Stop, TypeOK
  <2>6. CASE Drained(p)
    BY <2>6 DEF Drained, TypeOK
  <2>7. CASE Crash(p)
    BY <2>7 DEF Crash, TypeOK
  <2> QED
    BY <1>3, <2>1, <2>2, <2>3, <2>4, <2>5, <2>6, <2>7 DEF Scheduler
<1>4. ASSUME NEW l \in lists, ReadEnv(l) PROVE TypeOK'
  <2>1. lists' \subseteq List
    BY <1>4 DEF ReadEnv, TypeOK, List
  <2> QED
    BY <1>4, <2>1 DEF ReadEnv, TypeOK
<1>5. ASSUME NEW l \in lists, Spawn(l) PROVE TypeOK'
  <2>1. Newest \in Minute \cup {None}
    BY NewestDelivered DEF Delivered
  <2>2. l \in List
    BY DEF TypeOK
  <2>3. runs' \subseteq Run
    BY <1>5, <2>1, <2>2 DEF Spawn, TypeOK, List, Run
  <2> QED
    BY <1>5, <2>3 DEF Spawn, TypeOK
<1>6. ASSUME NEW r \in runs, RunStep(r) PROVE TypeOK'
  <2>1. r.of \in Process /\ r.minute \in Minute
    BY DEF TypeOK, Run
  <2>2. CASE ClaimSlot(r)
    <3>1. runs' \subseteq Run
      BY <2>2, StepType DEF ClaimSlot, TypeOK
    <3> QED
      BY <2>1, <2>2, <3>1 DEF ClaimSlot, TypeOK
  <2>3. CASE Dispatch(r)
    <3>1. runs' \subseteq Run /\ active' \in [Process -> SUBSET Minute]
      BY <2>3, StepType, EndsType DEF Dispatch, TypeOK
    <3> QED
      BY <2>3, <3>1 DEF Dispatch, TypeOK
  <2>4. CASE Admit(r)
    <3>1. runs' \subseteq Run /\ active' \in [Process -> SUBSET Minute]
      BY <2>4, StepType, EndsType DEF Admit, TypeOK
    <3> QED
      BY <2>1, <2>4, <3>1 DEF Admit, TypeOK
  <2>5. CASE Send(r)
    BY <2>5, StepType DEF Send, TypeOK
  <2>6. CASE MarkRun(r)
    <3>1. runs' \subseteq Run /\ active' \in [Process -> SUBSET Minute]
      BY <2>6, EndsType DEF MarkRun, TypeOK
    <3> QED
      BY <2>1, <2>6, <3>1 DEF MarkRun, TypeOK
  <2> QED
    BY <1>6, <2>2, <2>3, <2>4, <2>5, <2>6 DEF RunStep
<1>7. CASE UNCHANGED vars
  BY <1>7 DEF vars, TypeOK
<1> QED
  BY <1>1, <1>2, <1>3, <1>4, <1>5, <1>6, <1>7 DEF Next

\* Every variable of the timer keeps its type, in every behaviour.
THEOREM TimerTypeOK == Spec => []TypeOK
<1>1. Init => TypeOK
  BY TimerInitType
<1>2. TypeOK /\ [Next]_vars => TypeOK'
  BY TimerTypeStep
<1> QED
  BY <1>1, <1>2, PTL DEF Spec

-----------------------------------------------------------------------------
(* A stop is the end of sending.                                           *)

\* A run that was told to go on belongs to a scheduler that accepts work, or to one that is draining
\* it: what passed the gate before a stop is in what the stop awaits.
RunsAreAwaited ==
  \A r \in runs : r.pc \in {"admit", "send"} =>
    \/ up[r.of] = "up"
    \/ up[r.of] = "stopping" /\ <<r.of, "run", r.by, r.minute>> \in awaited

\* What a run that remains or is new was before.
LEMMA RunStepKeeps ==
  ASSUME NEW r \in runs, NEW q \in runs', TypeOK, RunStep(r)
  PROVE \/ q \in runs
        \/ /\ q.of = r.of /\ q.by = r.by /\ q.minute = r.minute /\ q.floor = r.floor
           /\ q.prompt = r.prompt
           /\ \/ q.pc = "dispatch" /\ ClaimSlot(r)
              \/ q.pc = "admit" /\ Dispatch(r) /\ up[r.of] = "up"
              \/ q.pc = "send" /\ Admit(r) /\ r.pc = "admit"
              \/ q.pc = "mark" /\ Send(r) /\ r.pc = "send"
<1>1. r \in Run
  BY DEF TypeOK
<1>2. ASSUME NEW to \in {"dispatch", "admit", "send", "mark"}, Step(r, to), q \notin runs
      PROVE /\ q.of = r.of /\ q.by = r.by /\ q.minute = r.minute /\ q.floor = r.floor
            /\ q.prompt = r.prompt /\ q.pc = to
  BY <1>1, <1>2 DEF Step, Run
<1>3. CASE ClaimSlot(r)
  BY <1>2, <1>3 DEF ClaimSlot
<1>4. CASE Dispatch(r)
  BY <1>2, <1>4 DEF Dispatch, Ends
<1>5. CASE Admit(r)
  BY <1>2, <1>5 DEF Admit, Ends
<1>6. CASE Send(r)
  BY <1>2, <1>6 DEF Send
<1>7. CASE MarkRun(r)
  BY <1>7 DEF MarkRun, Ends
<1> QED
  BY <1>3, <1>4, <1>5, <1>6, <1>7 DEF RunStep

\* Every step keeps the runs among the awaited.
LEMMA AwaitedStep == ASSUME TypeOK, RunsAreAwaited, [Next]_vars PROVE RunsAreAwaited'
<1> USE DEF clockVars, fileVars, hostVars, workVars
<1>1. CASE MinutePasses \/ Registry \/ UNCHANGED vars
  BY <1>1 DEF MinutePasses, Registry, vars, RunsAreAwaited
<1>2. ASSUME NEW p \in Process, Scheduler(p) PROVE RunsAreAwaited'
  <2>1. CASE Start(p)
    BY <2>1 DEF Start, RunsAreAwaited, TypeOK, Run
  <2>2. CASE CatchUp(p) \/ SetTimer(p) \/ Tick(p)
    BY <2>2 DEF CatchUp, SetTimer, Tick, RunsAreAwaited
  <2>3. CASE Stop(p)
    <3>1. \A r \in runs : r.of = p => <<r.of, "run", r.by, r.minute>> \in InFlight(p)
      BY DEF InFlight
    <3>2. \A r \in runs : r.of \in Process
      BY DEF TypeOK, Run
    <3> QED
      BY <2>3, <3>1, <3>2 DEF Stop, RunsAreAwaited, TypeOK
  <2>4. CASE Drained(p)
    <3>1. \A r \in runs : r.of = p => <<r.of, "run", r.by, r.minute>> \in InFlight(p)
      BY DEF InFlight
    <3>2. \A r \in runs : r.of \in Process
      BY DEF TypeOK, Run
    <3>3. \A r \in runs : r.pc \in {"admit", "send"} => r.of # p
      BY <2>4, <3>1 DEF Drained, RunsAreAwaited
    <3> QED
      BY <2>4, <3>2, <3>3 DEF Drained, RunsAreAwaited, TypeOK
  <2>5. CASE Crash(p)
    <3>1. \A r \in runs : r.of \in Process
      BY DEF TypeOK, Run
    <3> QED
      BY <2>5, <3>1 DEF Crash, RunsAreAwaited, TypeOK
  <2> QED
    BY <1>2, <2>1, <2>2, <2>3, <2>4, <2>5 DEF Scheduler
<1>3. ASSUME NEW l \in lists, ReadEnv(l) \/ Spawn(l) PROVE RunsAreAwaited'
  BY <1>3 DEF ReadEnv, Spawn, RunsAreAwaited
<1>4. ASSUME NEW r \in runs, RunStep(r) PROVE RunsAreAwaited'
  <2>1. up' = up /\ awaited' = awaited
    BY <1>4 DEF RunStep, ClaimSlot, Dispatch, Admit, Send, MarkRun
  <2>2. ASSUME NEW q \in runs', q.pc \in {"admit", "send"}
        PROVE \/ up[q.of] = "up"
              \/ up[q.of] = "stopping" /\ <<q.of, "run", q.by, q.minute>> \in awaited
    BY <1>4, <2>2, RunStepKeeps DEF RunsAreAwaited
  <2> QED
    BY <2>1, <2>2 DEF RunsAreAwaited
<1> QED
  BY <1>1, <1>2, <1>3, <1>4 DEF Next

\* A scheduler whose stop has finished sends nothing, however many runs were spawned by the ticks and
\* catch-ups in flight at the stop: a run about to send was in what the stop awaits, or began after a
\* new start.
THEOREM TimerQuietOnceStopped == Spec => []QuietOnceStopped
<1>1. Init => RunsAreAwaited
  BY DEF Init, RunsAreAwaited
<1>2. TypeOK /\ RunsAreAwaited /\ [Next]_vars => RunsAreAwaited'
  BY AwaitedStep
<1>3. RunsAreAwaited => QuietOnceStopped
  BY DEF RunsAreAwaited, QuietOnceStopped
<1> QED
  BY <1>1, <1>2, <1>3, TimerTypeOK, PTL DEF Spec

-----------------------------------------------------------------------------
(* A run does not go back in time.                                         *)

\* What was delivered when a run was spawned still is, and is older once the run has its slot.
FloorIsDelivered ==
  \A r \in runs : r.floor # None =>
    /\ slot[r.floor] = "returned" /\ r.floor \in Minute
    /\ r.pc # "claim" => r.minute > r.floor

\* No step takes a delivery back.
LEMMA DeliveredStays ==
  ASSUME TypeOK, [Next]_vars, NEW m \in Minute, slot[m] = "returned"
  PROVE slot'[m] = "returned"
<1> USE DEF clockVars, fileVars, hostVars, workVars
<1>1. CASE MinutePasses \/ Registry \/ UNCHANGED vars
  BY <1>1 DEF MinutePasses, Registry, vars
<1>2. ASSUME NEW p \in Process, Scheduler(p) PROVE slot' = slot
  BY <1>2 DEF Scheduler, Start, CatchUp, SetTimer, Tick, Stop, Drained, Crash
<1>3. ASSUME NEW l \in lists, ReadEnv(l) \/ Spawn(l) PROVE slot' = slot
  BY <1>3 DEF ReadEnv, Spawn
<1>4. ASSUME NEW r \in runs, RunStep(r) PROVE slot'[m] = "returned"
  BY <1>4 DEF RunStep, ClaimSlot, Dispatch, Admit, Send, MarkRun, TypeOK
<1> QED
  BY <1>1, <1>2, <1>3, <1>4 DEF Next

\* Every step keeps what was delivered below the floor.
LEMMA FloorStep == ASSUME TypeOK, FloorIsDelivered, [Next]_vars PROVE FloorIsDelivered'
<1> USE DEF clockVars, fileVars, hostVars, workVars
<1>1. ASSUME NEW q \in runs' \cap runs PROVE q.floor # None => slot'[q.floor] = "returned"
  BY DeliveredStays DEF FloorIsDelivered
<1>2. ASSUME runs' \subseteq runs PROVE FloorIsDelivered'
  BY <1>1, <1>2 DEF FloorIsDelivered
<1>3. CASE MinutePasses \/ Registry \/ UNCHANGED vars
  BY <1>2, <1>3 DEF MinutePasses, Registry, vars
<1>4. ASSUME NEW p \in Process, Scheduler(p) PROVE FloorIsDelivered'
  BY <1>2, <1>4 DEF Scheduler, Start, CatchUp, SetTimer, Tick, Stop, Drained, Crash
<1>5. ASSUME NEW l \in lists, ReadEnv(l) PROVE FloorIsDelivered'
  BY <1>2, <1>5 DEF ReadEnv
<1>6. ASSUME NEW l \in lists, Spawn(l) PROVE FloorIsDelivered'
  <2>1. ASSUME NEW q \in runs', q \notin runs PROVE q.floor = Newest /\ q.pc = "claim"
    BY <1>6, <2>1 DEF Spawn
  <2>2. Newest # None => Newest \in Minute /\ slot[Newest] = "returned"
    BY NewestDelivered DEF Delivered
  <2>3. slot' = slot
    BY <1>6 DEF Spawn
  <2> QED
    BY <1>1, <2>1, <2>2, <2>3 DEF FloorIsDelivered
<1>7. ASSUME NEW r \in runs, RunStep(r) PROVE FloorIsDelivered'
  <2>1. ASSUME NEW q \in runs', q \notin runs, q.floor # None
        PROVE slot'[q.floor] = "returned" /\ q.floor \in Minute /\ (q.pc # "claim" => q.minute > q.floor)
    <3>1. q.floor = r.floor /\ q.minute = r.minute
      BY <1>7, <2>1, RunStepKeeps
    <3>2. slot[r.floor] = "returned" /\ r.floor \in Minute
      BY <2>1, <3>1 DEF FloorIsDelivered
    <3>3. slot'[r.floor] = "returned"
      BY <3>2, DeliveredStays
    <3>4. CASE r.pc # "claim"
      BY <2>1, <3>1, <3>2, <3>3, <3>4 DEF FloorIsDelivered
    <3>5. CASE r.pc = "claim"
      <4>1. ClaimSlot(r)
        BY <1>7, <3>5 DEF RunStep, Dispatch, Admit, Send, MarkRun
      <4>2. ~NewerDelivered(r.minute) /\ slot[r.minute] = "none"
        BY <2>1, <4>1 DEF ClaimSlot
      <4>3. r.minute \in Int /\ r.floor \in Int
        BY <3>2 DEF TypeOK, Run, Minute
      <4>4. r.minute # r.floor /\ ~(r.floor > r.minute)
        BY <3>2, <4>2 DEF NewerDelivered
      <4>5. r.minute > r.floor
        BY <4>3, <4>4
      <4> QED
        BY <3>1, <3>2, <3>3, <4>5
    <3> QED
      BY <3>4, <3>5
  <2> QED
    BY <1>1, <2>1 DEF FloorIsDelivered
<1> QED
  BY <1>3, <1>4, <1>5, <1>6, <1>7 DEF Next

\* A run that was spawned after a newer minute was delivered is never sent, by whatever process and
\* however long its listing took.
THEOREM TimerNeverGoesBack == Spec => []NeverGoesBack
<1>1. Init => FloorIsDelivered
  BY DEF Init, FloorIsDelivered
<1>2. TypeOK /\ FloorIsDelivered /\ [Next]_vars => FloorIsDelivered'
  BY FloorStep
<1>3. FloorIsDelivered => NeverGoesBack
  BY DEF FloorIsDelivered, NeverGoesBack
<1> QED
  BY <1>1, <1>2, <1>3, TimerTypeOK, PTL DEF Spec

-----------------------------------------------------------------------------
(* A schedule is seen with its prompt.                                     *)

\* Whoever has seen the env file finds the prompt, or a prompt has been taken away.
PromptBeforeEnv ==
  /\ env # "none" \/ tool = "prompted" => prompt \/ undone
  /\ \A l \in lists : l.read => prompt \/ undone
  /\ \A r \in runs : r.prompt \/ undone

\* Every step keeps a prompt for each environment file.
LEMMA PromptStep == ASSUME TypeOK, PromptBeforeEnv, [Next]_vars PROVE PromptBeforeEnv'
<1> USE DEF clockVars, fileVars, hostVars, workVars
<1>1. CASE MinutePasses \/ UNCHANGED vars
  BY <1>1 DEF MinutePasses, vars, PromptBeforeEnv
<1>2. CASE Registry
  <2>1. lists' = lists /\ runs' = runs
    BY <1>2 DEF Registry
  <2>2. CASE Add
    BY <2>1, <2>2 DEF Add, PromptBeforeEnv
  <2>3. CASE AddEnv
    BY <2>1, <2>3 DEF AddEnv, PromptBeforeEnv
  <2>4. CASE DropPrompt
    BY <2>1, <2>4 DEF DropPrompt, PromptBeforeEnv
  <2>5. CASE Remove
    BY <2>1, <2>5 DEF Remove, PromptBeforeEnv
  <2>6. CASE EditByHand
    BY <2>1, <2>6 DEF EditByHand, PromptBeforeEnv
  <2> QED
    BY <1>2, <2>2, <2>3, <2>4, <2>5, <2>6 DEF Registry
<1>3. ASSUME NEW p \in Process, Scheduler(p) PROVE PromptBeforeEnv'
  <2>1. UNCHANGED <<env, prompt, tool, undone>> /\ runs' \subseteq runs
    BY <1>3 DEF Scheduler, Start, CatchUp, SetTimer, Tick, Stop, Drained, Crash
  <2>2. \A l \in lists' : l.read => l \in lists
    BY <1>3 DEF Scheduler, Start, CatchUp, SetTimer, Tick, Stop, Drained, Crash
  <2> QED
    BY <2>1, <2>2 DEF PromptBeforeEnv
<1>4. ASSUME NEW l \in lists, ReadEnv(l) PROVE PromptBeforeEnv'
  BY <1>4 DEF ReadEnv, PromptBeforeEnv
<1>5. ASSUME NEW l \in lists, Spawn(l) PROVE PromptBeforeEnv'
  <2>1. \A q \in runs' : q \in runs \/ q.prompt = prompt
    BY <1>5 DEF Spawn
  <2> QED
    BY <1>5, <2>1 DEF Spawn, PromptBeforeEnv
<1>6. ASSUME NEW r \in runs, RunStep(r) PROVE PromptBeforeEnv'
  <2>1. UNCHANGED <<env, prompt, tool, undone, lists>>
    BY <1>6 DEF RunStep, ClaimSlot, Dispatch, Admit, Send, MarkRun
  <2>2. \A q \in runs' : q \in runs \/ q.prompt = r.prompt
    BY <1>6, RunStepKeeps
  <2> QED
    BY <2>1, <2>2 DEF PromptBeforeEnv
<1> QED
  BY <1>1, <1>2, <1>3, <1>4, <1>5, <1>6 DEF Next

\* Adding a schedule never shows it without its prompt, whoever lists the schedules meanwhile: only a
\* removal, or an add that failed, gives a run a blank prompt.
THEOREM TimerBlankOnlyWhenUndone == Spec => []BlankOnlyWhenUndone
<1>1. Init => PromptBeforeEnv
  BY DEF Init, PromptBeforeEnv
<1>2. TypeOK /\ PromptBeforeEnv /\ [Next]_vars => PromptBeforeEnv'
  BY PromptStep
<1>3. PromptBeforeEnv => BlankOnlyWhenUndone
  BY DEF PromptBeforeEnv, BlankOnlyWhenUndone
<1> QED
  BY <1>1, <1>2, <1>3, TimerTypeOK, PTL DEF Spec

(***************************************************************************)
(* The side pane                                                           *)
(***************************************************************************)

\* A process runs in the pane its live record names, and nothing else does.
WorldTyped ==
  /\ registry \in [Agent -> A!Record \cup {None}]
  /\ panes \in [Terminal -> (SUBSET A!Proc) \cup {None}]
  /\ changes \in 0 .. MaxChanges /\ \A a \in Agent : registry[a] # None => registry[a].start <= changes + 1

Runs(t, a, n) == registry[a] # None /\ registry[a].live /\ registry[a].pane = t /\ registry[a].start = n

WorldInv ==
  /\ WorldTyped
  /\ \A t \in Terminal : panes[t] # None => \A a \in Agent, n \in A!Turn : <<a, n>> \in panes[t] <=> Runs(t, a, n)
  /\ \A a \in Agent : registry[a] # None /\ registry[a].live => panes[registry[a].pane] # None

\* The processes of a pane that are of the panel's scope.
Shown(S) == S \cap (A!Scope \X A!Turn)

\* The agent that passes the checks is the only one of its scope that runs in its pane.
LEMMA ReachableIsAlone ==
  ASSUME WorldInv, NEW a, A!Reachable(a)
  PROVE a \in Agent /\ Shown(panes[registry[a].pane]) = {<<a, registry[a].start>>}
<1>1. a \in Agent /\ a \in A!Scope /\ registry[a] \in A!Record /\ registry[a].live
  BY DEF A!Reachable, A!Present, A!Scope, WorldInv, WorldTyped
<1>2. PICK t \in Terminal : t = registry[a].pane
  BY <1>1 DEF A!Record
<1>3. PICK n \in A!Turn : n = registry[a].start
  BY <1>1 DEF A!Record
<1>4. panes[t] # None /\ panes[t] \in SUBSET A!Proc
  BY <1>2 DEF A!Reachable, WorldInv, WorldTyped
<1>5. <<a, n>> \in Shown(panes[t])
  BY <1>1, <1>2, <1>3, <1>4 DEF WorldInv, Runs, Shown, A!Reachable, A!Present
<1>6. ASSUME NEW x \in Shown(panes[t]) PROVE x = <<a, n>>
  <2>1. PICK b \in A!Scope, k \in A!Turn : x = <<b, k>>
    BY <1>6 DEF Shown
  <2>2. Runs(t, b, k)
    BY <1>2, <1>4, <1>6, <2>1 DEF WorldInv, Shown, A!Scope
  <2>3. b = a
    BY <1>2, <2>2 DEF Runs, A!Reachable, A!Present
  <2> QED BY <1>3, <2>1, <2>2, <2>3 DEF Runs
<1> QED BY <1>1, <1>2, <1>3, <1>5, <1>6

\* What the panel does outside is as it was asked for.
LEMMA ActedAsAsked == ASSUME WorldInv, A!ActsAsAsked, [A!Next]_showing PROVE A!ActsAsAsked'
<1>1. CASE did' = None \/ did' = did
  BY <1>1 DEF A!ActsAsAsked
<1>2. ASSUME NEW key, NEW ok, A!Confirm(key, ok), did' # None PROVE A!ActsAsAsked'
  <2>1. PICK r : r = panel.conf
    OBVIOUS
  <2>2. A!CloseConfirmationMatches(r, r.id) /\ A!Reachable(r.id)
    BY <1>2, <2>1 DEF A!Confirm
  <2>3. did' = [kind |-> "close", asked |-> r, found |-> registry[r.id], occupant |-> panes[registry[r.id].pane]]
    BY <1>2, <2>1 DEF A!Confirm
  <2>4. /\ did'.kind = "close" /\ did'.asked = r /\ did'.found = registry[r.id]
        /\ Shown(did'.occupant) = {<<r.id, registry[r.id].start>>}
    BY <2>2, <2>3, ReachableIsAlone
  <2> QED BY <2>2, <2>4 DEF Shown, A!ActsAsAsked, A!CloseConfirmationMatches
<1>3. ASSUME NEW key, NEW replay, NEW ok, A!Focus(key, replay, ok), did' # None PROVE A!ActsAsAsked'
  <2>1. PICK a : a = IF key.type = "enter" THEN panel.sel ELSE panel.lines[key.line]
    OBVIOUS
  <2>2. /\ A!Reachable(a)
        /\ did' = [kind |-> "focus", asked |-> a, found |-> registry[a], occupant |-> panes[registry[a].pane]]
    BY <1>3, <2>1 DEF A!Focus
  <2>3. did'.kind = "focus" /\ did'.asked = a /\ did'.found = registry[a] /\ Shown(did'.occupant) = {<<a, registry[a].start>>}
    BY <2>2, ReachableIsAlone
  <2> QED BY <2>3 DEF Shown, A!ActsAsAsked
<1>4. ASSUME NEW key, NEW replay, NEW ok, A!Create(key, replay, ok), did' # None PROVE A!ActsAsAsked'
  <2>1. PICK r : r = panel.creation
    OBVIOUS
  <2>2. A!LeadUnchanged(r) /\ A!Reachable(r.lead)
    BY <1>4, <2>1 DEF A!Create, A!Nothing
  <2>3. did' = [kind |-> "create", asked |-> r, found |-> registry[r.lead], occupant |-> panes[registry[r.lead].pane]]
    BY <1>4, <2>1 DEF A!Create, A!Nothing
  <2>4. /\ did'.kind = "create" /\ did'.asked = r /\ did'.found = registry[r.lead]
        /\ Shown(did'.occupant) = {<<r.lead, registry[r.lead].start>>}
    BY <2>2, <2>3, ReachableIsAlone
  <2> QED BY <2>2, <2>4 DEF Shown, A!ActsAsAsked, A!LeadUnchanged
<1>5. ASSUME A!Next,
             ~\E key \in A!Key, ok \in BOOLEAN : A!Confirm(key, ok),
             ~\E key \in A!Key, replay, ok \in BOOLEAN : A!Focus(key, replay, ok),
             ~\E key \in A!Key, replay, ok \in BOOLEAN : A!Create(key, replay, ok)
      PROVE did' = None
  BY <1>5 DEF A!Next, A!Refresh, A!StartupOver, A!Inspected, A!Queue, A!Refused, A!Idle, A!Close, A!Cancel, A!Lead_,
     A!Move, A!ClickBelow, A!Named, A!NotNamed, A!Quit, A!Dies, A!Reaped, A!Starts, A!Reloads, A!Works, A!UserMoves,
     A!OutputJams, A!PromptAges, A!Changes, A!Nothing
<1>6. CASE A!Next
  BY <1>1, <1>2, <1>3, <1>4, <1>5, <1>6
<1> QED BY <1>1, <1>6 DEF showing

\* What a live record says is where its process is.
LEMMA LiveRecord ==
  ASSUME WorldInv, NEW a \in Agent, registry[a] # None
  PROVE /\ registry[a] \in A!Record /\ registry[a].pane \in Terminal /\ registry[a].start \in A!Turn
        /\ registry[a].start <= changes + 1 /\ changes \in Nat
        /\ registry[a].live => panes[registry[a].pane] # None
BY DeskAssumption DEF WorldInv, WorldTyped, A!Record, A!PaneAssumption

\* Registry and panes stay.
LEMMA SameWorld ==
  ASSUME WorldInv, UNCHANGED <<registry, panes>>, changes' \in {changes, changes + 1}, changes' <= MaxChanges
  PROVE WorldInv'
<1>1. changes' \in 0 .. MaxChanges /\ changes' >= changes
  BY DeskAssumption DEF WorldInv, WorldTyped, A!PaneAssumption
<1>2. ASSUME NEW a \in Agent, registry[a] # None PROVE registry[a].start <= changes' + 1
  BY <1>1, <1>2, LiveRecord, DeskAssumption DEF A!Turn, A!PaneAssumption
<1>3. WorldTyped'
  BY <1>1, <1>2 DEF WorldInv, WorldTyped
<1> QED BY <1>3 DEF WorldInv, Runs

\* A pane is closed with what runs in it.
LEMMA ConfirmKeepsWorld == ASSUME WorldInv, NEW key, NEW ok, A!Confirm(key, ok) PROVE WorldInv'
<1>1. CASE UNCHANGED <<registry, panes>>
  <2>1. changes' = changes /\ changes <= MaxChanges
    BY DeskAssumption DEF A!Confirm, A!Rest, WorldInv, WorldTyped, A!PaneAssumption
  <2> QED BY <1>1, <2>1, SameWorld
<1>2. ASSUME ~UNCHANGED <<registry, panes>> PROVE WorldInv'
  <2>1. PICK p \in Terminal : /\ panes[p] # None /\ panes' = [panes EXCEPT ![p] = None]
                             /\ registry' = [b \in Agent |->
                                  IF registry[b] # None /\ <<b, registry[b].start>> \in panes[p]
                                  THEN [registry[b] EXCEPT !.live = FALSE] ELSE registry[b]]
    <3>1. PICK c \in Agent : /\ A!Reachable(c)
                             /\ panes' = [panes EXCEPT ![registry[c].pane] = None]
                             /\ registry' = [b \in Agent |->
                                  IF registry[b] # None /\ <<b, registry[b].start>> \in panes[registry[c].pane]
                                  THEN [registry[b] EXCEPT !.live = FALSE] ELSE registry[b]]
      BY <1>2, ReachableIsAlone DEF A!Confirm
    <3>2. registry[c].pane \in Terminal /\ panes[registry[c].pane] # None
      BY <3>1 DEF WorldInv, WorldTyped, A!Reachable, A!Present, A!Record
    <3> QED BY <3>1, <3>2
  <2>2. \A a \in Agent : registry[a] # None => registry[a] \in A!Record
    BY DEF WorldInv, WorldTyped
  <2>3. ASSUME NEW a \in Agent, registry[a] # None, <<a, registry[a].start>> \in panes[p]
        PROVE /\ registry'[a] \in A!Record /\ registry'[a].live = FALSE /\ registry'[a].start = registry[a].start
              /\ registry'[a].pane = registry[a].pane
    BY <2>1, <2>2, <2>3 DEF A!Record
  <2>4. ASSUME NEW a \in Agent, ~(registry[a] # None /\ <<a, registry[a].start>> \in panes[p])
        PROVE registry'[a] = registry[a]
    BY <2>1, <2>4
  <2>5. WorldTyped'
    <3>1. changes' = changes
      BY DEF A!Confirm, A!Rest
    <3>2. registry' \in [Agent -> A!Record \cup {None}]
      <4>1. \A a \in Agent : registry'[a] \in A!Record \cup {None}
        BY <2>2, <2>3, <2>4
      <4> QED BY <2>1, <4>1
    <3>3. panes' \in [Terminal -> (SUBSET A!Proc) \cup {None}]
      BY <2>1 DEF WorldInv, WorldTyped
    <3>4. ASSUME NEW a \in Agent, registry'[a] # None PROVE registry'[a].start <= changes + 1
      <4>1. registry[a] # None /\ registry'[a].start = registry[a].start
        BY <2>3, <2>4, <3>4
      <4> QED BY <4>1 DEF WorldInv, WorldTyped
    <3> QED BY <3>1, <3>2, <3>3, <3>4 DEF WorldInv, WorldTyped
  <2>6. \A t \in Terminal : panes'[t] # None => t # p /\ panes'[t] = panes[t]
    BY <2>1 DEF WorldInv, WorldTyped
  <2>7. ASSUME NEW t \in Terminal, panes'[t] # None, NEW a \in Agent, NEW n \in A!Turn
        PROVE <<a, n>> \in panes'[t] <=> Runs(t, a, n)'
    <3>1. t # p /\ panes'[t] = panes[t] /\ (<<a, n>> \in panes[t] <=> Runs(t, a, n))
      BY <2>6, <2>7 DEF WorldInv
    <3>2. CASE registry[a] # None /\ <<a, registry[a].start>> \in panes[p]
      <4>1. registry[a].start \in A!Turn
        BY <2>2, <3>2 DEF A!Record
      <4>2. Runs(p, a, registry[a].start)
        BY <2>1, <3>2, <4>1 DEF WorldInv
      <4> QED BY <2>3, <3>1, <3>2, <4>2 DEF Runs
    <3>3. CASE ~(registry[a] # None /\ <<a, registry[a].start>> \in panes[p])
      BY <2>4, <3>1, <3>3 DEF Runs
    <3> QED BY <3>2, <3>3
  <2>8. ASSUME NEW a \in Agent, registry'[a] # None, registry'[a].live PROVE panes'[registry'[a].pane] # None
    <3>1. ~(registry[a] # None /\ <<a, registry[a].start>> \in panes[p]) /\ registry'[a] = registry[a]
      BY <2>3, <2>4, <2>8
    <3>2. registry[a] \in A!Record /\ registry[a].start \in A!Turn /\ registry[a].pane \in Terminal
      BY <2>2, <2>8, <3>1 DEF A!Record
    <3>3. registry[a].pane # p
      BY <2>1, <2>8, <3>1, <3>2 DEF WorldInv, Runs
    <3>4. panes'[registry[a].pane] = panes[registry[a].pane]
      BY <2>1, <3>2, <3>3 DEF WorldInv, WorldTyped
    <3> QED BY <2>8, <3>1, <3>4 DEF WorldInv
  <2> QED BY <2>5, <2>7, <2>8 DEF WorldInv
<1> QED BY <1>1, <1>2

\* In the panes, only the processes of one agent are others: as its record says.
Placed(c, x) == \A t \in Terminal : panes[t] # None => \A a \in Agent, n \in A!Turn :
  <<a, n>> \in panes'[t] <=> IF a = c THEN x # None /\ x.live /\ x.pane = t /\ x.start = n
                             ELSE <<a, n>> \in panes[t]

\* Records and panes change together when an agent ends, starts or is replaced.
LEMMA ChangeKeepsWorld ==
  ASSUME WorldInv, NEW c \in Agent, NEW x \in A!Record \cup {None}, registry' = [registry EXCEPT ![c] = x],
         panes' \in [Terminal -> (SUBSET A!Proc) \cup {None}], changes' \in {changes, changes + 1},
         changes' <= MaxChanges,
         x # None => x.start <= changes' + 1 /\ (x.live => panes'[x.pane] # None),
         \A t \in Terminal : panes'[t] = None <=> panes[t] = None,
         Placed(c, x)
  PROVE WorldInv'
<1>1. /\ registry' \in [Agent -> A!Record \cup {None}] /\ registry'[c] = x
      /\ \A a \in Agent : a # c => registry'[a] = registry[a]
  BY DEF WorldInv, WorldTyped
<1>2. changes' \in 0 .. MaxChanges /\ changes' >= changes
  BY DeskAssumption DEF WorldInv, WorldTyped, A!PaneAssumption
<1>3. ASSUME NEW a \in Agent, registry'[a] # None PROVE registry'[a].start <= changes' + 1
  <2>1. CASE a = c
    BY <1>1, <1>3, <2>1
  <2>2. CASE a # c
    <3>1. registry[a] \in A!Record /\ registry[a].start <= changes + 1 /\ registry'[a] = registry[a]
      BY <1>1, <1>3, <2>2 DEF WorldInv, WorldTyped
    <3>2. registry[a].start \in Int /\ changes \in Int /\ changes' \in Int
      BY <1>2, <3>1, DeskAssumption DEF A!Record, A!Turn, WorldInv, WorldTyped, A!PaneAssumption
    <3> QED BY <1>2, <3>1, <3>2
  <2> QED BY <2>1, <2>2
<1>4. ASSUME NEW t \in Terminal, panes'[t] # None, NEW a \in Agent, NEW n \in A!Turn
      PROVE <<a, n>> \in panes'[t] <=> Runs(t, a, n)'
  <2>1. CASE a = c
    BY <1>1, <1>4, <2>1 DEF Runs, Placed
  <2>2. CASE a # c
    <3>1. Runs(t, a, n)' = Runs(t, a, n)
      BY <1>1, <2>2 DEF Runs
    <3> QED BY <1>4, <2>2, <3>1 DEF WorldInv, Placed
  <2> QED BY <2>1, <2>2
<1>5. ASSUME NEW a \in Agent, registry'[a] # None, registry'[a].live PROVE panes'[registry'[a].pane] # None
  <2>1. CASE a = c
    BY <1>1, <1>5, <2>1
  <2>2. CASE a # c
    <3>1. registry[a] \in A!Record /\ registry'[a] = registry[a] /\ registry[a].pane \in Terminal
      BY <1>1, <1>5, <2>2 DEF WorldInv, WorldTyped, A!Record
    <3> QED BY <1>5, <3>1 DEF WorldInv
  <2> QED BY <2>1, <2>2
<1> QED BY <1>1, <1>2, <1>3, <1>4, <1>5 DEF WorldInv, WorldTyped

\* A process that ends leaves its pane.
LEMMA DiesKeepsWorld == ASSUME WorldInv, NEW c \in Agent, A!Dies(c) PROVE WorldInv'
<1>1. PICK x : x = [registry[c] EXCEPT !.live = FALSE]
  OBVIOUS
<1>2. /\ registry[c] # None /\ registry[c].live /\ changes < MaxChanges /\ changes' = changes + 1
      /\ registry' = [registry EXCEPT ![c] = x]
      /\ panes' = [t \in Terminal |-> IF panes[t] = None THEN None ELSE panes[t] \ {<<c, registry[c].start>>}]
  BY <1>1 DEF A!Dies, A!Changes
<1>3. x \in A!Record /\ x.live = FALSE /\ x.start = registry[c].start /\ x # None
  BY <1>1, <1>2, LiveRecord, DeskAssumption DEF A!Record, A!PaneAssumption
<1>4. ASSUME NEW t \in Terminal, panes[t] # None
      PROVE /\ panes'[t] \in SUBSET A!Proc /\ panes'[t] # None
            /\ \A a \in Agent, n \in A!Turn : <<a, n>> \in panes'[t] <=> a # c /\ <<a, n>> \in panes[t]
  <2>1. panes'[t] = panes[t] \ {<<c, registry[c].start>>} /\ panes[t] \in SUBSET A!Proc
    BY <1>2, <1>4 DEF WorldInv, WorldTyped
  <2>2. \A n \in A!Turn : <<c, n>> \in panes[t] => n = registry[c].start
    BY <1>4 DEF WorldInv, Runs
  <2> QED BY <2>1, <2>2, DeskAssumption DEF A!PaneAssumption
<1>5. \A t \in Terminal : panes[t] = None => panes'[t] = None
  BY <1>2
<1>6. panes' \in [Terminal -> (SUBSET A!Proc) \cup {None}]
  BY <1>2, <1>4, <1>5
<1>7. changes' \in {changes, changes + 1} /\ changes' <= MaxChanges /\ x.start <= changes' + 1
  BY <1>2, <1>3, LiveRecord, DeskAssumption DEF A!Record, A!Turn, A!PaneAssumption
<1> QED BY <1>2, <1>3, <1>4, <1>5, <1>6, <1>7, ChangeKeepsWorld DEF Placed

\* An agent that starts is in its pane.
LEMMA StartsKeepsWorld == ASSUME WorldInv, NEW c \in Agent, NEW p \in Terminal, A!Starts(c, p) PROVE WorldInv'
<1>1. PICK x : x = [start |-> 1, status |-> "waiting", pane |-> p, live |-> TRUE]
  OBVIOUS
<1>2. /\ registry[c] = None /\ panes[p] # None /\ changes < MaxChanges /\ changes' = changes + 1
      /\ registry' = [registry EXCEPT ![c] = x] /\ panes' = [panes EXCEPT ![p] = panes[p] \cup {<<c, 1>>}]
  BY <1>1 DEF A!Starts, A!Changes
<1>3. 1 \in A!Turn /\ changes \in Nat /\ changes' <= MaxChanges /\ <<c, 1>> \in A!Proc
  BY <1>2, DeskAssumption DEF A!Turn, A!Proc, WorldInv, WorldTyped, A!PaneAssumption
<1>4. x \in A!Record /\ x.live /\ x.start = 1 /\ x.pane = p
  BY <1>1, <1>3 DEF A!Record
<1>0. x # None /\ x.start <= changes' + 1
  BY <1>2, <1>3, <1>4, DeskAssumption DEF A!PaneAssumption
<1>5. ASSUME NEW t \in Terminal, panes[t] # None
      PROVE /\ panes'[t] \in SUBSET A!Proc /\ panes'[t] # None
            /\ \A a \in Agent, n \in A!Turn :
                 <<a, n>> \in panes'[t] <=> IF a = c THEN p = t /\ 1 = n ELSE <<a, n>> \in panes[t]
  <2>1. panes[t] \in SUBSET A!Proc /\ panes'[t] = IF t = p THEN panes[t] \cup {<<c, 1>>} ELSE panes[t]
    BY <1>2, <1>5 DEF WorldInv, WorldTyped
  <2>2. \A n \in A!Turn : <<c, n>> \notin panes[t]
    BY <1>2, <1>5 DEF WorldInv, Runs
  <2> QED BY <1>3, <1>5, <2>1, <2>2, DeskAssumption DEF A!PaneAssumption
<1>6. \A t \in Terminal : panes[t] = None => panes'[t] = None
  BY <1>2 DEF WorldInv, WorldTyped
<1>7. panes' \in [Terminal -> (SUBSET A!Proc) \cup {None}]
  <2>1. DOMAIN panes' = Terminal /\ panes' = [t \in Terminal |-> panes'[t]]
    BY <1>2 DEF WorldInv, WorldTyped
  <2> QED BY <1>5, <1>6, <2>1
<1>8. panes'[x.pane] # None
  BY <1>2, <1>4, <1>5
<1>9. \A t \in Terminal : panes'[t] = None <=> panes[t] = None
  BY <1>5, <1>6
<1>10. Placed(c, x)
  BY <1>0, <1>4, <1>5 DEF Placed
<1> QED BY <1>0, <1>2, <1>3, <1>4, <1>7, <1>8, <1>9, <1>10, ChangeKeepsWorld

\* A session that is replaced starts anew in its pane.
LEMMA ReloadsKeepsWorld == ASSUME WorldInv, NEW c \in Agent, A!Reloads(c) PROVE WorldInv'
<1>1. PICK k : k = registry[c].start
  OBVIOUS
<1>2. PICK p : p = registry[c].pane
  OBVIOUS
<1>3. PICK x : x = [registry[c] EXCEPT !.start = k + 1]
  OBVIOUS
<1>4. /\ registry[c] # None /\ registry[c].live /\ changes < MaxChanges /\ changes' = changes + 1
      /\ registry' = [registry EXCEPT ![c] = x]
      /\ panes' = [panes EXCEPT ![p] = (panes[p] \ {<<c, k>>}) \cup {<<c, k + 1>>}]
  BY <1>1, <1>2, <1>3 DEF A!Reloads, A!Changes
<1>5. /\ k \in A!Turn /\ k + 1 \in A!Turn /\ k + 1 <= changes' + 1 /\ changes' <= MaxChanges
      /\ p \in Terminal /\ panes[p] # None /\ <<c, k + 1>> \in A!Proc
  BY <1>1, <1>2, <1>4, LiveRecord, DeskAssumption DEF A!Turn, A!Proc, A!PaneAssumption
<1>6. x \in A!Record /\ x.live /\ x.start = k + 1 /\ x.pane = p /\ x # None
  BY <1>2, <1>3, <1>4, <1>5, LiveRecord, DeskAssumption DEF A!Record, A!PaneAssumption
<1>7. ASSUME NEW t \in Terminal, panes[t] # None
      PROVE /\ panes'[t] \in SUBSET A!Proc /\ panes'[t] # None
            /\ \A a \in Agent, n \in A!Turn :
                 <<a, n>> \in panes'[t] <=> IF a = c THEN p = t /\ k + 1 = n ELSE <<a, n>> \in panes[t]
  <2>1. /\ panes[t] \in SUBSET A!Proc
        /\ panes'[t] = IF t = p THEN (panes[t] \ {<<c, k>>}) \cup {<<c, k + 1>>} ELSE panes[t]
    BY <1>4, <1>7 DEF WorldInv, WorldTyped
  <2>2. \A n \in A!Turn : <<c, n>> \in panes[t] => n = k /\ t = p
    BY <1>1, <1>2, <1>7 DEF WorldInv, Runs
  <2>3. panes'[t] \in SUBSET A!Proc
    BY <1>5, <2>1
  <2> QED BY <1>5, <1>7, <2>1, <2>2, <2>3, DeskAssumption DEF A!PaneAssumption
<1>8. \A t \in Terminal : panes[t] = None => panes'[t] = None
  BY <1>4, <1>5 DEF WorldInv, WorldTyped
<1>9. panes' \in [Terminal -> (SUBSET A!Proc) \cup {None}]
  <2>1. DOMAIN panes' = Terminal /\ panes' = [t \in Terminal |-> panes'[t]]
    BY <1>4 DEF WorldInv, WorldTyped
  <2> QED BY <1>7, <1>8, <2>1
<1>10. panes'[x.pane] # None
  BY <1>5, <1>6, <1>7
<1>11. \A t \in Terminal : panes'[t] = None <=> panes[t] = None
  BY <1>7, <1>8
<1>12. Placed(c, x)
  BY <1>6, <1>7 DEF Placed
<1> QED BY <1>4, <1>5, <1>6, <1>9, <1>10, <1>11, <1>12, ChangeKeepsWorld

\* A record changes beside its pane, or disappears after its process.
LEMMA RecordKeepsWorld == ASSUME WorldInv, NEW c \in Agent, A!Reaped(c) \/ A!Works(c) PROVE WorldInv'
<1>1. PICK x : x = [registry[c] EXCEPT !.status = IF @ = "waiting" THEN "running" ELSE "waiting"]
  OBVIOUS
<1>2. /\ registry[c] # None /\ changes < MaxChanges /\ changes' = changes + 1 /\ panes' = panes
      /\ \/ ~registry[c].live /\ registry' = [registry EXCEPT ![c] = None]
         \/ registry[c].live /\ registry' = [registry EXCEPT ![c] = x]
  BY <1>1 DEF A!Reaped, A!Works, A!Changes
<1>3. x \in A!Record /\ x.live = registry[c].live /\ x.start = registry[c].start /\ x.pane = registry[c].pane
  BY <1>1, <1>2, LiveRecord DEF A!Record
<1>4. x.start <= changes' + 1 /\ changes' <= MaxChanges
  BY <1>2, <1>3, LiveRecord, DeskAssumption DEF A!Turn, A!Record, A!PaneAssumption
<1>5. \A t \in Terminal : panes[t] # None => \A n \in A!Turn : <<c, n>> \in panes[t] <=> Runs(t, c, n)
  BY DEF WorldInv
<1>6. x # None /\ (x.live => panes[x.pane] # None)
  BY <1>2, <1>3, LiveRecord, DeskAssumption DEF A!PaneAssumption
<1>7. panes' \in [Terminal -> (SUBSET A!Proc) \cup {None}]
  BY <1>2 DEF WorldInv, WorldTyped
<1>8. CASE ~registry[c].live /\ registry' = [registry EXCEPT ![c] = None]
  BY <1>2, <1>4, <1>5, <1>7, <1>8, ChangeKeepsWorld DEF Runs, Placed
<1>9. CASE registry[c].live /\ registry' = [registry EXCEPT ![c] = x]
  <2>1. Placed(c, x)
    BY <1>2, <1>3, <1>5, <1>6, <1>9 DEF Runs, Placed
  <2> QED BY <1>2, <1>3, <1>4, <1>6, <1>7, <1>9, <2>1, ChangeKeepsWorld
<1> QED BY <1>2, <1>8, <1>9

\* At the start every agent but the new one runs in a pane of its own.
LEMMA InitWorld == ASSUME A!Init PROVE WorldInv
<1>1. /\ registry = [a \in Agent |-> IF a \notin A!Scope \ {Newcomer} THEN None
                                     ELSE [start |-> 1, status |-> "waiting", pane |-> a, live |-> TRUE]]
      /\ panes = [t \in Terminal |-> IF t \in A!Scope \ {Newcomer} THEN {<<t, 1>>} ELSE {}] /\ changes = 0
  BY DEF A!Init
<1>2. /\ 1 \in A!Turn /\ A!Scope \ {Newcomer} \subseteq Terminal /\ MaxChanges \in Nat
      /\ A!Scope \subseteq Agent
  BY DeskAssumption DEF A!Turn, A!Scope, A!PaneAssumption
<1>3. ASSUME NEW a \in Agent, registry[a] # None
      PROVE /\ registry[a] \in A!Record /\ registry[a].start = 1 /\ registry[a].pane = a /\ registry[a].live
            /\ a \in A!Scope \ {Newcomer}
  BY <1>1, <1>2, <1>3 DEF A!Record
<1>4. ASSUME NEW a \in A!Scope \ {Newcomer}
      PROVE registry[a] # None /\ registry[a].start = 1 /\ registry[a].pane = a /\ registry[a].live
  <2>1. registry[a] = [start |-> 1, status |-> "waiting", pane |-> a, live |-> TRUE]
    BY <1>1, <1>2, <1>4
  <2>2. registry[a] \in A!Record
    BY <1>2, <1>4, <2>1 DEF A!Record
  <2>3. registry[a] # None
    BY <2>2, DeskAssumption DEF A!PaneAssumption
  <2> QED BY <2>1, <2>3
<1>5. ASSUME NEW t \in Terminal PROVE panes[t] \in SUBSET A!Proc /\ panes[t] # None
  <2>1. panes[t] \in SUBSET A!Proc
    BY <1>1, <1>2 DEF A!Proc
  <2> QED BY <2>1, DeskAssumption DEF A!PaneAssumption
<1>6. registry \in [Agent -> A!Record \cup {None}]
  BY <1>1, <1>3
<1>7. panes \in [Terminal -> (SUBSET A!Proc) \cup {None}]
  BY <1>1, <1>5
<1>8. ASSUME NEW t \in Terminal, NEW a \in Agent, NEW n \in A!Turn PROVE <<a, n>> \in panes[t] <=> Runs(t, a, n)
  <2>1. <<a, n>> \in panes[t] <=> a = t /\ n = 1 /\ a \in A!Scope \ {Newcomer}
    BY <1>1
  <2> QED BY <1>3, <1>4, <2>1 DEF Runs
<1>9. \A a \in Agent : registry[a] # None => registry[a].pane \in Terminal
  BY <1>2, <1>3
<1>10. WorldTyped
  <2>1. changes \in 0 .. MaxChanges
    BY <1>1, <1>2
  <2>2. \A a \in Agent : registry[a] # None => registry[a].start <= changes + 1
    BY <1>1, <1>3
  <2> QED BY <1>6, <1>7, <2>1, <2>2 DEF WorldTyped
<1> QED BY <1>5, <1>8, <1>9, <1>10 DEF WorldInv

\* Every step of the pane.
LEMMA WorldKeeps == ASSUME WorldInv, [A!Next]_showing PROVE WorldInv'
<1>1. UNCHANGED <<registry, panes>> /\ changes' \in {changes, changes + 1} /\ changes' <= MaxChanges => WorldInv'
  BY SameWorld
<1>2. changes <= MaxChanges /\ changes \in Nat
  BY DeskAssumption DEF WorldInv, WorldTyped, A!PaneAssumption
<1>3. CASE UNCHANGED <<registry, panes, changes>>
  BY <1>1, <1>2, <1>3
<1>4. CASE A!UserMoves \/ A!OutputJams
  BY <1>1, <1>2, <1>4, DeskAssumption DEF A!UserMoves, A!OutputJams, A!Changes, A!PaneAssumption
<1>5. CASE A!Next
  <2>1. \/ UNCHANGED <<registry, panes, changes>> \/ A!UserMoves \/ A!OutputJams
        \/ \E key, ok : A!Confirm(key, ok)
        \/ \E a \in Agent : A!Dies(a) \/ A!Reaped(a) \/ A!Reloads(a) \/ A!Works(a)
        \/ \E a \in Agent, t \in Terminal : A!Starts(a, t)
    BY <1>5 DEF A!Next, A!Refresh, A!StartupOver, A!Inspected, A!Queue, A!Refused, A!Idle, A!Close, A!Cancel,
       A!Lead_, A!Move, A!Focus, A!ClickBelow, A!Named, A!NotNamed, A!Create, A!Quit, A!PromptAges, A!Nothing, A!Rest,
       A!world
  <2> QED BY <1>3, <1>4, <2>1, ConfirmKeepsWorld, DiesKeepsWorld, StartsKeepsWorld, ReloadsKeepsWorld, RecordKeepsWorld
<1> QED BY <1>3, <1>5 DEF showing

\* A step of the sum is a step of one part and leaves the others' state alone.
LEMMA StepsOfDesk == ASSUME [SumNext]_<<part, vars, showing>> PROVE [A!Next]_showing
<1>1. CASE PaneRests
  BY <1>1 DEF PaneRests
<1>2. CASE SumNext /\ ~PaneRests
  BY <1>2 DEF SumNext, A!Next
<1>3. CASE UNCHANGED <<part, vars, showing>>
  BY <1>3
<1> QED BY <1>1, <1>2, <1>3

\* Whatever the registry and the terminal did since the frame was drawn and the prompt was opened, the
\* side pane closes, focuses or puts an agent beside the process that was asked for, which runs in its
\* pane with no other agent of the panel's scope.
THEOREM PaneActsAsAsked == SumSpec => []ActsAsAsked
<1>1. SumInit => WorldInv /\ A!ActsAsAsked
  BY InitWorld DEF SumInit, A!Init, A!ActsAsAsked
<1>2. WorldInv /\ A!ActsAsAsked /\ [SumNext]_<<part, vars, showing>> => WorldInv' /\ A!ActsAsAsked'
  BY StepsOfDesk, WorldKeeps, ActedAsAsked
<1>3. A!ActsAsAsked => ActsAsAsked
  BY DEF ActsAsAsked
<1> QED BY <1>1, <1>2, <1>3, PTL DEF SumSpec
=============================================================================
