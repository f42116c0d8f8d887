----------------------------- MODULE MacroQueue ------------------------------
(***************************************************************************)
(* LiveMacroQueue (runner.rs) under every order of requests, cancellations *)
(* and polling passes: what the runner's single thread may do with it.  A  *)
(* pass that meets a refused emission ends the runner with an error.       *)
(***************************************************************************)
EXTENDS MacroRuns

CONSTANTS
  Label,      \* trigger labels
  Macro,      \* the macros a request may carry
  Gap,        \* the inter-action delays a request may carry
  MaxRuns     \* bound: requests accepted in a run of the runner

ASSUME QueueAssumption ==
  /\ Macro \subseteq Seq(Nat) \ {<<>>}
  /\ Gap \subseteq Nat
  /\ MaxRuns \in Nat

\* The pause owed before each position of a macro: none before the first, the
\* inter-action delay after a generated action, and d more after a Delay of d.
Pauses(actions, gap) ==
  LET pause[k \in DOMAIN actions] ==
        IF k = 1 THEN 0
        ELSE IF actions[k - 1] = Generated THEN gap
        ELSE pause[k - 1] + actions[k - 1]
  IN  pause

\* `since` counts as far as any pause.
ASSUME PausesAreCounted ==
  \A actions \in Macro, gap \in Gap :
    \A k \in DOMAIN actions : Pauses(actions, gap)[k] <= MaxSince

VARIABLES
  queue,      \* the LiveMacroQueue
  emitted,    \* the <<id, label, position>> triples the last pass sent
  failed      \* a pass returned an error: the runner has stopped

vars == <<queue, emitted, failed>>

Id == 1..MaxRuns

\* Only requests that could be accepted now, or that a busy label refuses.
Request == [label : Label, scoped : BOOLEAN, actions : Macro, gap : Gap]

ScheduleRequest(request) ==
  /\ ~failed
  /\ Accepts(queue, request) => queue.next_id < MaxRuns
  /\ queue' = Schedule(queue, request)
  /\ emitted' = {}
  /\ UNCHANGED failed

Cancel(label) ==
  /\ ~failed
  /\ queue' = CancelTrigger(queue, label)
  /\ emitted' = {}
  /\ UNCHANGED failed

CancelScoped ==
  /\ ~failed
  /\ queue' = CancelProcessScoped(queue)
  /\ emitted' = {}
  /\ UNCHANGED failed

\* What a set of ready runs sends.
Sends(runs) == {<<r.id, r.label, r.next_action + 1>> : r \in runs}

DriveReady ==
  /\ ~failed
  /\ queue' = Drive(queue)
  /\ emitted' = Sends(Emitting(queue))
  /\ UNCHANGED failed

\* The emission of run r is denied, fails or is cancelled: the runs scheduled
\* before r have been polled, r has used up its action, and the error ends
\* the runner, which drops the queue.
DriveFails(r) ==
  /\ ~failed
  /\ r \in Emitting(queue)
  /\ emitted' = Sends({x \in Emitting(queue) : x.id < r.id})
  /\ queue' = EmptyQueue
  /\ failed' = TRUE

Tick ==
  /\ ~failed
  /\ queue' = AgedQueue(queue, 1)
  /\ emitted' = {}
  /\ UNCHANGED failed

Init ==
  /\ queue = EmptyQueue
  /\ emitted = {}
  /\ failed = FALSE

Next ==
  \/ \E request \in Request : ScheduleRequest(request)
  \/ \E label \in Label : Cancel(label)
  \/ CancelScoped
  \/ DriveReady
  \/ \E r \in queue.runs : DriveFails(r)
  \/ Tick

\* The event loop polls the queue at least once per wait, and time passes.
Fairness == WF_vars(DriveReady) /\ WF_vars(Tick)

Spec == Init /\ [][Next]_vars
FairSpec == Spec /\ Fairness

-----------------------------------------------------------------------------
(* Properties *)

Run == [id : Id, label : Label, scoped : BOOLEAN, actions : Macro, gap : Gap,
        next_action : Nat, generated_actions : Nat, delay_armed : BOOLEAN,
        ready_in : Nat, cancelled : BOOLEAN, since : Nat]

\* Every variable has the shape the runner gives it.
TypeOK ==
  /\ queue \in [runs : SUBSET Run, active_triggers : SUBSET Label, next_id : 0..MaxRuns]
  /\ failed \in BOOLEAN

\* A label is busy exactly while one run carries it: a label left behind would
\* refuse its trigger for ever, and one freed early would let two runs of a
\* trigger interleave their keystrokes.
OneRunPerLabel ==
  /\ queue.active_triggers = {r.label : r \in queue.runs}
  /\ \A r, x \in queue.runs : r.label = x.label => r = x
  /\ \A r, x \in queue.runs : r.id = x.id => r = x

\* The invariant of the queue, both parts.
Inv == TypeOK /\ OneRunPerLabel

\* The pause a run owes before position k: its inter-action delay, unless k is
\* its first generated action, and every explicit delay since the last one.
PauseBefore(r, k) == Pauses(r.actions, r.gap)[k]

\* No generated action comes sooner than the delays before it allow, however
\* rarely or often the queue is polled (README: inter_action_delay_ms applies
\* between generated actions, explicit delays remain part of the macro).
PausesKept ==
  [][\A e \in emitted' : \A r \in queue.runs :
       r.id = e[1] => r.since >= PauseBefore(r, e[3])]_vars

\* Every accepted macro ends and frees its trigger, unless the runner stops.
EveryRunEnds ==
  \A l \in Label : l \in queue.active_triggers ~> (l \notin queue.active_triggers \/ failed)

-----------------------------------------------------------------------------
\* What the queue promises, with the polling, the delays and the ids hidden.
Left(r) == {i \in 1..Len(r.actions) : i > r.next_action /\ r.actions[i] = Generated}
RunOf(l) == CHOOSE r \in queue.runs : r.label = l

Playback == INSTANCE MacroPlayback WITH
  busy <- queue.active_triggers,
  left <- [l \in queue.active_triggers |-> Left(RunOf(l))],
  stopped <- {r.label : r \in {x \in queue.runs : x.cancelled}},
  played <- {<<e[2], e[3]>> : e \in emitted}

ImplementsPlayback == Playback!Spec
=============================================================================
