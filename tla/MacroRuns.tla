------------------------------ MODULE MacroRuns ------------------------------
(***************************************************************************)
(* One playing macro (MacroRunState, macro_plan.rs) and the queue of them  *)
(* that the live runner polls (LiveMacroQueue, runner.rs), as operators on *)
(* values: MacroQueue drives a queue by itself, LiveLoop drives one from   *)
(* the runner's event loop.                                                *)
(*                                                                         *)
(* A macro is a sequence of naturals: Generated stands for an action that  *)
(* is sent to the compositor, d > 0 for MacroAction::Delay of d ms.  Times *)
(* are relative: ready_in is ready_at - now, and no ready_at is ever       *)
(* compared with another one.  A definition named after another one with a *)
(* suffix (AfterGapArmed) is a faulty version of it, for the properties to *)
(* refute.                                                                 *)
(***************************************************************************)
EXTENDS Integers, Sequences, FiniteSets

CONSTANT MaxSince    \* bound: the history `since` counts no further

ASSUME SinceAssumption == MaxSince \in Nat

Generated == 0

\* MacroRunState::new, in the LiveMacroRun that schedule pushes.  `since` is
\* history: the ms since the run's last generated action, or since its start.
NewRun(id, label, scoped, actions, gap) ==
  [id |-> id, label |-> label, scoped |-> scoped, actions |-> actions, gap |-> gap,
   next_action |-> 0, generated_actions |-> 0, delay_armed |-> TRUE, ready_in |-> 0,
   cancelled |-> FALSE, since |-> 0]

\* What the next poll of a run will find.
Complete(r) == ~r.cancelled /\ r.next_action >= Len(r.actions)
Waiting(r)  == ~r.cancelled /\ ~Complete(r) /\ r.ready_in > 0
AtDelay(r)  == /\ ~r.cancelled /\ ~Complete(r) /\ ~Waiting(r)
               /\ r.actions[r.next_action + 1] # Generated
AtGap(r)    == /\ ~r.cancelled /\ ~Complete(r) /\ ~Waiting(r) /\ ~AtDelay(r)
               /\ r.generated_actions > 0 /\ r.gap > 0 /\ r.delay_armed
Ready(r)    == /\ ~r.cancelled /\ ~Complete(r) /\ ~Waiting(r) /\ ~AtDelay(r)
               /\ ~AtGap(r)
Over(r)     == r.cancelled \/ Complete(r)

\* poll takes a Delay: the next action waits that long.
AfterDelay(r) ==
  [r EXCEPT !.next_action = @ + 1, !.ready_in = r.actions[r.next_action + 1]]

AfterGapAdvanced(r) == [r EXCEPT !.next_action = @ + 1, !.ready_in = r.gap]
AfterGapArmed(r) == [r EXCEPT !.ready_in = r.gap]

\* poll owes the inter-action delay: it puts the action back and waits once.
AfterGap(r) == [r EXCEPT !.ready_in = r.gap, !.delay_armed = FALSE]

AfterReadyDisarmed(r) ==
  [r EXCEPT !.next_action = @ + 1, !.generated_actions = @ + 1, !.since = 0]

\* poll hands out a generated action and arms the next inter-action delay.
AfterReady(r) ==
  [r EXCEPT !.next_action = @ + 1, !.generated_actions = @ + 1,
            !.delay_armed = TRUE, !.since = 0]

\* MacroRunState::poll: the run after one poll.
Polled(r) == CASE AtDelay(r) -> AfterDelay(r)
               [] AtGap(r)   -> AfterGap(r)
               [] Ready(r)   -> AfterReady(r)
               [] OTHER      -> r

\* The run after `ms` more milliseconds.
Aged(r, ms) ==
  [r EXCEPT !.ready_in = IF @ > ms THEN @ - ms ELSE 0,
             !.since = IF @ + ms < MaxSince THEN @ + ms ELSE MaxSince]

-----------------------------------------------------------------------------
\* LiveMacroQueue::default
EmptyQueue == [runs |-> {}, active_triggers |-> {}, next_id |-> 0]

\* A request names its label, scope, macro and inter-action delay.
Accepts(q, request) == request.label \notin q.active_triggers

\* LiveMacroQueue::schedule: a busy label refuses the request.
Schedule(q, request) ==
  IF Accepts(q, request)
  THEN [runs |-> q.runs \cup {NewRun(q.next_id + 1, request.label, request.scoped,
                                     request.actions, request.gap)},
        active_triggers |-> q.active_triggers \cup {request.label},
        next_id |-> q.next_id + 1]
  ELSE q

Cancelled(r) == [r EXCEPT !.cancelled = TRUE]

CancelTrigger(q, label) ==
  [q EXCEPT !.runs = {IF r.label = label THEN Cancelled(r) ELSE r : r \in @}]

CancelProcessScoped(q) ==
  [q EXCEPT !.runs = {IF r.scoped THEN Cancelled(r) ELSE r : r \in @}]

Emitting(q) == {r \in q.runs : Ready(r)}

DriveKeepingTriggers(q) ==
  [q EXCEPT !.runs = {Polled(r) : r \in {x \in @ : ~Over(x)}},
            !.active_triggers = @ \ {r.label : r \in {x \in q.runs : Complete(x)}}]

\* LiveMacroQueue::drive_ready when every emission succeeds: each run is
\* polled once, and one that is over leaves the queue and frees its label.
Drive(q) ==
  [q EXCEPT !.runs = {Polled(r) : r \in {x \in @ : ~Over(x)}},
            !.active_triggers = @ \ {r.label : r \in {x \in q.runs : Over(x)}}]

\* LiveMacroQueue::next_wait_timeout: the runs that bound it (a run that is
\* over has no deadline), and the shortest of their waits.
Pending(q) == {r \in q.runs : ~Over(r)}
WaitTimeout(q, idle) ==
  IF Pending(q) = {} THEN idle
  ELSE CHOOSE t \in {r.ready_in : r \in Pending(q)} :
         \A r \in Pending(q) : t <= r.ready_in

AgedQueue(q, ms) == [q EXCEPT !.runs = {Aged(r, ms) : r \in @}]
=============================================================================
