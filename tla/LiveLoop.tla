------------------------------ MODULE LiveLoop -------------------------------
(***************************************************************************)
(* The event loop of a live declarative run (run_live_real_lifecycle,      *)
(* runner.rs): shortcut callbacks, observed input, repeat ticks, scoped    *)
(* focus and the shutdown signal, around one macro queue.  Of the motion   *)
(* matcher it knows what MotionReports says, and of the KWin bridge what   *)
(* CallbackMailbox promises.                                               *)
(*                                                                         *)
(* The loop is one thread: an action is a stretch of it in which no        *)
(* callback, input, signal or time can come between.  One scope covers the *)
(* whole script.  The ids of runs are not told apart: a label names a run. *)
(* A definition named after another one with a suffix is a faulty version  *)
(* of it, for the properties to refute.                                    *)
(***************************************************************************)
EXTENDS MacroRuns, MotionReports

CONSTANTS
  Binding,       \* hotkey bindings, each named by its hotkey
  Presses,       \* press definitions, each named by its token
  RepeatOrder,   \* the motions with a repeat loop, in the script's order
  Interval,      \* repeat motion -> every_ms
  MacroOf,       \* <<what, kind>> label -> the macro it plays, where it has one
  Gap,           \* inter_action_delay_ms
  Scoped,        \* FALSE when the run was confirmed as global
  Capacity       \* CALLBACK_QUEUE_LIMIT

Repeating == {RepeatOrder[i] : i \in DOMAIN RepeatOrder}

Kind == {"binding", "press", "motion", "loop_once", "loop_before", "repeat", "loop_after"}
Label == (Binding \cup Presses \cup Motion) \X Kind

ASSUME LiveLoopAssumption ==
  /\ Looping \subseteq Motion
  /\ RepeatOrder \in Seq(Looping)
  /\ Interval \in [Repeating -> Nat \ {0}]
  /\ DOMAIN MacroOf \subseteq Label
  /\ \A l \in DOMAIN MacroOf : MacroOf[l] \in Seq(Nat) \ {<<>>}
  /\ Gap \in Nat /\ Scoped \in BOOLEAN /\ Capacity \in Nat

VARIABLES
  pc,           \* where the loop stands
  tick,         \* in the repeat phase: the entry of RepeatOrder to look at
  queue,        \* the LiveMacroQueue
  tracker,      \* the ScopedFocusTracker
  active_loops, \* the motions whose loop runs (MotionRuntime)
  last_tick,    \* last_repeat_ticks, as the ms since; `never` counts as due
  focused,      \* does the cached focus context, at its age, match the scope
  callbacks,    \* the KWin callbacks not yet popped
  wake,         \* the callback wake fd is readable
  signalled,    \* a shutdown signal is pending
  released,     \* history: the loops last ended by a release
  calm          \* history: the ms since the loop last repeated, capped; a repeat
                \* phase that finds the loop off lifts it to the interval

machine == <<queue, tracker, active_loops>>
inbox == <<callbacks, wake>>
history == <<released, calm>>
vars == <<pc, tick, machine, last_tick, focused, inbox, signalled, history>>

NoHotkey == "heartbeat"
Callback == [hotkey : Binding \cup {NoHotkey}, focused : BOOLEAN]

Mailbox == INSTANCE CallbackMailbox WITH Message <- Callback

-----------------------------------------------------------------------------
(* The runner's functions, on a record of what they may change. *)

Now == [queue |-> queue, tracker |-> tracker, active_loops |-> active_loops]

Become(s) ==
  /\ queue' = s.queue
  /\ tracker' = s.tracker
  /\ active_loops' = s.active_loops

Request(label) ==
  [label |-> label, scoped |-> Scoped, actions |-> MacroOf[label], gap |-> Gap]

\* LiveMacroQueue::schedule for a label that has a macro.
Begin(s, label) ==
  IF label \in DOMAIN MacroOf
  THEN [s EXCEPT !.queue = [Schedule(@, Request(label)) EXCEPT !.next_id = 0]]
  ELSE s

Allowed(in_focus) == ~Scoped \/ in_focus

\* ScopedFocusTracker::observe finds that the scope lost its focus.
LosesFocus(s, in_focus) == Scoped /\ s.tracker.active = "active" /\ ~in_focus

ObserveQuietly(s, in_focus) ==
  IF ~Scoped THEN s
  ELSE [s EXCEPT !.tracker.active = IF in_focus THEN "active" ELSE "inactive",
                 !.tracker.deactivated = @ \/ LosesFocus(s, in_focus)]

\* observe, and the cancel_process_scoped that every caller adds to a loss.
Observe(s, in_focus) ==
  IF ~Scoped THEN s
  ELSE [s EXCEPT !.tracker.active = IF in_focus THEN "active" ELSE "inactive",
                 !.tracker.deactivated = @ \/ LosesFocus(s, in_focus),
                 !.queue = IF LosesFocus(s, in_focus) THEN CancelProcessScoped(@) ELSE @]

\* schedule_live_motion_loop_after for each loop that ended: those whose `after`
\* has a macro and is not still playing.
BeginAfters(s, ended) ==
  LET afters == ({<<m, "loop_after">> : m \in ended} \cap DOMAIN MacroOf)
                  \ s.queue.active_triggers
  IN  [s EXCEPT !.queue.runs = @ \cup {NewRun(1, l, Scoped, MacroOf[l], Gap) : l \in afters},
                !.queue.active_triggers = @ \cup afters]

\* take_deactivation and, on a loss, cancel_active_loops.
TakeDeactivation(s) ==
  IF s.tracker.deactivated
  THEN BeginAfters([s EXCEPT !.tracker.deactivated = FALSE, !.active_loops = {}],
                   s.active_loops)
  ELSE s

\* schedule_live_binding, schedule_live_press: observe, decide, schedule.
BeginInFocus(s, label, in_focus) ==
  IF Allowed(in_focus) THEN Begin(Observe(s, in_focus), label) ELSE Observe(s, in_focus)

\* schedule_live_motion_trigger with schedule_live_motion_loop_start.
BeginMotion(s, m, starts_loop, in_focus) ==
  LET played == BeginInFocus(s, <<m, "motion">>, in_focus)
      opening == IF m \in Repeating THEN "loop_before" ELSE "loop_once"
  IN  IF Allowed(in_focus) /\ starts_loop THEN Begin(played, <<m, opening>>) ELSE played

LoopWork(m) == {<<m, "repeat">>, <<m, "loop_before">>, <<m, "loop_once">>}

\* cancel_repeat and cancel_trigger for the work of each ended loop.
CancelLoopWork(s, ended) ==
  [s EXCEPT !.queue.runs = {IF \E m \in ended : r.label \in LoopWork(m)
                            THEN Cancelled(r) ELSE r : r \in @}]

\* The LoopCancelled arm of schedule_live_motion_runtime_event, for each loop.
EndLoops(s, ended) == BeginAfters(CancelLoopWork(s, ended), ended)

Busy(s, label) == label \in s.queue.active_triggers

\* schedule_live_motion_repeat_tick: the scope is not looked at while the
\* loop's `before` or its last repeat is still queued.
BeginRepeat(s, m) ==
  IF Busy(s, <<m, "loop_before">>) \/ Busy(s, <<m, "repeat">>) THEN s
  ELSE BeginInFocus(s, <<m, "repeat">>, focused)

-----------------------------------------------------------------------------
(* History, kept by every action that may change the loops or schedule. *)

Begun(label) ==
  \E r \in queue'.runs \ queue.runs : r.label = label /\ r.next_action = 0

\* `report` is what the matcher reported in this step.
Record(report) ==
  /\ released' = (released \cup report.ended)
                   \ (IF report.starts_loop THEN report.triggered ELSE {})
  /\ calm' = [m \in Repeating |-> IF Begun(<<m, "repeat">>) THEN 0 ELSE calm[m]]

-----------------------------------------------------------------------------
(* The loop. *)

\* A polling pass, after which the loop stands at `then`; or the pass in which
\* an emission is refused, which ends the runner with an error.
DriveReady(s, then) ==
  /\ tracker' = s.tracker /\ active_loops' = s.active_loops
  /\ \/ queue' = Drive(s.queue) /\ pc' = then
     \/ Emitting(s.queue) # {} /\ queue' = EmptyQueue /\ pc' = "failed"

\* The top of the loop.
Turn ==
  /\ pc = "top"
  /\ DriveReady(Now, "drain")
  /\ UNCHANGED <<tick, last_tick, focused, inbox, signalled, history>>

Draining == pc \in {"drain", "drain_wake"}

\* drain_live_shortcut_callbacks pops one callback: its focus context is the
\* one in force from here on, and its hotkey may be a binding's.
PopCallback ==
  /\ Draining /\ Mailbox!Take
  /\ focused' = Head(callbacks).focused
  /\ IF Head(callbacks).hotkey \in Binding
     THEN Become(BeginInFocus(Now, <<Head(callbacks).hotkey, "binding">>, focused'))
     ELSE UNCHANGED machine
  /\ Record(Nothing)
  /\ UNCHANGED <<pc, tick, last_tick, signalled>>

FinishDrain ==
  /\ Draining /\ callbacks = <<>>
  /\ pc' = IF pc = "drain" THEN "wait" ELSE "inputs"
  /\ UNCHANGED <<tick, machine, last_tick, focused, inbox, signalled, history>>

DueInIgnoringLast(m) == Interval[m]

\* next_live_wait_timeout: how long until a running repeat loop is due.
DueIn(m) == IF last_tick[m] < Interval[m] THEN Interval[m] - last_tick[m] ELSE 0

\* What bounds the wait; with no deadline it is the idle timeout of 300 s.
Deadlines ==
  {r.ready_in : r \in Pending(queue)} \cup {DueIn(m) : m \in active_loops \cap Repeating}

\* The timer fd, the poll timeout, or the idle timeout.
WakeByTimer ==
  /\ pc = "wait"
  /\ Deadlines = {} \/ 0 \in Deadlines
  /\ pc' = "inputs"
  /\ UNCHANGED <<tick, machine, last_tick, focused, inbox, signalled, history>>

\* The callback fd; of the runtime fds the signal fd is looked at first.
WakeByCallback ==
  /\ pc = "wait" /\ ~signalled /\ Mailbox!Acknowledge
  /\ pc' = "drain_wake"
  /\ UNCHANGED <<tick, machine, last_tick, focused, signalled, history>>

WakeBySignalIdle ==
  /\ pc = "wait" /\ signalled /\ active_loops = {}
  /\ DriveReady(Now, "ended")
  /\ UNCHANGED <<tick, last_tick, focused, inbox, signalled, history>>

\* The signal fd: the loops are cancelled, their `after` macros scheduled, and
\* the queue is polled once more.
WakeBySignal ==
  /\ pc = "wait" /\ signalled
  /\ DriveReady(BeginAfters([Now EXCEPT !.active_loops = {}], active_loops), "ended")
  /\ UNCHANGED <<tick, last_tick, focused, inbox, signalled, history>>

\* handle_observed_motion_input for a press: the matcher has changed its loops
\* before the press definition, and then the motion, are acted on.
InputPressed ==
  /\ pc \in {"wait", "inputs"}
  /\ \E report \in PressReports(active_loops), pressed \in {{}} \cup {{p} : p \in Presses} :
       LET matched == [Now EXCEPT !.active_loops = LoopsAfter(@, report)]
           press   == IF pressed = {} THEN matched
                      ELSE TakeDeactivation(BeginInFocus(
                             matched, <<CHOOSE p \in pressed : TRUE, "press">>, focused))
           motion  == IF report.triggered = {} THEN press
                      ELSE TakeDeactivation(BeginMotion(
                             press, CHOOSE m \in report.triggered : TRUE,
                             report.starts_loop, focused))
       IN  Become(motion) /\ Record(report)
  /\ pc' = "inputs"
  /\ UNCHANGED <<tick, last_tick, focused, inbox, signalled>>

InputReleasedForgetting ==
  /\ pc \in {"wait", "inputs"}
  /\ \E report \in ReleaseReports(active_loops) :
       LET matched == [Now EXCEPT !.active_loops = LoopsAfter(@, report)]
       IN  /\ Become(IF report.ended = {} THEN matched
                     ELSE TakeDeactivation(EndLoops(matched, report.ended)))
           /\ Record(report)
           /\ last_tick' = [m \in Repeating |-> IF m \in report.ended THEN Interval[m]
                                                ELSE last_tick[m]]
  /\ pc' = "inputs"
  /\ UNCHANGED <<tick, focused, inbox, signalled>>

\* handle_observed_motion_input for a release.
InputReleased ==
  /\ pc \in {"wait", "inputs"}
  /\ \E report \in ReleaseReports(active_loops) :
       LET matched == [Now EXCEPT !.active_loops = LoopsAfter(@, report)]
       IN  /\ Become(IF report.ended = {} THEN matched
                     ELSE TakeDeactivation(EndLoops(matched, report.ended)))
           /\ Record(report)
  /\ pc' = "inputs"
  /\ UNCHANGED <<tick, last_tick, focused, inbox, signalled>>

\* No more input to read: the queue is polled, and the repeats come next.
FinishInputs ==
  /\ pc = "inputs"
  /\ DriveReady(Now, "repeats")
  /\ tick' = 1
  /\ UNCHANGED <<last_tick, focused, inbox, signalled, history>>

Ticked(m) == [last_tick EXCEPT ![m] = 0]

\* One entry of repeat_ticks.
LookAtRepeat ==
  /\ pc = "repeats" /\ tick <= Len(RepeatOrder)
  /\ tick' = tick + 1
  /\ LET m == RepeatOrder[tick] IN
     \/ /\ m \notin active_loops
        /\ last_tick' = [last_tick EXCEPT ![m] = Interval[m]]
        /\ calm' = [calm EXCEPT ![m] = Interval[m]]
        /\ UNCHANGED <<machine, released>>
     \/ /\ m \in active_loops /\ last_tick[m] >= Interval[m]
        /\ Become(TakeDeactivation(BeginRepeat(Now, m)))
        /\ last_tick' = Ticked(m)
        /\ Record(Nothing)
     \/ /\ m \in active_loops /\ last_tick[m] < Interval[m]
        /\ UNCHANGED <<last_tick, machine, history>>
  /\ UNCHANGED <<pc, focused, inbox, signalled>>

FinishRepeats ==
  /\ pc = "repeats" /\ tick > Len(RepeatOrder)
  /\ DriveReady(Now, "top")
  /\ tick' = 1
  /\ UNCHANGED <<last_tick, focused, inbox, signalled, history>>

-----------------------------------------------------------------------------
(* The world outside the loop. *)

Running == pc \notin {"ended", "failed"}

\* A callback reaches the bridge.
KwinCalls ==
  /\ Running /\ Mailbox!Post
  /\ UNCHANGED <<pc, tick, machine, last_tick, focused, signalled, history>>

Signal ==
  /\ Running /\ ~signalled
  /\ signalled' = TRUE
  /\ UNCHANGED <<pc, tick, machine, last_tick, focused, inbox, history>>

\* A millisecond passes, in a wait or in the work of an iteration; the focus
\* context may become stale in it.
Time ==
  /\ pc = "top" \/ (pc = "wait" /\ 0 \notin Deadlines)
  /\ queue' = AgedQueue(queue, 1)
  /\ last_tick' = [m \in Repeating |-> IF last_tick[m] < Interval[m] THEN last_tick[m] + 1
                                       ELSE last_tick[m]]
  /\ calm' = [m \in Repeating |-> IF calm[m] < Interval[m] THEN calm[m] + 1 ELSE calm[m]]
  /\ focused' \in {focused, FALSE}
  /\ UNCHANGED <<pc, tick, tracker, active_loops, inbox, signalled, released>>

Init ==
  /\ pc = "top" /\ tick = 1
  /\ queue = EmptyQueue
  /\ tracker = [active |-> "unknown", deactivated |-> FALSE]
  /\ active_loops = {}
  /\ last_tick = Interval
  /\ focused = FALSE
  /\ callbacks = <<>> /\ wake = FALSE
  /\ signalled = FALSE
  /\ released = {} /\ calm = Interval

Loop ==
  \/ Turn \/ PopCallback \/ FinishDrain
  \/ FinishInputs \/ LookAtRepeat \/ FinishRepeats

Wakes == WakeByTimer \/ WakeByCallback \/ WakeBySignal
Input == InputPressed \/ InputReleased

Next == Loop \/ Wakes \/ Input \/ KwinCalls \/ Signal \/ Time

Stopped == ~Running /\ UNCHANGED vars

\* The thread runs on, input and callbacks come in bursts that end, iterations
\* and waits take time, and a signal is seen at some wait that no input cuts short.
Fairness ==
  /\ WF_vars(Loop) /\ WF_vars(WakeByTimer) /\ WF_vars(WakeByCallback)
  /\ SF_vars(FinishDrain) /\ SF_vars(WakeBySignal) /\ SF_vars(Time)

Spec == Init /\ [][Next \/ Stopped]_vars
FairSpec == Spec /\ Fairness

-----------------------------------------------------------------------------
(* Properties *)

Place == {"top", "drain", "wait", "drain_wake", "inputs", "repeats", "ended", "failed"}

\* Every variable has the shape the runner gives it.
TypeOK ==
  /\ pc \in Place /\ tick \in 1..(Len(RepeatOrder) + 1)
  /\ \A r \in queue.runs : r.label \in DOMAIN MacroOf /\ r.next_action <= Len(r.actions)
  /\ queue.active_triggers = {r.label : r \in queue.runs}
  /\ tracker \in [active : {"unknown", "active", "inactive"}, deactivated : BOOLEAN]
  /\ active_loops \subseteq Looping
  /\ \A m \in Repeating : last_tick[m] \in 0..Interval[m]
  /\ focused \in BOOLEAN /\ wake \in BOOLEAN /\ signalled \in BOOLEAN
  /\ callbacks \in Seq(Callback)

Alive(label) == \E r \in queue.runs : r.label = label /\ ~r.cancelled

\* Once a release has ended a loop, nothing of the loop's own work is left to
\* play or can be scheduled until the motion starts the loop again, although a
\* repeat, a `before` or a tick may have been under way (specs/010 FR-005).
ReleasedLoopsSilent ==
  \A m \in released : \A label \in LoopWork(m) : ~Alive(label)

\* From the moment the runner has seen the scope lose focus until it sees it
\* regained, nothing of the script is left to play but `after` macros, whatever
\* hotkey, press, motion or tick comes in between (specs/015 FR-007).
InactiveScopeSilent ==
  tracker.active = "inactive" =>
    \A label \in DOMAIN MacroOf : label[2] # "loop_after" => ~Alive(label)

\* What holds in every state of the loop: its shape, and both silences.
Inv == TypeOK /\ ReleasedLoopsSilent /\ InactiveScopeSilent

\* A repeat is scheduled for a running loop only, and at least every_ms after
\* the loop's last one: ticks missed while output was pending, or the thread
\* asleep, are not made up for, and a loop let go and held again between two
\* repeat phases is not hurried.  Only a phase that finds the loop off lets the
\* next one repeat at once (last_repeat_ticks of run_live_real_lifecycle).
RepeatsKeepTheirInterval ==
  [][\A m \in Repeating :
       Begun(<<m, "repeat">>) => m \in active_loops /\ calm[m] >= Interval[m]]_vars

\* The loop never sleeps past work: while time passes no run is ready and no
\* running repeat loop is due (next_live_wait_timeout and next_wait_timeout
\* against the tests that drive_ready and the repeat phase make).
NeverSleepsPastWork ==
  [][pc = "wait" /\ Time
       => /\ \A r \in queue.runs : ~Ready(r) /\ ~AtDelay(r) /\ ~AtGap(r)
          /\ \A m \in active_loops \cap Repeating : last_tick[m] < Interval[m]]_vars

\* A pending signal stops the runner, however long its macros and loops go on.
SignalStopsTheRunner == signalled ~> ~Running

=============================================================================
