---------------------------- MODULE ControllerLoop ---------------------------
(***************************************************************************)
(* The event loop of a live controller run                                 *)
(* (run_live_real_controller_lifecycle, runner.rs): shortcut callbacks,    *)
(* observed input, repeat ticks, waits and the shutdown signal, around the *)
(* callbacks of CallbackTasks.  Of the motion matcher it knows what        *)
(* MotionReports says, and of the KWin bridge what CallbackMailbox says.   *)
(*                                                                         *)
(* What the handler of an input offers to the scheduler, it offers one by  *)
(* one: `offers` is what it still has to offer.  State trackers, developer *)
(* hotkeys and the grab are left out.                                      *)
(***************************************************************************)
EXTENDS CallbackTasks, MotionReports, SequencesExt

CONSTANTS
  Hotkeys,       \* the hotkey registrations, each named by its hotkey
  Presses,       \* the press registrations, each named by its token
  Scoped,        \* the registrations with a process scope
  LoopCallbacks, \* motion with a loop policy -> its callbacks besides "repeat"
  RepeatOrder,   \* the motions with a loop policy, in the order of their ticks
  Interval,      \* motion with a loop policy -> repeat_every_ms
  Capacity       \* CALLBACK_QUEUE_LIMIT

ASSUME ControllerAssumption ==
  /\ Registration = Hotkeys \cup Presses \cup Motion /\ IsFiniteSet(Registration)
  /\ Looping \subseteq Motion /\ Scoped \subseteq Registration
  /\ LoopCallbacks \in [Looping -> SUBSET {"before", "after"}]
  /\ RepeatOrder \in Seq(Looping)
  /\ Interval \in [Looping -> Nat \ {0}]
  /\ Capacity \in Nat

VARIABLES
  pc,           \* where the loop stands
  then,         \* where it goes on after the drain of the callbacks
  tick,         \* in the repeat phase: the entry of RepeatOrder to look at
  offers,       \* what the handler still has to offer to the scheduler
  active_loops, \* the motions whose loop runs (MotionRuntime)
  last_tick,    \* last_repeat_ticks, as the ms since; "none" counts as due
  focused,      \* does the cached focus context, at its age, match the scope
  callbacks,    \* the KWin callbacks not yet popped
  wake,         \* the callback wake fd is readable
  signalled,    \* a shutdown signal is pending
  calm          \* history: the time since the loop last repeated or was last
                \* started, capped; a start that was swallowed owes no interval

inbox == <<callbacks, wake>>
place == <<pc, then, tick>>
vars == <<tasks, place, offers, active_loops, last_tick, focused, inbox, signalled, calm>>

NoHotkey == "heartbeat"
Shortcut == [hotkey : Hotkeys \cup {NoHotkey}, focused : BOOLEAN]

Mailbox == INSTANCE CallbackMailbox WITH Message <- Shortcut

Offer(label, callback) == [label |-> label, callback |-> callback]

-----------------------------------------------------------------------------
(* What the handlers offer. *)

Allowed(label, in_focus) == label \in Scoped => in_focus

\* schedule_controller_callback_name: the scope is asked, then the scheduler.
Ask(label, callback, in_focus) ==
  IF Allowed(label, in_focus) THEN Schedule(label, callback) ELSE UNCHANGED tasks

OfferNext ==
  /\ offers # <<>>
  /\ offers' = Tail(offers)
  /\ Ask(Head(offers).label, Head(offers).callback, focused)
  /\ UNCHANGED <<place, active_loops, last_tick, focused, inbox, signalled, calm>>

\* The callbacks of a motion's loop policy, of one kind.
Of(m, kind) == IF kind \in LoopCallbacks[m] THEN <<Offer(m, kind)>> ELSE <<>>

\* The Triggered arm of handle_live_controller_observed_input.
Triggered(report) ==
  IF report.triggered = {} THEN <<>>
  ELSE LET m == CHOOSE x \in report.triggered : TRUE
       IN  IF report.starts_loop THEN Of(m, "before")
           ELSE IF m \in Looping THEN <<>> ELSE <<Offer(m, "main")>>

\* The LoopCancelled arm, with the loops in any order.
Cancelled(ended) ==
  SetToSeqs({Offer(m, "after") : m \in {x \in ended : "after" \in LoopCallbacks[x]}})

-----------------------------------------------------------------------------
(* The loop. *)

Draining == pc \in {"shortcuts", "shortcuts_wake"}

\* drain_live_controller_shortcut_callbacks pops one callback; its focus
\* context is the one in force from here on.
PopShortcut ==
  /\ Draining /\ Mailbox!Take
  /\ focused' = Head(callbacks).focused
  /\ IF Head(callbacks).hotkey \in Hotkeys
     THEN Ask(Head(callbacks).hotkey, "main", focused') ELSE UNCHANGED tasks
  /\ UNCHANGED <<place, offers, active_loops, last_tick, signalled, calm>>

\* From the top of the loop on to the callbacks, from a wait on to the input.
FinishShortcuts ==
  /\ Draining /\ callbacks = <<>>
  /\ \/ /\ pc = "shortcuts"
        /\ pc' = "callbacks" /\ then' = "wait" /\ StartDrain
     \/ /\ pc = "shortcuts_wake"
        /\ pc' = "inputs" /\ UNCHANGED <<then, tasks>>
  /\ UNCHANGED <<tick, offers, active_loops, last_tick, focused, inbox, signalled, calm>>

\* drain_controller_callbacks, around the callbacks it runs.
DrainTasks ==
  /\ pc = "callbacks"
  /\ \/ (ResumeFirst \/ NoneReady \/ StartNext) /\ UNCHANGED place
     \/ EndDrain /\ pc' = then /\ tick' = 1 /\ UNCHANGED then
  /\ UNCHANGED <<offers, active_loops, last_tick, focused, inbox, signalled, calm>>

Since(ms) == [m \in Looping |-> IF last_tick[m] + ms < Interval[m] THEN last_tick[m] + ms
                                ELSE Interval[m]]
CalmFor(ms) == [m \in Looping |-> IF calm[m] + ms < Interval[m] THEN calm[m] + ms
                                  ELSE Interval[m]]

\* Time goes on, and the focus context may become stale in it.
Lasts(ms) ==
  /\ last_tick' = Since(ms) /\ calm' = CalmFor(ms)
  /\ focused' \in {focused, FALSE}

\* Lua runs, until the callback returns, sleeps, is stopped or asks the host.
RunTask ==
  /\ pc = "callbacks"
  /\ \E slice \in Slices :
       \/ Finish(slice) /\ Lasts(slice)
       \/ \E ms \in Sleeps : Sleep(slice, ms) /\ Lasts(slice)
       \/ \E wait \in Waits : HostRequest(slice, wait) /\ Lasts(slice + wait)
  /\ UNCHANGED <<place, offers, active_loops, inbox, signalled>>

\* A Lua error, or a host request that is denied or fails: it ends the runner.
TaskFails ==
  /\ pc = "callbacks" /\ running # <<>>
  /\ pc' = "failed"
  /\ UNCHANGED <<tasks, then, tick, offers, active_loops, last_tick, focused, inbox,
                 signalled, calm>>

DueInIgnoringLast(m) == Interval[m]
DueIn(m) == Interval[m] - last_tick[m]

\* What bounds the wait: the running loops' ticks and the sleepers; with none
\* it is the idle timeout of 300 s.
Deadlines ==
  {DueIn(m) : m \in active_loops} \cup {continuations[i].ready_in : i \in DOMAIN continuations}

WakeByTimer ==
  /\ pc = "wait"
  /\ Deadlines = {} \/ 0 \in Deadlines
  /\ pc' = "inputs"
  /\ UNCHANGED <<tasks, then, tick, offers, active_loops, last_tick, focused, inbox,
                 signalled, calm>>

\* The callback fd; of the runtime fds the signal fd is looked at first.
WakeByCallback ==
  /\ pc = "wait" /\ ~signalled /\ Mailbox!Acknowledge
  /\ pc' = "shortcuts_wake"
  /\ UNCHANGED <<tasks, then, tick, offers, active_loops, last_tick, focused, signalled, calm>>

WakeBySignalIdle ==
  /\ pc = "wait" /\ signalled /\ continuations = <<>>
  /\ CancelAll /\ pc' = "ended"
  /\ UNCHANGED <<then, tick, offers, active_loops, last_tick, focused, inbox, signalled, calm>>

\* The signal fd: what is pending or asleep is cancelled, and the runner ends.
WakeBySignal ==
  /\ pc = "wait" /\ signalled
  /\ CancelAll /\ pc' = "ended"
  /\ UNCHANGED <<then, tick, offers, active_loops, last_tick, focused, inbox, signalled, calm>>

Reading == pc \in {"wait", "inputs"} /\ offers = <<>>

\* A press: the press registration is offered before what the motion reports.
InputPressed ==
  /\ Reading
  /\ \E report \in PressReports(active_loops), pressed \in {{}} \cup {{p} : p \in Presses} :
       LET started == {m \in report.triggered : report.starts_loop} IN
       /\ active_loops' = LoopsAfter(active_loops, report)
       /\ last_tick' = [m \in Looping |-> IF m \in started THEN 0 ELSE last_tick[m]]
       /\ calm' = [m \in Looping |-> IF m \in started THEN 0 ELSE calm[m]]
       /\ offers' = (IF pressed = {} THEN <<>>
                     ELSE <<Offer(CHOOSE p \in pressed : TRUE, "main")>>) \o Triggered(report)
  /\ pc' = "inputs"
  /\ UNCHANGED <<tasks, then, tick, focused, inbox, signalled>>

\* A press that an overlay's toggle takes: what the motion reports is dropped.
InputToggles ==
  /\ Reading
  /\ \E report \in PressReports(active_loops) :
       active_loops' = LoopsAfter(active_loops, report)
  /\ calm' = [m \in Looping |-> IF m \in active_loops' \ active_loops THEN Interval[m]
                                ELSE calm[m]]
  /\ pc' = "inputs"
  /\ UNCHANGED <<tasks, then, tick, offers, last_tick, focused, inbox, signalled>>

InputReleased ==
  /\ Reading
  /\ \E report \in ReleaseReports(active_loops) :
       /\ active_loops' = LoopsAfter(active_loops, report)
       /\ last_tick' = [m \in Looping |-> IF m \in report.ended THEN Interval[m]
                                          ELSE last_tick[m]]
       /\ offers' \in Cancelled(report.ended)
  /\ pc' = "inputs"
  /\ UNCHANGED <<tasks, then, tick, focused, inbox, signalled, calm>>

\* No more input to read: the callbacks run, and the repeats come next.
FinishInputs ==
  /\ pc = "inputs" /\ offers = <<>>
  /\ pc' = "callbacks" /\ then' = "repeats" /\ StartDrain
  /\ UNCHANGED <<tick, offers, active_loops, last_tick, focused, inbox, signalled, calm>>

\* One entry of repeat_ticks.
LookAtRepeat ==
  /\ pc = "repeats" /\ tick <= Len(RepeatOrder)
  /\ tick' = tick + 1
  /\ LET m == RepeatOrder[tick] IN
     \/ /\ m \notin active_loops
        /\ last_tick' = [last_tick EXCEPT ![m] = Interval[m]]
        /\ UNCHANGED <<tasks, calm>>
     \/ /\ m \in active_loops /\ last_tick[m] >= Interval[m]
        /\ Ask(m, "repeat", focused)
        /\ last_tick' = [last_tick EXCEPT ![m] = 0]
        /\ calm' = IF pending' = pending THEN calm ELSE [calm EXCEPT ![m] = 0]
     \/ /\ m \in active_loops /\ last_tick[m] < Interval[m]
        /\ UNCHANGED <<tasks, last_tick, calm>>
  /\ UNCHANGED <<pc, then, offers, active_loops, focused, inbox, signalled>>

FinishRepeats ==
  /\ pc = "repeats" /\ tick > Len(RepeatOrder)
  /\ pc' = "callbacks" /\ then' = "shortcuts" /\ StartDrain
  /\ UNCHANGED <<tick, offers, active_loops, last_tick, focused, inbox, signalled, calm>>

-----------------------------------------------------------------------------
(* The world outside the loop. *)

Running == pc \notin {"ended", "failed"}

KwinCalls ==
  /\ Running /\ Mailbox!Post
  /\ UNCHANGED <<tasks, place, offers, active_loops, last_tick, focused, signalled, calm>>

Signal ==
  /\ Running /\ ~signalled
  /\ signalled' = TRUE
  /\ UNCHANGED <<tasks, place, offers, active_loops, last_tick, focused, inbox, calm>>

\* A unit of time passes in a wait, or in the rest of an iteration.
Time ==
  /\ \/ pc = "wait" /\ 0 \notin Deadlines
     \/ pc = "shortcuts"
  /\ Age /\ Lasts(1)
  /\ UNCHANGED <<place, offers, active_loops, inbox, signalled>>

Init ==
  /\ TaskInit
  /\ pc = "shortcuts" /\ then = "wait" /\ tick = 1
  /\ offers = <<>> /\ active_loops = {}
  /\ last_tick = Interval
  /\ focused = FALSE
  /\ callbacks = <<>> /\ wake = FALSE
  /\ signalled = FALSE
  /\ calm = Interval

Loop ==
  \/ OfferNext \/ PopShortcut \/ FinishShortcuts \/ DrainTasks \/ RunTask \/ TaskFails
  \/ FinishInputs \/ LookAtRepeat \/ FinishRepeats

Wakes == WakeByTimer \/ WakeByCallback \/ WakeBySignal
Input == InputPressed \/ InputToggles \/ InputReleased

Next == Loop \/ Wakes \/ Input \/ KwinCalls \/ Signal \/ Time

Stopped == ~Running /\ UNCHANGED vars

\* The thread runs on, input and callbacks come in bursts that end, iterations
\* and waits take time, and a signal is seen at some wait that no input cuts short.
Fairness ==
  /\ WF_vars(Loop) /\ WF_vars(WakeByTimer) /\ WF_vars(WakeByCallback)
  /\ SF_vars(FinishShortcuts) /\ SF_vars(FinishInputs) /\ SF_vars(WakeBySignal) /\ SF_vars(Time)

Spec == Init /\ [][Next \/ Stopped]_vars
FairSpec == Spec /\ Fairness

-----------------------------------------------------------------------------
(* Properties.  OneTaskPerLabel and BudgetKept, of CallbackTasks, are checked *)
(* here of the callbacks that the loop really makes.                          *)

Place == {"shortcuts", "shortcuts_wake", "callbacks", "wait", "inputs", "repeats",
          "ended", "failed"}

\* Every variable has the shape the runner gives it; the scheduler keeps its limit.
TypeOK ==
  /\ TaskTypeOK
  /\ pc \in Place /\ then \in {"wait", "repeats", "shortcuts"}
  /\ tick \in 1..(Len(RepeatOrder) + 1)
  /\ \A i \in DOMAIN offers : offers[i].label \in Registration /\ offers[i].callback \in Callback
  /\ active_loops \subseteq Looping
  /\ \A m \in Looping : last_tick[m] \in 0..Interval[m]
  /\ focused \in BOOLEAN /\ wake \in BOOLEAN /\ signalled \in BOOLEAN
  /\ callbacks \in Seq(Shortcut)

\* What holds in every state: the shape, and what CallbackTasks promises.
Inv == TypeOK /\ OneTaskPerLabel /\ BudgetKept

\* The loop never sleeps past work: while it waits and time passes, no accepted
\* callback is left to start, no sleeper is ready and no running loop is due,
\* although callbacks are accepted at three places and drained at three others
\* (next_live_wait_timeout, ControllerCallbackContinuations::next_wait_timeout).
NeverSleepsPastWork ==
  [][pc = "wait" /\ Time
       => /\ pending = <<>> /\ running = <<>> /\ Ready = {}
          /\ \A m \in active_loops : last_tick[m] < Interval[m]]_vars

AcceptedRepeats ==
  {m \in Looping : /\ Len(pending') > Len(pending)
                   /\ pending'[Len(pending')].label = m
                   /\ pending'[Len(pending')].callback = "repeat"}

\* A repeat callback is accepted at least repeat_every_ms after the loop's last
\* one and after its last start: ticks missed while callbacks kept the thread, or
\* refused because the label was busy or out of focus, are not made up for, and
\* letting go and pressing again does not hurry it (specs/010 FR-006).  Only a
\* loop whose start an overlay's toggle swallowed may repeat at once.
RepeatsKeepTheirInterval == [][\A m \in AcceptedRepeats : calm[m] >= Interval[m]]_vars

\* Neither late nor hurried: both of the above.
TimeIsKept == NeverSleepsPastWork /\ RepeatsKeepTheirInterval

\* specs/016 FR-014 and FR-015, specs/020 FR-002: every accepted callback ends and
\* frees its label, however it sleeps and yields, unless the runner stops.
EveryCallbackEnds ==
  \A label \in Registration :
    label \in active_or_pending ~> (label \notin active_or_pending \/ ~Running)

\* specs/020 FR-003: a pending signal stops the runner, whatever callbacks run,
\* sleep or repeat.
SignalStopsTheRunner == signalled ~> ~Running

=============================================================================
