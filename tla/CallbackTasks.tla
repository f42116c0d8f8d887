---------------------------- MODULE CallbackTasks ----------------------------
(***************************************************************************)
(* The callbacks of a Lua controller: the scheduler that accepts them      *)
(* (LuaCallbackScheduler, controller.rs), the coroutines that sleep        *)
(* (ControllerCallbackContinuations, runner/controller.rs), and the drain  *)
(* that resumes and starts them one at a time, each within its budget.     *)
(* ControllerLoop, the runner's event loop, extends this module; TaskSpec  *)
(* is what any loop may do with the callbacks, in whatever order.          *)
(*                                                                         *)
(* A registration is named by its label (kind and trigger).  The unit of   *)
(* time is so small that resuming Lua takes at least one.  A definition    *)
(* named after another one with a suffix is a faulty version of it, for    *)
(* the properties to refute.                                               *)
(***************************************************************************)
EXTENDS Naturals, Sequences

CONSTANTS
  Registration,  \* the labels of the controller's registrations
  MaxPending,    \* the scheduler's capacity
  Budget,        \* DEFAULT_LUA_CALLBACK_BUDGET
  Slices,        \* how long Lua may run before it yields, returns or is stopped
  Sleeps,        \* the durations given to sa.sleep
  Waits          \* how long a host request may keep the thread

ASSUME TaskAssumption ==
  /\ MaxPending \in Nat \ {0} /\ Budget \in Nat \ {0}
  /\ Slices \subseteq Nat \ {0} /\ Sleeps \subseteq Nat /\ Waits \subseteq Nat

VARIABLES
  pending,            \* the tasks accepted and not yet started
  active_or_pending,  \* the labels that accept no further task
  continuations,      \* the tasks that sleep, with ready_in = ready_at - now
  running,            \* <<>>, or the one task that runs
  stage               \* the drain: at "rest", in its "resume" or its "start" loop

tasks == <<pending, active_or_pending, continuations, running, stage>>

\* A registration's own callback, or one of its loop policy's.
Callback == {"main", "before", "repeat", "after"}

\* `elapsed` is what the code adds up; `spent`, history, what Lua really took.
Task == [label : Registration, callback : Callback, elapsed : Nat, spent : Nat]
Sleeper == [task : Task, ready_in : Nat]

-----------------------------------------------------------------------------
(* LuaCallbackScheduler and the tasks that sleep. *)

\* Room in the queue, and a label that is not busy.
Accepts(label) == label \notin active_or_pending /\ Len(pending) < MaxPending

\* schedule: a busy label skips or drops the newcomer, and so does a full queue.
Schedule(label, callback) ==
  /\ IF Accepts(label)
     THEN /\ pending' = Append(pending, [label |-> label, callback |-> callback,
                                         elapsed |-> 0, spent |-> 0])
          /\ active_or_pending' = active_or_pending \cup {label}
     ELSE UNCHANGED <<pending, active_or_pending>>
  /\ UNCHANGED <<continuations, running, stage>>

\* cancel_all of both, on shutdown, which no callback can call.
CancelAll ==
  /\ running = <<>>
  /\ pending' = <<>> /\ active_or_pending' = {} /\ continuations' = <<>>
  /\ UNCHANGED <<running, stage>>

SleepersAfter(ms) ==
  [i \in DOMAIN continuations |->
     [continuations[i] EXCEPT !.ready_in = IF @ > ms THEN @ - ms ELSE 0]]

\* A unit of time passes.
Age ==
  /\ continuations' = SleepersAfter(1)
  /\ UNCHANGED <<pending, active_or_pending, running, stage>>

-----------------------------------------------------------------------------
(* drain_controller_callbacks *)

\* Mutant of StartDrain: what is asleep is looked at only when nothing is pending.
StartDrainPendingFirst ==
  /\ stage = "rest" /\ stage' = IF pending = <<>> THEN "resume" ELSE "start"
  /\ UNCHANGED <<pending, active_or_pending, continuations, running>>

StartDrain ==
  /\ stage = "rest" /\ stage' = "resume"
  /\ UNCHANGED <<pending, active_or_pending, continuations, running>>

Ready == {i \in DOMAIN continuations : continuations[i].ready_in = 0}

Without(seq, k) == [i \in 1..(Len(seq) - 1) |-> seq[IF i < k THEN i ELSE i + 1]]

\* pop_ready: the first of the sleepers that are ready.
ResumeFirst ==
  /\ stage = "resume" /\ running = <<>>
  /\ \E k \in Ready :
       /\ \A i \in Ready : k <= i
       /\ running' = <<continuations[k].task>>
       /\ continuations' = Without(continuations, k)
  /\ UNCHANGED <<pending, active_or_pending, stage>>

NoneReady ==
  /\ stage = "resume" /\ running = <<>> /\ Ready = {}
  /\ stage' = "start"
  /\ UNCHANGED <<pending, active_or_pending, continuations, running>>

\* pop_next and start_callback.
StartNext ==
  /\ stage = "start" /\ running = <<>> /\ pending # <<>>
  /\ running' = <<Head(pending)>>
  /\ pending' = Tail(pending)
  /\ UNCHANGED <<active_or_pending, continuations, stage>>

EndDrain ==
  /\ stage = "start" /\ running = <<>> /\ pending = <<>>
  /\ stage' = "rest"
  /\ UNCHANGED <<pending, active_or_pending, continuations, running>>

\* The running task once Lua has run for `slice` more.
Resumed(slice) == [running[1] EXCEPT !.elapsed = @ + slice, !.spent = @ + slice]

OutOfBudget(slice) == Resumed(slice).elapsed >= Budget

AsleepForgetting(slice) == [Resumed(slice) EXCEPT !.elapsed = slice]

\* A task goes to sleep with all that its resumes have used of the budget.
Asleep(slice) == Resumed(slice)

\* finish, preempt_task: the labels that the end of a task frees.
Freed(label) == {label}

\* The callback returns, or the budget's hook or a late yield preempts it.
Finish(slice) ==
  /\ running # <<>>
  /\ running' = <<>>
  /\ active_or_pending' = active_or_pending \ Freed(running[1].label)
  /\ continuations' = SleepersAfter(slice)
  /\ UNCHANGED <<pending, stage>>

\* It yields sa.sleep(ms), within its budget.
Sleep(slice, ms) ==
  /\ running # <<>> /\ ~OutOfBudget(slice)
  /\ running' = <<>>
  /\ continuations' = Append(SleepersAfter(slice), [task |-> Asleep(slice), ready_in |-> ms])
  /\ UNCHANGED <<pending, active_or_pending, stage>>

\* It yields another host request, within its budget; the request is executed
\* (output is sent, or KWin is asked and waited for) and Lua is resumed.
HostRequest(slice, wait) ==
  /\ running # <<>> /\ ~OutOfBudget(slice)
  /\ running' = <<Resumed(slice)>>
  /\ continuations' = SleepersAfter(slice + wait)
  /\ UNCHANGED <<pending, active_or_pending, stage>>

-----------------------------------------------------------------------------
TaskInit ==
  /\ pending = <<>> /\ active_or_pending = {} /\ continuations = <<>>
  /\ running = <<>> /\ stage = "rest"

Drain == StartDrain \/ ResumeFirst \/ NoneReady \/ StartNext \/ EndDrain

TaskNext ==
  \/ \E label \in Registration, callback \in Callback : Schedule(label, callback)
  \/ CancelAll \/ Age \/ Drain
  \/ \E slice \in Slices :
       \/ Finish(slice)
       \/ \E ms \in Sleeps : Sleep(slice, ms)
       \/ \E wait \in Waits : HostRequest(slice, wait)

TaskSpec == TaskInit /\ [][TaskNext]_tasks

-----------------------------------------------------------------------------
(* Properties *)

\* Every variable has the shape the runner gives it.
TaskTypeOK ==
  /\ pending \in Seq(Task) /\ Len(pending) <= MaxPending
  /\ active_or_pending \subseteq Registration
  /\ continuations \in Seq(Sleeper)
  /\ running \in Seq(Task) /\ Len(running) <= 1
  /\ stage \in {"rest", "resume", "start"}

PendingLabels == {pending[i].label : i \in DOMAIN pending}
RunningLabels == {running[i].label : i \in DOMAIN running}
SleepingLabels == {continuations[i].task.label : i \in DOMAIN continuations}

\* specs/016 FR-014, specs/020 FR-002: a label refuses its trigger exactly while
\* one task of it is pending, running or asleep, however often it yields; it is
\* not left behind by a preempted task, nor freed under a sleeping one.
OneTaskPerLabel ==
  /\ active_or_pending = PendingLabels \cup RunningLabels \cup SleepingLabels
  /\ PendingLabels \cap RunningLabels = {}
  /\ PendingLabels \cap SleepingLabels = {}
  /\ RunningLabels \cap SleepingLabels = {}
  /\ \A i, j \in DOMAIN pending : pending[i].label = pending[j].label => i = j
  /\ \A i, j \in DOMAIN continuations :
       continuations[i].task.label = continuations[j].task.label => i = j

\* specs/020 FR-001 and FR-004: a callback that Lua has run for its budget, over
\* all its resumes, neither sleeps nor goes on after a host request.
BudgetKept ==
  /\ \A i \in DOMAIN running : running[i].spent < Budget
  /\ \A i \in DOMAIN continuations : continuations[i].task.spent < Budget
=============================================================================
