# Verification of signal-auras

TLA+ models of signal-auras, from the script's text to the keys the desktop sees, the TLC
configurations that check them, and theorems about them that TLAPS proves. Paths are relative to
the repository; `runner.rs`, `runner/controller.rs`, `runner/runtime_loop.rs`, `input_cache.rs` and
`prompt.rs` are in `crates/signal-auras-cli/src`; `motion.rs`, `macro_plan.rs`, `controller.rs`,
`scope.rs`, `config.rs` and `screen_state.rs` in `crates/signal-auras-core/src`; `kde_bridge.rs`,
`event_loop.rs`, `evdev.rs`, `adapter.rs`, `portal.rs` and `uinput.rs` in
`crates/signal-auras-wayland/src`; `sandbox.rs` and `runtime.rs` in `crates/signal-auras-lua/src`.
`overlay.rs` is in both core (what to draw) and wayland (who draws it).

`PROJECT.json` says which lines each definition models, what each run checks, which faulty version
of the code refutes each property, which hazards of the code the properties are for, and where the
repository's documents and its code disagree.

## 1. The system

signal-auras runs a Lua script that binds hotkeys, mouse presses and motions (short sequences of
buttons, keys and wheel steps) to macros or Lua callbacks, limited to the windows of some processes
or to all. KWin owns the keyboard shortcuts and tells the runner of them over D-Bus, with the
active window; evdev devices show the runner the mouse and the keys; output goes to the desktop
portal or to a uinput device. One thread runs the script's event loop; a second one, the bridge's
listener, receives KWin's calls.

    KWin ──D-Bus──> listener thread ──queue + eventfd──┐
    evdev devices ─────────────────────────────────────┤ wait_next_input_or_runtime_fd
    timer fd, signal fd ───────────────────────────────┘
                 event loop (one thread): focus, motion matcher, repeat ticks,
                     macro queue  (declarative script)   or   Lua callbacks (controller script)
                 ──> portal / uinput
    screen (PipeWire) ──> trackers ──> overlays, a qml child process each

### Inventory

**Motion matcher** (`motion.rs`, `MotionRuntime`). State: the tokens held down, one attempt
(candidate motions, progress, start time) and the running loops. Operations: `handle_press`,
`handle_release`, `cancel_active_loops`; each returns the events it makes (`Triggered`,
`LoopCancelled`, `MotionDiscarded`). Callers: both event loops. Hard: candidates filtered one press
at a time, with windows of their own; guards that must stay held; kernel timestamps of several
devices, which need not be ordered, subtracted with saturation; loops that must end with the tokens
that keep them running. Correct when: what is reported was spelled, in time and under guard; no
candidate is lost or kept wrongly; loops run only while held, and never start or end silently.

**Macro run and macro queue** (`macro_plan.rs`, `MacroRunState`; `runner.rs`, `LiveMacroQueue`).
State: the runs (position, delay, "delay armed", cancelled), the busy labels, the next id.
Operations: `schedule`, `cancel_trigger`, `cancel_repeat`, `cancel_process_scoped`, `drive_ready`,
`next_wait_timeout`. Hard: the inter-action delay takes an action, puts it back and polls it again;
cancellation between two polls; a failing emission in the middle of a pass; labels freed on every
way out and no other. Correct when: each accepted macro plays its actions once, in order, with its
pauses, ends, and frees its label.

**Live event loop** (`runner.rs`, `run_live_real_lifecycle`). State: the macro queue, the matcher,
`last_repeat_ticks`, the scoped-focus tracker, the focus context of the last KWin callback. Steps:
drain the callbacks, drive the queue, wait (timer, signal, callback, input), read the input, repeat
ticks. Hard: order of everything above within one iteration; focus that changes or goes stale
between two looks at it; a wait whose deadline is computed from other state than the tests for due
work after it; shutdown in the middle. Correct when: released loops and lost scopes fall silent,
repeats keep their interval, nothing due waits for the next event, everything scheduled ends, a
signal stops the runner.

**KWin shortcut bridge** (`kde_bridge.rs`, `event_loop.rs`). State: the bounded callback queue and
its drop count, the eventfd, the results of window scripts, the focus context of the last callback
popped. Two threads. Operations: the listener's receive/push/wake; the loop's drain of the eventfd
and of the queue; window requests that load a script, wait for its answer and give up after a time.
Hard: lost wakeups; drops; late answers. Correct when: no wakeup is lost, no drop goes uncounted,
callbacks keep their order, an answer is taken by its own request only.

**Controller callbacks** (`controller.rs`, `LuaCallbackScheduler`; `runner/controller.rs`;
`runner.rs`, `run_live_real_controller_lifecycle`). State: pending tasks, busy labels, sleeping
coroutines with what they have used of their budget; the loop's own state as above. Operations:
`schedule`, `finish`, `preempt_task`, `cancel_task`, `cancel_all`; `drain_controller_callbacks`,
which resumes ready sleepers and then starts pending tasks; host requests; the loop's handlers.
Hard: sleeping tasks hold a label and no queue place; budgets over several resumes; drains at three
places of the loop; the focus that was asked before the sleep; Lua errors. Correct when: a label is
busy exactly while one task carries it, no callback outlives its budget, every accepted callback
ends, the loop sleeps past none.

**Scope and focus decision** (`scope.rs`). Pure, over a context with a time stamp: matches,
confidence, freshness, the policy for unknown and stale contexts. Correct when: no path to "active"
without a fresh, confident match of the scope, except where a global run was confirmed.

**Evdev provider and grab** (`evdev.rs`, grab in `adapter.rs`). State: the list of open devices,
each active or not and grabbed or not, the index the next pass begins with, the udev monitor, the
provider's grab flag, the skipped paths. Operations: discovery, wait, read, rescan on hot plug or
once per interval, grab, release, passthrough. Hard: devices that come and go at any moment, which
only a read or a rescan notices; hot-plug notices consumed before the rescan they call for; a grab
of several devices that fails half way; unplugged devices with keys down; a press consumed and its
release passed through. Correct when: a path has one place in the list, all plugged pointers are
grabbed or none, no device starves the others, what is gone is noticed, what is plugged is opened.

**Adapter lifecycle, startup and consent** (`adapter.rs`, script part of `kde_bridge.rs`, start
functions of `runner.rs`, `prompt.rs`, `event_loop.rs`). State: the KWin scripts, shortcuts and
files a runner has made, its handles of them, the signal mask, developer mode. Operations: the start
functions (each an order of prepare, monitor, hotkeys, developer toggle, loop), registering and
removing a script by several D-Bus calls, purging what dead runners left, window requests, cleanup.
Hard: any call may fail; a signal or a crash between any two; another runner on the same desktop;
process ids that come again. Correct when: nothing is lost between two calls, a runner that ends by
itself leaves nothing, a purge takes only what dead runners left and does free their keys.

**Input device cache** (`input_cache.rs`, `prompt.rs`). State: a file with the devices the user
picked for a script. Operations: read, validate, compare identities, prompt, repair permissions,
validate again, write. Hard: devices replugged at any moment; two startups; torn and overlapping
writes. Correct when: no device is used that nobody picked, an entry is used whole or not at all,
nothing asks again without a reason.

**Screen state** (`screen_state.rs`, capture in `portal.rs` and `adapter.rs`, `scope.rs`). State:
per tracker the time of its last poll, its latest state, the history of a cooldown. Operations: one
poll of all due trackers on one frame. Hard: pixel formats, padding, scaling; conditions between
trackers; histories over gaps; captures that block the loop. Correct when: a state tells what the
frame showed, a condition holds when its detector runs, a prediction runs down.

**Overlays** (`overlay.rs` of core and wayland; `runner.rs`). State: which overlays are hidden, the
child process of each and its last snapshot. Operations: toggle, render after a poll, replace a dead
child, end. Correct when: an overlay closes with the focus and stays hidden when hidden.

**Synthesized input** (`portal.rs`, `uinput.rs`). State: keys down on the virtual device, which the
passthrough of grabbed events shares. Hard: a write that fails in the middle; keys of macros among
keys of the user. Correct when: macros leave nothing down, nor does the end of the session, and a
passed event arrives once.

**Lua sandbox and runtime** (`sandbox.rs`, `runtime.rs`). A controller script is read twice: its text
is *searched* for registrations, trackers, overlays, options and the actions of callbacks; the same
file, read again, is run as Lua if it holds `.sleep` or `.window.`. Hard: a search finds the
first occurrence, wherever it is; the two readings must agree; capabilities are declared by one and
granted to the other. Correct when: what is found is what the script says, and each callback does what
is written in it.

**Parsing** (`key.rs`, `hotkey.rs`, `config.rs`), **statistics and errors**: tables of names, counters
and wording.

## 2. Modules

| Module | Role | Extends or instantiates |
|---|---|---|
| `MotionReports` | what one call of the matcher may report, given the running loops | |
| `MotionLoops` | abstract matcher: a series of such reports | `MotionReports` |
| `MotionRuntime` | the matcher of `motion.rs` | implements `MotionLoops` |
| `MacroRuns` | `MacroRunState::poll` and `LiveMacroQueue` as operators | |
| `MacroQueue` | the queue under every order of calls | `MacroRuns`; implements `MacroPlayback` |
| `MacroPlayback` | abstract queue: labels, actions left, actions played | |
| `CallbackMailbox` | abstract bridge: a bounded queue and a wake flag | |
| `KwinCallbacks` | the bridge's two threads | implements `CallbackMailbox` |
| `LiveLoop` | the declarative event loop | `MacroRuns`, `MotionReports`, `CallbackMailbox` |
| `CallbackTasks` | callback scheduler, sleepers, budget, drain | |
| `ControllerLoop` | the controller event loop | `CallbackTasks`, `MotionReports`, `CallbackMailbox`; implements `TaskSpec` |
| `EvdevProvider` | the evdev provider among devices that come and go | |
| `InputPassthrough` | what reaches the compositor: real devices, passthrough, macros | |
| `RunnerSession` | the life of several runners on one desktop | |
| `InputCache` | several startups and their device cache | |
| `Detectors` | frames, pixels, regions and the two detectors, as operators | |
| `StateTrackers` | the poller and the scope decision, as operators | `Detectors` |
| `Overlays` | focus, polls, trackers, toggles and qml children | `StateTrackers` |
| `LuaText` | the text of a script and the searches of the loader | |
| `ControllerReading` | what tables mean, for any way of finding their fields | `Detectors` |
| `ControllerScript` | what the loader, and what Lua, makes of a script | `LuaText`; two instances of `ControllerReading` |
| `ControllerStartup` | a script from the disk to its callbacks | `ControllerScript` |
| `MC...` | small instances for TLC | |
| `...Proofs` | theorems | |

The composition works by contract. The event loops do not contain the matcher: they take from
`MotionReports` every report a call may make, and `MotionRuntime` is shown to make only those
(`ImplementsMotionLoops`). They do not contain the bridge's threads: they instantiate
`CallbackMailbox`, which `KwinCallbacks` implements (`BridgeIsMailbox`, proved). `LiveLoop` works on
the same queue operators that `MacroQueue` checks and proves about on their own. `EvdevProvider` knows
which files are grabbed and not what is read from them; `InputPassthrough` knows the events and takes
opening and rescanning for granted. `RunnerSession` has no events at all: its loop is a place where a
runner asks for windows, toggles developer mode, or ends.

Each module's type invariant and its state invariants are collected in `Inv` (the matcher's in `MotionInv`),
which is what the runs and the theorems name; its conjuncts (`LoopsHeld`, `NoLostWakeup`, `OneRunPerLabel`, ...)
carry the comments.

A definition whose name extends another's (`WakeBySignalIdle` of `WakeBySignal`) is a faulty
version of it: the mutant that shows that a property can fail.

### MotionRuntime

`held`, `attempt` and `active_loops` are the fields of the struct; `events` is what the last call
returned; `typed`, a history variable, holds the presses of the attempt. Actions are the calls. A
time is a small number and may lie up to `MaxSkew` before the latest one seen, which is how events
of two devices come. No two motions have the same trigger (`DistinctTriggers`): the runtime keeps its
definitions in a map by trigger (`motion.rs:422-428`). A trigger may begin another one; only declarative scripts
(`config.rs`), and controller scripts within one scope (`controller.rs`), reject that. The code tries all candidates
of a press and takes the first complete one; `TriggeredWasSpelled` shows that there is never a second.

### MacroRuns, MacroQueue, MacroPlayback

A macro is a sequence of numbers: `Generated` for an action to emit, a positive number for an
explicit delay. A run is the record of the Rust struct, with absolute deadlines turned into the
time that is left (`ready_in`). `since`, history, is the time since the run last sent something.
`Drive` is one whole `drive_ready` pass over the runs in their order; `DriveFails` is the pass in
which an emission is refused: what was polled before it stays changed, and the runner ends.
`MacroPlayback` has no positions, delays or ids: a label is busy with a set of actions left, and a
pass plays some of them in order.

### LiveLoop

One thread, so an action is a stretch in which nothing can come between: a callback popped, an
input event handled, a tick looked at, a wait that ends. `pc` is the place in the iteration. Macros
are those of `MacroOf`; ids are dropped, because `OneRunPerLabel`, proved of the queue, makes a
label name a run. Repeat ticks are kept as the time since the last tick, cut off at the interval. `calm`,
history, is the time since the loop last repeated; only the branch of the repeat phase that forgets the tick
of a loop that is off fills it up, so a loop let go and pressed again in between keeps its interval.
`focused` is the scope's answer for the focus context of the last callback; it may turn FALSE by
age whenever time passes, and TRUE only with a callback. One scope covers the script.
`LoopCancelled` reports, which the code handles one after the other, are one action: nothing can
come between.

### KwinCallbacks

Three processes: KWin (external, modelled from what the scripts the bridge loads do), the listener
and the runner. Push under the lock and the write to the eventfd are two steps of the listener;
draining the eventfd, reading the drop count, popping, handling and waiting are steps of the runner.
A callback is its serial number. A window request runs a script; its answer may come in time, late
or never.

### CallbackTasks, ControllerLoop

`CallbackTasks` has the scheduler (`pending`, `active_or_pending`), the sleepers (`continuations`,
with the time left) and the drain in its two loops (`stage`, `running`). A slice is what Lua runs
between two yields, at least one unit of time; `elapsed` is what the code adds up, `spent` what
Lua really took. `Finish` covers return and preemption (by the hook, or at a yield after the budget
is gone); both free the label. A declarative callback body, which cannot sleep, is a `Finish`.
`TaskSpec` allows every order of these steps. `ControllerLoop` puts them into
`run_live_real_controller_lifecycle`: drains of shortcut callbacks, three drains of tasks, wait,
input handler, repeat ticks. What one input event makes the handler schedule is queued in `offers`
and offered one by one. An overlay toggle that takes an event drops the matcher's report
(`InputToggles`). An error in a callback ends the runner (`TaskFails`). `calm`, history, is the time since the
loop last repeated or was last started; a start that a toggle swallows does not count, and such a loop may repeat
at once.

### EvdevProvider

`node` says which device is plugged at a path; an entry of `devices` is the `EvdevDevice` with the
number of the device its file was opened for, so a file is gone when the numbers differ, whether the
path is empty or has another device by now. `unread` is the kernel's buffer behind the file.
`unsettled` and `uevent` are the way of a change to the monitor's socket: the kernel changes
`/dev/input` at once, udevd announces it later. `stage` is the system call the thread does next:
a pass over the devices, `poll` with the drain of the monitor, the discovery of a rescan, the opening
of each path, the second pass. `poll` may return for any combination of what is readable, a runtime
fd among it, or at its timeout. A path is readable to this user, and grabbed by another client, or not, for the
whole run. The order in which a rescan opens its paths is left open. The leader key's press arms the
grab and its release lifts it; the runner's other handling of an event does not touch the provider.

### InputPassthrough

The user presses and releases (`Happen`); the compositor sees it at once unless the device is grabbed, and the
kernel queues it for the runner, who reads one event at a time (`Read`) and consumes it or not: that choice,
made by matcher and toggles, is left open. A leader's press arms the grab before the event is passed, its
release lifts it after. A macro action is a sequence of writes, one a step (`Write`), any of which may fail.
`marked` is the flag of each `EvdevDevice`: set and cleared by `set_grabbed`, which leaves it when the ioctl
fails; what is grabbed is marked and plugged. `output` turns to the portal when a macro opens it, as the
adapter's lazy session does. `passed`, `held` and `seen` are history.

### RunnerSession

Each D-Bus call, file operation and removal is a step: `job` holds the script being worked on and the
call that comes next. `stage` is the place in the start function, whose order is `plan`. `KwinStart`
says what `start` does in KWin: it runs *every* loaded script that has not run, whoever loaded it.
`Kill` may come anywhere, `Signal` too: it is pending while masked and deadly otherwise. A runner in
`Faulty` may meet one failing call. `Recycle` gives an ended runner's id to another program, which
hides its scripts from every purge. `company` says who was not alone, because two live runners may
rightly compete for a key.

### InputCache

A startup is a sequence of reads and probes (`Stages`), between which devices are plugged, unplugged,
and lose their permissions. `Over` and `Prefixes` are what overlapping and truncated writes leave:
`fs::write` truncates and then writes in place. An identity is what sysfs shows of the hardware behind
a path at that moment. The text format is a head and lines; parsing skips what it does not know. `picked`, history,
is filled when the user answers the prompt, with the paths and the hardware the prompt listed; `drifted` has the
lines that were rendered after devices had come or gone since that listing.

### Detectors, StateTrackers, Overlays

`Detectors` translates frame copy, pixel formats, region scaling and both detectors; floating point
is carried in thousandths. `StateTrackers` is the poller as a record and operators on it
(`PollAll`), with `Decide`, the scope decision. `Overlays` is the loop around them: focus, KWin's reports with a
lag, polls that begin, wait for a frame and end, toggles, children that exit. The frames are painted
by the MC module, so that what a state *should* say is known independently of the detectors.

### LuaText, ControllerReading, ControllerScript, ControllerStartup

A script is a tree of statements, tables and callback bodies; `ControllerScript` writes it out as text
(a sequence of tokens) and reads it in two ways. The loader's way uses `LuaText`'s searches, which are
those of `sandbox.rs`: first occurrence, matching brace, quoted strings, lines of a body. Lua's way
walks the tree. `ControllerReading` says what the tables mean and takes the way fields are found as
parameters: the loader is one instance of it, the reference another. `ControllerStartup` adds time:
two reads with an edit between them, the capability report, and callbacks that play actions or run
in Lua. These modules use `RECURSIVE` operators and are only model-checked.

## 3. Runs

| Run | Shows | Bounds |
|---|---|---|
| `motion` | the matcher reports what was spelled, in time and under guard; loops are held and reported; implements `MotionLoops` | a guarded double click that loops, a longer motion that it begins, a chord that shares its first token with them, a guarded wheel motion; times 0..4, skew 1 |
| `macro_queue` | order, pauses, cancellation, labels, ending; implements `MacroPlayback` | two labels, macros with a delay first and in the middle, gaps 0 and 1, two accepted runs, `since` cut at 4 |
| `live_loop` | silence after release and after loss of focus, intervals kept, no sleep past work, a signal stops the runner | hotkey, press, one repeating and one one-shot loop, mailbox of one |
| `kwin_callbacks` | no lost wakeup, no uncounted drop, order, answers to their requests; implements `CallbackMailbox` | queue of 2, 4 callbacks, 2 requests |
| `evdev_provider` | one entry per path, grabs that follow the flag, no starving, unplugging noticed | a mouse plugged up to twice, a keyboard once; all four combinations of selected or discovered devices with or without monitor |
| `passthrough` | the grab ends with the leader, a steady event arrives once, macros and sessions leave nothing down | a keyboard and a mouse, each with a leader; six macros, one of which clicks the user's button; backlog 2 |
| `controller_loop` | labels, budgets, ending, intervals, no sleep past work, shutdown | hotkey, press and looping motion, scheduler of one place, budget 3, slices 1 and 3, mailbox of one |
| `session` | no script lost, nothing left behind, keys reach the next runner, no purge of the living | two runners that want one key, one may meet a failing call; up to four scripts made by the first; a plain start function or an unparsable hotkey beside it |
| `input_cache` | what is used was picked at a prompt and is the hardware listed there, whole entries, no needless prompt | two startups of four kinds, three devices (one the runner's own, one with a stable link) at two nodes, two changes |
| `overlays` | overlays close with the focus and stay hidden; conditions; states tell what was painted; what is drawn is of the picture last looked at; predictions run down | two trackers, one conditioned; two overlays; four pictures in four formats, one of which cannot be copied; five ticks, reports stale after one |
| `controller_script` | the loader reads as Lua would; callbacks do what is written; none is missing | 41 scripts, each a change of one of the examples'; edits between the two reads, into five of them |

Why these are enough to meet the interesting cases: motions share a prefix and differ in window and guard, so
that a press can kill one candidate and keep the other, and one is complete while another goes on; times may run
backwards; two labels with two runs let a run be cancelled, dropped and scheduled again while another plays;
queue capacities of one and two are full at once, and more callbacks are sent than fit; a scheduler of one place
with three registrations refuses for both reasons (busy and full); a budget of three with slices of one lets a
callback sleep twice and be preempted after; a slice of three uses the budget up at once; a mouse that is
plugged twice can be replaced behind an open file, while armed, and between a read and a rescan. Two leaders on
two devices let the grab be armed by one and lifted by the other, with presses of either unread. Two runners are
enough for a dead one whose scripts a purge finds, and for a live one it must spare; four scripts give the first
one a monitor, its key, the developer toggle and a window. Two startups are enough for overlapping writes, two
changes for a replug at its path. Five ticks hold a capture begun in focus and ended out of it, with the next
poll after. Intervals of two units leave room for an early, a due and a late tick. `since`, `calm` and
`last_tick` are cut off where nothing distinguishes larger values.

`MaxRuns`, `MaxCallbacks`, `MaxRequests`, `MaxTime`, `MaxSince`, `MaxPlugs`, `MaxBacklog`,
`MaxScripts`, `MaxChanges` and `MaxNow` bound what would be unbounded; the event loops have
no bound on how long they run. Deadlock is not checked where the system may really stop:
a queue whose runs are used up or that failed, a provider whose error ended the runner, runners and
sessions that have ended, startups that are done, the last tick. The loops stutter explicitly when they
have ended (`Stopped`).

One run expects a violation: `session_signals` checks specs/012's sentence that a second signal
during shutdown leaves the cleanup idempotent. The signal fd, and with it the mask, is dropped when the
loop returns, before the scripts are unloaded, and a signal from then on kills the process with them loaded.

## 4. Fairness

* Event loops: weak fairness of the loop's own steps and of the timer's and callback's wake-up: the
  thread is scheduled and runs on. Strong fairness of the end of a drain of callbacks and of the
  reading of input: bursts end. This is an assumption about KWin and the devices: the drains are
  unbounded `while let` loops, and a stream that never pauses would keep the loop in them. Strong
  fairness of `Time`: iterations and waits take time, so that deadlines come. Strong fairness of
  `WakeBySignal`: the signal fd stays readable and is polled in every wait, and not every wait is
  ended by input at once (the adapter looks at input first).
* `KwinCallbacks`: weak fairness of the listener, of the runner's drain and callback wake-up, and of
  a request's answer or its time-out. None for KWin.
* `EvdevProvider`: weak fairness of the provider's steps (the runner waits again after every event,
  and `poll` has a timeout), of udevd's announcements and of the clock. None for plugging and typing.
* `MacroQueue`: weak fairness of polling passes and of time.

The other modules state safety only. `OverlaysCloseWithFocus` is the bounded form of a liveness
property: it counts the ticks since the window lost the focus.

## 5. Proofs

TLAPS proves these for every value of the constants that satisfies the modules' named assumptions.

**MatcherAndQueueProofs**, the matcher: `MatcherIsExact` (`MotionInv`), `ReportedMotionWasSpelled`,
`MatcherReportsItsLoops`. The inductive invariant
`MatcherInv` is the type invariant, `LoopsHeld` and `AttemptInv`: the candidates are exactly what the presses in
`typed` spell, and the attempt's start is the time of the first of them. `CandidatesExact` alone is not
inductive: the code filters by the time since `started_at`, the definition by the times of the presses.
`GuardHeldThroughout` follows, as a release of any guard token ends the attempt. A complete candidate is alone
among the complete ones because two triggers of that length with the same tokens would be the same trigger
(`FullSpellingUnique`). `MatcherReportsItsLoops`
(`ImplementsMotionLoops`): a press reports nothing of its loops or one motion, a release the loops it
leaves unsupported, a cancellation all of them. It needs `LoopsHeld`: a motion that triggers while its loop
runs reports a start only because what keeps the loop running is still held.

**MatcherAndQueueProofs**, the queue: `LabelsMatchRuns` (`Inv`), `QueueIsPlayback`, from
`QInv` = type invariant, `OneRunPerLabel`, `IdsIssued` (ids are at most the last one issued, so a
new run's is new; a position never passes the macro's end). `QueueIsPlayback`
(`ImplementsPlayback`): cancelling and the passing of time are `Stop`s of some labels, a pass is a
`Pass` of the labels of the ready runs, a refused emission an `Abort` of those before it. That a busy
label names exactly one run is what makes the mapping a function. `PausesAreKept` (`PausesKept`) has an
invariant of its own, `PausesCovered`: the time since a run's last generated action, what it is waiting for
and the inter-action delay it still owes are together at least the pause before its next action. A poll only
moves time from the owed or the next delay to the waited, a tick from the waited to the past. It assumes
that `since` counts as far as any pause (`PausesAreCounted`).

**LiveLoopProofs.** `LoopInvariant` (`Inv`), `RepeatsKeepInterval` (`RepeatsKeepTheirInterval`),
`NoWorkSleptPast` (`NeverSleepsPastWork`). The functions of the loop change one record, `Now` (queue, focus
tracker, running loops), so there is a lemma for each of them: from a `Sound` record it makes a `Sound` one, and
only named labels come alive or are scheduled afresh in it (`Adds`). `IInv` is `Shape`, `Sound(Now)` and what a
step of the loop must not break: a released loop is not running and has nothing alive but its `after`;
`RepeatsPolledSoon`, a repeat that has not been polled exists only in the phase that schedules repeats, with the
scope in focus; `CalmCovers`, the code's time since a loop's last tick never exceeds the time the loop has been
calm. `Sound` says of the scope more than `Inv` does: nothing scoped is alive unless the tracker *last saw* the
focus, also before the first observation, since otherwise a loss of focus that was never observed would leave a
macro that nobody cancels. `RepeatsPolledSoon` is why a release cannot leave a fresh repeat behind, and why a
schedule found fresh is one this tick made.

**KwinCallbacksProofs.** `BridgeInvariant` (`Inv`), `BridgeIsMailbox`, from `WInv` = type
invariant, `NoLostWakeup`, `DropsAnnounced` (a drop that the drain in progress no longer counts has its
wakeup, given or on its way). The refinement maps the mailbox's wake flag to "readable, or the listener
is about to write". `MessagesAreAccounted` (`MessagesAccounted`), from `Accounted`: the count is kept with the
number of callbacks on the wire; the order of the queue is kept because all of it lies before what is
on the wire, and that in the order it was sent (`CallbacksInOrder`); and a leftover answer is late because a
request is answered once at most (`AnsweredOnce`: its script, its answer on the wire and the waiting
one exclude each other), so that nothing of a request is left when its answer has been taken.

**ControllerLoopProofs.** First about `CallbackTasks`: `TasksTypeCorrect`, `LabelsMatchTasks`,
`BudgetIsKept`, from `TaskInv` = type invariant, `OneTaskPerLabel`, `BudgetKept`, `Counted`
(`elapsed` is `spent`: without it the code's test of the budget says nothing about the time Lua has
had). Then about the loop: `LoopImplementsTasks`, every step of the event loop is a step of
`TaskSpec` or a stutter; `LoopIsSound` (`Inv`) carries the theorems about the callbacks over and adds
the type correctness of the whole loop. The invariant is that what the handlers offer are callbacks of
the script's registrations; that the cancelled loops are finitely many is used for the sequence of their
`after` callbacks. `LoopKeepsTime` (`TimeIsKept`): the wait comes after a drain that has left nothing, and
nothing is accepted in it, because only the handler of an input offers (`OffersAreInputs`, `RestsInWait`); a
running loop's `last_tick` never exceeds the time it has been calm (`CalmCovers`), although the
code resets it without accepting a repeat, starts it with the loop, and lets it run in a toggle that drops what the
motion reports.

**EvdevProviderProofs.** `ProviderIsSound` (`Inv`). The inductive invariant
adds to the three properties: the list is not empty; every open file is of a device its path has
seen (`FilesWerePlugged`), so that a device plugged later is never taken for it; only a provider in
Grab mode is armed, so that what a rescan opens under the grab is grabbed by the same test.

**PassthroughAndOverlaysProofs**, the passthrough: `GrabsAndSessionsEnd` (`Inv`), `SteadyEventsOnce`. The
strengthening is `UnarmedGrabsNothing`, a provider that is not armed has no plugged pointer marked, and
`LastLeaderTells`: the last leader event of a device that is still to be read says whether that leader is down
now. Without it "every leader is up and read" says nothing about the grab: a press could be read after the
release it belongs before. With it, the last thing read of any leader was a release. `VirtualKeysComeUp`
(`KeysComeUp`) is about folds over sequences of any length. Its invariant `KeysSettle` says what the writes
under way will have done at their end without computing them: a key that is down is answered for or has a stroke
to come, and a press that no stroke of its key follows is answered for. Taps, chords and texts release what they
press (`AllReleased`), which concatenation and flattening keep.

**PassthroughAndOverlaysProofs**, the overlays: `SourcesGateTrackers` (`ConditionsHold`), `HidingLasts`
(`HiddenStaysHidden`), `CountdownIsEven` (`CountdownRunsDown`), `FocusClosesOverlays`
(`OverlaysCloseWithFocus`), `DrawsPercentages` (`BarsArePercentages`), `DrawsTheLastPicture`
(`BarsShowTheLastPicture`), for every number of trackers and overlays, every picture, window and interval.
No run's cfg names `BarsArePercentages`; TLC finds it true on `MCOverlays` too. The first four theorems
assume nothing of what the detectors see; a poll is summed up by what it does to each tracker
(`Marked`, `AllPolled`), by induction over the trackers in their order. The first three share `ReadInv`:
- `PollsOrdered`: whoever has been polled, or will have been when the poll that waits has ended, was not
  while another one was due before. Without it a tracker could keep a state that it read at the very time
  its source is read again. `Skipped` says the same of the trackers a waiting poll leaves out.
- A source is declared before the tracker on it, so what a fold hands to the tracker is what stays.
- `CountsDown`: a state that counts down says how long the history it was read with has been active, so
  two frames differ by their times; `Push` keeps the latest observation, however small the window.

`FocusClosesOverlays` adds the ages: what is known of the focus was so then, so no overlay it is in the scope of
has been outside for longer (`KnownSince`, also for the context that a waiting poll has kept); hence a
poll draws only what has been outside for at most `FocusStaleAfter`, and a visible overlay has been so for no
longer than that and the time since every tracker's last poll (`VisibleInv`).

`DrawsPercentages` follows a number from the buffer to the picture, for bytes in 0..255, unsigned regions and
the scales that windows give (`ScreenAssumption`, `DetectorType`): the cells of a region that `Readable` lets
through index the copied bytes, whatever the format and the stride; a mean over a finite set of percentages and
the share of a part are percentages (`MeanIsPercent`, `RatioIsPercent`); the first matching rule has cells, and
its fraction stays one under any scale and fill limit; a countdown is shown only between `stable` and
`duration`, so it is at most its duration; `BarsInv` keeps all of it through the steps. So the clamps the code
puts on means and shares (`screen_state.rs:1194`, `1292`), observations (927, 973, 1119, 1241), countdowns and
fills (core `overlay.rs:622`, 645, 650, 700) never act, and the model leaves them out; those on a grey pixel's
luminance (1435), a scaled share (1120) and the fill limit (1122) do act, and are modelled.

`DrawsTheLastPicture` is the general half of `BarsTellTheTruth`: whatever is skipped, fails or changes in
between, what is drawn of a tracker is what its detector sees (`Sees`) in the picture that it looked at last, at
one of the scales there are. Its invariant `PicturesInv` says it of every tracker's state first
(`AllPictured`), then of every process (`Truthful`); it needs `HiddenStaysHidden`, as a rendering passes over
what is hidden. The other half, that `Sees` finds what was painted, is about the pictures of `MCOverlays`
and stays with TLC.

Recursive functions and folds (`Pauses`, `FoldLeft`, `FlattenSeq`) are proved about by an induction over a set
of numbers (`EveryNumber`, `LeastNumber`, from `WellFoundedInduction`): for every n the function of the first n
positions, or of the sets of at most n elements, exists, so the one that `CHOOSE` takes satisfies its equation.

**RunnerSessionProofs.** `ScriptsAreKept` (`Inv`), `TheLivingAreSpared` (`OnlyTheDeadArePurged`). The
strengthening says whose script a job has: its own runner's, or, in a purge, that of a runner that is
off for good (`JobSound`); that scripts are numbered below their runner's `next` (`Numbered`), so that a
new one is on nobody's list; and that a script is gone from KWin and KGlobalAccel when the step comes
that removes its file. The purge spares the living because a runner with a script on the desktop has
begun (`Numbered`, `Staged`), and one that has begun and has no `/proc` entry never comes back.
`TheKeysAreOwned` (`KeysReachTheRunner`) has an invariant of its own about a runner that is alone and has
met no failing call (`Alone`): every key of its script is still to be registered, is being registered or
is its own (`Progress`); an action of another runner is still to be purged (`Purged`), so when the bridge
is up there is none; `start` runs no script but the one it is for (`LoadedRuns`), so a key without an
owner goes to that one; and the script a job removes is no handle. Any step of another runner ends
the loneliness (`OthersStep`).

**InputCacheProofs.** `DevicesWerePicked` (`Inv`), `SelectionsStayWhole` (`CacheIsUsedWhole`),
`NoNeedlessPrompt` (`ReusedWhenNothingChanged`). The strengthening says the same of the file
(`FileSound`) and of every startup at every stage (`RunSound`): lines answer for something picked, so
that whatever overlap or prefix a write leaves is too; while no write was torn they are one selection;
and while a startup is steady, the next test its stage makes of the lines succeeds. The last holds
because only `Changed` moves devices, and a repair only adds permissions (`FitsOn`).

Only model-checked: all liveness, which is out of the prover's reach; `BarsTellTheTruth`, a statement about
the pictures of its run; and the three invariants of `ControllerStartup`, whose readers are `RECURSIVE`
operators over trees and text, which the prover cannot reach.

## 6. Not modelled, and disagreements

**Not modelled.** Statistics, logging and the wording of errors and prompts; the demo lifecycle of controllers,
which runs each callback once without waiting, and the start functions over a generic adapter, which tests and
dry runs use; several scopes in one script (`LiveLoop`); motions of one trigger under several scopes of a
controller script, which share one entry of the matcher's map: it has the last one's window, guards and loop,
while the callback is looked up at the first registration with the trigger (`runner.rs:3021`); the denial of a
capability in `LuaCallbackScheduler::schedule`, which startup has excluded; the capability probe; the portal's
handshakes; the generated JavaScript and QML; the loader of declarative scripts, mlua itself, name tables of
keys. Of the evdev provider: the decoding of events, files whose reads fail with EACCES or EIO (the code treats
them as gone ones), a `poll` interrupted by a signal, permissions that change under it, what is plugged before
the udev monitor listens, and the wait of the key doctor, which has no runtime fd. The mouse-capture and
screen-read tools of developer mode appear only as the two shortcuts they register. `InputPassthrough` leaves
the consuming of events open, `Overlays` takes trackers that compare equal times exactly, and neither contains
the matcher.

**Disagreements between documents and code**, met while modelling, other than the one that has a run.
Each is in the model; the properties that would claim the document's side are not stated.

* specs/015 FR-004: nothing scoped begins out of focus. The `after` macro of a loop that ends by release
  or loss of focus is scheduled without asking the scope (`runner.rs:4050`).
* specs/015 FR-007: loss of focus cancels scoped work and lifts scoped grabs. A controller callback that
  sleeps resumes and emits (`runner/controller.rs:110`), and the grab is lifted by the leader only.
* specs/015 spec.md:103: an event is passed through exactly once. One that happened before the grab and is
  read under it arrives twice; one that happened under it and is read after it never arrives
  (`runner.rs:3874-3903`). A button pressed under the grab and released after it stays down on the virtual
  device.
* specs/005 lua-api.md:113: `after` is emitted once when a loop ends. It is refused while the last one, and
  `before` while its cancelled predecessor, still holds the label (`runner.rs:3617`).
* README.md:341-343 wants `requires_held` tokens down *before* the first press of a motion, while
  `handle_press` counts the pressed token as held before it tests the guard (`motion.rs:469`). `Spelled`
  does the same, so no property here would tell the two orders apart.
* specs/012 FR-006 wants no new macro work after shutdown begins; the shutdown step schedules the
  `after` macro of each running loop and polls the queue once (`runner.rs:2250-2259`).
* specs/010 FR-016 wants the active state of a trigger cleared after completion; a run that has
  handed out its last action keeps its label until the next polling pass, which may be a sleep of
  up to 300 s away (`runner.rs:3721-3725`).
* specs/011 user story 3: a device that reappears is opened again. A runtime fd that ends the wait between
  the drain of the monitor and the rescan loses the notice (`evdev.rs:531`).
* specs/011 edge cases: a denied grab does not end the runner. It does, and so does a pointer in the list
  that is gone (`evdev.rs:556`), or an empty `/dev/input` (`evdev.rs:537`).
* specs/022 user story 2: a cached device is the one that was picked. The identity is probed when the
  file is written, after the prompt and the repair of permissions (`input_cache.rs:520-573`), so what was
  plugged at that path meanwhile is stored, and used without a question by later startups.
  `EveryDeviceWasPicked` therefore excepts lines rendered after devices came or went since the listing.
* specs/018: stale states are not drawn. Every detector sets the freshness of its state to 0, so the test
  of the renderer (core `overlay.rs:574`) never fires.
* A field in a comment, or in another table that comes first, is taken for the script's (`sandbox.rs:2112`):
  the scope commented out in `examples/poe2_minion.lua:16` is enforced by the loader. Callbacks with code
  that the scanner cannot read and without `.sleep` or `.window.` do nothing.

## 7. Plan

Done: matcher, macro queue, declarative loop, KWin callbacks and scripts, controller callbacks and
loop, evdev provider, passthrough and synthesized input, runner sessions, device cache, trackers,
detectors and overlays, the reading of controller scripts. What would add most next:

1. The composition of `InputPassthrough` with `EvdevProvider`: a keyboard unplugged with the leader down.
2. `StateTrackers!Decide` in place of the boolean in both event loops, with the scoped-focus tracker.
3. The declarative loader, on `LuaText`.
