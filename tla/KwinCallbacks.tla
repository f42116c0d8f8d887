---------------------------- MODULE KwinCallbacks ----------------------------
(***************************************************************************)
(* The KWin bridge at run time (kde_bridge.rs), as the runner's thread and *)
(* the bridge's listener thread share it: the callback queue and its       *)
(* eventfd, and the answers of the window scripts that the runner starts   *)
(* and waits for.  A callback is its serial number: what it names is the   *)
(* event loop's business, and its focus context comes with it.             *)
(*                                                                         *)
(* An action of a thread is what it does under one lock, or one system     *)
(* call.  A definition named after another one with a suffix is a faulty   *)
(* version of it, for the properties to refute.                            *)
(***************************************************************************)
EXTENDS Naturals, Sequences, FiniteSets

CONSTANTS
  Capacity,     \* CALLBACK_QUEUE_LIMIT
  MaxCallbacks, \* bound: callbacks that KWin sends
  MaxRequests   \* bound: window requests that the runner makes

ASSUME KwinAssumption ==
  Capacity \in Nat \ {0} /\ MaxCallbacks \in Nat /\ MaxRequests \in Nat

VARIABLES
  sent,           \* KWin: the serial of the last callback sent
  scripts,        \* KWin: the window scripts loaded that have not run yet
  wire,           \* D-Bus: the messages to the listener, in order
  listener,       \* the listener: "idle", or "pushed" and about to wake the loop
  events,         \* KwinCallbackQueue.events
  dropped_count,  \* KwinCallbackQueue.dropped_count
  readable,       \* the eventfd's counter is not zero
  window_results, \* the request ids of the answers that wait to be taken
  pc,             \* where the runner's thread is
  back,           \* where it goes on after the drain
  caller,         \* where it goes on after the window request
  next_index,     \* the last window request
  active_process, \* the serial of the callback whose context is in force
  handled,        \* history: the callbacks popped
  reported,       \* history: the drops counted in the statistics
  given_up        \* history: the requests that returned without an answer

kwin == <<sent, scripts>>
inbox == <<events, dropped_count, readable>>
runner == <<pc, back, caller, next_index, active_process>>
history == <<handled, reported, given_up>>
vars == <<kwin, wire, listener, inbox, window_results, runner, history>>

Serial == 1..MaxCallbacks
Callback(serial) == [member |-> "triggered", about |-> serial]
WindowResult(request) == [member |-> "windowResult", about |-> request]
Messages ==
  [member : {"triggered"}, about : Serial] \cup [member : {"windowResult"}, about : Nat]

-----------------------------------------------------------------------------
(* KWin. *)

\* A shortcut, a focus change or the heartbeat of the active-process monitor.
Trigger ==
  /\ sent < MaxCallbacks
  /\ sent' = sent + 1
  /\ wire' = Append(wire, Callback(sent + 1))
  /\ UNCHANGED <<scripts, listener, inbox, window_results, runner, history>>

\* A window script runs and calls back.
RunScript ==
  /\ \E request \in scripts :
       /\ scripts' = scripts \ {request}
       /\ wire' = Append(wire, WindowResult(request))
  /\ UNCHANGED <<sent, listener, inbox, window_results, runner, history>>

-----------------------------------------------------------------------------
(* The listener thread. *)

PushDroppingOldest(serial) ==
  IF Len(events) < Capacity
  THEN events' = Append(events, serial) /\ UNCHANGED dropped_count
  ELSE events' = Append(Tail(events), serial) /\ dropped_count' = dropped_count + 1

\* KwinCallbackQueue::push: at the limit the newest is dropped and counted.
Push(serial) ==
  IF Len(events) < Capacity
  THEN events' = Append(events, serial) /\ UNCHANGED dropped_count
  ELSE dropped_count' = dropped_count + 1 /\ UNCHANGED events

Receive ==
  /\ listener = "idle" /\ wire # <<>>
  /\ wire' = Tail(wire)
  /\ \/ /\ Head(wire).member = "triggered"
        /\ Push(Head(wire).about)
        /\ listener' = "pushed"
        /\ UNCHANGED window_results
     \/ /\ Head(wire).member = "windowResult"
        /\ window_results' = Append(window_results, Head(wire).about)
        /\ UNCHANGED <<events, dropped_count, listener>>
  /\ UNCHANGED <<kwin, readable, runner, history>>

WakeOnlyAWait ==
  /\ listener = "pushed"
  /\ listener' = "idle"
  /\ readable' = (readable \/ pc = "wait")
  /\ UNCHANGED <<kwin, wire, events, dropped_count, window_results, runner, history>>

\* wake_sender.wake(), whether or not the callback was accepted.
Wake ==
  /\ listener = "pushed"
  /\ listener' = "idle"
  /\ readable' = TRUE
  /\ UNCHANGED <<kwin, wire, events, dropped_count, window_results, runner, history>>

-----------------------------------------------------------------------------
(* The runner's thread. *)

\* drain_live_shortcut_callbacks, at the top of the loop.
StartDrain ==
  /\ pc = "work"
  /\ pc' = "drain" /\ back' = "wait"
  /\ UNCHANGED <<kwin, wire, listener, inbox, window_results, caller, next_index,
                 active_process, history>>

\* The wait returned for the eventfd: it is drained first, then the queue.
WakeByCallback ==
  /\ pc = "wait" /\ readable
  /\ readable' = FALSE
  /\ pc' = "drain" /\ back' = "work"
  /\ UNCHANGED <<kwin, wire, listener, events, dropped_count, window_results,
                 caller, next_index, active_process, history>>

\* The wait returned for input, a signal, the timer or its timeout.
WakeOtherwise ==
  /\ pc = "wait"
  /\ pc' = "work"
  /\ UNCHANGED <<kwin, wire, listener, inbox, window_results, back, caller, next_index,
                 active_process, history>>

TakeDropped ==
  /\ pc = "drain"
  /\ pc' = "pop"
  /\ reported' = reported + dropped_count
  /\ dropped_count' = 0
  /\ UNCHANGED <<kwin, wire, listener, events, readable, window_results, back,
                 caller, next_index, active_process, handled, given_up>>

\* next_shortcut_event: the context of the popped callback is the one in force.
PopCallback ==
  /\ pc = "pop" /\ events # <<>>
  /\ events' = Tail(events)
  /\ active_process' = Head(events)
  /\ handled' = handled + 1
  /\ pc' = "handle"
  /\ UNCHANGED <<kwin, wire, listener, dropped_count, readable, window_results, back,
                 caller, next_index, reported, given_up>>

\* The callback's hotkey is looked up and acted upon, or ignored.
HandleCallback ==
  /\ pc = "handle"
  /\ pc' = "pop"
  /\ UNCHANGED <<kwin, wire, listener, inbox, window_results, back, caller, next_index,
                 active_process, history>>

FinishDrainDisarming ==
  /\ pc = "pop" /\ events = <<>>
  /\ pc' = back
  /\ readable' = FALSE
  /\ UNCHANGED <<kwin, wire, listener, events, dropped_count, window_results, back,
                 caller, next_index, active_process, history>>

FinishDrain ==
  /\ pc = "pop" /\ events = <<>>
  /\ pc' = back
  /\ UNCHANGED <<kwin, wire, listener, inbox, window_results, back, caller, next_index,
                 active_process, history>>

-----------------------------------------------------------------------------
(* The runner's window requests (run_window_script): by a developer hotkey  *)
(* or an overlay in the middle of a drain, by a controller or an overlay in *)
(* the work of an iteration.                                                *)

\* The script is loaded and started.
AskKwin ==
  /\ pc \in {"handle", "work"} /\ next_index < MaxRequests
  /\ next_index' = next_index + 1
  /\ scripts' = scripts \cup {next_index + 1}
  /\ pc' = "asking" /\ caller' = pc
  /\ UNCHANGED <<sent, wire, listener, inbox, window_results, back, active_process, history>>

\* The request fails before the wait; a script loaded by then is left behind.
FailToAsk ==
  /\ pc \in {"handle", "work"} /\ next_index < MaxRequests
  /\ next_index' = next_index + 1
  /\ scripts' \in {scripts, scripts \cup {next_index + 1}}
  /\ given_up' = given_up \cup {next_index + 1}
  /\ UNCHANGED <<sent, wire, listener, inbox, window_results, pc, back, caller,
                 active_process, handled, reported>>

AnswersAny == DOMAIN window_results

\* The answers to the request; take_window_result takes the first.
Answers == {i \in DOMAIN window_results : window_results[i] = next_index}

TakeAnswer ==
  /\ pc = "asking" /\ Answers # {}
  /\ LET first == CHOOSE i \in Answers : \A j \in Answers : i <= j
     IN  window_results' = [i \in 1..(Len(window_results) - 1) |->
                             window_results[IF i < first THEN i ELSE i + 1]]
  /\ pc' = caller
  /\ UNCHANGED <<kwin, wire, listener, inbox, back, caller, next_index, active_process,
                 history>>

\* No answer within 500 ms: the script is unloaded, if KWin does so.
GiveUp ==
  /\ pc = "asking" /\ Answers = {}
  /\ scripts' \in {scripts, scripts \ {next_index}}
  /\ given_up' = given_up \cup {next_index}
  /\ pc' = caller
  /\ UNCHANGED <<sent, wire, listener, inbox, window_results, back, caller, next_index,
                 active_process, handled, reported>>

-----------------------------------------------------------------------------
Init ==
  /\ sent = 0 /\ scripts = {}
  /\ wire = <<>> /\ listener = "idle"
  /\ events = <<>> /\ dropped_count = 0 /\ readable = FALSE
  /\ window_results = <<>>
  /\ pc = "work" /\ back = "wait" /\ caller = "work"
  /\ next_index = 0 /\ active_process = 0
  /\ handled = 0 /\ reported = 0 /\ given_up = {}

Listener == Receive \/ Wake
Drain == StartDrain \/ TakeDropped \/ PopCallback \/ HandleCallback \/ FinishDrain
Request == AskKwin \/ FailToAsk \/ TakeAnswer \/ GiveUp

Next ==
  \/ Trigger \/ RunScript \/ Listener
  \/ Drain \/ WakeByCallback \/ WakeOtherwise \/ Request

\* Both threads run on, and a wait returns once its eventfd is readable.
Fairness ==
  WF_vars(Listener) /\ WF_vars(Drain) /\ WF_vars(WakeByCallback) /\ WF_vars(TakeAnswer \/ GiveUp)

Spec == Init /\ [][Next]_vars
FairSpec == Spec /\ Fairness

-----------------------------------------------------------------------------
(* Properties *)

\* Every variable has the shape the bridge gives it; the queue keeps its limit.
TypeOK ==
  /\ sent \in 0..MaxCallbacks /\ scripts \subseteq Nat
  /\ wire \in Seq(Messages)
  /\ listener \in {"idle", "pushed"}
  /\ events \in Seq(Serial) /\ Len(events) <= Capacity
  /\ dropped_count \in Nat /\ readable \in BOOLEAN
  /\ window_results \in Seq(Nat)
  /\ pc \in {"work", "drain", "pop", "handle", "asking", "wait"}
  /\ back \in {"work", "wait"} /\ caller \in {"work", "handle"}
  /\ next_index \in Nat /\ active_process \in Nat
  /\ handled \in Nat /\ reported \in Nat /\ given_up \subseteq Nat

\* The runner never waits on a full inbox: with a callback queued, or a drop
\* not reported, the eventfd is readable or the listener is about to write it,
\* although the runner drains the eventfd and the queue in two steps, at two
\* places of its loop, and the listener fills the queue in between.
NoLostWakeup ==
  pc = "wait" /\ (events # <<>> \/ dropped_count > 0) => readable \/ listener = "pushed"

\* What waiting relies on, for every capacity (KwinCallbacksProofs).
Inv == TypeOK /\ NoLostWakeup

OnTheWire == {i \in DOMAIN wire : wire[i].member = "triggered"}

\* specs/009 FR-004 and SC-003: no callback is lost silently. Each one sent is on
\* its way, queued, handled, or counted as dropped.
EveryDropIsCounted ==
  sent = Cardinality(OnTheWire) + Len(events) + handled
           + dropped_count + reported

\* specs/009, scenario 3: callbacks are handled in the order they arrived, and a
\* focus context never gives way to an older one, whatever was dropped.
HandledInOrder ==
  /\ \A i \in DOMAIN events : active_process < events[i]
  /\ \A i, j \in DOMAIN events : i < j => events[i] < events[j]

\* Window requests do not take each other's answers: an answer that waits to be
\* taken is the current request's or came too late for its own.
LeftoverAnswersAreLate ==
  \A i \in DOMAIN window_results :
    window_results[i] \in given_up \cup (IF pc = "asking" THEN {next_index} ELSE {})

\* What comes over the bus is accounted for: counted, in order and its asker's.
MessagesAccounted == EveryDropIsCounted /\ HandledInOrder /\ LeftoverAnswersAreLate

\* Callbacks and drops are dealt with, however long the loop is away.
InboxIsServed ==
  (events # <<>> \/ dropped_count > 0) ~> (events = <<>> /\ dropped_count = 0)

\* To the event loop the bridge is a CallbackMailbox.
Mailbox == INSTANCE CallbackMailbox WITH
  Message <- Serial, callbacks <- events, wake <- (readable \/ listener = "pushed")

ImplementsMailbox == Mailbox!Spec
=============================================================================
