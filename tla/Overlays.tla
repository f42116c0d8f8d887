------------------------------ MODULE Overlays ------------------------------
(* The screen-reading half of the live controller loop: the focus that KWin   *)
(* reports, the poll that captures one frame for every tracker that is due    *)
(* (cli/src/runner.rs, core/src/screen_state.rs), the overlays drawn from the *)
(* trackers' states (core/src/overlay.rs) and the qml child process of each   *)
(* overlay (wayland/src/overlay.rs).                                          *)
(*                                                                           *)
(* The loop is one thread: while it waits for a frame nothing else of it      *)
(* runs, but the user moves the focus, the screen changes and children exit.  *)
EXTENDS StateTrackers

CONSTANTS
  OverlayIds,      \* a sequence, in the order of declaration
  Overlay,         \* [id -> [scope, toggle: whether it has a hotkey,
                   \*  visuals: a sequence of [tracker, style, phases]]]
  Pictures,        \* what the screen may show
  Frame,           \* [picture -> the PipeWire buffer of it]
  Windows,         \* the windows that may have the focus
  Seat,            \* [window -> [appId, class, title, pid, rect]]
  MaxNow,          \* bound of the clock
  Lag,             \* how late the loop may come to a due poll
  CaptureWait      \* how long a capture waits for a frame (500 ms)

Shown == Range(OverlayIds)

\* What OverlayDefinitionSet::new accepts: a visual shows a declared tracker, and only a
\* radial cooldown has phase styles.
ASSUME OverlaysAssumption ==
  /\ MaxNow \in Nat /\ Lag \in Nat /\ CaptureWait \in Nat
  /\ \A o \in Shown : /\ DOMAIN Overlay[o].visuals # {}
                      /\ \A visual \in Range(Overlay[o].visuals) :
                           /\ visual.tracker \in Ids
                           /\ Tracker[visual.tracker].detector.kind = "HorizontalProgressBar"
                                => DOMAIN visual.phases \subseteq {"Ready", "Inactive"}

\* What PipeWire says of a buffer and KWin of a window: bytes, lengths and a rectangle.
ASSUME ScreenAssumption ==
  /\ \A p \in Pictures : /\ Frame[p].bytes \in Seq(0..255) /\ Frame[p].stride \in Int
                         /\ {Frame[p].width, Frame[p].height, Frame[p].offset} \subseteq Nat
  /\ \A w \in Windows : Seat[w].rect \in [x : Int, y : Int, w : Int, h : Int]

VARIABLES
  now,       \* tracker_time_base.elapsed()
  focus,     \* the window that has the focus
  context,   \* the focus as KWin last reported it
  poller,    \* the StateTrackerPoller
  turn,      \* the poll that waits for its frame, or NoTurn
  cast,      \* the ScreenCast session is open
  scale,     \* the screen_coordinate_scale once one was found, else NONE
  hidden,    \* OverlayToggleRuntime.hidden_overlay_ids
  qml,       \* [overlay -> its QmlOverlayProcess: [child, state], or NONE]
  status,    \* "running", "ended" or "killed"
  away,      \* history: how long the focus has been outside an overlay's scope
  looked     \* history: the picture each tracker's detector last looked at

overlay_vars == <<now, focus, context, poller, turn, cast, scale, hidden, qml, status, away, looked>>

--------------------------------------------------------------------------
(* The observations every picture gives at every scale: a table, worked out   *)
(* once.                                                                     *)

Sample == [p \in Pictures |-> CopyFrame(Frame[p])]
Readables == {p \in Pictures : Sample[p] # NONE}
Identity == [x |-> 1000, y |-> 1000]
Scales   == {Identity} \cup {CoordinateScale(Sample[p], <<Seat[w].rect>>) : p \in Readables, w \in Windows}

Observe(sample, detector) ==
  IF detector.kind = "HorizontalProgressBar" THEN ObserveBar(sample, detector)
  ELSE ObserveRadial(sample, detector)

Sees == [s \in Scales |-> [p \in Readables |->
           [t \in Ids |-> Observe(Sample[p], ScaledForSample(Tracker[t].detector, s))]]]

--------------------------------------------------------------------------
(* Snapshots.                                                                *)

\* apply_to: a style replaces the attributes it gives.
Styled(style, over) == [a \in DOMAIN style |-> IF a \in DOMAIN over THEN over[a] ELSE style[a]]
PhaseStyle(visual, phase, default) ==
  Styled(visual.style, IF phase \in DOMAIN visual.phases THEN visual.phases[phase] ELSE default)
Unstyled == [a \in {} |-> 0]
Activated(style) == [fill |-> "orange", background |-> "maroon", opacity |-> Most(85, style.opacity)]
Active(style)    == [fill |-> "sky", background |-> "navy", opacity |-> Most(80, style.opacity)]

RadialFill(state) ==
  CASE state.phase = "Ready" -> 100
    [] state.phase = "Recovering" -> 100 - state.fraction
    [] state.phase = "Active" /\ state.predicted # NONE -> (state.predicted * 100) \div state.duration
    [] OTHER -> 0

RadialStyle(visual, phase) ==
  CASE phase = "Activated"  -> PhaseStyle(visual, phase, Activated(visual.style))
    [] phase = "Active"     -> PhaseStyle(visual, phase, Active(visual.style))
    [] phase = "Unknown"    -> PhaseStyle(visual, "Inactive", Unstyled)
    [] phase = "Ready"      -> PhaseStyle(visual, phase, Unstyled)
    [] phase = "Recovering" -> visual.style

VisualSnapshot(visual, state) ==
  CASE state.kind = "Inactive" ->
         [fill |-> 0, active |-> FALSE, ready |-> FALSE, style |-> PhaseStyle(visual, "Inactive", Unstyled)]
    [] state.kind = "HorizontalProgressBar" ->
         [fill |-> state.progress, active |-> state.visible, ready |-> FALSE,
          style |-> IF state.visible THEN visual.style ELSE PhaseStyle(visual, "Inactive", Unstyled)]
    [] state.kind = "RadialCooldown" ->
         [fill |-> RadialFill(state), active |-> state.phase # "Unknown",
          ready |-> state.phase = "Ready", style |-> RadialStyle(visual, state.phase)]

Closed == <<>>

\* overlay_snapshot: closed out of scope or while a source has no state, else one per visual.
OverlaySnapshot(o, seen, latest, at) ==
  LET visuals == Overlay[o].visuals
  IN IF \/ Decide(Overlay[o].scope, seen, at) # "Allowed"
        \/ \E visual \in Range(visuals) : latest[visual.tracker] = NONE
     THEN Closed
     ELSE [i \in DOMAIN visuals |-> VisualSnapshot(visuals[i], latest[visuals[i].tracker])]

--------------------------------------------------------------------------
(* The renderer.                                                             *)

NoProcess == NONE
Stopped   == [o \in Shown |-> NoProcess]

\* A mistake: a child is told what to draw when it is started, and not again.
RenderedOnce(process, snapshot) ==
  IF snapshot = Closed THEN NoProcess
  ELSE IF process = NoProcess THEN [child |-> "running", state |-> snapshot] ELSE process

\* hide: an overlay that has a process gets an empty state, whether its child lives or not.
\* mount_or_update: the state file first, then the child: started if there is none, an error
\* if it has exited.
Rendered(process, snapshot) ==
  IF process = NoProcess
  THEN IF snapshot = Closed THEN NoProcess ELSE [child |-> "running", state |-> snapshot]
  ELSE [child |-> IF snapshot # Closed /\ process.child = "exited" THEN "none" ELSE process.child,
        state |-> snapshot]

RenderFails(process, snapshot) ==
  snapshot # Closed /\ process # NoProcess /\ process.child = "exited"

Visible == {o \in Shown : qml[o] # NoProcess /\ qml[o].child = "running" /\ qml[o].state # Closed}

\* No poll waits: one that does has trackers to look for.
NoTurn == [active |-> {}]

OverlayInit ==
  /\ now = 0 /\ focus \in Windows
  /\ context = [name |-> NONE, confidence |-> "Unavailable", at |-> 0]
  /\ poller = NewPoller /\ turn = NoTurn /\ cast = FALSE /\ scale = NONE /\ hidden = {} /\ qml = Stopped
  /\ status = "running"
  /\ away = [o \in Shown |-> 0]
  /\ looked = [t \in Ids |-> NONE]

--------------------------------------------------------------------------
(* The surroundings.                                                         *)

InsideScope(o, window) == Decide(Overlay[o].scope, ContextOf(Seat[window], 0), 0) = "Allowed"

\* Time passes; the loop is not later than Lag to a poll, and a capture not longer than its wait.
Tick ==
  /\ status = "running" /\ now < MaxNow
  /\ turn = NoTurn => \A t \in Ids : now < (IF poller.last[t] = NONE THEN 0
                                           ELSE poller.last[t] + Tracker[t].poll) + Lag
  /\ turn # NoTurn => now < turn.now + CaptureWait
  /\ now' = now + 1
  /\ away' = [o \in Shown |-> IF InsideScope(o, focus) THEN 0 ELSE away[o] + 1]
  /\ UNCHANGED <<scale, focus, context, poller, turn, cast, hidden, qml, status, looked>>

MoveFocus == /\ status = "running" /\ focus' \in Windows \ {focus}
             /\ away' = [o \in Shown |-> IF InsideScope(o, focus') THEN 0 ELSE away[o]]
             /\ UNCHANGED <<now, scale, context, poller, turn, cast, hidden, qml, status, looked>>

\* The monitor script's callback, on an activation or its heartbeat, or never again.
Report == /\ status = "running" /\ ContextOf(Seat[focus], now) # context
          /\ context' = ContextOf(Seat[focus], now)
          /\ UNCHANGED <<now, scale, focus, poller, turn, cast, hidden, qml, status, away, looked>>

QmlExits(o) == /\ status = "running" /\ qml[o] # NoProcess /\ qml[o].child = "running"
               /\ qml' = [qml EXCEPT ![o].child = "exited"]
               /\ UNCHANGED <<now, scale, focus, context, poller, turn, cast, hidden, status, away, looked>>

--------------------------------------------------------------------------
(* The loop.                                                                 *)

\* cleanup_all on the way out of the loop: cancel_pending and unregister_all close everything.
Leave == /\ status' = "ended" /\ qml' = Stopped /\ cast' = FALSE /\ turn' = NoTurn

\* A mistake: the overlays the user has hidden are drawn too.
RenderHidden(seen, latest, at) ==
  LET drawn(o) == OverlaySnapshot(o, seen, latest, at)
  IN IF \E o \in Shown : RenderFails(qml[o], drawn(o)) THEN Leave
     ELSE /\ qml' = [o \in Shown |-> Rendered(qml[o], drawn(o))]
          /\ turn' = NoTurn /\ UNCHANGED <<status, cast>>

\* poll_live_overlays: every overlay that is not hidden, in order, until one fails.
Render(seen, latest, at) ==
  LET drawn(o) == OverlaySnapshot(o, seen, latest, at)
      failing  == {o \in Shown \ hidden : RenderFails(qml[o], drawn(o))}
  IN IF failing # {} THEN Leave
     ELSE /\ qml' = [o \in Shown |-> IF o \in hidden THEN qml[o] ELSE Rendered(qml[o], drawn(o))]
          /\ turn' = NoTurn /\ UNCHANGED <<status, cast>>

\* A poll without a frame: nothing that is due is in scope.
PollOutOfScope ==
  /\ status = "running" /\ turn = NoTurn
  /\ LET due    == Due(poller, now)
         active == InScope(due, context, now)
     IN /\ due # {} /\ active = {}
        /\ poller' = MarkInactive(poller, now, due, "FocusInactive")
        /\ Render(context, poller'.latest, now)
        /\ UNCHANGED <<now, scale, focus, context, hidden, away, looked>>

\* A poll that needs a frame opens the ScreenCast session the first time and waits.
PollBegins ==
  /\ status = "running" /\ turn = NoTurn
  /\ LET due    == Due(poller, now)
         active == InScope(due, context, now)
     IN /\ active # {}
        /\ poller' = MarkInactive(poller, now, due \ active, "FocusInactive")
        /\ turn' = [now |-> now, active |-> active, context |-> context]
        /\ cast' \in {cast, TRUE}
  /\ UNCHANGED <<now, scale, focus, context, hidden, qml, status, away, looked>>

\* coordinate_scale_for_sample: the scale once found, else what the focused window gives now,
\* or none while KWin does not answer.
ScalesFor(picture) == IF scale # NONE THEN {scale}
                      ELSE {Identity, CoordinateScale(Sample[picture], <<Seat[focus].rect>>)}

\* A frame of whatever the screen shows arrives and can be read; the poll's time is when it began.
PollEnds(picture) ==
  /\ turn # NoTurn /\ cast /\ picture \in Readables
  /\ \E s \in ScalesFor(picture) :
       /\ poller' = PollAll(poller, turn.now, turn.active, Sees[s][picture], now)
       /\ scale' = IF s = Identity THEN scale ELSE s
  /\ looked' = [t \in Ids |-> IF /\ t \in turn.active
                                 /\ poller'.latest[t] # Inactive("ConditionInactive")
                              THEN picture ELSE looked[t]]
  /\ Render(turn.context, poller'.latest, now)
  /\ UNCHANGED <<now, focus, context, hidden, away>>

\* The session cannot be opened, no frame comes in time, or it cannot be read.
PollFails ==
  /\ turn # NoTurn
  /\ ~cast \/ Readables # Pictures \/ now = turn.now + CaptureWait
  /\ poller' = MarkInactive(poller, turn.now, turn.active, "NoReadableSample")
  /\ Render(turn.context, poller'.latest, now)
  /\ UNCHANGED <<now, scale, focus, context, hidden, away, looked>>

\* toggle_overlay: hiding stops the process at once, showing waits for the next poll.
Toggle(o) ==
  /\ status = "running" /\ turn = NoTurn
  /\ Overlay[o].toggle /\ Decide(Overlay[o].scope, context, now) = "Allowed"
  /\ IF o \in hidden THEN hidden' = hidden \ {o} /\ UNCHANGED qml
     ELSE hidden' = hidden \cup {o} /\ qml' = [qml EXCEPT ![o] = NoProcess]
  /\ UNCHANGED <<now, scale, focus, context, poller, turn, cast, status, away, looked>>

\* A shutdown signal is read between two turns.
Stop == /\ status = "running" /\ turn = NoTurn
        /\ Leave
        /\ UNCHANGED <<now, scale, focus, context, poller, hidden, away, looked>>

\* SIGKILL: the children die with their parent (PR_SET_PDEATHSIG), their files stay.
Kill == /\ status = "running"
        /\ status' = "killed" /\ turn' = NoTurn /\ cast' = FALSE
        /\ qml' = [o \in Shown |-> IF qml[o] = NoProcess THEN NoProcess
                                   ELSE [qml[o] EXCEPT !.child = "exited"]]
        /\ UNCHANGED <<now, scale, focus, context, poller, hidden, away, looked>>

OverlayNext == \/ Tick \/ MoveFocus \/ Report
        \/ PollOutOfScope \/ PollBegins \/ PollFails
        \/ \E picture \in Pictures : PollEnds(picture)
        \/ Stop \/ Kill
        \/ \E o \in Shown : QmlExits(o) \/ Toggle(o)

OverlaySpec == OverlayInit /\ [][OverlayNext]_overlay_vars

--------------------------------------------------------------------------
(* Properties.                                                               *)

\* An overlay is not left on the screen when its window lost the focus: however KWin's reports,
\* the capture and the children behave, it is empty once the last report is too old, the
\* next poll is due and that poll has had its frame (018 FR-016).
OverlaysCloseWithFocus ==
  \A o \in Shown :
    status = "running" /\ away[o] > FocusStaleAfter + Min({Tracker[t].poll : t \in Ids}) + Lag + CaptureWait
      => o \notin Visible

\* An overlay the user has hidden has no process, so no poll, however it ends, brings it back
\* before the user does.
HiddenStaysHidden == \A o \in hidden : qml[o] = NoProcess

\* A tracker with a condition that was read in the same poll as its source is active only when
\* that poll found the source in the phase it asks for: never on the source's state of before.
ConditionsHold ==
  \A t \in Ids :
    LET condition == Tracker[t].condition
    IN /\ condition # NONE /\ poller.last[t] # NONE
       /\ poller.last[condition.tracker] = poller.last[t]
       /\ poller.latest[t].kind # "Inactive"
       => ConditionMatches(condition, poller.latest)

\* What a visual draws is a percentage, and a full bar when its skill is ready, whatever the
\* frame, the regions, the rules and the scale: no mean, share, countdown or fill leaves its
\* range, which is why the clamps that the code puts on those are not in the model.
BarsArePercentages ==
  \A o \in Shown : qml[o] # NoProcess => \A i \in DOMAIN qml[o].state :
    LET visual == qml[o].state[i]
    IN visual.fill \in 0..100 /\ (visual.ready => visual.active /\ visual.fill = 100)

\* A visual that shows its source shows what the source's detector saw in the picture that it
\* looked at last, at a scale that some window gave: not in an earlier picture, and not another
\* tracker's, whichever trackers a poll skips and however it ends.  Only the countdown of an
\* active skill is not in a picture.
Depicts(visual, seen, kind) ==
  /\ seen # NONE
  /\ IF kind = "HorizontalProgressBar" THEN visual.fill = seen
     ELSE /\ seen.phase # "Unknown"
          /\ visual.ready = (seen.phase = "Ready")
          /\ seen.phase = "Recovering" => visual.fill = 100 - seen.fraction
          /\ seen.phase = "Activated" => visual.fill = 0
BarsShowTheLastPicture ==
  \A o \in Shown : qml[o] # NoProcess => \A i \in DOMAIN qml[o].state :
    LET t == Overlay[o].visuals[i].tracker
    IN qml[o].state[i].active =>
         /\ looked[t] \in Readables
         /\ \E s \in Scales :
              Depicts(qml[o].state[i], Sees[s][looked[t]][t], Tracker[t].detector.kind)

\* From one frame of an active skill to the next, the predicted countdown drawn goes down by
\* the time between the two frames.
Counting(state) == state # NONE /\ state.kind = "RadialCooldown" /\ state.predicted # NONE
RunsDown ==
  \A t \in Ids :
    LET before == poller.history[t].observations
        after  == poller'.history[t].observations
        old    == poller.latest[t]
        new    == poller'.latest[t]
    IN before # after /\ Counting(old) /\ Counting(new)
         => old.predicted - new.predicted = Last(after).at - Last(before).at
CountdownRunsDown == [][RunsDown]_overlay_vars

=============================================================================
