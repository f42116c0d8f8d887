---------------------------- MODULE StateTrackers ----------------------------
(* The poller of core/src/screen_state.rs and the scope decision of           *)
(* core/src/scope.rs it asks, as operators on the poller's value: what is due,  *)
(* what a poll makes of the focus and of a captured frame, and the radial       *)
(* cooldown's history.  Times are ticks.                                       *)
EXTENDS Detectors, SequencesExt

CONSTANTS
  Global,            \* the scope of everything (ExplicitGlobal); any other is a set of names
  Trackers,          \* the tracker ids, a sequence in the order of declaration
  Tracker,           \* [id -> [poll, scope, detector, condition]]
  HistoryWindow,     \* how many observations a cooldown keeps (16 in the code)
  FocusStaleAfter    \* DEFAULT_FOCUS_STALE_THRESHOLD

Ids == Range(Trackers)

\* What StateTrackerDefinitionSet::new accepts: distinct ids, a condition on an earlier tracker.
ASSUME TrackersAssumption ==
  /\ \A i, j \in DOMAIN Trackers : Trackers[i] = Trackers[j] => i = j
  /\ HistoryWindow \in Nat \ {0} /\ FocusStaleAfter \in Nat
  /\ Trackers \in Seq(Ids) /\ NONE \notin Nat
  /\ \A i \in DOMAIN Trackers :
       LET tracker == Tracker[Trackers[i]]
       IN /\ tracker.poll \in Nat \ {0}
          /\ tracker.detector \in DetectorType /\ ValidDetector(tracker.detector)
          /\ tracker.condition # NONE => \E j \in 1..(i - 1) : Trackers[j] = tracker.condition.tracker

--------------------------------------------------------------------------
(* Scope.  A context is what is known of the focused window: a name to match   *)
(* (or none), how sure that is, and since when.                               *)

\* first_non_empty of app id, window class and title.
FirstName(window) ==
  LET names == SelectSeq(<<window.appId, window.class, window.title>>, LAMBDA n : n # NONE)
  IN IF names = <<>> THEN NONE ELSE names[1]

\* kwin_callback_context_at
ContextOf(window, at) ==
  [name |-> FirstName(window), at |-> at,
   confidence |-> IF FirstName(window) = NONE THEN "Unavailable"
                  ELSE IF window.pid > 0 \/ window.appId # NONE THEN "Exact" ELSE "NameOnly"]

\* A mistake: the age of what is known is not looked at.
DecideAnyAge(scope, context, now) ==
  IF scope = Global \/ (context.confidence \in {"Exact", "NameOnly"} /\ context.name \in scope)
  THEN "Allowed" ELSE "ProcessMismatch"

\* decide_context_at_with_policy: "Allowed", or the kind of the denial.
Decide(scope, context, now) ==
  IF scope = Global THEN "Allowed"
  ELSE IF context.at > now THEN "UntrustedFocusTimestamp"
  ELSE IF now - context.at > FocusStaleAfter THEN "StaleFocus"
  ELSE CASE context.confidence = "Ambiguous" -> "AmbiguousFocus"
         [] context.confidence = "Unavailable" -> "FocusUnavailable"
         [] context.confidence = "Denied" -> "FocusPermissionDenied"
         [] OTHER -> IF context.name \in scope THEN "Allowed" ELSE "ProcessMismatch"

--------------------------------------------------------------------------
(* A radial cooldown's history.                                              *)

NoHistory == [observations |-> <<>>, total |-> NONE, phase |-> NONE, activeSince |-> NONE]

\* A mistake: every frame of an active skill restarts the countdown.
ObservePhaseAnew(history, at, phase) ==
  [history EXCEPT !.phase = phase, !.activeSince = IF phase = "Active" THEN at ELSE NONE]

ObservePhase(history, at, phase) ==
  [history EXCEPT !.phase = phase,
                  !.activeSince = IF phase # "Active" THEN NONE
                                  ELSE IF history.phase # "Active" THEN at ELSE @]

Push(history, at, fraction) ==
  LET longer == Append(history.observations, [at |-> at, fraction |-> fraction])
  IN [history EXCEPT !.observations =
        IF Len(longer) > HistoryWindow THEN Tail(longer) ELSE longer]

\* From the oldest observation that was further from the end than the latest; <<estimate, kept>>.
EstimateTotal(history) ==
  LET seen   == history.observations
      latest == seen[Len(seen)]
      higher == {i \in DOMAIN seen : seen[i].fraction > latest.fraction}
      from   == seen[Min(higher)]
  IN IF higher = {} \/ from.at > latest.at THEN <<NONE, history.total>>
     ELSE IF from.at = latest.at THEN <<history.total, history.total>>
     ELSE LET estimate == ((latest.at - from.at) * 100) \div (from.fraction - latest.fraction)
          IN <<estimate, estimate>>

PredictedRemaining(history, at, prediction) ==
  IF prediction = NONE \/ history.activeSince = NONE THEN NONE
  ELSE LET elapsed == at - history.activeSince
       IN IF elapsed < prediction.stable \/ elapsed > prediction.duration THEN NONE
          ELSE prediction.duration - elapsed

Inactive(reason) == [kind |-> "Inactive", reason |-> reason]

\* detect_radial_cooldown_with_roi on what was observed: <<state, history>>.
DetectRadial(observed, at, prediction, before) ==
  IF observed = NONE THEN <<Inactive("NoReadableSample"), before>>
  ELSE
    LET pushed    == Push(ObservePhase(before, at, observed.phase), at, observed.fraction)
        estimate  == EstimateTotal(pushed)
        ready     == observed.phase = "Ready"
        predicted == IF observed.phase = "Active"
                     THEN PredictedRemaining(pushed, at, prediction) ELSE NONE
    IN << [kind      |-> "RadialCooldown",
           phase     |-> observed.phase,
           fraction  |-> IF ready THEN 0 ELSE observed.fraction,
           remaining |-> CASE ready -> 0
                           [] observed.phase = "Unknown" \/ estimate[1] = NONE -> NONE
                           [] OTHER -> (estimate[1] * observed.fraction) \div 100,
           total     |-> estimate[1],
           predicted |-> predicted,
           duration  |-> IF predicted = NONE THEN NONE ELSE prediction.duration],
          [pushed EXCEPT !.total = estimate[2]] >>

DetectBar(observed) == [kind     |-> "HorizontalProgressBar",
                        visible  |-> observed # NONE,
                        progress |-> IF observed = NONE THEN 0 ELSE observed]

--------------------------------------------------------------------------
(* The poller: when each tracker was last polled, what it last was, and the    *)
(* cooldowns' histories.                                                     *)

NewPoller == [last |-> [t \in Ids |-> NONE], latest |-> [t \in Ids |-> NONE],
              history |-> [t \in Ids |-> NoHistory]]

DueIn(poller, t, now) == IF poller.last[t] = NONE THEN 0
                         ELSE Most(0, Tracker[t].poll - (now - poller.last[t]))
NextDueIn(poller, now) == Min({DueIn(poller, t, now) : t \in Ids})
Due(poller, now)       == {t \in Ids : DueIn(poller, t, now) = 0}

MarkInactive(poller, now, which, reason) ==
  [poller EXCEPT !.last   = [t \in Ids |-> IF t \in which THEN now ELSE @[t]],
                 !.latest = [t \in Ids |-> IF t \in which THEN Inactive(reason) ELSE @[t]]]

InScope(due, context, now) == {t \in due : Decide(Tracker[t].scope, context, now) = "Allowed"}

ConditionMatches(condition, latest) ==
  LET source == latest[condition.tracker]
  IN source # NONE /\ source.kind = "RadialCooldown" /\ source.phase = condition.phase

\* One active tracker against the frame; `observed' is what its detector saw there.
PollOne(poller, now, t, observed, at) ==
  LET tracker  == Tracker[t]
      detected == DetectRadial(observed, at, tracker.detector.prediction, poller.history[t])
      polled   == [poller EXCEPT !.last[t] = now]
  IN IF tracker.condition # NONE /\ ~ConditionMatches(tracker.condition, poller.latest)
     THEN [polled EXCEPT !.latest[t] = Inactive("ConditionInactive")]
     ELSE IF tracker.detector.kind = "HorizontalProgressBar"
     THEN [polled EXCEPT !.latest[t] = DetectBar(observed)]
     ELSE [polled EXCEPT !.latest[t] = detected[1], !.history[t] = detected[2]]

\* A mistake: every tracker is judged on the states of before the poll.
PollAllOnOldStates(poller, now, active, seen, at) ==
  FoldLeft(LAMBDA p, t :
             LET judged == PollOne([p EXCEPT !.latest = poller.latest], now, t, seen[t], at)
             IN IF t \notin active THEN p
                ELSE [judged EXCEPT !.latest = [p.latest EXCEPT ![t] = judged.latest[t]]],
           poller, Trackers)

\* The active trackers in the order of declaration, so that a condition sees its source's new state.
PollAll(poller, now, active, seen, at) ==
  FoldLeft(LAMBDA p, t : IF t \in active THEN PollOne(p, now, t, seen[t], at) ELSE p, poller, Trackers)
==============================================================================
