---------------------------- MODULE MotionRuntime ----------------------------
(***************************************************************************)
(* The input-motion matcher of signal-auras-core (motion.rs,               *)
(* MotionRuntime): the set of tokens physically held, the one attempt that *)
(* may be in progress, and the motion loops that are running.              *)
(*                                                                         *)
(* A motion is named by an element of Motion; its trigger, guard, window   *)
(* and loop are the constant functions below.  Event times are the kernel  *)
(* timestamps the caller passes to handle_input_at; devices are drained in *)
(* turn, so a time may lie up to MaxSkew before the latest one seen.       *)
(* A definition named after another one with a suffix (OpeningUnguarded)   *)
(* is a faulty version of it, which the properties below must refute.      *)
(***************************************************************************)
EXTENDS Integers, Sequences, FiniteSets

CONSTANTS
  Token,         \* every token a device can report
  WheelToken,    \* the tokens that have a press but no release
  Motion,        \* the motions of the loaded script
  Trigger,       \* Motion -> non-empty sequence of tokens
  RequiresHeld,  \* Motion -> tokens that must be held throughout
  WithinMs,      \* Motion -> the completion window
  WhileHeld,     \* the motions with a loop -> tokens that keep it running
  MaxTime,       \* bound: event times are 0..MaxTime
  MaxSkew        \* bound: how far behind the latest time an event may be

Looping == DOMAIN WhileHeld

ASSUME MotionAssumption ==
  /\ WheelToken \subseteq Token
  /\ Trigger \in [Motion -> Seq(Token) \ {<<>>}]
  /\ RequiresHeld \in [Motion -> SUBSET (Token \ WheelToken)]
  /\ WithinMs \in [Motion -> Nat \ {0}]
  /\ Looping \subseteq Motion
  /\ WhileHeld \in [Looping -> SUBSET Token]
  /\ MaxTime \in Nat
  /\ MaxSkew \in Nat

\* MotionRuntime::new keeps its motions in a map by trigger.  One trigger may
\* begin another: config.rs rejects that, controller.rs only within one scope.
ASSUME DistinctTriggers ==
  \A m, n \in Motion : Trigger[m] = Trigger[n] => m = n

VARIABLES
  held,          \* tokens believed to be down
  attempt,       \* NoAttempt or [started_at, progress, candidates]
  active_loops,  \* motions whose loop is running
  events,        \* what the last call returned
  latest,        \* latest event time seen (environment)
  typed          \* history: the presses of the current or last attempt

motion_vars == <<held, attempt, active_loops, events, latest, typed>>

Time == 0..MaxTime
NoAttempt == [started_at |-> 0, progress |-> 0, candidates |-> {}]
Attempt == [started_at : Time, progress : Nat, candidates : SUBSET Motion]
Active == attempt # NoAttempt

Triggered(m, starts_loop) ==
  [kind |-> "Triggered", motion |-> m, starts_loop |-> starts_loop]
LoopCancelled(m) == [kind |-> "LoopCancelled", motion |-> m]
Discarded(reason) == [kind |-> "MotionDiscarded", reason |-> reason]
Returned(m) == [kind |-> "CancelReturned", motion |-> m]

-----------------------------------------------------------------------------
\* Duration::saturating_sub: a time before the start counts as no time at all.
Elapsed(start, time) == IF time < start THEN 0 ELSE time - start

Satisfied(tokens, down) == tokens \subseteq down

Expired(time) ==
  /\ Active
  /\ \A m \in attempt.candidates : Elapsed(attempt.started_at, time) > WithinMs[m]

\* The candidates that the next press keeps, with `down` held.
Surviving(token, time, down) ==
  {m \in attempt.candidates :
     /\ attempt.progress < Len(Trigger[m])
     /\ Trigger[m][attempt.progress + 1] = token
     /\ Elapsed(attempt.started_at, time) <= WithinMs[m]
     /\ Satisfied(RequiresHeld[m], down)}

OpeningUnguarded(token, down) == {m \in Motion : Trigger[m][1] = token}

\* The motions a press may open an attempt for.
Opening(token, down) ==
  {m \in Motion : Trigger[m][1] = token /\ Satisfied(RequiresHeld[m], down)}

CompleteAt(candidates, progress) ==
  {m \in candidates : Len(Trigger[m]) = progress}

StartsLoop(m, down) == m \in Looping /\ Satisfied(WhileHeld[m], down)

\* trigger_event: the chosen motion is reported and its loop, if any, starts.
Fire(m, down, discards) ==
  /\ events' = discards \cup {Triggered(m, StartsLoop(m, down))}
  /\ active_loops' = IF StartsLoop(m, down) THEN active_loops \cup {m}
                                            ELSE active_loops
  /\ attempt' = NoAttempt

\* History of a press: `before` is what was held when it arrived.
Pressed(token, time) == [token |-> token, time |-> time, before |-> held]

\* The tail of handle_press: no attempt is in progress any more.
OpenAttempt(token, time, down, discards) ==
  LET candidates == Opening(token, down) IN
  /\ typed' = <<Pressed(token, time)>>
  /\ \/ /\ candidates = {}
        /\ attempt' = NoAttempt
        /\ events' = discards
        /\ UNCHANGED active_loops
     \/ \E m \in CompleteAt(candidates, 1) : Fire(m, down, discards)
     \/ /\ candidates # {}
        /\ CompleteAt(candidates, 1) = {}
        /\ attempt' = [started_at |-> time, progress |-> 1,
                       candidates |-> candidates]
        /\ events' = discards
        /\ UNCHANGED active_loops

\* The attempt goes on, and ends if a candidate is spelled out in full.
AdvanceAttempt(token, time, down) ==
  LET surviving == Surviving(token, time, down)
      progress  == attempt.progress + 1 IN
  /\ surviving # {}
  /\ typed' = Append(typed, Pressed(token, time))
  /\ \/ \E m \in CompleteAt(surviving, progress) : Fire(m, down, {})
     \/ /\ CompleteAt(surviving, progress) = {}
        /\ attempt' = [attempt EXCEPT !.progress = progress,
                                      !.candidates = surviving]
        /\ events' = {}
        /\ UNCHANGED active_loops

EventTime(time) ==
  /\ time + MaxSkew >= latest
  /\ latest' = IF time > latest THEN time ELSE latest

HandlePress(token, time) ==
  LET down == held \cup {token} IN
  /\ EventTime(time)
  /\ held' = down
  /\ \/ ~Active /\ OpenAttempt(token, time, down, {})
     \/ Expired(time) /\ OpenAttempt(token, time, down, {Discarded("Timeout")})
     \/ Active /\ ~Expired(time) /\ AdvanceAttempt(token, time, down)
     \/ /\ Active /\ ~Expired(time)
        /\ Surviving(token, time, down) = {}
        /\ OpenAttempt(token, time, down, {Discarded("UnrelatedPress")})

UnsupportedByWhileHeld(down) ==
  {m \in active_loops : ~Satisfied(WhileHeld[m], down)}

\* The loops that a release leaves without a token they need.
Unsupported(down) ==
  {m \in active_loops : \/ ~Satisfied(WhileHeld[m], down)
                        \/ ~Satisfied(RequiresHeld[m], down)}

\* A required token of any candidate ends the whole attempt.
Guarding(token) ==
  Active /\ \E m \in attempt.candidates : token \in RequiresHeld[m]

HandleRelease(token) ==
  LET down == held \ {token} IN
  /\ held' = down
  /\ attempt' = IF Guarding(token) THEN NoAttempt ELSE attempt
  /\ active_loops' = active_loops \ Unsupported(down)
  /\ events' = (IF Guarding(token) THEN {Discarded("PreconditionReleased")} ELSE {})
                 \cup {LoopCancelled(m) : m \in Unsupported(down)}
  /\ UNCHANGED <<latest, typed>>

CancelActiveLoopsCleared ==
  /\ active_loops' = {}
  /\ events' = {Returned(m) : m \in active_loops'}
  /\ UNCHANGED <<held, attempt, latest, typed>>

\* Called when scoped focus is lost and when the runner shuts down.
CancelActiveLoops ==
  /\ active_loops' = {}
  /\ events' = {Returned(m) : m \in active_loops}
  /\ UNCHANGED <<held, attempt, latest, typed>>

MotionInit ==
  /\ held = {}
  /\ attempt = NoAttempt
  /\ active_loops = {}
  /\ events = {}
  /\ latest = 0
  /\ typed = <<>>

MotionNext ==
  \/ \E token \in Token, time \in Time : HandlePress(token, time)
  \/ \E token \in Token \ WheelToken : HandleRelease(token)
  \/ CancelActiveLoops

MotionSpec == MotionInit /\ [][MotionNext]_motion_vars

-----------------------------------------------------------------------------
(* Properties *)

Press == [token : Token, time : Time, before : SUBSET Token]

\* Every variable has the shape motion.rs gives it.
MotionTypeOK ==
  /\ held \subseteq Token
  /\ attempt \in Attempt
  /\ active_loops \subseteq Looping
  /\ latest \in Time
  /\ typed \in Seq(Press)

\* A loop runs only while every token of its while_held and of its motion's
\* requires_held is down, whatever the order of presses and releases
\* (handle_press, trigger_event and handle_release keep active_loops and held
\* in step).
LoopsHeld ==
  \A m \in active_loops : WhileHeld[m] \cup RequiresHeld[m] \subseteq held

\* A candidate of the attempt in progress still has its whole guard down: a
\* required token cannot be let go and pressed again half way (README:
\* "must remain held until the motion completes").
GuardHeldThroughout ==
  \A m \in attempt.candidates : RequiresHeld[m] \subseteq held

Spelled(m, presses) ==
  /\ Len(presses) <= Len(Trigger[m])
  /\ \A i \in 1..Len(presses) :
       /\ presses[i].token = Trigger[m][i]
       /\ Elapsed(presses[1].time, presses[i].time) <= WithinMs[m]
       /\ RequiresHeld[m] \subseteq presses[i].before \cup {presses[i].token}

\* The candidates are exactly the motions whose trigger the presses of the
\* attempt begin, in time and under their guard: none is forgotten when the
\* filters run one press at a time, and none survives that should not.
CandidatesExact ==
  Active => /\ attempt.progress = Len(typed)
            /\ attempt.candidates =
                 {m \in Motion : Spelled(m, typed) /\ Len(typed) < Len(Trigger[m])}

\* The invariant of the matcher: the four facts above, of any reachable state.
MotionInv ==
  /\ MotionTypeOK
  /\ LoopsHeld
  /\ GuardHeldThroughout
  /\ CandidatesExact

\* A reported motion was spelled out in full by the presses of one attempt,
\* in time and under its guard, and no other motion is spelled out in full by
\* them: which candidate handle_press reports is never a matter of their order,
\* not even where one trigger begins another.
TriggeredWasSpelled ==
  \A e \in events : e.kind = "Triggered" =>
    {m \in Motion : Spelled(m, typed) /\ Len(typed) = Len(Trigger[m])} = {e.motion}

\* What the matcher reports of its loops, for the runner to act on: a loop
\* never starts or ends silently, so that the caller can emit its `before` and
\* `after` macros, and a motion that triggers while its loop runs reports a
\* start (handle_press, handle_release and cancel_active_loops against
\* everything LiveLoop assumes of them).
Named(kinds) == {e.motion : e \in {x \in events : x.kind \in kinds}}

Loops == INSTANCE MotionLoops WITH
  reports <- [triggered   |-> Named({"Triggered"}),
              starts_loop |-> \E e \in events : e.kind = "Triggered" /\ e.starts_loop,
              ended       |-> Named({"LoopCancelled", "CancelReturned"})]

ImplementsMotionLoops == Loops!Spec
=============================================================================
