----------------------- MODULE MatcherAndQueueProofs ------------------------
(* Theorems about the two parts that the declarative event loop is composed  *)
(* of: MotionRuntime, for every script and every clock bound, and            *)
(* MacroQueue, for every set of labels, macros and delays and every number   *)
(* of requests.                                                              *)
EXTENDS MotionRuntime, MacroQueue, WellFoundedInduction, TLAPS

-----------------------------------------------------------------------------
(* The matcher *)

\* What ties the attempt to the presses that made it.
AttemptInv ==
  /\ CandidatesExact
  /\ GuardHeldThroughout
  /\ Active => typed # <<>> /\ attempt.started_at = typed[1].time

MatcherInv == MotionTypeOK /\ LoopsHeld /\ AttemptInv

-----------------------------------------------------------------------------
\* A trigger has at least one token.
LEMMA TriggerLength == \A m \in Motion : Len(Trigger[m]) \in Nat \ {0}
  BY MotionAssumption

\* One press spells the first token of a motion whose guard is down.
LEMMA SpelledOne ==
  ASSUME NEW m \in Motion, NEW p \in Press
  PROVE  Spelled(m, <<p>>) <=> /\ Trigger[m][1] = p.token
                               /\ RequiresHeld[m] \subseteq p.before \cup {p.token}
  <1>1. Len(Trigger[m]) \in Nat \ {0}
    BY MotionAssumption
  <1>2. WithinMs[m] \in Nat
    BY MotionAssumption
  <1>3. Len(<<p>>) = 1 /\ <<p>>[1] = p
    OBVIOUS
  <1>4. Elapsed(p.time, p.time) = 0
    BY DEF Elapsed, Press, Time
  <1> QED
    BY <1>1, <1>2, <1>3, <1>4 DEF Spelled

\* One more press keeps a motion spelled exactly when it is the next token, in
\* time and under the guard: the filter of handle_press, one press at a time.
LEMMA SpelledAppend ==
  ASSUME NEW m \in Motion, NEW s \in Seq(Press), s # <<>>, NEW p \in Press
  PROVE  Spelled(m, Append(s, p)) <=>
           /\ Spelled(m, s)
           /\ Len(s) < Len(Trigger[m])
           /\ Trigger[m][Len(s) + 1] = p.token
           /\ Elapsed(s[1].time, p.time) <= WithinMs[m]
           /\ RequiresHeld[m] \subseteq p.before \cup {p.token}
  <1> DEFINE a == Append(s, p)
  <1>1. Len(s) \in Nat \ {0} /\ Len(a) = Len(s) + 1
    OBVIOUS
  <1>2. \A i \in 1..Len(s) : a[i] = s[i]
    OBVIOUS
  <1>3. a[Len(s) + 1] = p /\ a[1] = s[1]
    BY <1>1, <1>2
  <1>4. Len(Trigger[m]) \in Nat
    BY MotionAssumption
  <1>5. 1..Len(a) = 1..Len(s) \cup {Len(s) + 1}
    BY <1>1
  <1> HIDE DEF a
  <1>6. ASSUME Spelled(m, a)
        PROVE  /\ Spelled(m, s)
               /\ Len(s) < Len(Trigger[m])
               /\ Trigger[m][Len(s) + 1] = p.token
               /\ Elapsed(s[1].time, p.time) <= WithinMs[m]
               /\ RequiresHeld[m] \subseteq p.before \cup {p.token}
    <2>1. Len(s) < Len(Trigger[m])
      BY <1>1, <1>4, <1>6 DEF Spelled
    <2>2. Spelled(m, s)
      BY <1>2, <1>3, <1>5, <1>6, <2>1, <1>1, <1>4 DEF Spelled
    <2> QED
      BY <1>3, <1>5, <1>6, <2>1, <2>2 DEF Spelled
  <1>7. ASSUME /\ Spelled(m, s)
               /\ Len(s) < Len(Trigger[m])
               /\ Trigger[m][Len(s) + 1] = p.token
               /\ Elapsed(s[1].time, p.time) <= WithinMs[m]
               /\ RequiresHeld[m] \subseteq p.before \cup {p.token}
        PROVE  Spelled(m, a)
    <2>1. Len(a) <= Len(Trigger[m])
      BY <1>1, <1>4, <1>7
    <2> QED
      BY <1>2, <1>3, <1>5, <1>7, <2>1 DEF Spelled
  <1> QED
    BY <1>6, <1>7 DEF a

\* Two motions spelled out in full by the same presses are the same motion.
LEMMA FullSpellingUnique ==
  ASSUME NEW m \in Motion, NEW n \in Motion, NEW s \in Seq(Press),
         Spelled(m, s), Len(s) = Len(Trigger[m]), Spelled(n, s), Len(s) = Len(Trigger[n])
  PROVE  m = n
  <1>1. Trigger[m] \in Seq(Token) /\ Trigger[n] \in Seq(Token)
    BY MotionAssumption
  <1>2. \A i \in 1..Len(s) : Trigger[m][i] = Trigger[n][i]
    <2>1. \A i \in 1..Len(s) : s[i].token = Trigger[m][i]
      BY DEF Spelled
    <2>2. \A i \in 1..Len(s) : s[i].token = Trigger[n][i]
      BY DEF Spelled
    <2> QED
      BY <2>1, <2>2
  <1>3. \A t, u \in Seq(Token) :
           Len(t) = Len(u) /\ (\A i \in 1..Len(t) : t[i] = u[i]) => t = u
    OBVIOUS
  <1>4. Trigger[m] = Trigger[n]
    BY <1>1, <1>2, <1>3
  <1> QED
    BY <1>4, DistinctTriggers

-----------------------------------------------------------------------------
\* The opening candidates are the motions the one press spells.
LEMMA OpeningSpelled ==
  ASSUME NEW token \in Token, NEW time \in Time, held \subseteq Token
  PROVE  Opening(token, held \cup {token})
           = {m \in Motion : Spelled(m, <<Pressed(token, time)>>)}
  <1> DEFINE p == Pressed(token, time)
  <1>1. p \in Press /\ p.token = token /\ p.before = held
    BY DEF Pressed, Press
  <1> HIDE DEF p
  <1>2. \A m \in Motion : Spelled(m, <<p>>) <=>
           /\ Trigger[m][1] = token
           /\ RequiresHeld[m] \subseteq held \cup {token}
    BY <1>1, SpelledOne
  <1> QED
    BY <1>2 DEF p, Opening, Satisfied

\* The surviving candidates are the motions the longer attempt spells.
LEMMA SurvivingSpelled ==
  ASSUME MatcherInv, Active, NEW token \in Token, NEW time \in Time
  PROVE  Surviving(token, time, held \cup {token})
           = {m \in Motion : Spelled(m, Append(typed, Pressed(token, time)))}
  <1> DEFINE p == Pressed(token, time)
  <1>1. p \in Press /\ p.token = token /\ p.before = held /\ p.time = time
    BY DEF Pressed, Press, MatcherInv, MotionTypeOK
  <1> HIDE DEF p
  <1>2. typed \in Seq(Press) /\ typed # <<>> /\ attempt.started_at = typed[1].time
        /\ attempt.progress = Len(typed)
    BY DEF MatcherInv, MotionTypeOK, AttemptInv, CandidatesExact
  <1>3. attempt.candidates = {m \in Motion : Spelled(m, typed) /\ Len(typed) < Len(Trigger[m])}
    BY DEF MatcherInv, AttemptInv, CandidatesExact, GuardHeldThroughout, Active, NoAttempt
  <1>4. \A m \in Motion : Spelled(m, Append(typed, p)) <=>
           /\ Spelled(m, typed)
           /\ Len(typed) < Len(Trigger[m])
           /\ Trigger[m][Len(typed) + 1] = token
           /\ Elapsed(attempt.started_at, time) <= WithinMs[m]
           /\ RequiresHeld[m] \subseteq held \cup {token}
    BY <1>1, <1>2, SpelledAppend
  <1> QED
    BY <1>2, <1>3, <1>4 DEF p, Surviving, Satisfied
-----------------------------------------------------------------------------
\* What each of the three outcomes of a press does to the invariant.
LEMMA FireStep ==
  ASSUME MatcherInv, NEW m \in Motion, NEW down \in SUBSET Token, held \subseteq down,
         RequiresHeld[m] \subseteq down, held' = down,
         NEW discards, Fire(m, down, discards)
  PROVE  /\ ~Active' /\ attempt' \in Attempt
         /\ active_loops' \subseteq Looping
         /\ LoopsHeld'
  <1>1. active_loops \subseteq Looping /\ LoopsHeld
    BY DEF MatcherInv, MotionTypeOK
  <1>2. active_loops' \subseteq Looping /\ LoopsHeld'
    BY <1>1 DEF Fire, StartsLoop, Satisfied, LoopsHeld
  <1>3. attempt' \in Attempt /\ ~Active'
    BY MotionAssumption DEF Fire, Attempt, NoAttempt, Active, Time
  <1> QED
    BY <1>2, <1>3

\* A press that opens an attempt, or none, keeps the invariant.
LEMMA OpenStep ==
  ASSUME MatcherInv, NEW token \in Token, NEW time \in Time, held' = held \cup {token},
         NEW discards, \A e \in discards : e.kind # "Triggered",
         OpenAttempt(token, time, held \cup {token}, discards),
         latest' \in Time
  PROVE  MatcherInv' /\ TriggeredWasSpelled'
  <1> DEFINE p == Pressed(token, time)
             down == held \cup {token}
             candidates == Opening(token, down)
  <1>1. held \subseteq Token /\ down \subseteq Token /\ p \in Press
    BY DEF MatcherInv, MotionTypeOK, Pressed, Press
  <1>2. candidates = {m \in Motion : Spelled(m, <<p>>)}
    BY <1>1, OpeningSpelled
  <1>3. typed' = <<p>> /\ typed' \in Seq(Press) /\ typed' # <<>> /\ Len(typed') = 1
        /\ typed'[1] = p /\ p.time = time
    BY <1>1 DEF OpenAttempt, Pressed
  <1>4. \A m \in candidates : m \in Motion /\ RequiresHeld[m] \subseteq down
                              /\ Len(Trigger[m]) \in Nat \ {0}
    BY MotionAssumption DEF Opening, Satisfied
  <1>5. LoopsHeld /\ active_loops \subseteq Looping
    BY DEF MatcherInv, MotionTypeOK
  <1>6. CASE candidates = {} /\ attempt' = NoAttempt /\ events' = discards
             /\ active_loops' = active_loops
    <2>1. ~Active' /\ attempt' \in Attempt
      BY <1>6, MotionAssumption DEF Attempt, NoAttempt, Active, Time
    <2>2. MotionTypeOK'
      BY <2>1, <1>1, <1>3, <1>5, <1>6 DEF MotionTypeOK
    <2>3. LoopsHeld'
      BY <1>5, <1>6 DEF LoopsHeld
    <2>4. TriggeredWasSpelled'
      BY <1>6 DEF TriggeredWasSpelled
    <2> QED
      BY <2>1, <2>2, <2>3, <2>4 DEF MatcherInv, AttemptInv, CandidatesExact, GuardHeldThroughout, Active, NoAttempt
  <1>7. ASSUME NEW m \in CompleteAt(candidates, 1), Fire(m, down, discards)
        PROVE  MatcherInv' /\ TriggeredWasSpelled'
    <2>1. m \in candidates /\ Len(Trigger[m]) = 1
      BY <1>7 DEF CompleteAt
    <2>2. ~Active' /\ attempt' \in Attempt /\ active_loops' \subseteq Looping /\ LoopsHeld'
      BY <1>1, <1>4, <1>7, <2>1, FireStep
    <2>3. MotionTypeOK'
      BY <2>2, <1>1, <1>3 DEF MotionTypeOK
    <2>4. \A n \in Motion : Spelled(n, typed') /\ Len(typed') = Len(Trigger[n]) => n = m
      BY <1>2, <1>3, <1>4, <2>1, FullSpellingUnique
    <2>5. {n \in Motion : Spelled(n, typed') /\ Len(typed') = Len(Trigger[n])} = {m}
      BY <1>2, <1>3, <1>4, <2>1, <2>4
    <2>6. \A e \in events' : e.kind = "Triggered" => e.motion = m
      BY <1>7 DEF Fire, Triggered
    <2>7. TriggeredWasSpelled'
      BY <2>5, <2>6 DEF TriggeredWasSpelled, Spelled
    <2> QED
      BY <2>2, <2>3, <2>7 DEF MatcherInv, AttemptInv, CandidatesExact, GuardHeldThroughout, Active, NoAttempt
  <1>8. CASE /\ candidates # {}
             /\ CompleteAt(candidates, 1) = {}
             /\ attempt' = [started_at |-> time, progress |-> 1, candidates |-> candidates]
             /\ events' = discards
             /\ active_loops' = active_loops
    <2>1. attempt' \in Attempt
      BY <1>4, <1>8 DEF Attempt
    <2>2. MotionTypeOK'
      BY <2>1, <1>1, <1>3, <1>5, <1>8 DEF MotionTypeOK
    <2>3. LoopsHeld'
      BY <1>5, <1>8 DEF LoopsHeld
    <2>4. \A m \in candidates : Len(typed') < Len(Trigger[m])
      <3> SUFFICES ASSUME NEW m \in candidates PROVE Len(typed') < Len(Trigger[m])
        OBVIOUS
      <3>1. Len(Trigger[m]) # 1
        BY <1>8 DEF CompleteAt
      <3>2. m \in Motion
        BY <1>4
      <3>4. Len(Trigger[m]) \in Nat \ {0}
        BY <3>2, TriggerLength
      <3>3. Len(typed') = 1
        BY <1>3
      <3>5. \A n \in Nat \ {0} : n # 1 => 1 < n
        OBVIOUS
      <3>6. 1 < Len(Trigger[m])
        BY <3>1, <3>4, <3>5
      <3> QED
        BY <3>3, <3>6
    <2>5. candidates = {m \in Motion : Spelled(m, typed') /\ Len(typed') < Len(Trigger[m])}
      BY <1>2, <1>3, <2>4
    <2>6. AttemptInv'
      <3>1. CandidatesExact' /\ attempt'.started_at = typed'[1].time
        BY <1>3, <1>8, <2>5 DEF CandidatesExact, Spelled
      <3>2. GuardHeldThroughout'
        BY <1>4, <1>8 DEF GuardHeldThroughout
      <3> QED
        BY <1>3, <3>1, <3>2 DEF AttemptInv
    <2>7. TriggeredWasSpelled'
      BY <1>8 DEF TriggeredWasSpelled
    <2> QED
      BY <2>2, <2>3, <2>6, <2>7 DEF MatcherInv
  <1> QED
    BY <1>6, <1>7, <1>8 DEF OpenAttempt

\* A press that advances an attempt keeps the invariant.
LEMMA AdvanceStep ==
  ASSUME MatcherInv, Active, NEW token \in Token, NEW time \in Time,
         held' = held \cup {token},
         AdvanceAttempt(token, time, held \cup {token}),
         latest' \in Time
  PROVE  MatcherInv' /\ TriggeredWasSpelled'
  <1> DEFINE p == Pressed(token, time)
             down == held \cup {token}
             surviving == Surviving(token, time, down)
             progress == attempt.progress + 1
  <1>1. held \subseteq Token /\ down \subseteq Token /\ p \in Press
    BY DEF MatcherInv, MotionTypeOK, Pressed, Press
  <1>2. surviving = {m \in Motion : Spelled(m, Append(typed, p))}
    BY SurvivingSpelled
  <1>3. typed \in Seq(Press) /\ typed # <<>> /\ attempt.progress = Len(typed)
        /\ attempt.started_at = typed[1].time /\ attempt \in Attempt
    BY DEF MatcherInv, MotionTypeOK, AttemptInv, CandidatesExact
  <1>4. typed' = Append(typed, p) /\ typed' \in Seq(Press) /\ typed' # <<>>
        /\ Len(typed') = progress /\ typed'[1] = typed[1] /\ progress \in Nat
    BY <1>1, <1>3 DEF AdvanceAttempt
  <1>5. \A m \in surviving : m \in Motion /\ RequiresHeld[m] \subseteq down
                             /\ Len(Trigger[m]) \in Nat
                             /\ Len(typed') <= Len(Trigger[m])
    <2>1. \A m \in surviving : m \in Motion /\ RequiresHeld[m] \subseteq down
      BY <1>2 DEF Surviving, Satisfied
    <2>2. \A m \in surviving : Len(typed') <= Len(Trigger[m])
      BY <1>2, <1>4 DEF Spelled
    <2> HIDE DEF surviving, down
    <2> QED
      BY <2>1, <2>2, TriggerLength
  <1>6. LoopsHeld /\ active_loops \subseteq Looping
    BY DEF MatcherInv, MotionTypeOK
  <1>7. ASSUME NEW m \in CompleteAt(surviving, progress), Fire(m, down, {})
        PROVE  MatcherInv' /\ TriggeredWasSpelled'
    <2>1. m \in surviving /\ Len(Trigger[m]) = progress
      BY <1>7 DEF CompleteAt
    <2>2. ~Active' /\ attempt' \in Attempt /\ active_loops' \subseteq Looping /\ LoopsHeld'
      BY <1>1, <1>5, <1>7, <2>1, FireStep
    <2>3. MotionTypeOK'
      BY <2>2, <1>1, <1>4 DEF MotionTypeOK
    <2>4. \A n \in Motion : Spelled(n, typed') /\ Len(typed') = Len(Trigger[n]) => n = m
      BY <1>2, <1>4, <1>5, <2>1, FullSpellingUnique
    <2>5. {n \in Motion : Spelled(n, typed') /\ Len(typed') = Len(Trigger[n])} = {m}
      BY <1>2, <1>4, <1>5, <2>1, <2>4
    <2>6. \A e \in events' : e.kind = "Triggered" => e.motion = m
      BY <1>7 DEF Fire, Triggered
    <2>7. TriggeredWasSpelled'
      BY <2>5, <2>6 DEF TriggeredWasSpelled, Spelled
    <2> QED
      BY <2>2, <2>3, <2>7 DEF MatcherInv, AttemptInv, CandidatesExact, GuardHeldThroughout, Active, NoAttempt
  <1>8. CASE /\ CompleteAt(surviving, progress) = {}
             /\ attempt' = [attempt EXCEPT !.progress = progress, !.candidates = surviving]
             /\ events' = {}
             /\ active_loops' = active_loops
    <2>1. attempt' = [started_at |-> attempt.started_at, progress |-> progress,
                      candidates |-> surviving]
      BY <1>3, <1>8 DEF Attempt
    <2>2. MotionTypeOK'
      BY <2>1, <1>1, <1>3, <1>4, <1>5, <1>6, <1>8 DEF MotionTypeOK, Attempt
    <2>3. LoopsHeld'
      BY <1>6, <1>8 DEF LoopsHeld
    <2>4. \A m \in surviving : Len(typed') < Len(Trigger[m])
      <3> SUFFICES ASSUME NEW m \in surviving PROVE Len(typed') < Len(Trigger[m])
        OBVIOUS
      <3>1. Len(Trigger[m]) # progress
        BY <1>8 DEF CompleteAt
      <3>2. Len(Trigger[m]) \in Nat /\ Len(typed') <= Len(Trigger[m])
        BY <1>5
      <3> QED
        BY <1>4, <3>1, <3>2
    <2>5. surviving = {m \in Motion : Spelled(m, typed') /\ Len(typed') < Len(Trigger[m])}
      BY <1>2, <1>4, <2>4
    <2>6. AttemptInv'
      <3>1. CandidatesExact' /\ attempt'.started_at = typed'[1].time
        BY <1>3, <1>4, <2>1, <2>5 DEF CandidatesExact, Spelled
      <3>2. GuardHeldThroughout'
        BY <1>5, <2>1 DEF GuardHeldThroughout
      <3> QED
        BY <1>4, <3>1, <3>2 DEF AttemptInv
    <2>7. TriggeredWasSpelled'
      BY <1>8 DEF TriggeredWasSpelled
    <2> QED
      BY <2>2, <2>3, <2>6, <2>7 DEF MatcherInv
  <1> QED
    BY <1>7, <1>8 DEF AdvanceAttempt

-----------------------------------------------------------------------------
\* The inductive invariant holds at the start.
LEMMA InitInv == MotionInit => MatcherInv /\ TriggeredWasSpelled
  BY MotionAssumption
  DEF MotionInit, MatcherInv, MotionTypeOK, LoopsHeld, AttemptInv, CandidatesExact, GuardHeldThroughout, Active,
      Attempt, NoAttempt, Time, TriggeredWasSpelled

\* Every call of the matcher keeps the inductive invariant.
LEMMA NextInv == MatcherInv /\ TriggeredWasSpelled /\ [MotionNext]_motion_vars
                   => MatcherInv' /\ TriggeredWasSpelled'
  <1> SUFFICES ASSUME MatcherInv, TriggeredWasSpelled, [MotionNext]_motion_vars
               PROVE  MatcherInv' /\ TriggeredWasSpelled'
    OBVIOUS
  <1>1. ASSUME NEW token \in Token, NEW time \in Time, HandlePress(token, time)
        PROVE  MatcherInv' /\ TriggeredWasSpelled'
    <2>1. latest' \in Time /\ held' = held \cup {token}
      BY <1>1 DEF HandlePress, EventTime, MatcherInv, MotionTypeOK
    <2>2. CASE OpenAttempt(token, time, held \cup {token}, {})
      BY <2>1, <2>2, OpenStep
    <2>3. CASE OpenAttempt(token, time, held \cup {token}, {Discarded("Timeout")})
      <3>1. \A e \in {Discarded("Timeout")} : e.kind # "Triggered"
        BY DEF Discarded
      <3> QED
        BY <2>1, <2>3, <3>1, OpenStep
    <2>4. CASE Active /\ AdvanceAttempt(token, time, held \cup {token})
      BY <2>1, <2>4, AdvanceStep
    <2>5. CASE OpenAttempt(token, time, held \cup {token}, {Discarded("UnrelatedPress")})
      <3>1. \A e \in {Discarded("UnrelatedPress")} : e.kind # "Triggered"
        BY DEF Discarded
      <3> QED
        BY <2>1, <2>5, <3>1, OpenStep
    <2> QED
      BY <1>1, <2>2, <2>3, <2>4, <2>5 DEF HandlePress
  <1>2. ASSUME NEW token \in Token, HandleRelease(token)
        PROVE  MatcherInv' /\ TriggeredWasSpelled'
    <2>1. attempt' \in {attempt, NoAttempt} /\ typed' = typed
      BY <1>2 DEF HandleRelease
    <2>2. AttemptInv'
      <3>1. CandidatesExact' /\ (Active' => typed' # <<>> /\ attempt'.started_at = typed'[1].time)
        BY <2>1 DEF MatcherInv, AttemptInv, CandidatesExact, Active, Spelled
      <3>2. GuardHeldThroughout'
        BY <1>2 DEF MatcherInv, AttemptInv, GuardHeldThroughout, HandleRelease, Guarding,
                    Active, NoAttempt
      <3> QED
        BY <3>1, <3>2 DEF AttemptInv
    <2>3. MotionTypeOK'
      BY <1>2, MotionAssumption
      DEF MatcherInv, MotionTypeOK, HandleRelease, Attempt, NoAttempt, Time
    <2>4. LoopsHeld'
      BY <1>2 DEF MatcherInv, LoopsHeld, HandleRelease, Unsupported, Satisfied
    <2>5. TriggeredWasSpelled'
      BY <1>2 DEF TriggeredWasSpelled, HandleRelease, Discarded, LoopCancelled
    <2> QED
      BY <2>2, <2>3, <2>4, <2>5 DEF MatcherInv
  <1>3. CASE CancelActiveLoops
    <2>1. MotionTypeOK' /\ LoopsHeld'
      BY <1>3 DEF MatcherInv, MotionTypeOK, LoopsHeld, CancelActiveLoops
    <2>2. AttemptInv'
      BY <1>3 DEF MatcherInv, AttemptInv, CandidatesExact, GuardHeldThroughout, Active, Spelled,
                  CancelActiveLoops
    <2>3. TriggeredWasSpelled'
      BY <1>3 DEF TriggeredWasSpelled, CancelActiveLoops, Returned
    <2> QED
      BY <2>1, <2>2, <2>3 DEF MatcherInv
  <1>4. CASE UNCHANGED motion_vars
    BY <1>4 DEF motion_vars, MatcherInv, MotionTypeOK, LoopsHeld, AttemptInv, CandidatesExact,
                GuardHeldThroughout, Active, Spelled, TriggeredWasSpelled
  <1> QED
    BY <1>1, <1>2, <1>3, <1>4 DEF MotionNext

-----------------------------------------------------------------------------
\* The invariant, and with it the spelling of whatever is reported, is kept by
\* every press, release and cancellation, in any order.
THEOREM MatcherInvariant == MotionSpec => [](MatcherInv /\ TriggeredWasSpelled)
  BY InitInv, NextInv, PTL DEF MotionSpec

\* No loop outlives a token it needs; filtering press by press forgets no motion
\* and keeps none it should not; no guard is let go and taken up again half way.
THEOREM MatcherIsExact == MotionSpec => []MotionInv
  <1>1. MatcherInv => MotionInv
    BY DEF MatcherInv, AttemptInv, MotionInv
  <1> QED
    BY <1>1, MatcherInvariant, PTL

\* A reported motion was spelled in full, in time, under its guard, and by no
\* other motion: the find() over completed candidates never has to choose.
THEOREM ReportedMotionWasSpelled == MotionSpec => []TriggeredWasSpelled
  BY MatcherInvariant, PTL

-----------------------------------------------------------------------------
(* The matcher implements MotionLoops.                                       *)

\* The report that the events of the last call amount to.
Reported == [triggered   |-> Named({"Triggered"}),
             starts_loop |-> \E e \in events : e.kind = "Triggered" /\ e.starts_loop,
             ended       |-> Named({"LoopCancelled", "CancelReturned"})]

\* What MotionLoops asks of a step that returns r.
LEMMA ReportIsStep ==
  ASSUME NEW r, \/ r \in Loops!PressReports(active_loops)
                \/ r \in Loops!ReleaseReports(active_loops)
                \/ r = Loops!CancelReport(active_loops),
         Reported' = r, active_loops' = Loops!LoopsAfter(active_loops, r)
  PROVE  Loops!Next
  <1>1. Loops!Returns(r)
    BY DEF Loops!Returns, Reported
  <1>2. r = Loops!CancelReport(active_loops) => Loops!Returns(Loops!CancelReport(active_loops))
    BY DEF Loops!Returns, Reported
  <1> QED
    BY <1>1, <1>2 DEF Loops!Next

\* A call that reports no motion and no loop changes no loop.
LEMMA QuietIsStep ==
  ASSUME NEW discards, \A e \in discards : e.kind = "MotionDiscarded",
         events' = discards, active_loops' = active_loops
  PROVE  Loops!Next
  <1> PICK r : r = Loops!Nothing
    OBVIOUS
  <1>1. Reported' = r
    BY DEF Reported, Named, Loops!Nothing, Loops!Report
  <1>2. active_loops' = Loops!LoopsAfter(active_loops, r)
    BY DEF Loops!LoopsAfter, Loops!Nothing, Loops!Report
  <1>3. r \in Loops!PressReports(active_loops)
    BY DEF Loops!PressReports
  <1> QED
    BY <1>1, <1>2, <1>3, ReportIsStep

\* A motion that triggers says whether its loop starts, and starts a loop that
\* already runs: what keeps it running is still held.
LEMMA FireIsStep ==
  ASSUME MatcherInv, NEW m \in Motion, NEW STATE down, held \subseteq down,
         NEW discards, \A e \in discards : e.kind = "MotionDiscarded",
         Fire(m, down, discards)
  PROVE  Loops!Next
  <1> DEFINE b == StartsLoop(m, down)
  <1>1. b \in BOOLEAN /\ (b => m \in Looping)
    BY DEF StartsLoop
  <1>2. m \in active_loops => b
    <2> SUFFICES ASSUME m \in active_loops PROVE b
      OBVIOUS
    <2>1. m \in Looping /\ WhileHeld[m] \subseteq held
      BY DEF MatcherInv, MotionTypeOK, LoopsHeld
    <2> QED
      BY <2>1 DEF StartsLoop, Satisfied
  <1>3. events' = discards \cup {Triggered(m, b)}
        /\ active_loops' = IF b THEN active_loops \cup {m} ELSE active_loops
    BY DEF Fire
  <1> HIDE DEF b
  <1> PICK r : r = Loops!Report({m}, b, {})
    OBVIOUS
  <1> PICK t : t = Triggered(m, b)
    OBVIOUS
  <1>t. /\ t.kind = "Triggered" /\ t.motion = m /\ t.starts_loop = b
        /\ \A e \in events' : e = t \/ e.kind = "MotionDiscarded"
        /\ t \in events'
    BY <1>3 DEF Triggered
  <1>e. {e \in events' : e.kind \in {"Triggered"}} = {t}
    BY <1>t
  <1>4. Named({"Triggered"})' = {m}
    BY <1>t, <1>e DEF Named
  <1>5. Named({"LoopCancelled", "CancelReturned"})' = {}
    BY <1>t DEF Named
  <1>6. (\E e \in events' : e.kind = "Triggered" /\ e.starts_loop) = b
    <2>1. (\E e \in events' : e.kind = "Triggered" /\ e.starts_loop) <=> b
      BY <1>t
    <2> QED
      BY <1>1, <2>1
  <1>7. Reported' = r
    BY <1>4, <1>5, <1>6 DEF Reported, Loops!Report
  <1>8. active_loops' = Loops!LoopsAfter(active_loops, r)
    BY <1>3 DEF Loops!LoopsAfter, Loops!Report
  <1>9. r \in Loops!PressReports(active_loops)
    <2>1. r.triggered = {m} /\ r.starts_loop = b
      BY DEF Loops!Report
    <2>2. Loops!MayTrigger(active_loops, m, r.starts_loop)
      BY <1>1, <1>2, <2>1 DEF Loops!MayTrigger
    <2> DEFINE may(x) == \A n \in x.triggered :
                           Loops!MayTrigger(active_loops, n, x.starts_loop)
               all == {Loops!Report({n}, c, {}) : n \in Motion, c \in BOOLEAN}
    <2>3. may(r)
      BY <2>1, <2>2
    <2>4. r \in all
      BY <1>1
    <2>5. Loops!PressReports(active_loops) = {Loops!Nothing} \cup {x \in all : may(x)}
      BY DEF Loops!PressReports
    <2> HIDE DEF may, all
    <2> QED
      BY <2>3, <2>4, <2>5
  <1> QED
    BY <1>7, <1>8, <1>9, ReportIsStep

\* A press that opens an attempt fires a motion or reports none.
LEMMA OpenIsStep ==
  ASSUME MatcherInv, NEW token, NEW time, NEW STATE down, held \subseteq down,
         NEW discards, \A e \in discards : e.kind = "MotionDiscarded",
         OpenAttempt(token, time, down, discards)
  PROVE  Loops!Next
  <1>1. CASE events' = discards /\ active_loops' = active_loops
    BY <1>1, QuietIsStep
  <1>2. ASSUME NEW m \in CompleteAt(Opening(token, down), 1), Fire(m, down, discards)
        PROVE  Loops!Next
    <2>1. m \in Motion
      BY DEF CompleteAt, Opening
    <2> QED
      BY <1>2, <2>1, FireIsStep
  <1> QED
    BY <1>1, <1>2 DEF OpenAttempt

\* So does one that continues it.
LEMMA AdvanceIsStep ==
  ASSUME MatcherInv, NEW token, NEW time, NEW STATE down, held \subseteq down,
         AdvanceAttempt(token, time, down)
  PROVE  Loops!Next
  <1>1. CASE events' = {} /\ active_loops' = active_loops
    BY <1>1, QuietIsStep
  <1>2. ASSUME NEW m \in CompleteAt(Surviving(token, time, down), attempt.progress + 1),
               Fire(m, down, {})
        PROVE  Loops!Next
    <2>1. m \in Motion
      BY DEF CompleteAt, Surviving, MatcherInv, MotionTypeOK, Attempt
    <2> QED
      BY <1>2, <2>1, FireIsStep
  <1> QED
    BY <1>1, <1>2 DEF AdvanceAttempt

\* Every path of handle_press is one of the two.
LEMMA PressIsStep ==
  ASSUME MatcherInv, NEW token \in Token, NEW time \in Time, HandlePress(token, time)
  PROVE  Loops!Next
  <1> DEFINE down == held \cup {token}
  <1>1. held \subseteq down
    OBVIOUS
  <1>2. \A reason : \A e \in {Discarded(reason)} : e.kind = "MotionDiscarded"
    BY DEF Discarded
  <1> HIDE DEF down
  <1>3. CASE OpenAttempt(token, time, down, {})
    BY <1>1, <1>3, OpenIsStep
  <1>4. CASE OpenAttempt(token, time, down, {Discarded("Timeout")})
    BY <1>1, <1>2, <1>4, OpenIsStep
  <1>5. CASE OpenAttempt(token, time, down, {Discarded("UnrelatedPress")})
    BY <1>1, <1>2, <1>5, OpenIsStep
  <1>6. CASE AdvanceAttempt(token, time, down)
    BY <1>1, <1>6, AdvanceIsStep
  <1> QED
    BY <1>3, <1>4, <1>5, <1>6 DEF HandlePress, down

\* A release ends the loops it leaves unsupported, and says which.
LEMMA ReleaseIsStep ==
  ASSUME NEW token, HandleRelease(token)
  PROVE  Loops!Next
  <1> DEFINE lost == Unsupported(held \ {token})
             about == IF Guarding(token) THEN {Discarded("PreconditionReleased")} ELSE {}
  <1>1. lost \subseteq active_loops
    BY DEF Unsupported
  <1>2. events' = about \cup {LoopCancelled(m) : m \in lost}
        /\ active_loops' = active_loops \ lost
    BY DEF HandleRelease
  <1>3. \A e \in about : e.kind = "MotionDiscarded"
    BY DEF Discarded
  <1> HIDE DEF lost, about
  <1> PICK r : r = Loops!Report({}, FALSE, lost)
    OBVIOUS
  <1>4. \A e \in events' : e \in about \/ \E m \in lost : e = LoopCancelled(m)
    BY <1>2
  <1>5. \A m : LoopCancelled(m).kind = "LoopCancelled" /\ LoopCancelled(m).motion = m
    BY DEF LoopCancelled
  <1>6. Named({"Triggered"})' = {}
    BY <1>3, <1>4, <1>5 DEF Named
  <1>7. Named({"LoopCancelled", "CancelReturned"})' = lost
    BY <1>2, <1>3, <1>4, <1>5 DEF Named
  <1>8. ~ \E e \in events' : e.kind = "Triggered" /\ e.starts_loop
    BY <1>3, <1>4, <1>5
  <1>9. Reported' = r
    BY <1>6, <1>7, <1>8 DEF Reported, Loops!Report
  <1>10. active_loops' = Loops!LoopsAfter(active_loops, r)
    BY <1>2 DEF Loops!LoopsAfter, Loops!Report
  <1>11. r \in Loops!ReleaseReports(active_loops)
    BY <1>1 DEF Loops!ReleaseReports
  <1> QED
    BY <1>9, <1>10, <1>11, ReportIsStep

\* cancel_active_loops ends every loop, and says which.
LEMMA CancelIsStep ==
  ASSUME CancelActiveLoops
  PROVE  Loops!Next
  <1>1. events' = {Returned(m) : m \in active_loops} /\ active_loops' = {}
    BY DEF CancelActiveLoops
  <1> PICK r : r = Loops!CancelReport(active_loops)
    OBVIOUS
  <1>2. \A m : Returned(m).kind = "CancelReturned" /\ Returned(m).motion = m
    BY DEF Returned
  <1>3. Named({"Triggered"})' = {}
    BY <1>1, <1>2 DEF Named
  <1>4. Named({"LoopCancelled", "CancelReturned"})' = active_loops
    BY <1>1, <1>2 DEF Named
  <1>5. ~ \E e \in events' : e.kind = "Triggered" /\ e.starts_loop
    BY <1>1, <1>2
  <1>6. Reported' = r
    BY <1>3, <1>4, <1>5 DEF Reported, Loops!Report, Loops!CancelReport
  <1>7. active_loops' = Loops!LoopsAfter(active_loops, r)
    BY <1>1 DEF Loops!LoopsAfter, Loops!Report, Loops!CancelReport
  <1> QED
    BY <1>6, <1>7, ReportIsStep

\* Every call of the matcher reports what it does to the loops: none starts or
\* ends silently, and a motion that triggers while its loop runs starts it again.
THEOREM MatcherReportsItsLoops == MotionSpec => ImplementsMotionLoops
  <1>1. MotionInit => Loops!Init
    <2> SUFFICES ASSUME MotionInit PROVE Loops!Init
      OBVIOUS
    <2>1. active_loops = {} /\ events = {}
      BY DEF MotionInit
    <2>2. Reported = Loops!Nothing
      BY <2>1 DEF Reported, Named, Loops!Nothing, Loops!Report
    <2> QED
      BY <2>1, <2>2 DEF Loops!Init, Reported
  <1>2. MatcherInv /\ [MotionNext]_motion_vars => [Loops!Next]_(Loops!vars)
    <2> SUFFICES ASSUME MatcherInv, [MotionNext]_motion_vars
                 PROVE  Loops!Next \/ UNCHANGED Loops!vars
      OBVIOUS
    <2>1. CASE \E token \in Token, time \in Time : HandlePress(token, time)
      BY <2>1, PressIsStep
    <2>2. CASE \E token \in Token \ WheelToken : HandleRelease(token)
      BY <2>2, ReleaseIsStep
    <2>3. CASE CancelActiveLoops
      BY <2>3, CancelIsStep
    <2>4. CASE UNCHANGED motion_vars
      BY <2>4 DEF motion_vars, Loops!vars, Named
    <2> QED
      BY <2>1, <2>2, <2>3, <2>4 DEF MotionNext
  <1> QED
    BY <1>1, <1>2, MatcherInvariant, PTL DEF MotionSpec, ImplementsMotionLoops, Loops!Spec

-----------------------------------------------------------------------------
(* The macro queue *)

\* Ids are given out in order, and a run never stands past its macro's end.
IdsIssued == \A r \in queue.runs : r.id <= queue.next_id /\ r.next_action <= Len(r.actions)

QInv == TypeOK /\ OneRunPerLabel /\ IdsIssued

-----------------------------------------------------------------------------
\* A macro is a finite sequence of numbers.
LEMMA MacroIsSeq == \A m \in Macro : m \in Seq(Nat) /\ Len(m) \in Nat
  BY QueueAssumption

\* Arming the inter-action delay changes neither a run's shape nor its place.
LEMMA ArmedKeeps ==
  ASSUME NEW x \in Run
  PROVE  LET a == [x EXCEPT !.delay_armed = TRUE, !.since = 0]
         IN  /\ a \in Run
             /\ a.id = x.id /\ a.label = x.label /\ a.actions = x.actions
             /\ a.cancelled = x.cancelled /\ a.next_action = x.next_action
  BY DEF Run

\* A poll moves one run along: it stays a run of the same id and label, and
\* does not go past the end of its macro.
LEMMA PolledKeeps ==
  ASSUME NEW r \in Run, ~Over(r), r.next_action <= Len(r.actions)
  PROVE  /\ Polled(r) \in Run
         /\ Polled(r).id = r.id /\ Polled(r).label = r.label
         /\ Polled(r).actions = r.actions
         /\ Polled(r).cancelled = r.cancelled
         /\ Polled(r).next_action <= Len(r.actions)
         /\ Polled(r).next_action >= r.next_action
  <1>1. r.actions \in Seq(Nat) /\ Len(r.actions) \in Nat /\ r.next_action \in Nat
        /\ r.generated_actions \in Nat /\ r.gap \in Gap /\ r.gap \in Nat
    BY MacroIsSeq, QueueAssumption DEF Run
  <1>2. r.next_action < Len(r.actions) /\ r.next_action + 1 \in 1..Len(r.actions)
    BY <1>1 DEF Over, Complete
  <1>3. r.actions[r.next_action + 1] \in Nat
    BY <1>1, <1>2
  <1>4. CASE AtDelay(r)
    <2>1. Polled(r) = AfterDelay(r)
      BY <1>4 DEF Polled, AtDelay, AtGap, Ready
    <2>  DEFINE n == r.next_action + 1
           w == r.actions[r.next_action + 1]
    <2>3. n \in Nat /\ w \in Nat /\ n <= Len(r.actions) /\ n >= r.next_action
      BY <1>1, <1>2, <1>3
    <2>4. Polled(r) = [r EXCEPT !.next_action = n, !.ready_in = w]
      BY <2>1 DEF AfterDelay
    <2> HIDE DEF n, w
    <2> QED
      BY <2>3, <2>4 DEF Run
  <1>5. CASE AtGap(r)
    <2>1. Polled(r) = AfterGap(r)
      BY <1>5 DEF Polled, AtDelay, AtGap, Ready
    <2>2. r.next_action <= Len(r.actions) /\ r.next_action >= r.next_action
      BY <1>1, <1>2
    <2> QED
      BY <1>1, <2>1, <2>2 DEF AfterGap, Run
  <1>6. CASE Ready(r)
    <2>1. Polled(r) = AfterReady(r)
      BY <1>6 DEF Polled, AtDelay, AtGap, Ready
    <2>  DEFINE n == r.next_action + 1
           g == r.generated_actions + 1
    <2>3. n \in Nat /\ g \in Nat /\ n <= Len(r.actions) /\ n >= r.next_action
      BY <1>1, <1>2, <1>3
    <2>4. Polled(r) = [r EXCEPT !.next_action = n, !.generated_actions = g,
                                !.delay_armed = TRUE, !.since = 0]
      BY <2>1 DEF AfterReady
    <2> HIDE DEF n, g
    <2>  DEFINE r1 == [r EXCEPT !.next_action = n, !.generated_actions = g]
    <2>5. /\ r1 \in Run
          /\ r1.id = r.id /\ r1.label = r.label /\ r1.actions = r.actions
          /\ r1.cancelled = r.cancelled /\ r1.next_action = n
      BY <2>3 DEF Run
    <2>6. Polled(r) = [r1 EXCEPT !.delay_armed = TRUE, !.since = 0]
      BY <2>4
    <2> HIDE DEF r1
    <2>7. /\ Polled(r) \in Run
          /\ Polled(r).id = r1.id /\ Polled(r).label = r1.label
          /\ Polled(r).actions = r1.actions /\ Polled(r).cancelled = r1.cancelled
          /\ Polled(r).next_action = r1.next_action
      BY <2>5, <2>6, ArmedKeeps
    <2> QED
      BY <2>3, <2>5, <2>7
  <1>7. CASE ~AtDelay(r) /\ ~AtGap(r) /\ ~Ready(r)
    <2>1. Polled(r) = r
      BY <1>7 DEF Polled
    <2>2. r.next_action >= r.next_action
      BY <1>1
    <2> QED
      BY <2>1, <2>2
  <1> QED
    BY <1>4, <1>5, <1>6, <1>7

\* MacroRunState::cancel leaves everything but the flag as it is.
LEMMA CancelledKeeps ==
  ASSUME NEW r \in Run
  PROVE  /\ Cancelled(r) \in Run
         /\ Cancelled(r).id = r.id /\ Cancelled(r).label = r.label
         /\ Cancelled(r).actions = r.actions
         /\ Cancelled(r).next_action = r.next_action
         /\ Cancelled(r).generated_actions = r.generated_actions
  BY DEF Cancelled, Run

\* The passing of time leaves a run's id, label and place as they are.
LEMMA AgedKeeps ==
  ASSUME NEW r \in Run
  PROVE  /\ Aged(r, 1) \in Run
         /\ Aged(r, 1).id = r.id /\ Aged(r, 1).label = r.label
         /\ Aged(r, 1).actions = r.actions
         /\ Aged(r, 1).next_action = r.next_action
         /\ Aged(r, 1).cancelled = r.cancelled
         /\ Aged(r, 1).generated_actions = r.generated_actions
  <1> DEFINE w == IF r.ready_in > 1 THEN r.ready_in - 1 ELSE 0
             s == IF r.since + 1 < MaxSince THEN r.since + 1 ELSE MaxSince
  <1>1. w \in Nat /\ s \in Nat
    BY SinceAssumption DEF Run
  <1>2. Aged(r, 1) = [r EXCEPT !.ready_in = w, !.since = s]
    BY DEF Aged
  <1> HIDE DEF w, s
  <1> QED
    BY <1>1, <1>2 DEF Run

-----------------------------------------------------------------------------
\* Rewriting each run without touching its id, label, macro or place keeps the
\* queue's invariant: what cancelling and the passing of time have in common.
LEMMA RewriteStep ==
  ASSUME QInv, NEW STATE f, queue' = [queue EXCEPT !.runs = {f[r] : r \in queue.runs}],
         \A r \in queue.runs : /\ f[r] \in Run
                               /\ f[r].id = r.id /\ f[r].label = r.label
                               /\ f[r].actions = r.actions
                               /\ f[r].next_action = r.next_action,
         failed' = failed
  PROVE  QInv'
  <1>1. queue' = [runs |-> {f[r] : r \in queue.runs},
                  active_triggers |-> queue.active_triggers, next_id |-> queue.next_id]
    BY DEF QInv, TypeOK
  <1>2. TypeOK'
    BY <1>1 DEF QInv, TypeOK
  <1>3. OneRunPerLabel'
    BY <1>1 DEF QInv, OneRunPerLabel
  <1>4. IdsIssued'
    BY <1>1 DEF QInv, IdsIssued
  <1> QED
    BY <1>2, <1>3, <1>4 DEF QInv

\* An accepted request adds one run under a label that was free, with a fresh id.
LEMMA ScheduleStep ==
  ASSUME QInv, NEW request \in Request, ScheduleRequest(request)
  PROVE  QInv'
  <1> DEFINE q == NewRun(queue.next_id + 1, request.label, request.scoped,
                         request.actions, request.gap)
  <1>1. CASE ~Accepts(queue, request)
    <2>1. queue' = queue /\ failed' = failed
      BY <1>1 DEF ScheduleRequest, Schedule
    <2> QED
      BY <2>1 DEF QInv, TypeOK, OneRunPerLabel, IdsIssued
  <1>2. CASE Accepts(queue, request)
    <2>1. queue' = [runs |-> queue.runs \cup {q},
                    active_triggers |-> queue.active_triggers \cup {request.label},
                    next_id |-> queue.next_id + 1]
          /\ failed' = failed /\ queue.next_id < MaxRuns
      BY <1>2 DEF ScheduleRequest, Schedule
    <2>2. queue.next_id \in 0..MaxRuns /\ queue.runs \subseteq Run
          /\ queue.active_triggers \subseteq Label
      BY DEF QInv, TypeOK
    <2>3. queue.next_id + 1 \in Id /\ queue.next_id + 1 \in 0..MaxRuns
      BY <2>1, <2>2, QueueAssumption DEF Id
    <2>4. q \in Run
      BY <2>3 DEF NewRun, Run, Request
    <2>5. q.id = queue.next_id + 1 /\ q.label = request.label /\ q.next_action = 0
          /\ q.actions \in Macro /\ request.label \in Label
      BY DEF NewRun, Request
    <2>6. \A r \in queue.runs : r.id # q.id /\ r.label # q.label
      BY <1>2, <2>2, <2>5 DEF QInv, OneRunPerLabel, IdsIssued, Accepts, Run, Id
    <2> HIDE DEF q
    <2>7. TypeOK'
      BY <2>1, <2>2, <2>3, <2>4, <2>5 DEF QInv, TypeOK
    <2>8. OneRunPerLabel'
      BY <2>1, <2>5, <2>6 DEF QInv, OneRunPerLabel
    <2>9. IdsIssued'
      <3>1. \A r \in queue.runs : r.id <= queue.next_id + 1 /\ r.next_action <= Len(r.actions)
        BY <2>2 DEF QInv, IdsIssued, Run, Id
      <3>2. q.id <= queue.next_id + 1 /\ q.next_action <= Len(q.actions)
        BY <2>2, <2>5, MacroIsSeq
      <3> QED
        BY <2>1, <3>1, <3>2 DEF IdsIssued
    <2> QED
      BY <2>7, <2>8, <2>9 DEF QInv
  <1> QED
    BY <1>1, <1>2

\* A polling pass frees exactly the labels of the runs it drops.
LEMMA DriveStep ==
  ASSUME QInv, DriveReady
  PROVE  QInv'
  <1> DEFINE staying == {x \in queue.runs : ~Over(x)}
             leaving == {x \in queue.runs : Over(x)}
  <1>1. queue' = [runs |-> {Polled(r) : r \in staying},
                  active_triggers |-> queue.active_triggers \ {r.label : r \in leaving},
                  next_id |-> queue.next_id]
        /\ failed' = failed
    BY DEF DriveReady, Drive, QInv, TypeOK
  <1>2. \A r \in staying : /\ Polled(r) \in Run
                           /\ Polled(r).id = r.id /\ Polled(r).label = r.label
                           /\ Polled(r).actions = r.actions
                           /\ Polled(r).next_action <= Len(r.actions)
    BY PolledKeeps DEF QInv, TypeOK, IdsIssued
  <1>4. TypeOK'
    BY <1>1, <1>2 DEF QInv, TypeOK
  <1>5. OneRunPerLabel'
    <2>1. \A r \in staying, x \in leaving : r.label # x.label
      BY DEF QInv, OneRunPerLabel
    <2>2. queue.active_triggers \ {r.label : r \in leaving} = {r.label : r \in staying}
      BY <2>1 DEF QInv, OneRunPerLabel
    <2>3. {r.label : r \in staying} = {r.label : r \in {Polled(x) : x \in staying}}
      BY <1>2
    <2>4. \A r, x \in staying : /\ Polled(r).label = Polled(x).label => r = x
                                /\ Polled(r).id = Polled(x).id => r = x
      BY <1>2 DEF QInv, OneRunPerLabel
    <2> HIDE DEF staying, leaving
    <2> QED
      BY <1>1, <2>2, <2>3, <2>4 DEF OneRunPerLabel
  <1>6. IdsIssued'
    <2>1. \A r \in staying : Polled(r).id <= queue.next_id
                             /\ Polled(r).next_action <= Len(Polled(r).actions)
      BY <1>2 DEF QInv, IdsIssued
    <2> HIDE DEF staying, leaving
    <2> QED
      BY <1>1, <2>1 DEF IdsIssued
  <1> QED
    BY <1>4, <1>5, <1>6 DEF QInv

\* The queue of a new runner, and of one that has failed.
LEMMA EmptyQueueTyped ==
  /\ EmptyQueue \in [runs : SUBSET Run, active_triggers : SUBSET Label, next_id : 0..MaxRuns]
  /\ EmptyQueue.runs = {} /\ EmptyQueue.active_triggers = {} /\ EmptyQueue.next_id = 0
  <1>1. 0 \in 0..MaxRuns
    BY QueueAssumption
  <1>2. {} \in SUBSET Run /\ {} \in SUBSET Label
    OBVIOUS
  <1>3. EmptyQueue \in [runs : SUBSET Run, active_triggers : SUBSET Label, next_id : 0..MaxRuns]
    BY <1>1, <1>2 DEF EmptyQueue
  <1>4. EmptyQueue.runs = {} /\ EmptyQueue.active_triggers = {} /\ EmptyQueue.next_id = 0
    BY DEF EmptyQueue
  <1> QED
    BY <1>3, <1>4

\* An emission that fails leaves an empty queue behind.
LEMMA DriveFailsStep ==
  ASSUME QInv, NEW r \in queue.runs, DriveFails(r)
  PROVE  QInv'
  <1>1. queue' = EmptyQueue /\ failed' = TRUE
    BY DEF DriveFails
  <1> QED
    BY <1>1, EmptyQueueTyped DEF QInv, TypeOK, OneRunPerLabel, IdsIssued

\* The actions that rewrite runs in place: both cancellations, and time.
LEMMA RewriteActions ==
  ASSUME QInv, \/ \E label \in Label : Cancel(label)
               \/ CancelScoped
               \/ Tick
  PROVE  QInv'
  <1>1. queue.runs \subseteq Run
    BY DEF QInv, TypeOK
  <1>2. ASSUME NEW label \in Label, Cancel(label)
        PROVE  QInv'
    <2> DEFINE f == [r \in queue.runs |-> IF r.label = label THEN Cancelled(r) ELSE r]
    <2>1. queue' = [queue EXCEPT !.runs = {f[r] : r \in queue.runs}]
          /\ failed' = failed
      BY <1>2 DEF Cancel, CancelTrigger
    <2>2. \A r \in queue.runs : /\ f[r] \in Run
                                /\ f[r].id = r.id /\ f[r].label = r.label
                                /\ f[r].actions = r.actions
                                /\ f[r].next_action = r.next_action
      BY <1>1, CancelledKeeps
    <2> HIDE DEF f
    <2> QED
      BY <2>1, <2>2, RewriteStep
  <1>3. CASE CancelScoped
    <2> DEFINE f == [r \in queue.runs |-> IF r.scoped THEN Cancelled(r) ELSE r]
    <2>1. queue' = [queue EXCEPT !.runs = {f[r] : r \in queue.runs}]
          /\ failed' = failed
      BY <1>3 DEF CancelScoped, CancelProcessScoped
    <2>2. \A r \in queue.runs : /\ f[r] \in Run
                                /\ f[r].id = r.id /\ f[r].label = r.label
                                /\ f[r].actions = r.actions
                                /\ f[r].next_action = r.next_action
      BY <1>1, CancelledKeeps
    <2> HIDE DEF f
    <2> QED
      BY <2>1, <2>2, RewriteStep
  <1>4. CASE Tick
    <2> DEFINE f == [r \in queue.runs |-> Aged(r, 1)]
    <2>1. queue' = [queue EXCEPT !.runs = {f[r] : r \in queue.runs}]
          /\ failed' = failed
      BY <1>4 DEF Tick, AgedQueue
    <2>2. \A r \in queue.runs : /\ f[r] \in Run
                                /\ f[r].id = r.id /\ f[r].label = r.label
                                /\ f[r].actions = r.actions
                                /\ f[r].next_action = r.next_action
      BY <1>1, AgedKeeps
    <2> HIDE DEF f
    <2> QED
      BY <2>1, <2>2, RewriteStep
  <1> QED
    BY <1>2, <1>3, <1>4

\* The inductive invariant holds at the start.
LEMMA QInvInit == Init => QInv
  <1> SUFFICES ASSUME Init PROVE QInv
    OBVIOUS
  <1>1. queue = EmptyQueue /\ failed = FALSE
    BY DEF Init
  <1> QED
    BY <1>1, EmptyQueueTyped DEF QInv, TypeOK, OneRunPerLabel, IdsIssued

\* Every step of the queue keeps the inductive invariant.
LEMMA QInvNext == QInv /\ [Next]_vars => QInv'
  <1> SUFFICES ASSUME QInv, [Next]_vars
               PROVE  QInv'
    OBVIOUS
  <1>1. CASE \E request \in Request : ScheduleRequest(request)
    BY <1>1, ScheduleStep
  <1>2. CASE (\E label \in Label : Cancel(label)) \/ CancelScoped \/ Tick
    BY <1>2, RewriteActions
  <1>3. CASE DriveReady
    BY <1>3, DriveStep
  <1>4. CASE \E r \in queue.runs : DriveFails(r)
    BY <1>4, DriveFailsStep
  <1>5. CASE UNCHANGED vars
    BY <1>5 DEF vars, QInv, TypeOK, OneRunPerLabel, IdsIssued
  <1> QED
    BY <1>1, <1>2, <1>3, <1>4, <1>5 DEF Next

\* Every variable keeps its shape, and a label is busy exactly while one run
\* carries it, whatever is scheduled, cancelled or polled, and whatever emission
\* fails.
THEOREM LabelsMatchRuns == Spec => []Inv
  <1>1. QInv => Inv
    BY DEF QInv, Inv
  <1> QED
    BY <1>1, QInvInit, QInvNext, PTL DEF Spec

-----------------------------------------------------------------------------
(* The pauses of a macro *)

\* A set of naturals with a member has a least one: the induction below.
LEMMA LeastNumber ==
  ASSUME NEW T \in SUBSET Nat, T # {}
  PROVE  \E k \in T : \A j \in T : k <= j
  <1>1. IsWellFoundedOn(OpToRel(<, Nat), Nat)
    BY NatLessThanWellFounded
  <1>2. PICK k \in T : \A j \in T : ~(<<j, k>> \in OpToRel(<, Nat))
    BY <1>1, WFMin
  <1>3. \A j \in T : ~(j < k)
    BY <1>2 DEF OpToRel
  <1> QED
    BY <1>3

\* The pause before position k of a macro, from the pauses before the others.
NextPause(pause, actions, gap, k) ==
  IF k = 1 THEN 0
  ELSE IF actions[k - 1] = Generated THEN gap
  ELSE pause[k - 1] + actions[k - 1]

\* Pauses is what its equation says: the pauses of the first n positions exist
\* for every n, by the least n for which they would not.
LEMMA PausesRecur ==
  ASSUME NEW actions \in Seq(Nat), NEW gap \in Nat
  PROVE  /\ Pauses(actions, gap) \in [DOMAIN actions -> Nat]
         /\ \A k \in DOMAIN actions :
              Pauses(actions, gap)[k] = NextPause(Pauses(actions, gap), actions, gap, k)
  <1> DEFINE Good(n) == \E p \in [1..n -> Nat] :
                          \A k \in 1..n : p[k] = NextPause(p, actions, gap, k)
             T == {n \in 0..Len(actions) : ~Good(n)}
  <1>1. Len(actions) \in Nat /\ DOMAIN actions = 1..Len(actions)
        /\ \A k \in 1..Len(actions) : actions[k] \in Nat
    OBVIOUS
  <1>2. Good(0)
    <2>1. [k \in 1..0 |-> 0] \in [1..0 -> Nat] /\ 1..0 = {}
      OBVIOUS
    <2> QED
      BY <2>1
  <1>3. ASSUME NEW n \in 1..Len(actions), Good(n - 1)
        PROVE  Good(n)
    <2>1. PICK p \in [1..(n - 1) -> Nat] :
                 \A k \in 1..(n - 1) : p[k] = NextPause(p, actions, gap, k)
      BY <1>3
    <2>  DEFINE w == NextPause(p, actions, gap, n)
                q == [k \in 1..n |-> IF k = n THEN w ELSE p[k]]
    <2>2. n \in Nat /\ n >= 1 /\ n <= Len(actions)
      BY <1>1
    <2>3. w \in Nat
      <3>1. CASE n = 1
        BY <3>1 DEF NextPause
      <3>2. CASE n # 1
        <4>1. n - 1 \in 1..(n - 1) /\ n - 1 \in 1..Len(actions)
          BY <3>2, <2>2, <1>1
        <4>2. p[n - 1] \in Nat /\ actions[n - 1] \in Nat
          BY <4>1, <1>1
        <4> QED
          BY <3>2, <4>2 DEF NextPause
      <3> QED
        BY <3>1, <3>2
    <2>4. q \in [1..n -> Nat]
      <3>1. \A k \in 1..n : k # n => k \in 1..(n - 1)
        BY <2>2
      <3> HIDE DEF w
      <3> QED
        BY <2>3, <3>1
    <2>5. \A k \in 1..n : NextPause(q, actions, gap, k) = NextPause(p, actions, gap, k)
      <3>1. \A k \in 1..n : k # 1 => k - 1 \in 1..n /\ k - 1 # n
        BY <2>2
      <3> HIDE DEF w
      <3>2. \A k \in 1..n : k # 1 => q[k - 1] = p[k - 1]
        BY <3>1
      <3> QED
        BY <3>2 DEF NextPause
    <2>6. \A k \in 1..n : q[k] = NextPause(p, actions, gap, k)
      <3>1. \A k \in 1..n : k # n => k \in 1..(n - 1)
        BY <2>2
      <3>2. ASSUME NEW k \in 1..n PROVE q[k] = NextPause(p, actions, gap, k)
        <4>1. CASE k = n
          BY <4>1
        <4>2. CASE k # n
          <5>1. q[k] = p[k]
            BY <4>2
          <5> QED
            BY <5>1, <4>2, <3>1, <2>1
        <4> QED
          BY <4>1, <4>2
      <3> QED
        BY <3>2
    <2> HIDE DEF q
    <2> QED
      BY <2>4, <2>5, <2>6
  <1> HIDE DEF Good
  <1>4. T = {}
    <2>1. SUFFICES ASSUME T # {} PROVE FALSE
      OBVIOUS
    <2>  T \in SUBSET Nat
      BY <1>1
    <2>2. PICK n \in T : \A j \in T : n <= j
      <3> HIDE DEF T
      <3> QED
        BY <2>1, LeastNumber
    <2>3. n \in 0..Len(actions) /\ ~Good(n) /\ n \in Nat
      BY <2>2, <1>1
    <2>4. n # 0
      BY <2>3, <1>2
    <2>5. n - 1 \in 0..Len(actions) /\ ~(n <= n - 1) /\ n \in 1..Len(actions)
      BY <2>3, <2>4, <1>1
    <2>6. Good(n - 1)
      BY <2>2, <2>5
    <2> QED
      BY <2>3, <2>5, <2>6, <1>3
  <1>5. Good(Len(actions))
    BY <1>4, <1>1
  <1>6. PICK p \in [DOMAIN actions -> Nat] :
               \A k \in DOMAIN actions : p[k] = NextPause(p, actions, gap, k)
    BY <1>1, <1>5 DEF Good
  <1>  DEFINE Is(f) == f = [k \in DOMAIN actions |-> NextPause(f, actions, gap, k)]
  <1>7. Is(p)
    BY <1>6
  <1>8. Pauses(actions, gap) = CHOOSE f : Is(f)
    BY DEF Pauses, NextPause
  <1>9. Is(Pauses(actions, gap))
    <2> HIDE DEF Is
    <2> QED
      BY <1>7, <1>8
  <1>10. \A k \in DOMAIN actions :
           Pauses(actions, gap)[k] = NextPause(Pauses(actions, gap), actions, gap, k)
    BY <1>9
  <1>11. Pauses(actions, gap) \in [DOMAIN actions -> Nat]
    <2>  DEFINE f == Pauses(actions, gap)
                B == {n \in 1..Len(actions) : ~(f[n] \in Nat)}
    <2>1. B = {}
      <3>1. SUFFICES ASSUME B # {} PROVE FALSE
        OBVIOUS
      <3>2. B \in SUBSET Nat
        BY <1>1
      <3> HIDE DEF f
      <3>3. PICK n \in B : \A j \in B : n <= j
        BY <3>1, <3>2, LeastNumber
      <3>4. n \in 1..Len(actions) /\ ~(f[n] \in Nat) /\ n \in Nat
        BY <3>3, <1>1
      <3>5. f[n] = NextPause(f, actions, gap, n)
        BY <3>4, <1>1, <1>10 DEF f
      <3>6. CASE n = 1
        BY <3>4, <3>5, <3>6 DEF NextPause
      <3>7. CASE n # 1
        <4>1. n - 1 \in 1..Len(actions) /\ ~(n <= n - 1)
          BY <3>4, <3>7, <1>1
        <4>2. f[n - 1] \in Nat /\ actions[n - 1] \in Nat
          BY <4>1, <3>3, <1>1
        <4> QED
          BY <4>2, <3>4, <3>5, <3>7 DEF NextPause
      <3> QED
        BY <3>6, <3>7
    <2>2. f = [k \in DOMAIN actions |-> f[k]]
      BY <1>9
    <2> HIDE DEF f
    <2>3. f \in [DOMAIN actions -> Nat]
      BY <2>1, <2>2, <1>1
    <2> QED
      BY <2>3 DEF f
  <1> QED
    BY <1>10, <1>11

\* What a run still has to wait for its inter-action delay, once polled.
Owes(r) == IF r.generated_actions > 0 /\ r.delay_armed THEN r.gap ELSE 0

\* What has passed since the last generated action, what the run is waiting
\* for and what it owes cover the pause before the run's next action.
Covered(r) ==
  r.next_action < Len(r.actions) =>
    r.since + r.ready_in + Owes(r) >= PauseBefore(r, r.next_action + 1)

PausesCovered == \A r \in queue.runs : Covered(r)

\* A run's fields, as numbers.
LEMMA RunNumbers ==
  ASSUME NEW r \in Run
  PROVE  /\ r.actions \in Seq(Nat) /\ Len(r.actions) \in Nat /\ r.gap \in Nat
         /\ r.next_action \in Nat /\ r.since \in Nat /\ r.ready_in \in Nat
         /\ r.generated_actions \in Nat /\ Owes(r) \in Nat
         /\ r.next_action < Len(r.actions) =>
              /\ r.next_action + 1 \in DOMAIN r.actions
              /\ r.actions[r.next_action + 1] \in Nat
              /\ PauseBefore(r, r.next_action + 1) \in Nat
              /\ PauseBefore(r, r.next_action + 1) <= MaxSince
  <1>1. /\ r.actions \in Macro /\ r.actions \in Seq(Nat) /\ Len(r.actions) \in Nat
        /\ r.gap \in Gap /\ r.gap \in Nat
        /\ r.next_action \in Nat /\ r.since \in Nat /\ r.ready_in \in Nat
        /\ r.generated_actions \in Nat
    BY MacroIsSeq, QueueAssumption DEF Run
  <1>2. Owes(r) \in Nat
    BY <1>1 DEF Owes
  <1>3. ASSUME r.next_action < Len(r.actions)
        PROVE  r.next_action + 1 \in DOMAIN r.actions /\ r.actions[r.next_action + 1] \in Nat
    BY <1>1, <1>3
  <1>4. Pauses(r.actions, r.gap) \in [DOMAIN r.actions -> Nat]
    BY <1>1, PausesRecur
  <1>5. ASSUME r.next_action < Len(r.actions)
        PROVE  /\ PauseBefore(r, r.next_action + 1) \in Nat
               /\ PauseBefore(r, r.next_action + 1) <= MaxSince
    <2>1. PauseBefore(r, r.next_action + 1) = Pauses(r.actions, r.gap)[r.next_action + 1]
      BY DEF PauseBefore
    <2>2. Pauses(r.actions, r.gap)[r.next_action + 1] \in Nat
      BY <1>3, <1>4, <1>5
    <2>3. Pauses(r.actions, r.gap)[r.next_action + 1] <= MaxSince
      BY <1>1, <1>3, <1>5, PausesAreCounted
    <2> QED
      BY <2>1, <2>2, <2>3
  <1> QED
    BY <1>1, <1>2, <1>3, <1>5

\* The pause before the next action, from the action before it.
LEMMA PauseAfter ==
  ASSUME NEW r \in Run, NEW n, n = r.next_action + 1, n < Len(r.actions)
  PROVE  PauseBefore(r, n + 1) = IF r.actions[n] = Generated THEN r.gap
                                 ELSE PauseBefore(r, n) + r.actions[n]
  <1>1. r.actions \in Seq(Nat) /\ r.gap \in Nat /\ r.next_action \in Nat
        /\ Len(r.actions) \in Nat
    BY RunNumbers
  <1>2. n + 1 \in DOMAIN r.actions /\ n + 1 # 1 /\ (n + 1) - 1 = n
    BY <1>1
  <1>3. Pauses(r.actions, r.gap)[n + 1]
          = NextPause(Pauses(r.actions, r.gap), r.actions, r.gap, n + 1)
    BY <1>1, <1>2, PausesRecur
  <1> QED
    BY <1>2, <1>3 DEF NextPause, PauseBefore

\* A poll turns the delay it takes into waiting, and the delay it owes too;
\* the action it hands out starts a new pause.
LEMMA PolledIsCovered ==
  ASSUME NEW r \in Run, ~Over(r), Covered(r)
  PROVE  Covered(Polled(r))
  <1>1. /\ Len(r.actions) \in Nat /\ r.gap \in Nat
        /\ r.next_action \in Nat /\ r.since \in Nat /\ r.ready_in \in Nat
        /\ r.generated_actions \in Nat /\ Owes(r) \in Nat
    BY RunNumbers
  <1>2. r.next_action < Len(r.actions) /\ ~r.cancelled
    BY <1>1 DEF Over, Complete
  <1>3. /\ r.actions[r.next_action + 1] \in Nat
        /\ PauseBefore(r, r.next_action + 1) \in Nat
    BY <1>2, RunNumbers
  <1>4. r.since + r.ready_in + Owes(r) >= PauseBefore(r, r.next_action + 1)
    BY <1>2 DEF Covered
  <1>  DEFINE n == r.next_action + 1
              w == r.actions[r.next_action + 1]
              x == Polled(r)
  <1>5. \A k : x.actions = r.actions /\ x.gap = r.gap => PauseBefore(x, k) = PauseBefore(r, k)
    BY DEF PauseBefore
  <1>6. n < Len(r.actions) =>
          PauseBefore(r, n + 1) = IF w = Generated THEN r.gap ELSE PauseBefore(r, n) + w
    BY PauseAfter
  <1>7. CASE AtDelay(r)
    <2>1. x = [r EXCEPT !.next_action = n, !.ready_in = w]
      BY <1>7 DEF Polled, AtDelay, AtGap, Ready, AfterDelay
    <2>2. r.ready_in = 0 /\ w # Generated
      BY <1>1, <1>2, <1>7 DEF AtDelay, Waiting
    <2> HIDE DEF n, w
    <2>3. /\ x.actions = r.actions /\ x.gap = r.gap /\ x.since = r.since
          /\ x.generated_actions = r.generated_actions /\ x.delay_armed = r.delay_armed
          /\ x.next_action = n /\ x.ready_in = w
      BY <2>1 DEF Run
    <2>4. Owes(x) = Owes(r)
      BY <2>3 DEF Owes
    <2> HIDE DEF x
    <2>5. ASSUME n < Len(r.actions)
          PROVE  x.since + x.ready_in + Owes(x) >= PauseBefore(x, n + 1)
      <3>1. PauseBefore(x, n + 1) = PauseBefore(r, n) + w
        BY <1>5, <1>6, <2>2, <2>3, <2>5
      <3>2. r.since + Owes(r) >= PauseBefore(r, n)
        BY <1>1, <1>4, <2>2 DEF n
      <3> QED
        BY <1>1, <1>3, <2>3, <2>4, <3>1, <3>2 DEF n, w
    <2> QED
      BY <2>3, <2>5 DEF Covered, x
  <1>8. CASE AtGap(r)
    <2>1. x = [r EXCEPT !.ready_in = r.gap, !.delay_armed = FALSE]
      BY <1>8 DEF Polled, AtDelay, AtGap, Ready, AfterGap
    <2>2. r.ready_in = 0 /\ Owes(r) = r.gap
      BY <1>1, <1>2, <1>8 DEF AtGap, Waiting, Owes
    <2>3. /\ x.actions = r.actions /\ x.gap = r.gap /\ x.since = r.since
          /\ x.next_action = r.next_action /\ x.ready_in = r.gap /\ x.delay_armed = FALSE
      BY <2>1 DEF Run
    <2>4. Owes(x) = 0
      BY <2>3 DEF Owes
    <2>5. PauseBefore(x, n) = PauseBefore(r, n)
      BY <1>5, <2>3
    <2> HIDE DEF x
    <2>6. x.since + x.ready_in + Owes(x) >= PauseBefore(x, n)
      BY <1>1, <1>3, <1>4, <2>2, <2>3, <2>4, <2>5
    <2>7. x.next_action + 1 = n
      BY <2>3
    <2> QED
      BY <2>6, <2>7 DEF Covered, x
  <1>9. CASE Ready(r)
    <2>  DEFINE g == r.generated_actions + 1
    <2>1. x = [r EXCEPT !.next_action = n, !.generated_actions = g,
                        !.delay_armed = TRUE, !.since = 0]
      BY <1>9 DEF Polled, AtDelay, AtGap, Ready, AfterReady
    <2>2. r.ready_in = 0 /\ w = Generated /\ g > 0
      BY <1>1, <1>2, <1>9 DEF Ready, Waiting, AtDelay
    <2> HIDE DEF n, w, g
    <2>3. /\ x.actions = r.actions /\ x.gap = r.gap /\ x.since = 0
          /\ x.generated_actions = g /\ x.delay_armed = TRUE
          /\ x.next_action = n /\ x.ready_in = r.ready_in
      BY <2>1 DEF Run
    <2>4. Owes(x) = r.gap
      BY <2>2, <2>3 DEF Owes
    <2> HIDE DEF x
    <2>5. ASSUME n < Len(r.actions)
          PROVE  x.since + x.ready_in + Owes(x) >= PauseBefore(x, n + 1)
      <3>1. PauseBefore(x, n + 1) = r.gap
        BY <1>5, <1>6, <2>2, <2>3, <2>5
      <3> QED
        BY <1>1, <2>2, <2>3, <2>4, <3>1
    <2> QED
      BY <2>3, <2>5 DEF Covered, x
  <1>10. CASE ~AtDelay(r) /\ ~AtGap(r) /\ ~Ready(r)
    BY <1>10 DEF Polled
  <1> QED
    BY <1>7, <1>8, <1>9, <1>10

\* What is waited off is added to what has passed, up to a bound that is enough.
LEMMA StillLongEnough ==
  ASSUME NEW since \in Nat, NEW ready \in Nat, NEW owed \in Nat, NEW pause \in Nat,
         NEW s \in Nat, NEW w \in Nat, since + ready + owed >= pause,
         w + 1 >= ready, s = since + 1 \/ s >= pause
  PROVE  s + w + owed >= pause
  OBVIOUS

\* A millisecond that is waited off is a millisecond more of history.
LEMMA AgedIsCovered ==
  ASSUME NEW r \in Run, Covered(r)
  PROVE  Covered(Aged(r, 1))
  <1>1. /\ Len(r.actions) \in Nat /\ r.gap \in Nat
        /\ r.next_action \in Nat /\ r.since \in Nat /\ r.ready_in \in Nat
        /\ r.generated_actions \in Nat /\ Owes(r) \in Nat
    BY RunNumbers
  <1>2. r.next_action < Len(r.actions) =>
          /\ PauseBefore(r, r.next_action + 1) \in Nat
          /\ PauseBefore(r, r.next_action + 1) <= MaxSince
    BY RunNumbers
  <1>  DEFINE w == IF r.ready_in > 1 THEN r.ready_in - 1 ELSE 0
              s == IF r.since + 1 < MaxSince THEN r.since + 1 ELSE MaxSince
              x == Aged(r, 1)
  <1>3. w \in Nat /\ s \in Nat /\ w + 1 >= r.ready_in
        /\ (s = r.since + 1 \/ s = MaxSince)
    BY <1>1, SinceAssumption
  <1>4. x = [r EXCEPT !.ready_in = w, !.since = s]
    BY DEF Aged
  <1> HIDE DEF w, s
  <1>5. /\ x.actions = r.actions /\ x.gap = r.gap /\ x.since = s /\ x.ready_in = w
        /\ x.next_action = r.next_action /\ x.delay_armed = r.delay_armed
        /\ x.generated_actions = r.generated_actions
    BY <1>4 DEF Run
  <1>6. Owes(x) = Owes(r) /\ \A k : PauseBefore(x, k) = PauseBefore(r, k)
    BY <1>5 DEF Owes, PauseBefore
  <1> HIDE DEF x
  <1>7. ASSUME r.next_action < Len(r.actions)
        PROVE  s + w + Owes(r) >= PauseBefore(r, r.next_action + 1)
    <2>1. r.since + r.ready_in + Owes(r) >= PauseBefore(r, r.next_action + 1)
      BY <1>7 DEF Covered
    <2>2. PauseBefore(r, r.next_action + 1) \in Nat /\ PauseBefore(r, r.next_action + 1) <= MaxSince
      BY <1>2, <1>7
    <2>  DEFINE pause == PauseBefore(r, r.next_action + 1)
                owed == Owes(r)
    <2> HIDE DEF pause, owed
    <2>3. s + w + owed >= pause
      <3>1. r.since + r.ready_in + owed >= pause /\ pause \in Nat /\ pause <= MaxSince /\ owed \in Nat
        BY <1>1, <2>1, <2>2 DEF pause, owed
      <3>2. s = r.since + 1 \/ s >= pause
        BY <1>3, <3>1, SinceAssumption
      <3> QED
        BY <1>1, <1>3, <3>1, <3>2, StillLongEnough
    <2> QED
      BY <2>3 DEF pause, owed
  <1> QED
    BY <1>5, <1>6, <1>7 DEF Covered, x

\* Cancelling changes none of it.
LEMMA CancelledIsCovered ==
  ASSUME NEW r \in Run, Covered(r)
  PROVE  Covered(Cancelled(r))
  <1>1. /\ Cancelled(r).actions = r.actions /\ Cancelled(r).gap = r.gap
        /\ Cancelled(r).since = r.since /\ Cancelled(r).ready_in = r.ready_in
        /\ Cancelled(r).next_action = r.next_action
        /\ Cancelled(r).delay_armed = r.delay_armed
        /\ Cancelled(r).generated_actions = r.generated_actions
    BY DEF Cancelled, Run
  <1> QED
    BY <1>1 DEF Covered, Owes, PauseBefore

\* A run that starts owes nothing.
LEMMA NewIsCovered ==
  ASSUME NEW i, NEW l, NEW s, NEW m \in Macro, NEW g \in Gap
  PROVE  Covered(NewRun(i, l, s, m, g))
  <1>  DEFINE x == NewRun(i, l, s, m, g)
  <1>1. /\ x.actions = m /\ x.gap = g /\ x.since = 0 /\ x.ready_in = 0
        /\ x.next_action = 0 /\ x.generated_actions = 0
    BY DEF NewRun
  <1>2. m \in Seq(Nat) /\ Len(m) \in Nat /\ g \in Nat
    BY MacroIsSeq, QueueAssumption
  <1>3. Owes(x) = 0 /\ PauseBefore(x, 1) = Pauses(m, g)[1]
    BY <1>1 DEF Owes, PauseBefore
  <1>4. 0 < Len(m) => Pauses(m, g)[1] = 0
    <2>1. 0 < Len(m) => 1 \in DOMAIN m
      BY <1>2
    <2> QED
      BY <1>2, <2>1, PausesRecur DEF NextPause
  <1> HIDE DEF x
  <1> QED
    BY <1>1, <1>3, <1>4 DEF Covered, x

\* Every step keeps the pauses covered.
LEMMA PausesCoveredNext == QInv /\ PausesCovered /\ [Next]_vars => PausesCovered'
  <1> SUFFICES ASSUME QInv, PausesCovered, [Next]_vars
               PROVE  PausesCovered'
    OBVIOUS
  <1>1. queue.runs \subseteq Run /\ \A r \in queue.runs : Covered(r)
    BY DEF QInv, TypeOK, PausesCovered
  <1>2. ASSUME NEW request \in Request, ScheduleRequest(request)
        PROVE  PausesCovered'
    <2>  DEFINE q == NewRun(queue.next_id + 1, request.label, request.scoped,
                            request.actions, request.gap)
    <2>1. queue'.runs \subseteq queue.runs \cup {q}
      BY <1>2 DEF ScheduleRequest, Schedule
    <2>2. Covered(q)
      BY NewIsCovered DEF Request
    <2> HIDE DEF q
    <2> QED
      BY <1>1, <2>1, <2>2 DEF PausesCovered
  <1>3. ASSUME NEW label \in Label, Cancel(label)
        PROVE  PausesCovered'
    <2>1. \A y \in queue'.runs : \E r \in queue.runs : y = r \/ y = Cancelled(r)
      BY <1>3 DEF Cancel, CancelTrigger, QInv, TypeOK
    <2> QED
      BY <1>1, <2>1, CancelledIsCovered DEF PausesCovered
  <1>4. CASE CancelScoped
    <2>1. \A y \in queue'.runs : \E r \in queue.runs : y = r \/ y = Cancelled(r)
      BY <1>4 DEF CancelScoped, CancelProcessScoped, QInv, TypeOK
    <2> QED
      BY <1>1, <2>1, CancelledIsCovered DEF PausesCovered
  <1>5. CASE DriveReady
    <2>1. \A y \in queue'.runs : \E r \in queue.runs : ~Over(r) /\ y = Polled(r)
      BY <1>5 DEF DriveReady, Drive, QInv, TypeOK
    <2> QED
      BY <1>1, <2>1, PolledIsCovered DEF PausesCovered
  <1>6. ASSUME NEW r \in queue.runs, DriveFails(r)
        PROVE  PausesCovered'
    BY <1>6 DEF DriveFails, EmptyQueue, PausesCovered
  <1>7. CASE Tick
    <2>1. \A y \in queue'.runs : \E r \in queue.runs : y = Aged(r, 1)
      BY <1>7 DEF Tick, AgedQueue, QInv, TypeOK
    <2> QED
      BY <1>1, <2>1, AgedIsCovered DEF PausesCovered
  <1>8. CASE UNCHANGED vars
    BY <1>8 DEF vars, PausesCovered
  <1> QED
    BY <1>2, <1>3, <1>4, <1>5, <1>6, <1>7, <1>8 DEF Next

\* No generated action of a macro is sent sooner than the delays written before
\* it and the inter-action delay allow, whatever polls, ticks, cancellations
\* and other macros come between, for macros of any length.
THEOREM PausesAreKept == Spec => PausesKept
  <1>1. Init => PausesCovered
    BY DEF Init, EmptyQueue, PausesCovered
  <1>2. ASSUME QInv, PausesCovered, [Next]_vars
        PROVE  [\A e \in emitted' : \A r \in queue.runs :
                  r.id = e[1] => r.since >= PauseBefore(r, e[3])]_vars
    <2>1. ASSUME NEW r \in queue.runs, Ready(r)
          PROVE  r.since >= PauseBefore(r, r.next_action + 1)
      <3>1. r \in Run /\ Covered(r)
        BY <1>2 DEF QInv, TypeOK, PausesCovered
      <3>2. /\ Len(r.actions) \in Nat /\ r.next_action \in Nat
            /\ r.since \in Nat /\ r.ready_in \in Nat
            /\ r.gap \in Nat
        BY <3>1, RunNumbers
      <3>3. r.next_action < Len(r.actions)
        BY <2>1, <3>2 DEF Ready, Complete
      <3>4. r.ready_in = 0
        BY <2>1, <3>2 DEF Ready, Waiting
      <3>5. Owes(r) = 0
        BY <2>1, <3>2 DEF Ready, AtGap, Owes
      <3>6. PauseBefore(r, r.next_action + 1) \in Nat
        BY <3>1, <3>3, RunNumbers
      <3>7. r.since + r.ready_in + Owes(r) >= PauseBefore(r, r.next_action + 1)
        BY <3>1, <3>3 DEF Covered
      <3> QED
        BY <3>2, <3>4, <3>5, <3>6, <3>7
    <2>2. ASSUME NEW x \in SUBSET Emitting(queue), NEW e \in Sends(x),
                 NEW r \in queue.runs, r.id = e[1]
          PROVE  r.since >= PauseBefore(r, e[3])
      <3>1. PICK y \in x : e = <<y.id, y.label, y.next_action + 1>>
        BY DEF Sends
      <3>2. y \in queue.runs /\ Ready(y)
        BY DEF Emitting
      <3>3. y = r
        BY <1>2, <2>2, <3>1, <3>2 DEF QInv, OneRunPerLabel
      <3> QED
        BY <2>1, <3>1, <3>2, <3>3
    <2>3. CASE DriveReady
      BY <2>2, <2>3 DEF DriveReady
    <2>4. ASSUME NEW r \in queue.runs, DriveFails(r)
          PROVE  \A e \in emitted' : \A y \in queue.runs :
                   y.id = e[1] => y.since >= PauseBefore(y, e[3])
      <3>1. {y \in Emitting(queue) : y.id < r.id} \in SUBSET Emitting(queue)
        OBVIOUS
      <3> QED
        BY <2>2, <2>4, <3>1 DEF DriveFails
    <2>5. CASE \/ \E request \in Request : ScheduleRequest(request)
               \/ \E label \in Label : Cancel(label)
               \/ CancelScoped
               \/ Tick
      BY <2>5 DEF ScheduleRequest, Cancel, CancelScoped, Tick
    <2>6. CASE UNCHANGED vars
      BY <2>6
    <2> QED
      BY <1>2, <2>3, <2>4, <2>5, <2>6 DEF Next
  <1> QED
    BY <1>1, <1>2, QInvInit, QInvNext, PausesCoveredNext, PTL DEF Spec, PausesKept

-----------------------------------------------------------------------------
(* The queue implements MacroPlayback.                                       *)

\* Busy label -> what its run has still to send.
Leftover == [l \in queue.active_triggers |-> Left(RunOf(l))]

\* A busy label stands for its run, before a step and after it.
LEMMA RunsByLabel ==
  ASSUME QInv
  PROVE  /\ \A r \in queue.runs : r.label \in queue.active_triggers /\ RunOf(r.label) = r
         /\ \A l \in queue.active_triggers : RunOf(l) \in queue.runs /\ RunOf(l).label = l
         /\ \A r \in queue.runs : Leftover[r.label] = Left(r)
  <1>1. \A l \in queue.active_triggers : \E r \in queue.runs : r.label = l
    BY DEF QInv, OneRunPerLabel
  <1>2. \A l \in queue.active_triggers : RunOf(l) \in queue.runs /\ RunOf(l).label = l
    BY <1>1 DEF RunOf
  <1>3. \A r \in queue.runs : r.label \in queue.active_triggers /\ RunOf(r.label) = r
    BY <1>2 DEF QInv, OneRunPerLabel
  <1> QED
    BY <1>2, <1>3 DEF Leftover

\* The same, after a step.
LEMMA RunsByLabelNext ==
  ASSUME QInv'
  PROVE  /\ \A r \in queue'.runs : r.label \in queue'.active_triggers /\ RunOf(r.label)' = r
         /\ \A l \in queue'.active_triggers : RunOf(l)' \in queue'.runs /\ RunOf(l)'.label = l
  <1>1. \A l \in queue'.active_triggers : \E r \in queue'.runs : r.label = l
    BY DEF QInv, OneRunPerLabel
  <1>2. \A l \in queue'.active_triggers : RunOf(l)' \in queue'.runs /\ RunOf(l)'.label = l
    BY <1>1 DEF RunOf
  <1>3. \A r \in queue'.runs : r.label \in queue'.active_triggers /\ RunOf(r.label)' = r
    BY <1>2 DEF QInv, OneRunPerLabel
  <1> QED
    BY <1>2, <1>3

\* What is left of a run that stays at its place.
LEMMA SameLeft ==
  ASSUME NEW r, NEW x, x.actions = r.actions, x.next_action = r.next_action
  PROVE  Left(x) = Left(r)
  BY DEF Left

\* A ready run has its next action to send, and then the others.
LEMMA ReadyLeft ==
  ASSUME NEW r \in Run, r.next_action <= Len(r.actions), Ready(r)
  PROVE  /\ Left(r) # {} /\ Playback!First(Left(r)) = r.next_action + 1
         /\ Left(Polled(r)) = Left(r) \ {r.next_action + 1}
  <1>1. r.actions \in Seq(Nat) /\ Len(r.actions) \in Nat /\ r.next_action \in Nat
    BY MacroIsSeq DEF Run
  <1> DEFINE n == r.next_action + 1
  <1>2. n \in 1..Len(r.actions) /\ r.actions[n] = Generated
    BY <1>1 DEF Ready, Complete, AtDelay
  <1>3. n \in Left(r) /\ (\A j \in Left(r) : n <= j) /\ (\A j \in Left(r) : j \in Nat)
    BY <1>1, <1>2 DEF Left
  <1>4. Playback!First(Left(r)) = n
    BY <1>1, <1>3 DEF Playback!First
  <1>5. Polled(r).actions = r.actions /\ Polled(r).next_action = n
    <2>1. Polled(r) = AfterReady(r)
      BY DEF Polled, AtDelay, AtGap, Ready
    <2>2. Polled(r) = [r EXCEPT !.next_action = n, !.generated_actions = @ + 1,
                                !.delay_armed = TRUE, !.since = 0]
      BY <2>1 DEF AfterReady
    <2> HIDE DEF n
    <2> QED
      BY <2>2, Zenon DEF Run
  <1>6. Left(Polled(r)) = {i \in 1..Len(r.actions) : i > n /\ r.actions[i] = Generated}
    BY <1>5 DEF Left
  <1>7. Left(Polled(r)) = Left(r) \ {n}
    BY <1>1, <1>2, <1>6 DEF Left
  <1> QED
    BY <1>3, <1>4, <1>7

\* Another run that is polled, and does not leave, has as much left as before.
LEMMA WaitingLeft ==
  ASSUME NEW r \in Run, ~Over(r), r.next_action <= Len(r.actions), ~Ready(r)
  PROVE  Left(Polled(r)) = Left(r)
  <1>1. r.actions \in Seq(Nat) /\ Len(r.actions) \in Nat /\ r.next_action \in Nat
    BY MacroIsSeq DEF Run
  <1> DEFINE n == r.next_action + 1
  <1>2. CASE AtDelay(r)
    <2>1. r.actions[n] # Generated
      BY <1>2 DEF AtDelay
    <2>2. Polled(r).actions = r.actions /\ Polled(r).next_action = n
      <3>0. Polled(r) = AfterDelay(r)
        BY <1>2 DEF Polled, AtDelay, AtGap, Ready
      <3>1. Polled(r) = [r EXCEPT !.next_action = n, !.ready_in = r.actions[n]]
        BY <3>0 DEF AfterDelay
      <3> HIDE DEF n
      <3> QED
        BY <3>1 DEF Run
    <2>3. Left(Polled(r)) = {i \in 1..Len(r.actions) : i > n /\ r.actions[i] = Generated}
      BY <2>2 DEF Left
    <2> QED
      BY <1>1, <2>1, <2>3 DEF Left
  <1>3. CASE ~AtDelay(r)
    <2>1. Polled(r) = AfterGap(r) \/ Polled(r) = r
      BY <1>3 DEF Polled
    <2>2. Polled(r).actions = r.actions /\ Polled(r).next_action = r.next_action
      BY <2>1 DEF AfterGap, Run
    <2> QED
      BY <2>2, SameLeft
  <1> QED
    BY <1>2, <1>3

\* A complete run has nothing left.
LEMMA CompleteLeft ==
  ASSUME NEW r \in Run, Complete(r)
  PROVE  Left(r) = {}
  <1>1. r.actions \in Seq(Nat) /\ Len(r.actions) \in Nat /\ r.next_action \in Nat
    BY MacroIsSeq DEF Run
  <1> QED
    BY <1>1 DEF Complete, Left

\* What the last step sent, and the labels whose run was cancelled.
SentNow == {<<e[2], e[3]>> : e \in emitted}
Halted == {r.label : r \in {x \in queue.runs : x.cancelled}}

\* Both cancellations and the passing of time stop some labels, or none.
LEMMA RewriteIsStop ==
  ASSUME QInv, QInv', NEW STATE f, queue' = [queue EXCEPT !.runs = {f[r] : r \in queue.runs}],
         \A r \in queue.runs : /\ f[r].label = r.label /\ f[r].actions = r.actions
                               /\ f[r].next_action = r.next_action
                               /\ r.cancelled => f[r].cancelled,
         emitted' = {}
  PROVE  Playback!Next
  <1>1. queue'.runs = {f[r] : r \in queue.runs} /\ queue'.active_triggers = queue.active_triggers
    BY DEF QInv, TypeOK
  <1>2. Leftover' = Leftover
    <2>1. \A l \in queue.active_triggers : Left(RunOf(l))' = Left(RunOf(l))
      <3> SUFFICES ASSUME NEW l \in queue.active_triggers
                   PROVE  Left(RunOf(l))' = Left(RunOf(l))
        OBVIOUS
      <3>1. PICK r \in queue.runs : r = RunOf(l) /\ r.label = l
        BY RunsByLabel
      <3>2. f[r] = RunOf(l)'
        BY <1>1, <3>1, RunsByLabelNext
      <3> QED
        BY <3>1, <3>2 DEF Left
    <2> QED
      BY <1>1, <2>1 DEF Leftover
  <1> PICK S : S = {r.label : r \in {x \in queue.runs : f[x].cancelled}}
    OBVIOUS
  <1>3. S \in SUBSET Label /\ S \subseteq queue.active_triggers
    BY DEF QInv, TypeOK, OneRunPerLabel
  <1>4. Halted' = Halted \cup S
    BY <1>1 DEF Halted
  <1>5. SentNow' = {}
    BY DEF SentNow
  <1>6. Playback!Stop(S)
    BY <1>1, <1>2, <1>3, <1>4, <1>5 DEF Playback!Stop, Leftover, Halted, SentNow
  <1> QED
    BY <1>3, <1>6 DEF Playback!Next

\* Cancel, CancelScoped and Tick are such steps.
LEMMA RewritesImplement ==
  ASSUME QInv, QInv', \/ \E label \in Label : Cancel(label)
                      \/ CancelScoped
                      \/ Tick
  PROVE  Playback!Next
  <1>1. queue.runs \subseteq Run
    BY DEF QInv, TypeOK
  <1>2. ASSUME NEW label \in Label, Cancel(label)
        PROVE  Playback!Next
    <2> DEFINE f == [r \in queue.runs |-> IF r.label = label THEN Cancelled(r) ELSE r]
    <2>1. queue' = [queue EXCEPT !.runs = {f[r] : r \in queue.runs}] /\ emitted' = {}
      BY <1>2 DEF Cancel, CancelTrigger
    <2>2. \A r \in queue.runs : /\ f[r].label = r.label /\ f[r].actions = r.actions
                                /\ f[r].next_action = r.next_action
                                /\ r.cancelled => f[r].cancelled
      BY <1>1, CancelledKeeps DEF Cancelled, Run
    <2> HIDE DEF f
    <2> QED
      BY <2>1, <2>2, RewriteIsStop
  <1>3. CASE CancelScoped
    <2> DEFINE f == [r \in queue.runs |-> IF r.scoped THEN Cancelled(r) ELSE r]
    <2>1. queue' = [queue EXCEPT !.runs = {f[r] : r \in queue.runs}] /\ emitted' = {}
      BY <1>3 DEF CancelScoped, CancelProcessScoped
    <2>2. \A r \in queue.runs : /\ f[r].label = r.label /\ f[r].actions = r.actions
                                /\ f[r].next_action = r.next_action
                                /\ r.cancelled => f[r].cancelled
      BY <1>1, CancelledKeeps DEF Cancelled, Run
    <2> HIDE DEF f
    <2> QED
      BY <2>1, <2>2, RewriteIsStop
  <1>4. CASE Tick
    <2> DEFINE f == [r \in queue.runs |-> Aged(r, 1)]
    <2>1. queue' = [queue EXCEPT !.runs = {f[r] : r \in queue.runs}] /\ emitted' = {}
      BY <1>4 DEF Tick, AgedQueue
    <2>2. \A r \in queue.runs : /\ f[r].label = r.label /\ f[r].actions = r.actions
                                /\ f[r].next_action = r.next_action
                                /\ r.cancelled => f[r].cancelled
      BY <1>1, AgedKeeps
    <2> HIDE DEF f
    <2> QED
      BY <2>1, <2>2, RewriteIsStop
  <1> QED
    BY <1>2, <1>3, <1>4

\* A request that a busy label refuses stops nobody; another one starts its label.
LEMMA ScheduleImplements ==
  ASSUME QInv, QInv', NEW request \in Request, ScheduleRequest(request)
  PROVE  Playback!Next
  <1> DEFINE q == NewRun(queue.next_id + 1, request.label, request.scoped,
                         request.actions, request.gap)
             l == request.label
  <1>1. l \in Label /\ emitted' = {}
    BY DEF Request, ScheduleRequest
  <1>2. CASE ~Accepts(queue, request)
    <2>1. queue' = queue
      BY <1>2 DEF ScheduleRequest, Schedule
    <2>2. Playback!Stop({})
      BY <1>1, <2>1 DEF Playback!Stop, RunOf, Left
    <2>3. {} \in SUBSET Label
      OBVIOUS
    <2> QED
      BY <2>2, <2>3 DEF Playback!Next
  <1>3. CASE Accepts(queue, request)
    <2>1. queue'.runs = queue.runs \cup {q}
          /\ queue'.active_triggers = queue.active_triggers \cup {l}
      BY <1>3 DEF ScheduleRequest, Schedule
    <2>2. q.label = l /\ ~q.cancelled /\ q \in queue'.runs
      BY <2>1 DEF NewRun
    <2>3. l \notin queue.active_triggers
      BY <1>3 DEF Accepts
    <2>4. Halted' = Halted
      BY <2>1, <2>2 DEF Halted
    <2> HIDE DEF q, l
    <2>5. SentNow' = {}
      BY <1>1 DEF SentNow
    <2>6. l \in queue'.active_triggers /\ Leftover'[l] = Left(RunOf(l)')
      BY <2>1 DEF Leftover, Left
    <2>7. \A i \in Leftover'[l] : i \in Nat
      <3>1. RunOf(l)' \in Run
        BY <2>6, RunsByLabelNext DEF QInv, TypeOK
      <3>2. Len(RunOf(l)'.actions) \in Nat
        BY <3>1, MacroIsSeq DEF Run
      <3> QED
        BY <2>6, <3>2 DEF Left
    <2>8. Leftover' = [x \in queue'.active_triggers |->
                         IF x = l THEN Leftover'[l] ELSE Leftover[x]]
      <3>1. \A x \in queue.active_triggers : RunOf(x)' = RunOf(x)
        BY <2>1, RunsByLabel, RunsByLabelNext
      <3>2. \A x \in queue'.active_triggers : x # l => x \in queue.active_triggers
        BY <2>1
      <3>3. \A x \in queue'.active_triggers : Leftover'[x] = Left(RunOf(x)')
        BY DEF Leftover, Left
      <3>4. \A x \in queue.active_triggers : Leftover[x] = Left(RunOf(x))
        BY DEF Leftover
      <3>5. Leftover' = [x \in queue'.active_triggers |-> Leftover'[x]]
        BY DEF Leftover
      <3>6. \A x \in queue'.active_triggers :
              Leftover'[x] = IF x = l THEN Leftover'[l] ELSE Leftover[x]
        BY <3>1, <3>2, <3>3, <3>4
      <3> QED
        BY <3>5, <3>6
    <2>9. Playback!Start(l)
      BY <2>1, <2>3, <2>4, <2>5, <2>7, <2>8 DEF Playback!Start, Leftover, Halted, SentNow
    <2> QED
      BY <1>1, <2>9 DEF Playback!Next, l
  <1> QED
    BY <1>2, <1>3

\* What a pass sends, whole or cut short: the next action of some busy labels
\* that were not stopped.
LEMMA SendsArePlays ==
  ASSUME QInv, NEW E, E \subseteq Emitting(queue), emitted' = Sends(E)
  PROVE  Playback!Plays({r.label : r \in E})
  <1> DEFINE P == {r.label : r \in E}
  <1>1. \A r \in E : /\ r \in queue.runs /\ r \in Run /\ Ready(r)
                     /\ r.next_action <= Len(r.actions)
    BY DEF Emitting, QInv, TypeOK, IdsIssued
  <1>2. \A r \in E : Leftover[r.label] # {}
                     /\ Playback!First(Leftover[r.label]) = r.next_action + 1
    BY <1>1, ReadyLeft, RunsByLabel
  <1>3. \A r \in E : r.label \in queue.active_triggers /\ r.label \notin Halted
    BY <1>1 DEF Halted, Ready, QInv, OneRunPerLabel
  <1>4. SentNow' = {<<r.label, r.next_action + 1>> : r \in E}
    <2>1. SentNow' = {<<e[2], e[3]>> : e \in Sends(E)}
      BY DEF SentNow
    <2>2. {<<e[2], e[3]>> : e \in Sends(E)} = {<<r.label, r.next_action + 1>> : r \in E}
      <3> DEFINE sent(r) == <<r.id, r.label, r.next_action + 1>>
      <3>1. Sends(E) = {sent(r) : r \in E}
        BY DEF Sends
      <3>2. \A r : sent(r)[2] = r.label /\ sent(r)[3] = r.next_action + 1
        OBVIOUS
      <3> HIDE DEF sent
      <3>3. {<<e[2], e[3]>> : e \in Sends(E)} = {<<sent(r)[2], sent(r)[3]>> : r \in E}
        BY <3>1, Zenon
      <3> QED
        BY <3>2, <3>3
    <2> QED
      BY <2>1, <2>2
  <1>5. SentNow' = {<<l, Playback!First(Leftover[l])>> : l \in P}
    BY <1>2, <1>4
  <1>6. P \subseteq queue.active_triggers \ Halted /\ \A l \in P : Leftover[l] # {}
    BY <1>2, <1>3
  <1> HIDE DEF P
  <1>7. Playback!Plays(P)
    BY <1>5, <1>6 DEF Playback!Plays, Leftover, Halted, SentNow
  <1> QED
    BY <1>7 DEF P

\* A pass plays the labels of the ready runs; those that leave have nothing left
\* or were stopped.
LEMMA DriveImplements ==
  ASSUME QInv, QInv', DriveReady
  PROVE  Playback!Next
  <1> PICK E : E = Emitting(queue)
    OBVIOUS
  <1> DEFINE P == {r.label : r \in E}
  <1>1. Playback!Plays(P)
    BY SendsArePlays DEF DriveReady
  <1>2. queue'.runs = {Polled(r) : r \in {x \in queue.runs : ~Over(x)}}
        /\ queue'.active_triggers
             = queue.active_triggers \ {r.label : r \in {x \in queue.runs : Over(x)}}
    BY DEF DriveReady, Drive, QInv, TypeOK
  <1>3. \A r \in queue.runs : r \in Run /\ r.next_action <= Len(r.actions)
    BY DEF QInv, TypeOK, IdsIssued
  <1>4. \A r \in queue.runs : ~Over(r) =>
          /\ Polled(r).label = r.label /\ Polled(r).cancelled = r.cancelled
          /\ ~r.cancelled
    BY <1>3, PolledKeeps DEF Over
  <1>5. \A l \in queue.active_triggers \ queue'.active_triggers :
          l \notin P /\ (Leftover[l] = {} \/ l \in Halted)
    <2> SUFFICES ASSUME NEW l \in queue.active_triggers \ queue'.active_triggers
                 PROVE  l \notin P /\ (Leftover[l] = {} \/ l \in Halted)
      OBVIOUS
    <2>1. PICK r \in queue.runs : Over(r) /\ r.label = l
      BY <1>2
    <2>2. ~Ready(r)
      BY <2>1 DEF Over, Ready
    <2>3. l \notin P
      BY <2>1, <2>2 DEF Emitting, QInv, OneRunPerLabel
    <2>4. CASE r.cancelled
      BY <2>1, <2>3, <2>4 DEF Halted
    <2>5. CASE Complete(r)
      BY <1>3, <2>1, <2>3, <2>5, CompleteLeft, RunsByLabel
    <2> QED
      BY <2>1, <2>4, <2>5 DEF Over
  <1>6. \A l \in queue'.active_triggers :
          Leftover'[l] = IF l \in P THEN Leftover[l] \ {Playback!First(Leftover[l])}
                                    ELSE Leftover[l]
    <2> SUFFICES ASSUME NEW l \in queue'.active_triggers
                 PROVE  Leftover'[l]
                          = IF l \in P THEN Leftover[l] \ {Playback!First(Leftover[l])}
                                       ELSE Leftover[l]
      OBVIOUS
    <2>1. PICK r \in queue.runs : ~Over(r) /\ r.label = l
      BY <1>2 DEF QInv, OneRunPerLabel
    <2>2. Polled(r) \in queue'.runs /\ Polled(r).label = l
      BY <1>2, <1>4, <2>1
    <2>3. RunOf(l)' = Polled(r)
      BY <2>2, RunsByLabelNext
    <2>4. Leftover'[l] = Left(Polled(r)) /\ Leftover[l] = Left(r)
      <3>1. Leftover'[l] = Left(RunOf(l)')
        BY DEF Leftover, Left
      <3> QED
        BY <2>1, <2>3, <3>1, RunsByLabel
    <2>5. l \in P <=> Ready(r)
      BY <2>1 DEF Emitting, QInv, OneRunPerLabel
    <2>6. CASE Ready(r)
      <3>1. /\ Playback!First(Left(r)) = r.next_action + 1
            /\ Left(Polled(r)) = Left(r) \ {r.next_action + 1}
        BY <1>3, <2>6, ReadyLeft
      <3> QED
        BY <2>4, <2>5, <2>6, <3>1
    <2>7. CASE ~Ready(r)
      <3>1. Left(Polled(r)) = Left(r)
        BY <1>3, <2>1, <2>7, WaitingLeft
      <3> QED
        BY <2>4, <2>5, <2>7, <3>1
    <2> QED
      BY <2>6, <2>7
  <1>7. Leftover' = [l \in queue'.active_triggers |->
                       IF l \in P THEN Leftover[l] \ {Playback!First(Leftover[l])}
                                  ELSE Leftover[l]]
    <2>1. Leftover' = [l \in queue'.active_triggers |-> Leftover'[l]]
      BY DEF Leftover
    <2> HIDE DEF P
    <2> QED
      BY <1>6, <2>1
  <1>8. Halted' = {} /\ Halted \cap queue'.active_triggers = {}
    <2>1. \A x \in queue'.runs : ~x.cancelled
      BY <1>2, <1>4
    <2>2. Halted' = {}
      BY <2>1 DEF Halted
    <2>3. \A l \in Halted : l \notin queue'.active_triggers
      BY <1>2 DEF Halted, Over
    <2> QED
      BY <2>2, <2>3
  <1>9. P \in SUBSET Label /\ queue'.active_triggers \subseteq queue.active_triggers
    BY <1>2 DEF Emitting, QInv, TypeOK, Run
  <1> HIDE DEF P
  <1>10. Playback!Pass(P)
    BY <1>1, <1>5, <1>7, <1>8, <1>9 DEF Playback!Pass, Leftover, Halted
  <1> QED
    BY <1>9, <1>10 DEF Playback!Next

\* A pass cut short plays the labels before the refused one, and ends all.
LEMMA DriveFailsImplements ==
  ASSUME QInv, NEW r \in queue.runs, DriveFails(r)
  PROVE  Playback!Next
  <1> PICK E : E = {x \in Emitting(queue) : x.id < r.id}
    OBVIOUS
  <1> DEFINE P == {x.label : x \in E}
  <1>1. Playback!Plays(P)
    BY SendsArePlays DEF DriveFails
  <1>2. P \in SUBSET Label
    BY DEF Emitting, QInv, TypeOK, Run
  <1>3. queue'.runs = {} /\ queue'.active_triggers = {}
    BY EmptyQueueTyped DEF DriveFails
  <1>4. Halted' = {} /\ Leftover' = [l \in {} |-> {}]
    BY <1>3 DEF Halted, Leftover
  <1> HIDE DEF P
  <1>5. Playback!Abort(P)
    BY <1>1, <1>3, <1>4 DEF Playback!Abort, Leftover, Halted
  <1> QED
    BY <1>2, <1>5 DEF Playback!Next

\* Every step of the queue is a step of MacroPlayback, or a stutter: with the
\* polling, the delays and the ids hidden, a trigger plays one macro at a time,
\* in order, each action once, and nothing after it is stopped.
THEOREM QueueIsPlayback == Spec => ImplementsPlayback
  <1>1. Init => Playback!Init
    <2> SUFFICES ASSUME Init PROVE Playback!Init
      OBVIOUS
    <2>1. queue.runs = {} /\ queue.active_triggers = {} /\ emitted = {}
      BY EmptyQueueTyped DEF Init
    <2>2. Halted = {} /\ Leftover = [l \in {} |-> {}] /\ SentNow = {}
      BY <2>1 DEF Halted, Leftover, SentNow
    <2> QED
      BY <2>1, <2>2 DEF Playback!Init, Halted, Leftover, SentNow
  <1>2. QInv /\ QInv' /\ [Next]_vars => [Playback!Next]_(Playback!vars)
    <2> SUFFICES ASSUME QInv, QInv', [Next]_vars
                 PROVE  Playback!Next \/ UNCHANGED Playback!vars
      OBVIOUS
    <2>1. CASE \E request \in Request : ScheduleRequest(request)
      BY <2>1, ScheduleImplements
    <2>2. CASE (\E label \in Label : Cancel(label)) \/ CancelScoped \/ Tick
      BY <2>2, RewritesImplement
    <2>3. CASE DriveReady
      BY <2>3, DriveImplements
    <2>4. CASE \E r \in queue.runs : DriveFails(r)
      BY <2>4, DriveFailsImplements
    <2>5. CASE UNCHANGED vars
      BY <2>5 DEF vars, Playback!vars, RunOf, Left
    <2> QED
      BY <2>1, <2>2, <2>3, <2>4, <2>5 DEF Next
  <1> QED
    BY <1>1, <1>2, QInvInit, QInvNext, PTL DEF Spec, ImplementsPlayback, Playback!Spec
=============================================================================
