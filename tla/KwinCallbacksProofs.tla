------------------------- MODULE KwinCallbacksProofs -------------------------
(***************************************************************************)
(* Theorems about KwinCallbacks, for every queue capacity and any number   *)
(* of callbacks and requests: its type invariant, that no wakeup is lost,  *)
(* that it implements CallbackMailbox, and that every message is accounted *)
(* for.                                                                    *)
(***************************************************************************)
EXTENDS KwinCallbacks, FiniteSetTheorems, TLAPS

\* What a queue of any kind keeps when something is put at its end or taken
\* from its front.
LEMMA QueueSteps ==
  ASSUME NEW S, NEW q \in Seq(S)
  PROVE  /\ \A e \in S : Append(q, e) \in Seq(S) /\ Len(Append(q, e)) = Len(q) + 1
         /\ q # <<>> => /\ Head(q) \in S
                        /\ Tail(q) \in Seq(S) /\ Len(Tail(q)) = Len(q) - 1
OBVIOUS

\* KwinCallbackQueue::push keeps the limit and the shape of the queue.
LEMMA PushKeepsLimit ==
  ASSUME TypeOK, NEW serial \in Serial, Push(serial)
  PROVE  events' \in Seq(Serial) /\ Len(events') <= Capacity /\ dropped_count' \in Nat
<1>1. CASE Len(events) < Capacity
  <2>1. events' = Append(events, serial) /\ dropped_count' = dropped_count
    BY <1>1 DEF Push
  <2>2. events \in Seq(Serial) /\ dropped_count \in Nat
    BY DEF TypeOK
  <2>3. events' \in Seq(Serial) /\ Len(events') = Len(events) + 1
    BY <2>1, <2>2, QueueSteps
  <2> QED BY <1>1, <2>1, <2>2, <2>3, KwinAssumption
<1>2. CASE ~(Len(events) < Capacity)
  BY <1>2 DEF Push, TypeOK
<1> QED BY <1>1, <1>2

\* What the listener takes from the wire is a callback or an answer.
LEMMA WireSteps ==
  ASSUME TypeOK, wire # <<>>
  PROVE  /\ Tail(wire) \in Seq(Messages)
         /\ Head(wire) \in Messages
         /\ Head(wire).member = "triggered" => Head(wire).about \in Serial
         /\ Head(wire).about \in Nat
<1>1. Tail(wire) \in Seq(Messages) /\ Head(wire) \in Messages
  BY QueueSteps DEF TypeOK
<1> QED BY <1>1, KwinAssumption DEF Messages, Serial

\* The bridge starts in the shape it keeps.
LEMMA InitialShape == Init => TypeOK
<1>1. <<>> \in Seq(Messages) /\ <<>> \in Seq(Serial) /\ <<>> \in Seq(Nat) /\ Len(<<>>) = 0
  OBVIOUS
<1>2. 0 \in 0..MaxCallbacks /\ 0 <= Capacity
  BY KwinAssumption
<1> SUFFICES ASSUME Init PROVE TypeOK
  OBVIOUS
<1>3. wire \in Seq(Messages) /\ events \in Seq(Serial) /\ window_results \in Seq(Nat)
  BY <1>1 DEF Init
<1>4. Len(events) <= Capacity /\ sent \in 0..MaxCallbacks
  BY <1>1, <1>2 DEF Init
<1>5. readable \in BOOLEAN
  BY DEF Init
<1>6. /\ scripts \subseteq Nat /\ given_up \subseteq Nat
      /\ listener \in {"idle", "pushed"}
      /\ pc \in {"work", "drain", "pop", "handle", "asking", "wait"}
      /\ back \in {"work", "wait"} /\ caller \in {"work", "handle"}
  BY DEF Init
<1>7. /\ dropped_count \in Nat /\ next_index \in Nat /\ active_process \in Nat
      /\ handled \in Nat /\ reported \in Nat
  BY DEF Init
<1> QED BY <1>3, <1>4, <1>5, <1>6, <1>7 DEF TypeOK

\* Every variable keeps the shape the bridge gives it, and the callback queue
\* its limit, for every capacity.
THEOREM TypeCorrect == Spec => []TypeOK
<1>1. Init => TypeOK
  BY InitialShape
<1>2. TypeOK /\ [Next]_vars => TypeOK'
  <2> SUFFICES ASSUME TypeOK, [Next]_vars PROVE TypeOK'
    OBVIOUS
  <2>1. CASE Trigger
    <3>1. sent + 1 \in Serial /\ sent' \in 0..MaxCallbacks
      BY <2>1, KwinAssumption DEF Trigger, TypeOK, Serial
    <3>2. wire' \in Seq(Messages)
      BY <2>1, <3>1, QueueSteps DEF Trigger, TypeOK, Callback, Messages
    <3> QED BY <2>1, <3>1, <3>2
            DEF Trigger, TypeOK, inbox, runner, history
  <2>2. CASE RunScript
    <3> PICK request \in scripts : /\ scripts' = scripts \ {request}
                                   /\ wire' = Append(wire, WindowResult(request))
      BY <2>2 DEF RunScript
    <3>1. wire' \in Seq(Messages)
      BY QueueSteps DEF TypeOK, WindowResult, Messages
    <3> QED BY <2>2, <3>1 DEF RunScript, TypeOK, inbox, runner, history
  <2>3. CASE Receive
    <3>1. wire' \in Seq(Messages)
      BY <2>3, WireSteps DEF Receive
    <3>2. /\ events' \in Seq(Serial) /\ Len(events') <= Capacity /\ dropped_count' \in Nat
          /\ listener' \in {"idle", "pushed"}
      BY <2>3, WireSteps, PushKeepsLimit DEF Receive, TypeOK
    <3>3. window_results' \in Seq(Nat)
      <4>1. window_results \in Seq(Nat) /\ Head(wire).about \in Nat
        BY <2>3, WireSteps DEF Receive, TypeOK
      <4>2. Append(window_results, Head(wire).about) \in Seq(Nat)
        BY <4>1, QueueSteps
      <4> QED BY <2>3, <4>1, <4>2 DEF Receive
    <3> QED BY <2>3, <3>1, <3>2, <3>3 DEF Receive, TypeOK, kwin, runner, history
  <2>4. CASE Wake
    BY <2>4 DEF Wake, TypeOK, kwin, runner, history
  <2>5. CASE StartDrain \/ WakeByCallback \/ WakeOtherwise \/ HandleCallback \/ FinishDrain
    BY <2>5 DEF StartDrain, WakeByCallback, WakeOtherwise, HandleCallback, FinishDrain,
                TypeOK, kwin, inbox, history
  <2>6. CASE TakeDropped
    BY <2>6 DEF TakeDropped, TypeOK, kwin
  <2>7. CASE PopCallback
    <3>1. events' \in Seq(Serial) /\ Len(events') <= Capacity /\ active_process' \in Nat
      BY <2>7, QueueSteps, KwinAssumption DEF PopCallback, TypeOK, Serial
    <3> QED BY <2>7, <3>1 DEF PopCallback, TypeOK, kwin
  <2>8. CASE AskKwin
    BY <2>8 DEF AskKwin, TypeOK, inbox, history
  <2>9. CASE FailToAsk
    BY <2>9 DEF FailToAsk, TypeOK, inbox
  <2>10. CASE TakeAnswer
    <3>1. window_results' \in Seq(Nat)
      <4> DEFINE n == Len(window_results) - 1
                 first == CHOOSE i \in Answers : \A j \in Answers : i <= j
                 rest == [i \in 1..n |-> window_results[IF i < first THEN i ELSE i + 1]]
      <4>1. n \in Nat
        BY <2>10 DEF TakeAnswer, Answers, TypeOK
      <4>2. \A i \in 1..n : window_results[IF i < first THEN i ELSE i + 1] \in Nat
        BY <4>1 DEF TypeOK
      <4>3. rest \in [1..n -> Nat]
        BY <4>2
      <4>4. window_results' = rest
        BY <2>10 DEF TakeAnswer
      <4> HIDE DEF rest, n
      <4> QED BY <4>1, <4>3, <4>4
    <3> QED BY <2>10, <3>1 DEF TakeAnswer, TypeOK, kwin, inbox, history
  <2>11. CASE GiveUp
    BY <2>11 DEF GiveUp, TypeOK, inbox
  <2>12. CASE UNCHANGED vars
    BY <2>12 DEF vars, TypeOK, kwin, inbox, runner, history
  <2> QED BY <2>1, <2>2, <2>3, <2>4, <2>5, <2>6, <2>7, <2>8, <2>9, <2>10, <2>11, <2>12
          DEF Next, Listener, Drain, Request
<1> QED BY <1>1, <1>2, PTL DEF Spec

-----------------------------------------------------------------------------
(* No lost wakeup. *)

\* The runner is past TakeDropped, in a drain that is not finished.
Popping == pc \in {"pop", "handle"} \/ (pc = "asking" /\ caller = "handle")

\* A drop that this drain no longer counts has its wakeup, given or on its way:
\* what makes NoLostWakeup inductive.
DropsAnnounced == Popping /\ dropped_count > 0 => readable \/ listener = "pushed"

WInv == TypeOK /\ NoLostWakeup /\ DropsAnnounced

\* Only the wait for the eventfd makes it unreadable.
LEMMA WakeupsKept ==
  ASSUME TypeOK, [Next]_vars, ~WakeByCallback, readable \/ listener = "pushed"
  PROVE  readable' \/ listener' = "pushed"
BY DEF Next, Listener, Drain, Request, Trigger, RunScript, Receive, Wake, StartDrain,
       WakeOtherwise, TakeDropped, PopCallback, HandleCallback, FinishDrain, AskKwin,
       FailToAsk, TakeAnswer, GiveUp, vars, inbox

\* The runner never waits with a callback queued, or a drop not reported, unless
\* its eventfd is readable or about to be: whatever the capacity, and however the
\* two threads' steps fall between each other.
THEOREM NoWakeupIsLost == Spec => []NoLostWakeup
<1>1. Init => WInv
  BY InitialShape DEF Init, WInv, NoLostWakeup, DropsAnnounced, Popping
<1>2. WInv /\ TypeOK' /\ [Next]_vars => WInv'
  <2> SUFFICES ASSUME WInv, TypeOK', [Next]_vars PROVE NoLostWakeup' /\ DropsAnnounced'
    BY DEF WInv
  <2> USE DEF WInv
  <2>1. CASE readable' \/ listener' = "pushed"
    BY <2>1 DEF NoLostWakeup, DropsAnnounced
  <2>2. CASE WakeByCallback
    BY <2>2 DEF WakeByCallback, NoLostWakeup, DropsAnnounced, Popping
  <2>3. CASE ~(readable' \/ listener' = "pushed") /\ ~WakeByCallback
    <3>1. ~readable /\ listener # "pushed"
      BY <2>3, WakeupsKept
    <3>2. CASE Receive
      BY <2>3, <3>1, <3>2 DEF Receive, NoLostWakeup, DropsAnnounced, Popping, runner
    <3>3. CASE Trigger \/ RunScript \/ UNCHANGED vars
      BY <3>1, <3>3 DEF Trigger, RunScript, vars, inbox, runner,
                        NoLostWakeup, DropsAnnounced, Popping
    <3>4. CASE StartDrain \/ WakeOtherwise \/ TakeDropped
      BY <3>1, <3>4 DEF StartDrain, WakeOtherwise, TakeDropped, inbox,
                        NoLostWakeup, DropsAnnounced, Popping
    <3>5. CASE PopCallback \/ HandleCallback
      BY <3>1, <3>5 DEF PopCallback, HandleCallback, inbox,
                        NoLostWakeup, DropsAnnounced, Popping
    <3>6. CASE FinishDrain
      BY <3>1, <3>6 DEF FinishDrain, inbox, NoLostWakeup, DropsAnnounced, Popping, TypeOK
    <3>7. CASE Request
      BY <3>1, <3>7 DEF Request, AskKwin, FailToAsk, TakeAnswer, GiveUp, inbox,
                        NoLostWakeup, DropsAnnounced, Popping, TypeOK
    <3>8. ~Wake
      BY <2>3 DEF Wake
    <3> QED BY <2>3, <3>2, <3>3, <3>4, <3>5, <3>6, <3>7, <3>8
            DEF Next, Listener, Drain
  <2> QED BY <2>1, <2>2, <2>3
<1>3. WInv => NoLostWakeup
  BY DEF WInv
<1> QED BY <1>1, <1>2, <1>3, TypeCorrect, PTL DEF Spec

\* Both, for every capacity and every number of callbacks and requests.
THEOREM BridgeInvariant == Spec => []Inv
  BY TypeCorrect, NoWakeupIsLost, PTL DEF Inv

-----------------------------------------------------------------------------
(* Refinement. *)

\* The bridge is a CallbackMailbox whose wake flag is up from the push on.
THEOREM BridgeIsMailbox == Spec => ImplementsMailbox
<1>1. Init => Mailbox!Init
  BY DEF Init, Mailbox!Init
<1>2. TypeOK /\ [Next]_vars
        => [Mailbox!Next]_<<events, readable \/ listener = "pushed">>
  <2> SUFFICES ASSUME TypeOK, [Next]_vars
               PROVE  Mailbox!Next \/ (/\ events' = events
                                      /\ (readable \/ listener = "pushed")'
                                           = (readable \/ listener = "pushed"))
    OBVIOUS
  <2>1. CASE Receive /\ Head(wire).member = "triggered"
    <3>1. /\ listener' = "pushed" /\ Push(Head(wire).about)
          /\ Head(wire).about \in Serial
      BY <2>1, WireSteps DEF Receive, Messages
    <3>2. Mailbox!Post
      BY <3>1 DEF Mailbox!Post, Push
    <3> QED BY <3>2 DEF Mailbox!Next
  <2>2. CASE Receive /\ Head(wire).member # "triggered"
    BY <2>2 DEF Receive
  <2>3. CASE Wake
    BY <2>3 DEF Wake
  <2>4. CASE WakeByCallback
    <3>1. Mailbox!Acknowledge
      BY <2>4 DEF WakeByCallback, Mailbox!Acknowledge
    <3> QED BY <3>1 DEF Mailbox!Next
  <2>5. CASE PopCallback
    <3>1. Mailbox!Take
      BY <2>5 DEF PopCallback, Mailbox!Take
    <3> QED BY <3>1 DEF Mailbox!Next
  <2>6. CASE \/ Trigger \/ RunScript \/ StartDrain \/ WakeOtherwise \/ TakeDropped
             \/ HandleCallback \/ FinishDrain \/ Request \/ UNCHANGED vars
    BY <2>6 DEF Trigger, RunScript, StartDrain, WakeOtherwise, TakeDropped, HandleCallback,
                FinishDrain, Request, AskKwin, FailToAsk, TakeAnswer, GiveUp, vars, inbox
  <2> QED BY <2>1, <2>2, <2>3, <2>4, <2>5, <2>6 DEF Next, Listener, Drain
<1> QED BY <1>1, <1>2, TypeCorrect, PTL DEF Spec, ImplementsMailbox, Mailbox!Spec

-----------------------------------------------------------------------------
(* Nothing is dropped unseen. *)

\* The places on a wire w of the messages of one kind.
At(w, kind) == {i \in DOMAIN w : w[i].member = kind}

\* Where the messages of a wire are when one is put at its end.
LEMMA AppendedAt ==
  ASSUME NEW w \in Seq(Messages), NEW e \in Messages, NEW v, v = Append(w, e)
  PROVE  /\ DOMAIN v = DOMAIN w \cup {Len(w) + 1} /\ Len(w) + 1 \notin DOMAIN w
         /\ \A i \in DOMAIN w : v[i] = w[i] /\ i < Len(w) + 1
         /\ v[Len(w) + 1] = e
         /\ Len(w) \in Nat /\ DOMAIN w \subseteq Nat
OBVIOUS

\* ... and when the first one is taken away.
LEMMA TailAt ==
  ASSUME NEW w \in Seq(Messages), w # <<>>, NEW v, v = Tail(w)
  PROVE  /\ \A i \in DOMAIN v : i + 1 \in DOMAIN w /\ v[i] = w[i + 1] /\ i \in Nat
         /\ \A i \in DOMAIN w : i # 1 => i - 1 \in DOMAIN v /\ v[i - 1] = w[i]
         /\ 1 \in DOMAIN w /\ w[1] = Head(w) /\ DOMAIN w \subseteq Nat \ {0}
OBVIOUS

\* The messages of a kind on a wire are finitely many.
LEMMA AtFinite ==
  ASSUME NEW w \in Seq(Messages), NEW kind
  PROVE  IsFiniteSet(At(w, kind)) /\ Cardinality(At(w, kind)) \in Nat
<1>1. DOMAIN w = 1..Len(w) /\ Len(w) \in Nat
  OBVIOUS
<1>2. IsFiniteSet(1..Len(w))
  BY <1>1, FS_Interval
<1>3. At(w, kind) \subseteq 1..Len(w)
  BY <1>1 DEF At
<1>4. IsFiniteSet(At(w, kind))
  BY <1>2, <1>3, FS_Subset
<1> QED BY <1>4, FS_CardinalityType

\* A message that is sent is one more of its kind on the wire.
LEMMA AppendCounts ==
  ASSUME NEW w \in Seq(Messages), NEW e \in Messages, NEW kind
  PROVE  Cardinality(At(Append(w, e), kind))
           = Cardinality(At(w, kind)) + (IF e.member = kind THEN 1 ELSE 0)
<1> DEFINE v == Append(w, e)
           n == Len(w) + 1
<1>1. /\ DOMAIN v = DOMAIN w \cup {n} /\ n \notin DOMAIN w
      /\ \A i \in DOMAIN w : v[i] = w[i]
      /\ v[n] = e
  BY AppendedAt
<1> HIDE DEF v, n
<1>2. At(v, kind) = IF e.member = kind THEN At(w, kind) \cup {n} ELSE At(w, kind)
  BY <1>1 DEF At
<1>3. n \notin At(w, kind)
  BY <1>1 DEF At
<1>4. IsFiniteSet(At(w, kind)) /\ Cardinality(At(w, kind)) \in Nat
  BY AtFinite
<1>5. Cardinality(At(w, kind) \cup {n}) = Cardinality(At(w, kind)) + 1
  BY <1>3, <1>4, FS_AddElement
<1>6. Cardinality(At(v, kind))
           = Cardinality(At(w, kind)) + (IF e.member = kind THEN 1 ELSE 0)
  BY <1>2, <1>4, <1>5
<1> QED BY <1>6 DEF v

\* A message that is received is one less of its kind on the wire.
LEMMA TailCounts ==
  ASSUME NEW w \in Seq(Messages), w # <<>>, NEW kind
  PROVE  Cardinality(At(w, kind))
           = Cardinality(At(Tail(w), kind)) + (IF Head(w).member = kind THEN 1 ELSE 0)
<1> DEFINE v == Tail(w)
           rest == At(w, kind) \ {1}
           shift == [i \in At(v, kind) |-> i + 1]
<1>1. v \in Seq(Messages)
  OBVIOUS
<1>2. /\ \A i \in DOMAIN v : i + 1 \in DOMAIN w /\ v[i] = w[i + 1] /\ i \in Nat
      /\ \A i \in DOMAIN w : i # 1 => i - 1 \in DOMAIN v /\ v[i - 1] = w[i]
      /\ 1 \in DOMAIN w /\ w[1] = Head(w) /\ DOMAIN w \subseteq Nat \ {0}
  BY TailAt
<1>2a. \A i \in DOMAIN v : i # 0
  OBVIOUS
<1> HIDE DEF v
<1>3. \A i \in At(v, kind) : i \in Nat /\ i + 1 \in rest
  BY <1>2, <1>2a DEF At
<1>4. \A i \in rest : i - 1 \in At(v, kind) /\ i \in Nat /\ (i - 1) + 1 = i
  BY <1>2 DEF At
<1>5. shift \in Bijection(At(v, kind), rest)
  <2>1. shift \in [At(v, kind) -> rest]
    BY <1>3
  <2>2. \A i, j \in At(v, kind) : shift[i] = shift[j] => i = j
    BY <1>3
  <2>3. \A j \in rest : \E i \in At(v, kind) : shift[i] = j
    BY <1>4
  <2> HIDE DEF shift, rest
  <2> QED BY <2>1, <2>2, <2>3 DEF Bijection, Injection, Surjection, IsInjective
<1>6. IsFiniteSet(At(v, kind)) /\ IsFiniteSet(At(w, kind))
      /\ Cardinality(At(v, kind)) \in Nat /\ Cardinality(At(w, kind)) \in Nat
  BY <1>1, AtFinite
<1>7. Cardinality(rest) = Cardinality(At(v, kind))
  BY <1>5, <1>6, FS_Bijection DEF ExistsBijection
<1>8. Cardinality(rest) = IF 1 \in At(w, kind) THEN Cardinality(At(w, kind)) - 1
                                               ELSE Cardinality(At(w, kind))
  BY <1>6, FS_RemoveElement
<1>9. 1 \in At(w, kind) <=> Head(w).member = kind
  BY <1>2 DEF At
<1>10. Cardinality(At(w, kind))
           = Cardinality(At(v, kind)) + (IF Head(w).member = kind THEN 1 ELSE 0)
  BY <1>6, <1>7, <1>8, <1>9
<1> QED BY <1>10 DEF v

\* Every step keeps the count: a callback is on the wire, queued, handled, or a
\* drop, counted or about to be.
LEMMA CountStep ==
  ASSUME TypeOK, EveryDropIsCounted, [Next]_vars
  PROVE  EveryDropIsCounted'
<1> DEFINE n == Cardinality(At(wire, "triggered"))
           m == Cardinality(At(wire', "triggered"))
<1>1. /\ OnTheWire = At(wire, "triggered") /\ OnTheWire' = At(wire', "triggered")
      /\ wire \in Seq(Messages) /\ n \in Nat
  BY AtFinite DEF OnTheWire, At, TypeOK
<1>2. /\ sent = n + Len(events) + handled + dropped_count + reported
      /\ EveryDropIsCounted' <=> sent' = m + Len(events') + handled' + dropped_count' + reported'
      /\ sent \in Nat /\ events \in Seq(Serial) /\ Len(events) \in Nat
      /\ handled \in Nat /\ dropped_count \in Nat /\ reported \in Nat
  BY <1>1 DEF EveryDropIsCounted, TypeOK
<1>3. wire' = wire => m = n
  OBVIOUS
<1> HIDE DEF n, m
<1>4. CASE Trigger
  <2>1. sent + 1 \in Serial
    BY <1>2, <1>4, KwinAssumption DEF Trigger, Serial
  <2>2. Callback(sent + 1) \in Messages /\ Callback(sent + 1).member = "triggered"
    BY <2>1 DEF Callback, Messages
  <2>3. m = n + 1
    BY <1>1, <1>4, <2>2, AppendCounts DEF Trigger, n, m
  <2> QED BY <1>1, <1>2, <1>4, <2>3 DEF Trigger, inbox, history
<1>5. CASE RunScript
  <2> PICK request \in scripts : wire' = Append(wire, WindowResult(request))
    BY <1>5 DEF RunScript
  <2>1. /\ WindowResult(request) \in Messages
        /\ WindowResult(request).member # "triggered"
    BY DEF WindowResult, Messages, TypeOK
  <2>2. m = n
    BY <1>1, <2>1, AppendCounts DEF n, m
  <2> QED BY <1>2, <1>5, <2>2 DEF RunScript, inbox, history
<1>6. CASE Receive
  <2>1. n = m + (IF Head(wire).member = "triggered" THEN 1 ELSE 0)
    BY <1>1, <1>6, TailCounts DEF Receive, n, m
  <2>2. m \in Nat
    <3>1. wire' \in Seq(Messages)
      BY <1>6, WireSteps DEF Receive
    <3> QED BY <3>1, AtFinite DEF m
  <2>3. CASE Head(wire).member = "triggered"
    <3>1. Push(Head(wire).about) /\ Head(wire).about \in Serial
      BY <1>6, <2>3, WireSteps DEF Receive
    <3>2. Len(events') + dropped_count' = Len(events) + dropped_count + 1
      BY <1>2, <3>1, QueueSteps DEF Push
    <3>3. Len(events') \in Nat /\ dropped_count' \in Nat
      BY <3>1, PushKeepsLimit
    <3>4. n = m + 1
      BY <2>1, <2>3
    <3>5. sent' = sent /\ handled' = handled /\ reported' = reported
      BY <1>6 DEF Receive, kwin, history
    <3>6. sent' = (m + 1) + Len(events) + handled + dropped_count + reported
      BY <1>2, <3>4, <3>5
    <3>7. sent' = m + Len(events') + handled + dropped_count' + reported
      <4>1. /\ Len(events) \in Nat /\ handled \in Nat /\ dropped_count \in Nat /\ reported \in Nat
        BY <1>2
      <4> QED BY <2>2, <3>2, <3>3, <3>6, <4>1
    <3> QED BY <1>2, <3>5, <3>7
  <2>4. CASE Head(wire).member # "triggered"
    BY <1>2, <1>6, <2>1, <2>2, <2>4 DEF Receive, kwin, history
  <2> QED BY <2>3, <2>4
<1>7. CASE TakeDropped
  BY <1>1, <1>2, <1>3, <1>7 DEF TakeDropped, kwin
<1>8. CASE PopCallback
  <2>1. Len(events') = Len(events) - 1
    BY <1>2, <1>8, QueueSteps DEF PopCallback
  <2> QED BY <1>1, <1>2, <1>3, <1>8, <2>1 DEF PopCallback, kwin
<1>9. CASE Wake \/ WakeByCallback \/ WakeOtherwise \/ StartDrain \/ HandleCallback
           \/ FinishDrain \/ Request \/ UNCHANGED vars
  BY <1>2, <1>3, <1>9 DEF Wake, WakeByCallback, WakeOtherwise, StartDrain, HandleCallback,
     FinishDrain, Request, AskKwin, FailToAsk, TakeAnswer, GiveUp, vars, kwin, inbox, history
<1> QED BY <1>4, <1>5, <1>6, <1>7, <1>8, <1>9 DEF Next, Listener, Drain

-----------------------------------------------------------------------------
(* Callbacks come in order, and answers to their requests. *)

\* A message is in one place: what is to be handled of the callbacks lies after
\* the last one handled, first in the queue and then on the wire, in order.
CallbacksInOrder ==
  /\ \A i \in OnTheWire : wire[i].about <= sent /\ active_process < wire[i].about
  /\ \A i, j \in OnTheWire : i < j => wire[i].about < wire[j].about
  /\ \A i \in DOMAIN events : events[i] <= sent
  /\ \A i \in DOMAIN events, j \in OnTheWire : events[i] < wire[j].about
  /\ active_process <= sent

AnswersOnTheWire == {i \in DOMAIN wire : wire[i].member = "windowResult"}

\* The requests that an answer may be for.
Open == given_up \cup (IF pc = "asking" THEN {next_index} ELSE {})

\* A request is answered once at most: its script is still to run, its answer on
\* the wire or waiting to be taken, whether or not the runner has gone on.
AnsweredOnce ==
  /\ \A i, j \in AnswersOnTheWire : wire[i].about = wire[j].about => i = j
  /\ \A i, j \in DOMAIN window_results : window_results[i] = window_results[j] => i = j
  /\ \A i \in AnswersOnTheWire : wire[i].about \notin scripts
  /\ \A j \in DOMAIN window_results : window_results[j] \notin scripts
  /\ \A i \in AnswersOnTheWire, j \in DOMAIN window_results :
       wire[i].about # window_results[j]

\* Whatever may still be answered was asked, and is late or being waited for.
AnswersWereAsked ==
  /\ \A request \in scripts : request \in Open
  /\ \A i \in AnswersOnTheWire : wire[i].about \in Open
  /\ \A i \in DOMAIN window_results : window_results[i] \in Open
  /\ \A request \in Open : request <= next_index

Accounted ==
  /\ EveryDropIsCounted
  /\ HandledInOrder /\ CallbacksInOrder
  /\ AnsweredOnce /\ AnswersWereAsked

\* Callbacks stay in order where only what is not about them changes.
LEMMA OrderKept ==
  ASSUME HandledInOrder, CallbacksInOrder,
         sent' = sent, wire' = wire, events' = events, active_process' = active_process
  PROVE  HandledInOrder' /\ CallbacksInOrder'
BY DEF HandledInOrder, CallbacksInOrder, OnTheWire

\* Every step keeps what is not handled in the order it was sent.
LEMMA OrderStep ==
  ASSUME TypeOK, HandledInOrder, CallbacksInOrder, [Next]_vars
  PROVE  HandledInOrder' /\ CallbacksInOrder'
<1>1. /\ wire \in Seq(Messages) /\ events \in Seq(Serial) /\ sent \in Nat /\ active_process \in Nat
      /\ \A i \in OnTheWire : wire[i].about \in Serial /\ i \in DOMAIN wire
      /\ Serial \subseteq Nat
  BY DEF TypeOK, OnTheWire, Messages, Serial
<1>1a. /\ \A i \in DOMAIN events : events[i] \in Nat
       /\ \A i \in OnTheWire : wire[i].about \in Nat /\ i \in Nat
  <2>1. DOMAIN wire \subseteq Nat /\ \A i \in DOMAIN events : events[i] \in Serial
    BY <1>1
  <2>2. /\ \A i \in OnTheWire : wire[i].about \in Serial /\ i \in DOMAIN wire
        /\ Serial \subseteq Nat
    BY <1>1
  <2> QED BY <2>1, <2>2
<1>1b. /\ \A i \in OnTheWire : wire[i].about <= sent /\ active_process < wire[i].about
       /\ \A i, j \in OnTheWire : i < j => wire[i].about < wire[j].about
       /\ \A i \in DOMAIN events : events[i] <= sent
       /\ \A i \in DOMAIN events, j \in OnTheWire : events[i] < wire[j].about
       /\ active_process <= sent
  BY DEF CallbacksInOrder
<1>2. CASE Trigger
  <2> DEFINE n == Len(wire) + 1
             e == Callback(sent + 1)
  <2>1. sent + 1 \in Serial
    BY <1>1, <1>2, KwinAssumption DEF Trigger, Serial
  <2>2. e \in Messages /\ e.member = "triggered" /\ e.about = sent + 1
    BY <2>1 DEF Callback, Messages
  <2>3. /\ DOMAIN wire' = DOMAIN wire \cup {n} /\ n \notin DOMAIN wire
        /\ \A i \in DOMAIN wire : wire'[i] = wire[i] /\ i < n
        /\ wire'[n] = e
    BY <1>1, <1>2, <2>2, AppendedAt DEF Trigger
  <2>4. sent' = sent + 1 /\ events' = events /\ active_process' = active_process
    BY <1>2 DEF Trigger, inbox, runner
  <2>5. n \in Nat /\ DOMAIN wire \subseteq Nat
    BY <1>1
  <2> HIDE DEF n, e
  <2>6. OnTheWire' = OnTheWire \cup {n}
    BY <2>2, <2>3 DEF OnTheWire
  <2>7. \A i \in OnTheWire : wire'[i] = wire[i] /\ i < n /\ i \in Nat
    BY <2>3, <2>5 DEF OnTheWire
  <2>8. wire'[n].about = sent + 1
    BY <2>2, <2>3
  <2>9. HandledInOrder'
    BY <2>4 DEF HandledInOrder
  <2>10. /\ \A i \in OnTheWire' : wire'[i].about <= sent' /\ active_process' < wire'[i].about
    <3>1. sent + 1 <= sent + 1 /\ active_process < sent + 1
      BY <1>1, <1>1b
    <3>2. \A i \in OnTheWire : wire[i].about <= sent + 1
      BY <1>1, <1>1a, <1>1b
    <3> QED BY <1>1b, <2>4, <2>6, <2>7, <2>8, <3>1, <3>2
  <2>11. \A i, j \in OnTheWire' : i < j => wire'[i].about < wire'[j].about
    <3>1. \A i \in OnTheWire : wire[i].about < sent + 1 /\ ~(n < i) /\ ~(n < n)
      BY <1>1, <1>1a, <1>1b, <2>5, <2>7
    <3> QED BY <1>1b, <2>6, <2>7, <2>8, <3>1, <2>5
  <2>12. \A i \in DOMAIN events' : events'[i] <= sent'
    <3>1. \A i \in DOMAIN events : events[i] <= sent + 1
      BY <1>1, <1>1a, <1>1b
    <3> QED BY <2>4, <3>1
  <2>13. \A i \in DOMAIN events', j \in OnTheWire' : events'[i] < wire'[j].about
    <3>1. \A i \in DOMAIN events : events[i] < sent + 1
      BY <1>1, <1>1a, <1>1b
    <3> QED BY <1>1b, <2>4, <2>6, <2>7, <2>8, <3>1
  <2>14. active_process' <= sent'
    BY <1>1, <2>4 DEF CallbacksInOrder
  <2> QED BY <2>9, <2>10, <2>11, <2>12, <2>13, <2>14 DEF CallbacksInOrder
<1>3. CASE RunScript
  <2> PICK request \in scripts : wire' = Append(wire, WindowResult(request))
    BY <1>3 DEF RunScript
  <2> DEFINE n == Len(wire) + 1
             e == WindowResult(request)
  <2>1. e \in Messages /\ e.member # "triggered"
    BY DEF WindowResult, Messages, TypeOK
  <2>2. /\ DOMAIN wire' = DOMAIN wire \cup {n} /\ n \notin DOMAIN wire
        /\ \A i \in DOMAIN wire : wire'[i] = wire[i]
        /\ wire'[n] = e
    BY <1>1, <2>1, AppendedAt
  <2> HIDE DEF n, e
  <2>3. OnTheWire' = OnTheWire /\ \A i \in OnTheWire : wire'[i] = wire[i]
    BY <2>1, <2>2 DEF OnTheWire
  <2>4. sent' = sent /\ events' = events /\ active_process' = active_process
    BY <1>3 DEF RunScript, inbox, runner
  <2> QED BY <2>3, <2>4 DEF HandledInOrder, CallbacksInOrder
<1>4. CASE Receive
  <2>1. /\ wire # <<>> /\ wire' = Tail(wire) /\ sent' = sent /\ active_process' = active_process
    BY <1>4 DEF Receive, kwin, runner
  <2>2. /\ \A i \in DOMAIN wire' : i + 1 \in DOMAIN wire /\ wire'[i] = wire[i + 1] /\ i \in Nat
        /\ 1 \in DOMAIN wire /\ wire[1] = Head(wire)
    BY <1>1, <2>1, TailAt
  <2>2a. \A i \in DOMAIN wire' : i # 0
    BY <1>1, <2>1
  <2>3. \A i \in OnTheWire' : i + 1 \in OnTheWire /\ wire'[i] = wire[i + 1] /\ i \in Nat /\ 1 < i + 1
    BY <2>2, <2>2a DEF OnTheWire
  <2>3a. \A i, j \in OnTheWire' : i < j => i + 1 < j + 1
    BY <2>3
  <2>3b. /\ \A i \in OnTheWire' : wire'[i].about <= sent' /\ active_process' < wire'[i].about
         /\ \A i, j \in OnTheWire' : i < j => wire'[i].about < wire'[j].about
         /\ active_process' <= sent'
    BY <1>1b, <2>1, <2>3, <2>3a
  <2>3c. events' = events => HandledInOrder' /\ CallbacksInOrder'
    <3> SUFFICES ASSUME events' = events PROVE HandledInOrder' /\ CallbacksInOrder'
      OBVIOUS
    <3>1. \A i \in DOMAIN events', j \in OnTheWire' : events'[i] < wire'[j].about
      BY <1>1b, <2>3
    <3>2. HandledInOrder'
      BY <2>1 DEF HandledInOrder
    <3>3. \A i \in DOMAIN events' : events'[i] <= sent'
      BY <1>1b, <2>1
    <3> QED BY <2>3b, <3>1, <3>2, <3>3 DEF CallbacksInOrder
  <2>4. CASE Head(wire).member # "triggered"
    <3>1. events' = events
      BY <1>4, <2>4 DEF Receive
    <3> QED BY <2>3c, <3>1
  <2>5. CASE Head(wire).member = "triggered"
    <3> DEFINE serial == Head(wire).about
    <3>1. 1 \in OnTheWire /\ wire[1].about = serial /\ serial \in Serial
      BY <1>1, <2>2, <2>5 DEF OnTheWire
    <3>2. \A i \in OnTheWire' : serial < wire'[i].about
      BY <2>3, <3>1 DEF CallbacksInOrder
    <3>3. serial <= sent /\ active_process < serial
          /\ \A i \in DOMAIN events : events[i] < serial
      BY <3>1 DEF CallbacksInOrder
    <3> HIDE DEF serial
    <3>4. CASE events' = events
      BY <2>3c, <3>4
    <3>5. CASE events' = Append(events, serial)
      <4> DEFINE n == Len(events) + 1
      <4>1. /\ DOMAIN events' = DOMAIN events \cup {n}
            /\ \A i \in DOMAIN events : events'[i] = events[i] /\ i < n /\ i \in Nat
            /\ events'[n] = serial /\ n \in Nat
        BY <1>1, <3>1, <3>5
      <4> HIDE DEF n
      <4>2. \A i \in DOMAIN events' : active_process' < events'[i]
        BY <2>1, <3>3, <4>1 DEF HandledInOrder
      <4>3. \A i, j \in DOMAIN events' : i < j => events'[i] < events'[j]
        BY <3>3, <4>1 DEF HandledInOrder
      <4>4. \A i \in DOMAIN events' : events'[i] <= sent'
        BY <2>1, <3>3, <4>1 DEF CallbacksInOrder
      <4>5. \A i \in DOMAIN events', j \in OnTheWire' : events'[i] < wire'[j].about
        BY <2>3, <3>2, <4>1 DEF CallbacksInOrder
      <4> QED BY <4>2, <4>3, <4>4, <4>5, <2>3b DEF HandledInOrder, CallbacksInOrder
    <3>6. events' = events \/ events' = Append(events, serial)
      BY <1>4, <2>5 DEF Receive, Push, serial
    <3> QED BY <3>4, <3>5, <3>6
  <2> QED BY <2>4, <2>5
<1>5. CASE PopCallback
  <2>1. /\ events # <<>> /\ events' = Tail(events) /\ active_process' = Head(events)
        /\ sent' = sent /\ wire' = wire
    BY <1>5 DEF PopCallback, kwin
  <2>2. /\ \A i \in DOMAIN events' : /\ i + 1 \in DOMAIN events /\ events'[i] = events[i + 1]
                                     /\ i \in Nat /\ 1 < i + 1
        /\ 1 \in DOMAIN events /\ events[1] = Head(events)
    BY <1>1, <2>1
  <2>3. OnTheWire' = OnTheWire
    BY <2>1 DEF OnTheWire
  <2>4. HandledInOrder'
    BY <2>1, <2>2 DEF HandledInOrder
  <2> QED BY <2>1, <2>2, <2>3, <2>4 DEF CallbacksInOrder
<1>6. CASE Wake \/ WakeByCallback \/ WakeOtherwise \/ StartDrain \/ TakeDropped \/ HandleCallback
           \/ FinishDrain \/ Request \/ UNCHANGED vars
  <2>1. sent' = sent /\ wire' = wire /\ events' = events /\ active_process' = active_process
    BY <1>6 DEF Wake, WakeByCallback, WakeOtherwise, StartDrain, TakeDropped, HandleCallback,
       FinishDrain, Request, AskKwin, FailToAsk, TakeAnswer, GiveUp, vars, kwin, inbox, runner
  <2> QED BY <2>1, OrderKept
<1> QED BY <1>2, <1>3, <1>4, <1>5, <1>6 DEF Next, Listener, Drain

\* What may still be answered stays in its place where only what is not about
\* the requests changes.
LEMMA AnswersKept ==
  ASSUME AnsweredOnce, AnswersWereAsked,
         scripts' = scripts, window_results' = window_results,
         AnswersOnTheWire' = AnswersOnTheWire,
         \A i \in AnswersOnTheWire : wire'[i] = wire[i],
         Open' = Open, next_index' = next_index
  PROVE  AnsweredOnce' /\ AnswersWereAsked'
BY DEF AnsweredOnce, AnswersWereAsked

\* Every step keeps a request's answer single, and its own.
LEMMA AnswersStep ==
  ASSUME TypeOK, AnsweredOnce, AnswersWereAsked, [Next]_vars
  PROVE  AnsweredOnce' /\ AnswersWereAsked'
<1>1. /\ wire \in Seq(Messages) /\ window_results \in Seq(Nat) /\ scripts \subseteq Nat
      /\ next_index \in Nat /\ given_up \subseteq Nat /\ caller # "asking"
      /\ \A i \in AnswersOnTheWire : i \in DOMAIN wire
  BY DEF TypeOK, AnswersOnTheWire
<1>2. CASE Trigger
  <2> DEFINE n == Len(wire) + 1
             e == Callback(sent + 1)
  <2>1. e \in Messages /\ e.member # "windowResult"
    BY <1>2, KwinAssumption DEF Trigger, Callback, Messages, Serial, TypeOK
  <2>2. /\ DOMAIN wire' = DOMAIN wire \cup {n} /\ n \notin DOMAIN wire
        /\ \A i \in DOMAIN wire : wire'[i] = wire[i]
        /\ wire'[n] = e
    BY <1>1, <1>2, <2>1, AppendedAt DEF Trigger
  <2> HIDE DEF n, e
  <2>3. AnswersOnTheWire' = AnswersOnTheWire
    BY <2>1, <2>2 DEF AnswersOnTheWire
  <2>4. /\ \A i \in AnswersOnTheWire : wire'[i] = wire[i]
        /\ scripts' = scripts /\ window_results' = window_results
        /\ Open' = Open /\ next_index' = next_index
    BY <1>1, <1>2, <2>2 DEF Trigger, runner, history, Open
  <2> QED BY <2>3, <2>4, AnswersKept
<1>3. CASE RunScript
  <2> PICK request \in scripts : /\ scripts' = scripts \ {request}
                                 /\ wire' = Append(wire, WindowResult(request))
    BY <1>3 DEF RunScript
  <2> DEFINE n == Len(wire) + 1
             e == WindowResult(request)
  <2>1. e \in Messages /\ e.member = "windowResult" /\ e.about = request
    BY <1>1 DEF WindowResult, Messages
  <2>2. /\ DOMAIN wire' = DOMAIN wire \cup {n} /\ n \notin DOMAIN wire
        /\ \A i \in DOMAIN wire : wire'[i] = wire[i]
        /\ wire'[n] = e
    BY <1>1, <2>1, AppendedAt
  <2> HIDE DEF n, e
  <2>3. /\ AnswersOnTheWire' = AnswersOnTheWire \cup {n}
        /\ \A i \in AnswersOnTheWire : wire'[i] = wire[i]
        /\ wire'[n].about = request
    BY <2>1, <2>2 DEF AnswersOnTheWire
  <2>4. window_results' = window_results /\ Open' = Open /\ next_index' = next_index
    BY <1>3 DEF RunScript, runner, history, Open
  <2>5. AnsweredOnce'
    <3>1. /\ \A i \in AnswersOnTheWire : wire[i].about # request
          /\ \A j \in DOMAIN window_results : window_results[j] # request
      BY DEF AnsweredOnce
    <3>1a. \A i \in AnswersOnTheWire' :
             \/ i = n /\ wire'[i].about = request
             \/ i \in AnswersOnTheWire /\ wire'[i].about = wire[i].about
      BY <2>3
    <3>1b. /\ \A i, j \in AnswersOnTheWire : wire[i].about = wire[j].about => i = j
           /\ \A i \in AnswersOnTheWire, j \in DOMAIN window_results :
                wire[i].about # window_results[j]
      BY DEF AnsweredOnce
    <3>2. \A i, j \in AnswersOnTheWire' : wire'[i].about = wire'[j].about => i = j
      <4> SUFFICES ASSUME NEW i \in AnswersOnTheWire', NEW j \in AnswersOnTheWire',
                          wire'[i].about = wire'[j].about
                   PROVE  i = j
        OBVIOUS
      <4>1. /\ i = n \/ (i \in AnswersOnTheWire /\ wire'[i].about = wire[i].about)
            /\ j = n \/ (j \in AnswersOnTheWire /\ wire'[j].about = wire[j].about)
            /\ i = n => wire'[i].about = request
            /\ j = n => wire'[j].about = request
        BY <2>3, <3>1a
      <4>2. /\ i # n => wire'[i].about # request
            /\ j # n => wire'[j].about # request
        BY <3>1, <4>1
      <4>3. i # n /\ j # n => i = j
        BY <3>1b, <4>1
      <4> QED BY <4>1, <4>2, <4>3
    <3>3. /\ \A i \in AnswersOnTheWire' : wire'[i].about \notin scripts'
          /\ \A j \in DOMAIN window_results' : window_results'[j] \notin scripts'
      BY <2>3, <2>4, <3>1 DEF AnsweredOnce
    <3>4. \A i \in AnswersOnTheWire', j \in DOMAIN window_results' :
            wire'[i].about # window_results'[j]
      <4> SUFFICES ASSUME NEW i \in AnswersOnTheWire', NEW j \in DOMAIN window_results
                   PROVE  wire'[i].about # window_results[j]
        BY <2>4
      <4>1. CASE wire'[i].about = request
        BY <3>1, <4>1
      <4>2. CASE i \in AnswersOnTheWire /\ wire'[i].about = wire[i].about
        BY <3>1b, <4>2
      <4> QED BY <3>1a, <4>1, <4>2
    <3>5. \A i, j \in DOMAIN window_results' : window_results'[i] = window_results'[j] => i = j
      BY <2>4 DEF AnsweredOnce
    <3> QED BY <3>2, <3>3, <3>4, <3>5 DEF AnsweredOnce
  <2>6. AnswersWereAsked'
    BY <2>3, <2>4 DEF AnswersWereAsked
  <2> QED BY <2>5, <2>6
<1>4. CASE Receive
  <2>1. /\ wire # <<>> /\ wire' = Tail(wire) /\ scripts' = scripts
        /\ Open' = Open /\ next_index' = next_index
    BY <1>4 DEF Receive, kwin, runner, history, Open
  <2>2. /\ \A i \in DOMAIN wire' : i + 1 \in DOMAIN wire /\ wire'[i] = wire[i + 1] /\ i \in Nat
        /\ 1 \in DOMAIN wire /\ wire[1] = Head(wire)
    BY <1>1, <2>1, TailAt
  <2>2a. \A i \in DOMAIN wire' : i # 0
    BY <1>1, <2>1
  <2>3. \A i \in AnswersOnTheWire' : /\ i + 1 \in AnswersOnTheWire /\ wire'[i] = wire[i + 1]
                                     /\ i + 1 # 1
    BY <2>2, <2>2a DEF AnswersOnTheWire
  <2>3a. \A i, j \in AnswersOnTheWire' : i + 1 = j + 1 => i = j
    BY <2>2 DEF AnswersOnTheWire
  <2>3b. /\ \A i, j \in AnswersOnTheWire' : wire'[i].about = wire'[j].about => i = j
         /\ \A i \in AnswersOnTheWire' : wire'[i].about \notin scripts'
         /\ \A i \in AnswersOnTheWire' : wire'[i].about \in Open'
    <3>1. \A i, j \in AnswersOnTheWire' : wire'[i].about = wire'[j].about => i = j
      BY <2>3, <2>3a DEF AnsweredOnce
    <3>2. \A i \in AnswersOnTheWire' : wire'[i].about \notin scripts'
      BY <2>1, <2>3 DEF AnsweredOnce
    <3>3. \A i \in AnswersOnTheWire' : wire'[i].about \in Open'
      BY <2>1, <2>3 DEF AnswersWereAsked
    <3> QED BY <3>1, <3>2, <3>3
  <2>4. CASE Head(wire).member # "windowResult"
    <3>1. window_results' = window_results
      BY <1>4, <2>4 DEF Receive
    <3>2. \A i \in AnswersOnTheWire', j \in DOMAIN window_results' :
            wire'[i].about # window_results'[j]
      BY <2>3, <3>1 DEF AnsweredOnce
    <3>3. AnsweredOnce'
      BY <2>1, <2>3b, <3>1, <3>2 DEF AnsweredOnce
    <3>4. AnswersWereAsked'
      BY <2>1, <2>3b, <3>1 DEF AnswersWereAsked
    <3> QED BY <3>3, <3>4
  <2>5. CASE Head(wire).member = "windowResult"
    <3> DEFINE n == Len(window_results) + 1
               request == Head(wire).about
    <3>1. window_results' = Append(window_results, request)
      BY <1>4, <2>5 DEF Receive
    <3>2. 1 \in AnswersOnTheWire /\ wire[1].about = request
      BY <2>2, <2>5 DEF AnswersOnTheWire
    <3>3. /\ DOMAIN window_results' = DOMAIN window_results \cup {n}
          /\ n \notin DOMAIN window_results
          /\ \A i \in DOMAIN window_results : window_results'[i] = window_results[i]
          /\ window_results'[n] = request
      BY <1>1, <3>1
    <3> HIDE DEF n, request
    <3>4. /\ request \notin scripts /\ request \in Open
          /\ \A j \in DOMAIN window_results : request # window_results[j]
          /\ \A i \in AnswersOnTheWire' : wire'[i].about # request
      BY <2>3, <3>2 DEF AnsweredOnce, AnswersWereAsked
    <3>5. \A i \in AnswersOnTheWire', j \in DOMAIN window_results' :
            wire'[i].about # window_results'[j]
      BY <2>3, <3>3, <3>4 DEF AnsweredOnce
    <3>6. /\ \A i, j \in DOMAIN window_results' : window_results'[i] = window_results'[j] => i = j
          /\ \A j \in DOMAIN window_results' : window_results'[j] \notin scripts'
      BY <2>1, <3>3, <3>4 DEF AnsweredOnce
    <3>7. AnsweredOnce'
      BY <2>3b, <3>5, <3>6 DEF AnsweredOnce
    <3>8. \A i \in DOMAIN window_results' : window_results'[i] \in Open'
      BY <2>1, <3>3, <3>4 DEF AnswersWereAsked
    <3>9. AnswersWereAsked'
      BY <2>1, <2>3b, <3>8 DEF AnswersWereAsked
    <3> QED BY <3>7, <3>9
  <2> QED BY <2>4, <2>5
<1>5. CASE AskKwin \/ FailToAsk
  <2> DEFINE n == next_index + 1
  <2>1. /\ next_index' = n /\ wire' = wire /\ window_results' = window_results
        /\ scripts' \subseteq scripts \cup {n}
    BY <1>5 DEF AskKwin, FailToAsk
  <2>2. Open' = Open \cup {n}
    BY <1>5 DEF AskKwin, FailToAsk, Open, history
  <2>3. \A request \in Open : request \in Nat /\ request <= n /\ request # n
    <3>1. \A request \in Open : request \in Nat
      BY <1>1 DEF Open
    <3> QED BY <1>1, <3>1 DEF AnswersWereAsked
  <2>4. AnswersOnTheWire' = AnswersOnTheWire
    BY <2>1 DEF AnswersOnTheWire
  <2>5. /\ \A i \in AnswersOnTheWire : wire[i].about # n
        /\ \A i \in DOMAIN window_results : window_results[i] # n
    BY <2>3 DEF AnswersWereAsked
  <2>6. n <= n
    BY <1>1
  <2> HIDE DEF n
  <2>7. AnsweredOnce'
    BY <2>1, <2>4, <2>5 DEF AnsweredOnce
  <2>8. AnswersWereAsked'
    BY <2>1, <2>2, <2>3, <2>4, <2>6 DEF AnswersWereAsked
  <2> QED BY <2>7, <2>8
<1>6. CASE TakeAnswer
  <2> DEFINE first == CHOOSE i \in Answers : \A j \in Answers : i <= j
             rest == [i \in 1..(Len(window_results) - 1) |->
                        window_results[IF i < first THEN i ELSE i + 1]]
  <2>1. /\ pc = "asking" /\ Answers # {} /\ pc' = caller
        /\ scripts' = scripts /\ wire' = wire /\ next_index' = next_index /\ given_up' = given_up
        /\ window_results' = rest
    BY <1>6 DEF TakeAnswer, kwin, history
  <2>2. Answers = {i \in DOMAIN window_results : window_results[i] = next_index}
    BY DEF Answers
  <2>3. PICK k \in DOMAIN window_results : window_results[k] = next_index
    BY <2>1, <2>2
  <2>4. Answers = {k}
    BY <2>2, <2>3 DEF AnsweredOnce
  <2>5. first = k
    <3>1. k \in Nat
      BY <1>1, <2>3
    <3>2. k \in Answers /\ \A j \in Answers : k <= j
      BY <2>4, <3>1
    <3>3. first \in Answers
      BY <3>2
    <3> QED BY <2>4, <3>3
  <2> HIDE DEF first
  <2>6. /\ \A i \in DOMAIN rest : \E m \in DOMAIN window_results \ {k} :
             m = (IF i < k THEN i ELSE i + 1) /\ rest[i] = window_results[m]
        /\ \A i, j \in DOMAIN rest :
             (IF i < k THEN i ELSE i + 1) = (IF j < k THEN j ELSE j + 1) => i = j
    <3>1. /\ DOMAIN window_results = 1..Len(window_results) /\ Len(window_results) \in Nat
          /\ DOMAIN rest = 1..(Len(window_results) - 1)
          /\ k \in 1..Len(window_results)
      BY <1>1, <2>3
    <3>2. \A i \in DOMAIN rest : rest[i] = window_results[IF i < k THEN i ELSE i + 1]
      BY <2>5
    <3>3. \A i \in DOMAIN rest :
            (IF i < k THEN i ELSE i + 1) \in DOMAIN window_results \ {k}
      BY <3>1
    <3>4. \A i, j \in DOMAIN rest :
             (IF i < k THEN i ELSE i + 1) = (IF j < k THEN j ELSE j + 1) => i = j
      BY <3>1
    <3> HIDE DEF rest
    <3> QED BY <3>2, <3>3, <3>4
  <2> HIDE DEF rest
  <2>7. \A i \in DOMAIN rest : rest[i] # next_index
    BY <2>3, <2>6 DEF AnsweredOnce
  <2>8. AnswersOnTheWire' = AnswersOnTheWire
    BY <2>1 DEF AnswersOnTheWire
  <2>9. AnsweredOnce'
    <3>1. /\ \A i, j \in DOMAIN rest : rest[i] = rest[j] => i = j
          /\ \A j \in DOMAIN rest : rest[j] \notin scripts
          /\ \A i \in AnswersOnTheWire, j \in DOMAIN rest : wire[i].about # rest[j]
      BY <2>6 DEF AnsweredOnce
    <3> QED BY <2>1, <2>8, <3>1 DEF AnsweredOnce
  <2>10. AnswersWereAsked'
    <3>1. Open = given_up \cup {next_index} /\ Open' = given_up
      BY <1>1, <2>1 DEF Open
    <3>2. /\ \A request \in scripts : request # next_index
          /\ \A i \in AnswersOnTheWire : wire[i].about # next_index
      BY <2>3 DEF AnsweredOnce
    <3>3. \A i \in DOMAIN rest : rest[i] \in Open
      BY <2>6 DEF AnswersWereAsked
    <3> QED BY <2>1, <2>7, <2>8, <3>1, <3>2, <3>3 DEF AnswersWereAsked
  <2> QED BY <2>9, <2>10
<1>7. CASE GiveUp
  <2>1. /\ scripts' \subseteq scripts /\ wire' = wire /\ window_results' = window_results
        /\ next_index' = next_index
    BY <1>7 DEF GiveUp
  <2>2. Open' = Open
    BY <1>1, <1>7 DEF GiveUp, Open
  <2>3. AnswersOnTheWire' = AnswersOnTheWire
    BY <2>1 DEF AnswersOnTheWire
  <2> QED BY <2>1, <2>2, <2>3 DEF AnsweredOnce, AnswersWereAsked
<1>8. CASE Wake \/ Drain \/ WakeByCallback \/ WakeOtherwise \/ UNCHANGED vars
  <2>1. /\ scripts' = scripts /\ wire' = wire /\ window_results' = window_results
        /\ next_index' = next_index /\ given_up' = given_up
    BY <1>8 DEF Wake, WakeByCallback, WakeOtherwise, Drain, StartDrain, TakeDropped, PopCallback,
                HandleCallback, FinishDrain, vars, kwin, runner, history
  <2>2. pc' = "asking" <=> pc = "asking"
    BY <1>8 DEF Wake, WakeByCallback, WakeOtherwise, Drain, StartDrain, TakeDropped, PopCallback,
                HandleCallback, FinishDrain, vars, runner, TypeOK
  <2>3. Open' = Open /\ AnswersOnTheWire' = AnswersOnTheWire
    BY <2>1, <2>2 DEF Open, AnswersOnTheWire
  <2> QED BY <2>1, <2>3, AnswersKept
<1> QED BY <1>2, <1>3, <1>4, <1>5, <1>6, <1>7, <1>8 DEF Next, Listener, Request

\* What comes over the bus is accounted for, for every capacity and any number of
\* callbacks and requests: a drop is counted once, a focus context never gives
\* way to an older one, and no request takes the answer of another, however late
\* it comes.
THEOREM MessagesAreAccounted == Spec => []MessagesAccounted
<1>1. Init => Accounted
  <2> SUFFICES ASSUME Init PROVE Accounted
    OBVIOUS
  <2>1. /\ DOMAIN wire = {} /\ DOMAIN events = {} /\ DOMAIN window_results = {}
        /\ Len(events) = 0
    BY DEF Init
  <2>2. OnTheWire = {} /\ AnswersOnTheWire = {}
    BY <2>1 DEF OnTheWire, AnswersOnTheWire
  <2>3. EveryDropIsCounted
    BY <2>1, <2>2, FS_EmptySet DEF Init, EveryDropIsCounted
  <2>4. HandledInOrder /\ CallbacksInOrder
    BY <2>1, <2>2 DEF Init, HandledInOrder, CallbacksInOrder
  <2>5. AnsweredOnce /\ AnswersWereAsked
    BY <2>1, <2>2 DEF Init, AnsweredOnce, AnswersWereAsked, Open
  <2> QED BY <2>3, <2>4, <2>5 DEF Accounted
<1>2. TypeOK /\ Accounted /\ [Next]_vars => Accounted'
  BY CountStep, OrderStep, AnswersStep DEF Accounted
<1>3. Accounted => MessagesAccounted
  BY DEF Accounted, MessagesAccounted, AnswersWereAsked, LeftoverAnswersAreLate, Open
<1> QED BY <1>1, <1>2, <1>3, TypeCorrect, PTL DEF Spec
=============================================================================
