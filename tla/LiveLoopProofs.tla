--------------------------- MODULE LiveLoopProofs ----------------------------
(***************************************************************************)
(* Theorems about LiveLoop, for every script, interval, delay and queue    *)
(* limit: its invariant, that repeats keep their interval, and that the    *)
(* loop never sleeps past work.                                            *)
(***************************************************************************)
EXTENDS LiveLoop, TLAPS

-----------------------------------------------------------------------------
(* What the runner's functions keep of the record they change. *)

Run == [id : {1}, label : DOMAIN MacroOf, scoped : {Scoped}, actions : Seq(Nat),
        gap : {Gap}, next_action : Nat, generated_actions : Nat, delay_armed : BOOLEAN,
        ready_in : Nat, cancelled : BOOLEAN, since : Nat]

\* A run plays its label's macro; before its first poll it waits for nothing.
RunOK(r) ==
  /\ r \in Run
  /\ r.actions = MacroOf[r.label]
  /\ r.next_action <= Len(r.actions)
  /\ r.next_action = 0 => r.ready_in = 0 /\ r.generated_actions = 0

Queue == [runs : SUBSET Run, active_triggers : SUBSET DOMAIN MacroOf, next_id : {0}]

\* A label is busy exactly while one run carries it.
QueueOK(q) ==
  /\ q \in Queue
  /\ \A r \in q.runs : RunOK(r)
  /\ q.active_triggers = {r.label : r \in q.runs}
  /\ \A r, x \in q.runs : r.label = x.label => r = x

Tracker == [active : {"unknown", "active", "inactive"}, deactivated : BOOLEAN]
Machine == [queue : Queue, tracker : Tracker, active_loops : SUBSET Looping]

AliveIn(q, label) == \E r \in q.runs : r.label = label /\ ~r.cancelled
FreshIn(q, label) == \E r \in q.runs : r.label = label /\ r.next_action = 0

\* Without a scope the tracker is never asked; with one, nothing is left to play
\* but `after` macros unless the scope was in focus when last observed: also
\* before the first observation, which is what makes the silence inductive.
Quiet(s) ==
  /\ Scoped \/ s.tracker.active = "unknown"
  /\ Scoped /\ s.tracker.active # "active" =>
       \A label : AliveIn(s.queue, label) => label[2] = "loop_after"

Sound(s) == s \in Machine /\ QueueOK(s.queue) /\ Quiet(s)

\* From s to t only the labels of L may come alive or be scheduled afresh.
Adds(s, t, L) ==
  \A label : label \notin L =>
    /\ AliveIn(t.queue, label) => AliveIn(s.queue, label)
    /\ FreshIn(t.queue, label) => FreshIn(s.queue, label)

\* ... and the queue's new runs carry labels of L: nothing is cancelled.
OnlyAdds(s, t, L) == \A r \in t.queue.runs \ s.queue.runs : r.label \in L

Afters == Motion \X {"loop_after"}

-----------------------------------------------------------------------------
(* One run. *)

\* Every macro of the script is a non-empty sequence of numbers.
LEMMA MacroIsSeq ==
  \A l \in DOMAIN MacroOf : /\ MacroOf[l] \in Seq(Nat)
                            /\ Len(MacroOf[l]) \in Nat /\ Len(MacroOf[l]) > 0
<1> SUFFICES ASSUME NEW l \in DOMAIN MacroOf
             PROVE  /\ MacroOf[l] \in Seq(Nat)
                    /\ Len(MacroOf[l]) \in Nat /\ Len(MacroOf[l]) > 0
  OBVIOUS
<1>1. MacroOf[l] \in Seq(Nat) /\ MacroOf[l] # <<>>
  BY LiveLoopAssumption
<1> QED BY <1>1

\* A run that is scheduled is sound and fresh.
LEMMA NewRunOK ==
  ASSUME NEW l \in DOMAIN MacroOf
  PROVE  LET r == NewRun(1, l, Scoped, MacroOf[l], Gap)
         IN  RunOK(r) /\ r.label = l
<1> DEFINE r == NewRun(1, l, Scoped, MacroOf[l], Gap)
<1>1. /\ r.label = l /\ r.actions = MacroOf[l] /\ r.next_action = 0
      /\ r.ready_in = 0 /\ r.generated_actions = 0
  BY DEF NewRun
<1>2. MacroOf[l] \in Seq(Nat) /\ Len(MacroOf[l]) \in Nat
  BY MacroIsSeq
<1>3. r \in Run
  BY <1>2 DEF NewRun, Run
<1> QED BY <1>1, <1>2, <1>3 DEF RunOK

\* Arming the inter-action delay keeps a run's shape.
LEMMA ArmedIsRun ==
  ASSUME NEW r \in Run
  PROVE  [r EXCEPT !.delay_armed = TRUE, !.since = 0] \in Run
  BY DEF Run

\* A poll moves a run along; a run that was fresh is not any more.
LEMMA PolledOK ==
  ASSUME NEW r, RunOK(r), ~Over(r)
  PROVE  /\ RunOK(Polled(r)) /\ Polled(r).next_action > 0
         /\ Polled(r).label = r.label /\ Polled(r).cancelled = r.cancelled
<1>1. /\ r \in Run /\ r.actions = MacroOf[r.label] /\ r.actions \in Seq(Nat)
      /\ Len(r.actions) \in Nat /\ r.next_action \in Nat /\ r.ready_in \in Nat
      /\ r.generated_actions \in Nat /\ r.gap \in Nat /\ ~r.cancelled
  BY MacroIsSeq, LiveLoopAssumption DEF RunOK, Run, Over
<1>2. r.next_action < Len(r.actions) /\ r.next_action + 1 \in 1..Len(r.actions)
  BY <1>1 DEF Over, Complete
<1>3. r.actions[r.next_action + 1] \in Nat
  BY <1>1, <1>2
<1>4. CASE AtDelay(r)
  <2>1. Polled(r) = AfterDelay(r)
    BY <1>4 DEF Polled, AtDelay, AtGap, Ready
  <2> DEFINE n == r.next_action + 1
             w == r.actions[r.next_action + 1]
  <2>2. n \in Nat /\ w \in Nat /\ n <= Len(r.actions) /\ n > 0
    BY <1>1, <1>2, <1>3
  <2>3. Polled(r) = [r EXCEPT !.next_action = n, !.ready_in = w]
    BY <2>1 DEF AfterDelay
  <2> HIDE DEF n, w
  <2>4. /\ Polled(r) \in Run /\ Polled(r).next_action = n
        /\ Polled(r).actions = r.actions /\ Polled(r).label = r.label
        /\ Polled(r).cancelled = r.cancelled
    BY <1>1, <2>2, <2>3 DEF Run
  <2> QED BY <1>1, <2>2, <2>4 DEF RunOK
<1>5. CASE AtGap(r)
  <2>1. Polled(r) = AfterGap(r)
    BY <1>5 DEF Polled, AtDelay, AtGap, Ready
  <2>2. r.next_action > 0
    BY <1>1, <1>5 DEF AtGap, RunOK
  <2>3. Polled(r) = [r EXCEPT !.ready_in = r.gap, !.delay_armed = FALSE]
    BY <2>1 DEF AfterGap
  <2>4. /\ Polled(r) \in Run /\ Polled(r).next_action = r.next_action
        /\ Polled(r).actions = r.actions /\ Polled(r).label = r.label
        /\ Polled(r).cancelled = r.cancelled
    BY <1>1, <2>3 DEF Run
  <2> QED BY <1>1, <1>2, <2>2, <2>4 DEF RunOK
<1>6. CASE Ready(r)
  <2>1. Polled(r) = AfterReady(r)
    BY <1>6 DEF Polled, AtDelay, AtGap, Ready
  <2> DEFINE n == r.next_action + 1
             g == r.generated_actions + 1
  <2>2. n \in Nat /\ g \in Nat /\ n <= Len(r.actions) /\ n > 0
    BY <1>1, <1>2
  <2>3. Polled(r) = [r EXCEPT !.next_action = n, !.generated_actions = g,
                              !.delay_armed = TRUE, !.since = 0]
    BY <2>1 DEF AfterReady
  <2> HIDE DEF n, g
  <2> DEFINE r1 == [r EXCEPT !.next_action = n, !.generated_actions = g]
  <2>4. /\ r1 \in Run /\ r1.next_action = n /\ r1.label = r.label
        /\ r1.actions = r.actions /\ r1.cancelled = r.cancelled
    BY <1>1, <2>2 DEF Run
  <2>5. Polled(r) = [r1 EXCEPT !.delay_armed = TRUE, !.since = 0]
    BY <2>3
  <2> HIDE DEF r1
  <2>6. /\ Polled(r).next_action = r1.next_action /\ Polled(r).label = r1.label
        /\ Polled(r).actions = r1.actions /\ Polled(r).cancelled = r1.cancelled
    BY <2>4, <2>5 DEF Run
  <2>7. Polled(r) \in Run
    BY <2>4, <2>5, ArmedIsRun
  <2> QED BY <1>1, <2>2, <2>4, <2>6, <2>7 DEF RunOK
<1>7. CASE ~AtDelay(r) /\ ~AtGap(r) /\ ~Ready(r)
  <2>1. Polled(r) = r
    BY <1>7 DEF Polled
  <2>2. Waiting(r)
    BY <1>1, <1>2, <1>7 DEF Waiting, Ready, Complete
  <2>3. r.next_action > 0
    BY <1>1, <2>2 DEF Waiting, RunOK
  <2> QED BY <2>1, <2>3
<1> QED BY <1>4, <1>5, <1>6, <1>7

\* Cancelling a run leaves it in its place.
LEMMA CancelledOK ==
  ASSUME NEW r, RunOK(r)
  PROVE  /\ RunOK(Cancelled(r)) /\ Cancelled(r).cancelled
         /\ Cancelled(r).label = r.label /\ Cancelled(r).next_action = r.next_action
  BY DEF RunOK, Cancelled, Run

\* Time brings a run nearer to its next action and leaves it in its place.
LEMMA AgedOK ==
  ASSUME NEW r, RunOK(r)
  PROVE  /\ RunOK(Aged(r, 1)) /\ Aged(r, 1).cancelled = r.cancelled
         /\ Aged(r, 1).label = r.label /\ Aged(r, 1).next_action = r.next_action
<1> DEFINE w == IF r.ready_in > 1 THEN r.ready_in - 1 ELSE 0
           t == IF r.since + 1 < MaxSince THEN r.since + 1 ELSE MaxSince
<1>1. w \in Nat /\ t \in Nat /\ (r.ready_in = 0 => w = 0)
  BY SinceAssumption DEF RunOK, Run
<1>2. Aged(r, 1) = [r EXCEPT !.ready_in = w, !.since = t]
  BY DEF Aged
<1> HIDE DEF w, t
<1> QED BY <1>1, <1>2 DEF RunOK, Run

-----------------------------------------------------------------------------
(* The queue. *)

\* A polling pass: what is left to play was so before, and nothing is fresh.
LEMMA DriveOK ==
  ASSUME NEW q, QueueOK(q)
  PROVE  /\ QueueOK(Drive(q))
         /\ \A l : AliveIn(Drive(q), l) => AliveIn(q, l)
         /\ \A l : ~FreshIn(Drive(q), l)
<1> DEFINE left == {r \in q.runs : ~Over(r)}
           runs == {Polled(r) : r \in left}
           busy == q.active_triggers \ {r.label : r \in {x \in q.runs : Over(x)}}
<1>1. \A r \in left : /\ RunOK(Polled(r)) /\ Polled(r).next_action > 0
                      /\ Polled(r).label = r.label /\ Polled(r).cancelled = r.cancelled
  BY PolledOK DEF QueueOK
<1>2. /\ Drive(q).runs = runs /\ Drive(q).active_triggers = busy /\ Drive(q).next_id = 0
      /\ Drive(q) = [runs |-> runs, active_triggers |-> busy, next_id |-> 0]
  <2>1. Drive(q) = [q EXCEPT !.runs = runs, !.active_triggers = busy]
    BY DEF Drive
  <2> HIDE DEF left, runs, busy
  <2> QED BY <2>1 DEF QueueOK, Queue
<1>3. \A r \in runs : RunOK(r) /\ r \in Run /\ r.next_action > 0
  BY <1>1 DEF RunOK
<1>4. busy = {r.label : r \in runs}
  <2>1. busy = {r.label : r \in left}
    BY DEF QueueOK
  <2> QED BY <1>1, <2>1
<1>5. busy \subseteq DOMAIN MacroOf
  BY DEF QueueOK, Queue
<1>6. \A r, x \in runs : r.label = x.label => r = x
  BY <1>1 DEF QueueOK
<1>7. Drive(q) \in Queue
  BY <1>2, <1>3, <1>5 DEF Queue
<1>8. QueueOK(Drive(q))
  BY <1>2, <1>3, <1>4, <1>6, <1>7 DEF QueueOK
<1>9. \A l : AliveIn(Drive(q), l) => AliveIn(q, l)
  BY <1>1, <1>2 DEF AliveIn
<1>10. \A r \in runs : r.next_action # 0
  BY <1>3 DEF Run
<1> QED BY <1>2, <1>8, <1>9, <1>10 DEF FreshIn

\* A sound run of the same label, at the same place, and cancelled if r is.
Replaces(y, r) ==
  /\ RunOK(y)
  /\ y.label = r.label
  /\ y.next_action = r.next_action
  /\ r.cancelled => y.cancelled

\* The runs of a queue are replaced one by one.
LEMMA RunsReplaced ==
  ASSUME NEW q, QueueOK(q), NEW R, NEW t, t = [q EXCEPT !.runs = R],
         \A y \in R : \E r \in q.runs : Replaces(y, r),
         \A r \in q.runs : \E y \in R : y.label = r.label,
         \A y, z \in R : y.label = z.label => y = z
  PROVE  /\ QueueOK(t) /\ t.runs = R
         /\ \A l : AliveIn(t, l) => AliveIn(q, l)
         /\ \A l : FreshIn(t, l) => FreshIn(q, l)
<1>0. q \in Queue
  BY DEF QueueOK
<1>1. t.runs = R /\ t.active_triggers = q.active_triggers /\ t.next_id = q.next_id
      /\ t = [runs |-> R, active_triggers |-> q.active_triggers, next_id |-> q.next_id]
  BY <1>0 DEF Queue
<1>2. \A r \in R : RunOK(r) /\ r \in Run
  BY DEF Replaces, RunOK
<1>3. t \in Queue
  BY <1>1, <1>2 DEF QueueOK, Queue
<1>4. t.active_triggers = {r.label : r \in t.runs}
  BY <1>1 DEF QueueOK, Replaces
<1>6. QueueOK(t)
  BY <1>1, <1>2, <1>3, <1>4 DEF QueueOK
<1>7. \A l : AliveIn(t, l) => AliveIn(q, l)
  BY <1>1 DEF AliveIn, Replaces
<1>8. \A l : FreshIn(t, l) => FreshIn(q, l)
  BY <1>1 DEF FreshIn, Replaces
<1> QED BY <1>1, <1>6, <1>7, <1>8

\* Time leaves every run where it is.
LEMMA AgedQueueOK ==
  ASSUME NEW q, QueueOK(q)
  PROVE  /\ QueueOK(AgedQueue(q, 1))
         /\ \A l : AliveIn(AgedQueue(q, 1), l) => AliveIn(q, l)
         /\ \A l : FreshIn(AgedQueue(q, 1), l) => FreshIn(q, l)
<1> DEFINE f(r) == Aged(r, 1)
<1>1. \A r \in q.runs : /\ RunOK(f(r)) /\ f(r).label = r.label
                        /\ f(r).next_action = r.next_action
                        /\ r.cancelled => f(r).cancelled
  BY AgedOK DEF QueueOK
<1> DEFINE R == {f(r) : r \in q.runs}
<1>2. AgedQueue(q, 1) = [q EXCEPT !.runs = R]
  BY DEF AgedQueue
<1>3. \A y, z \in R : y.label = z.label => y = z
  BY <1>1 DEF QueueOK
<1>4. /\ \A y \in R : \E r \in q.runs : Replaces(y, r)
      /\ \A r \in q.runs : \E y \in R : y.label = r.label
  BY <1>1 DEF Replaces
<1> HIDE DEF R
<1> QED BY <1>2, <1>3, <1>4, RunsReplaced

\* cancel_process_scoped: every run carries the script's scope, so none is left.
LEMMA CancelScopedOK ==
  ASSUME NEW q, QueueOK(q), Scoped
  PROVE  /\ QueueOK(CancelProcessScoped(q))
         /\ \A l : ~AliveIn(CancelProcessScoped(q), l)
         /\ \A l : FreshIn(CancelProcessScoped(q), l) => FreshIn(q, l)
<1> DEFINE f(r) == IF r.scoped THEN Cancelled(r) ELSE r
<1>0. \A r \in q.runs : r.scoped
  BY DEF QueueOK, RunOK, Run
<1>1. \A r \in q.runs : /\ RunOK(f(r)) /\ f(r).label = r.label
                        /\ f(r).next_action = r.next_action /\ f(r).cancelled
  BY <1>0, CancelledOK DEF QueueOK
<1> DEFINE R == {f(r) : r \in q.runs}
<1>2. CancelProcessScoped(q) = [q EXCEPT !.runs = R]
  BY DEF CancelProcessScoped
<1>3. \A y, z \in R : y.label = z.label => y = z
  BY <1>1 DEF QueueOK
<1>4. /\ \A y \in R : \E r \in q.runs : Replaces(y, r)
      /\ \A r \in q.runs : \E y \in R : y.label = r.label
  BY <1>1 DEF Replaces
<1>6. \A y \in R : y.cancelled
  BY <1>1
<1> HIDE DEF R
<1>5. /\ CancelProcessScoped(q).runs = R /\ QueueOK(CancelProcessScoped(q))
      /\ \A l : FreshIn(CancelProcessScoped(q), l) => FreshIn(q, l)
  BY <1>2, <1>3, <1>4, RunsReplaced
<1> QED BY <1>5, <1>6 DEF AliveIn

-----------------------------------------------------------------------------
(* The runner's functions. *)

\* A machine is the record of its three fields.
LEMMA MachineEta ==
  ASSUME NEW s \in Machine
  PROVE  s = [queue |-> s.queue, tracker |-> s.tracker, active_loops |-> s.active_loops]
  BY DEF Machine

\* Macros are scheduled for the free labels of X.
Grown(s, X) ==
  [s EXCEPT !.queue = [runs |-> s.queue.runs \cup
                                  {NewRun(1, l, Scoped, MacroOf[l], Gap) : l \in X},
                       active_triggers |-> s.queue.active_triggers \cup X,
                       next_id |-> 0]]

\* The macros of free labels may be scheduled, if what is not in focus is `after`s.
LEMMA GrownOK ==
  ASSUME NEW s, Sound(s), NEW X, X \subseteq DOMAIN MacroOf \ s.queue.active_triggers,
         Scoped /\ s.tracker.active # "active" => \A l \in X : l[2] = "loop_after",
         NEW t, t = Grown(s, X)
  PROVE  /\ Sound(t) /\ Adds(s, t, X) /\ OnlyAdds(s, t, X)
         /\ t.tracker = s.tracker /\ t.active_loops = s.active_loops
<1> DEFINE new == {NewRun(1, l, Scoped, MacroOf[l], Gap) : l \in X}
           busy == s.queue.active_triggers \cup X
<1>1. \A r \in new : RunOK(r) /\ r \in Run /\ r.label \in X
  BY NewRunOK DEF RunOK
<1>2. \A r, x \in new : r.label = x.label => r = x
  BY NewRunOK
<1>3. X = {r.label : r \in new}
  BY NewRunOK
<1>4. s \in Machine /\ s.queue \in Queue /\ QueueOK(s.queue)
  BY DEF Sound, QueueOK
<1>5. t = [s EXCEPT !.queue = [runs |-> s.queue.runs \cup new,
                               active_triggers |-> busy, next_id |-> 0]]
  BY DEF Grown
<1> HIDE DEF new, busy
<1>6. /\ t.queue = [runs |-> s.queue.runs \cup new, active_triggers |-> busy, next_id |-> 0]
      /\ t.tracker = s.tracker /\ t.active_loops = s.active_loops
      /\ t = [queue |-> t.queue, tracker |-> s.tracker, active_loops |-> s.active_loops]
  BY <1>4, <1>5 DEF Machine
<1>7. t.queue.runs = s.queue.runs \cup new /\ t.queue.active_triggers = busy
  BY <1>6
<1>8. t.queue \in Queue
  BY <1>1, <1>4, <1>6 DEF Queue, busy
<1>9. t \in Machine
  BY <1>4, <1>6, <1>8 DEF Machine
<1>10. t.queue.active_triggers = {r.label : r \in t.queue.runs}
  BY <1>3, <1>4, <1>7 DEF QueueOK, busy
<1>11. \A r, x \in t.queue.runs : r.label = x.label => r = x
  <2>1. \A r \in s.queue.runs : r.label \in s.queue.active_triggers
    BY <1>4 DEF QueueOK
  <2> QED BY <1>1, <1>2, <1>4, <1>7, <2>1 DEF QueueOK
<1>12. QueueOK(t.queue)
  BY <1>1, <1>4, <1>7, <1>8, <1>10, <1>11 DEF QueueOK
<1>13. \A l : AliveIn(t.queue, l) => AliveIn(s.queue, l) \/ l \in X
  BY <1>1, <1>7 DEF AliveIn
<1>14. \A l : FreshIn(t.queue, l) => FreshIn(s.queue, l) \/ l \in X
  BY <1>1, <1>7 DEF FreshIn
<1>15. Quiet(t)
  BY <1>6, <1>13 DEF Sound, Quiet
<1>16. OnlyAdds(s, t, X)
  BY <1>1, <1>7 DEF OnlyAdds
<1> QED BY <1>6, <1>9, <1>12, <1>13, <1>14, <1>15, <1>16 DEF Sound, Adds

\* LiveMacroQueue::schedule: a free label is scheduled, a busy one refused.
LEMMA BeginOK ==
  ASSUME NEW s, Sound(s), NEW l,
         Scoped /\ s.tracker.active # "active" => l[2] = "loop_after",
         NEW t, t = Begin(s, l)
  PROVE  /\ Sound(t) /\ Adds(s, t, {l}) /\ OnlyAdds(s, t, {l})
         /\ t.tracker = s.tracker /\ t.active_loops = s.active_loops
<1>1. CASE l \in DOMAIN MacroOf \ s.queue.active_triggers
  <2>1. s \in Machine /\ s.queue \in Queue
    BY DEF Sound, QueueOK
  <2> DEFINE R == s.queue.runs \cup {NewRun(1, l, Scoped, MacroOf[l], Gap)}
             A == s.queue.active_triggers \cup {l}
             q == [runs |-> R, active_triggers |-> A, next_id |-> 0]
  <2>2. s.queue.next_id = 0
    BY <2>1 DEF Queue
  <2>3. Schedule(s.queue, Request(l))
          = [runs |-> R, active_triggers |-> A, next_id |-> 1]
    BY <1>1, <2>2 DEF Schedule, Accepts, Request
  <2> HIDE DEF R, A
  <2>4. [Schedule(s.queue, Request(l)) EXCEPT !.next_id = 0] = q
    BY <2>3
  <2>5. t = [s EXCEPT !.queue = q]
    BY <1>1, <2>4 DEF Begin
  <2>6. {NewRun(1, x, Scoped, MacroOf[x], Gap) : x \in {l}}
          = {NewRun(1, l, Scoped, MacroOf[l], Gap)}
    OBVIOUS
  <2>7. t = Grown(s, {l})
    BY <2>5, <2>6 DEF Grown, R, A
  <2> QED BY <1>1, <2>7, GrownOK
<1>2. CASE l \notin DOMAIN MacroOf \ s.queue.active_triggers
  <2>1. s \in Machine /\ s.queue \in Queue
    BY DEF Sound, QueueOK
  <2>2. l \in DOMAIN MacroOf => Schedule(s.queue, Request(l)) = s.queue
    BY <1>2 DEF Schedule, Accepts, Request
  <2>3. [s.queue EXCEPT !.next_id = 0] = s.queue
    BY <2>1 DEF Queue
  <2>4. [s EXCEPT !.queue = s.queue] = s
    BY <2>1 DEF Machine
  <2>5. t = s
    BY <2>2, <2>3, <2>4 DEF Begin
  <2> QED BY <2>5 DEF Adds, OnlyAdds
<1> QED BY <1>1, <1>2

\* schedule_loop_after, for all loops that end at once.
LEMMA BeginAftersOK ==
  ASSUME NEW s, Sound(s), NEW ended \in SUBSET Motion,
         NEW t, t = BeginAfters(s, ended)
  PROVE  /\ Sound(t) /\ Adds(s, t, Afters) /\ OnlyAdds(s, t, Afters)
         /\ t.tracker = s.tracker /\ t.active_loops = s.active_loops
<1> DEFINE X == ({<<m, "loop_after">> : m \in ended} \cap DOMAIN MacroOf)
                  \ s.queue.active_triggers
<1>1. X \subseteq DOMAIN MacroOf \ s.queue.active_triggers /\ X \subseteq Afters
      /\ \A l \in X : l[2] = "loop_after"
  BY DEF Afters
<1>2. t = [s EXCEPT !.queue.runs = @ \cup {NewRun(1, l, Scoped, MacroOf[l], Gap) : l \in X},
                    !.queue.active_triggers = @ \cup X]
  BY DEF BeginAfters
<1>3. s \in Machine /\ s.queue \in Queue
  BY DEF Sound, QueueOK
<1> HIDE DEF X
<1>4. t = Grown(s, X)
  <2> DEFINE R == s.queue.runs \cup {NewRun(1, l, Scoped, MacroOf[l], Gap) : l \in X}
             A == s.queue.active_triggers \cup X
  <2>1. t = [s EXCEPT !.queue = [s.queue EXCEPT !.runs = R, !.active_triggers = A]]
    BY <1>2, <1>3 DEF Machine, Queue
  <2> HIDE DEF R, A
  <2>2. [s.queue EXCEPT !.runs = R, !.active_triggers = A]
          = [runs |-> R, active_triggers |-> A, next_id |-> 0]
    <3> PICK q : q = s.queue
      OBVIOUS
    <3> PICK u : u = [q EXCEPT !.runs = R, !.active_triggers = A]
      OBVIOUS
    <3>1. q \in Queue
      BY <1>3
    <3>2. q.next_id = 0
      BY <3>1 DEF Queue
    <3>3. u.runs = R /\ u.active_triggers = A /\ u.next_id = q.next_id
          /\ u = [runs |-> R, active_triggers |-> A, next_id |-> q.next_id]
      BY <3>1 DEF Queue
    <3> QED BY <3>2, <3>3
  <2>3. t = [s EXCEPT !.queue = [runs |-> R, active_triggers |-> A, next_id |-> 0]]
    BY <2>1, <2>2
  <2> QED BY <2>3 DEF Grown, R, A
<1>5. /\ Sound(t) /\ Adds(s, t, X) /\ OnlyAdds(s, t, X)
      /\ t.tracker = s.tracker /\ t.active_loops = s.active_loops
  BY <1>1, <1>4, GrownOK
<1> QED BY <1>1, <1>5 DEF Adds, OnlyAdds

\* observe, with its cancellation: a loss leaves nothing, a scope in focus
\* changes nothing of the queue.
LEMMA ObserveOK ==
  ASSUME NEW s, Sound(s), NEW f \in BOOLEAN, NEW t, t = Observe(s, f)
  PROVE  /\ Sound(t) /\ Adds(s, t, {}) /\ t.active_loops = s.active_loops
         /\ Allowed(f) => t.queue = s.queue /\ (Scoped => t.tracker.active = "active")
<1>0. s \in Machine /\ QueueOK(s.queue) /\ Quiet(s) /\ Scoped \in BOOLEAN
  BY LiveLoopAssumption DEF Sound
<1>1. CASE ~Scoped
  BY <1>1 DEF Observe, Adds
<1>2. CASE Scoped
  <2> DEFINE a == IF f THEN "active" ELSE "inactive"
             d == s.tracker.deactivated \/ LosesFocus(s, f)
             q == IF LosesFocus(s, f) THEN CancelProcessScoped(s.queue) ELSE s.queue
  <2>1. t = [s EXCEPT !.tracker.active = a, !.tracker.deactivated = d, !.queue = q]
    BY <1>2 DEF Observe
  <2>2. a \in {"active", "inactive"} /\ d \in BOOLEAN
    BY <1>0 DEF LosesFocus
  <2>3. /\ QueueOK(q)
        /\ \A l : AliveIn(q, l) => AliveIn(s.queue, l) /\ ~LosesFocus(s, f)
        /\ \A l : FreshIn(q, l) => FreshIn(s.queue, l)
    BY <1>0, <1>2, CancelScopedOK
  <2>4. f => a = "active" /\ q = s.queue
    BY DEF LosesFocus
  <2>5. ~f => a = "inactive"
    OBVIOUS
  <2> HIDE DEF a, d, q
  <2>6. /\ t.queue = q /\ t.active_loops = s.active_loops
        /\ t.tracker = [active |-> a, deactivated |-> d]
        /\ t = [queue |-> q, tracker |-> t.tracker, active_loops |-> s.active_loops]
    <3>1. t = [s EXCEPT !.tracker = [[s.tracker EXCEPT !.active = a] EXCEPT !.deactivated = d],
                        !.queue = q]
      BY <1>0, <2>1 DEF Machine, Tracker
    <3>2. [[s.tracker EXCEPT !.active = a] EXCEPT !.deactivated = d]
            = [active |-> a, deactivated |-> d]
      <4> PICK k : k = s.tracker
        OBVIOUS
      <4> PICK v : v = [[k EXCEPT !.active = a] EXCEPT !.deactivated = d]
        OBVIOUS
      <4>1. k \in Tracker
        BY <1>0 DEF Machine
      <4>2. v = [active |-> a, deactivated |-> d]
        BY <4>1 DEF Tracker
      <4> QED BY <4>2
    <3>3. t = [s EXCEPT !.tracker = [active |-> a, deactivated |-> d], !.queue = q]
      BY <3>1, <3>2
    <3> QED BY <1>0, <3>3 DEF Machine
  <2>7. t.tracker \in Tracker /\ t.tracker.active = a
    BY <2>2, <2>6 DEF Tracker
  <2>8. t \in Machine
    BY <1>0, <2>3, <2>6, <2>7 DEF Machine, QueueOK
  <2>9. Quiet(t)
    <3>1. SUFFICES ASSUME a # "active", NEW l, AliveIn(q, l) PROVE l[2] = "loop_after"
      BY <1>2, <2>6, <2>7 DEF Quiet
    <3>2. ~f /\ AliveIn(s.queue, l) /\ ~LosesFocus(s, f)
      BY <2>3, <2>4, <3>1
    <3>3. s.tracker.active # "active"
      BY <1>2, <3>2 DEF LosesFocus
    <3> QED BY <1>0, <1>2, <3>2, <3>3 DEF Quiet
  <2>10. Adds(s, t, {})
    BY <2>3, <2>6 DEF Adds
  <2>11. Allowed(f) => f
    BY <1>2 DEF Allowed
  <2> QED BY <2>3, <2>4, <2>6, <2>7, <2>8, <2>9, <2>10, <2>11 DEF Sound
<1> QED BY <1>0, <1>1, <1>2

\* schedule_live_binding, schedule_live_press and a repeat tick.
LEMMA BeginInFocusOK ==
  ASSUME NEW s, Sound(s), NEW l, NEW f \in BOOLEAN, NEW t, t = BeginInFocus(s, l, f)
  PROVE  /\ Sound(t) /\ Adds(s, t, {l}) /\ t.active_loops = s.active_loops
         /\ Allowed(f) => OnlyAdds(s, t, {l}) /\ (Scoped => t.tracker.active = "active")
         /\ ~Allowed(f) => Adds(s, t, {})
<1> PICK o : o = Observe(s, f)
  OBVIOUS
<1>1. /\ Sound(o) /\ Adds(s, o, {}) /\ o.active_loops = s.active_loops
      /\ Allowed(f) => o.queue = s.queue /\ (Scoped => o.tracker.active = "active")
  BY ObserveOK
<1>2. CASE Allowed(f)
  <2>1. t = Begin(o, l)
    BY <1>2 DEF BeginInFocus
  <2>2. /\ Sound(t) /\ Adds(o, t, {l}) /\ OnlyAdds(o, t, {l})
        /\ t.tracker = o.tracker /\ t.active_loops = o.active_loops
    BY <1>1, <1>2, <2>1, BeginOK
  <2>3. Adds(s, t, {l}) /\ OnlyAdds(s, t, {l})
    BY <1>1, <1>2, <2>2 DEF Adds, OnlyAdds
  <2> QED BY <1>1, <1>2, <2>2, <2>3
<1>3. CASE ~Allowed(f)
  <2>1. t = o
    BY <1>3 DEF BeginInFocus
  <2> QED BY <1>1, <1>3, <2>1 DEF Adds
<1> QED BY <1>2, <1>3

\* What a motion that triggers may schedule: its loop's work only if it starts it.
TriggerWork(m, b) ==
  {<<m, "motion">>} \cup (IF b THEN {<<m, "loop_before">>, <<m, "loop_once">>} ELSE {})

\* schedule_live_motion_trigger.
LEMMA BeginMotionOK ==
  ASSUME NEW s, Sound(s), NEW m, NEW b \in BOOLEAN, NEW f \in BOOLEAN,
         NEW t, t = BeginMotion(s, m, b, f)
  PROVE  /\ Sound(t) /\ t.active_loops = s.active_loops
         /\ Adds(s, t, TriggerWork(m, b))
<1> PICK p : p = BeginInFocus(s, <<m, "motion">>, f)
  OBVIOUS
<1>1. /\ Sound(p) /\ Adds(s, p, {<<m, "motion">>}) /\ p.active_loops = s.active_loops
      /\ Allowed(f) => (Scoped => p.tracker.active = "active")
  BY BeginInFocusOK
<1>2. CASE Allowed(f) /\ b
  <2>1. \E l : l \in {<<m, "loop_before">>, <<m, "loop_once">>} /\ t = Begin(p, l)
    BY <1>2 DEF BeginMotion
  <2> PICK l : l \in {<<m, "loop_before">>, <<m, "loop_once">>} /\ t = Begin(p, l)
    BY <2>1
  <2>4. Sound(p) /\ (Scoped /\ p.tracker.active # "active" => l[2] = "loop_after")
    BY <1>1, <1>2
  <2>2. Sound(t) /\ Adds(p, t, {l}) /\ t.active_loops = p.active_loops
    BY <2>4, BeginOK
  <2>3. Adds(s, t, {<<m, "motion">>} \cup {<<m, "loop_before">>, <<m, "loop_once">>})
    BY <1>1, <2>2 DEF Adds
  <2> QED BY <1>1, <1>2, <2>2, <2>3 DEF TriggerWork
<1>3. CASE ~(Allowed(f) /\ b)
  <2>1. t = p
    BY <1>3 DEF BeginMotion
  <2> QED BY <1>1, <2>1 DEF Adds, TriggerWork
<1> QED BY <1>2, <1>3

\* take_deactivation and what it leads to.
LEMMA TakeDeactivationOK ==
  ASSUME NEW s, Sound(s), NEW t, t = TakeDeactivation(s)
  PROVE  /\ Sound(t) /\ Adds(s, t, Afters) /\ OnlyAdds(s, t, Afters)
         /\ t.active_loops \subseteq s.active_loops
<1>1. CASE s.tracker.deactivated
  <2>1. \E c : /\ Sound(c) /\ c.queue = s.queue /\ c.active_loops = {}
               /\ TakeDeactivation(s) = BeginAfters(c, s.active_loops)
    <3> PICK c : c = [s EXCEPT !.tracker.deactivated = FALSE, !.active_loops = {}]
      OBVIOUS
    <3>0. s \in Machine
      BY DEF Sound
    <3>1. /\ c.queue = s.queue /\ c.active_loops = {} /\ c.tracker.active = s.tracker.active
          /\ c.tracker = [active |-> s.tracker.active, deactivated |-> FALSE]
          /\ c = [queue |-> s.queue, tracker |-> c.tracker, active_loops |-> {}]
      BY <3>0 DEF Machine, Tracker
    <3>2. c \in Machine
      BY <3>0, <3>1 DEF Machine, Tracker
    <3>3. Sound(c)
      BY <3>1, <3>2 DEF Sound, Quiet
    <3>4. TakeDeactivation(s) = BeginAfters(c, s.active_loops)
      BY <1>1 DEF TakeDeactivation
    <3> QED BY <3>1, <3>3, <3>4
  <2> PICK c : /\ Sound(c) /\ c.queue = s.queue /\ c.active_loops = {}
               /\ TakeDeactivation(s) = BeginAfters(c, s.active_loops)
    BY <2>1
  <2>2. s.active_loops \in SUBSET Motion
    BY LiveLoopAssumption DEF Sound, Machine
  <2>3. /\ Sound(t) /\ Adds(c, t, Afters) /\ OnlyAdds(c, t, Afters)
        /\ t.active_loops = c.active_loops
    BY <2>2, BeginAftersOK
  <2> QED BY <2>3 DEF Adds, OnlyAdds
<1>2. CASE ~s.tracker.deactivated
  BY <1>2 DEF TakeDeactivation, Adds, OnlyAdds
<1> QED BY <1>1, <1>2

\* cancel_repeat and cancel_trigger: nothing of an ended loop's work is left.
LEMMA CancelLoopWorkOK ==
  ASSUME NEW s, Sound(s), NEW ended, NEW t, t = CancelLoopWork(s, ended)
  PROVE  /\ Sound(t) /\ Adds(s, t, {}) /\ t.active_loops = s.active_loops
         /\ \A m \in ended : \A l \in LoopWork(m) : ~AliveIn(t.queue, l)
<1> DEFINE f(r) == IF \E m \in ended : r.label \in LoopWork(m) THEN Cancelled(r) ELSE r
           R == {f(r) : r \in s.queue.runs}
<1>0. s \in Machine /\ QueueOK(s.queue) /\ Quiet(s)
  BY DEF Sound
<1>1. \A r \in s.queue.runs :
        /\ RunOK(f(r)) /\ f(r).label = r.label /\ f(r).next_action = r.next_action
        /\ r.cancelled => f(r).cancelled
        /\ \A m \in ended : r.label \in LoopWork(m) => f(r).cancelled
  BY <1>0, CancelledOK DEF QueueOK
<1>2. t = [s EXCEPT !.queue.runs = R]
  BY DEF CancelLoopWork
<1>3. \A y, z \in R : y.label = z.label => y = z
  BY <1>0, <1>1 DEF QueueOK
<1>4. /\ \A y \in R : \E r \in s.queue.runs : Replaces(y, r)
      /\ \A r \in s.queue.runs : \E y \in R : y.label = r.label
  BY <1>1 DEF Replaces
<1>5. \A y \in R : \A m \in ended : y.label \in LoopWork(m) => y.cancelled
  BY <1>1
<1> HIDE DEF f, R
<1>6. /\ t.queue = [s.queue EXCEPT !.runs = R]
      /\ t.tracker = s.tracker /\ t.active_loops = s.active_loops
      /\ t = [queue |-> t.queue, tracker |-> s.tracker, active_loops |-> s.active_loops]
  BY <1>0, <1>2 DEF Machine
<1>7. /\ QueueOK(t.queue) /\ t.queue.runs = R
      /\ \A l : AliveIn(t.queue, l) => AliveIn(s.queue, l)
      /\ \A l : FreshIn(t.queue, l) => FreshIn(s.queue, l)
  <2>1. QueueOK(s.queue) /\ t.queue = [s.queue EXCEPT !.runs = R]
    BY <1>0, <1>6
  <2> QED BY <1>3, <1>4, <2>1, RunsReplaced
<1>8. t \in Machine /\ Quiet(t)
  BY <1>0, <1>6, <1>7 DEF Machine, QueueOK, Quiet
<1>9. \A m \in ended : \A l \in LoopWork(m) : ~AliveIn(t.queue, l)
  BY <1>5, <1>7 DEF AliveIn
<1> QED BY <1>6, <1>7, <1>8, <1>9 DEF Sound, Adds

\* No label of a loop's work is one of an `after`.
LEMMA WorkIsNoAfter == \A m : \A l \in LoopWork(m) : l \notin Afters
  BY DEF LoopWork, Afters

\* Ended loops lose their work and get their `after` macros.
LEMMA EndLoopsOK ==
  ASSUME NEW s, Sound(s), NEW ended \in SUBSET Motion, NEW t, t = EndLoops(s, ended)
  PROVE  /\ Sound(t) /\ Adds(s, t, Afters) /\ t.active_loops = s.active_loops
         /\ \A m \in ended : \A l \in LoopWork(m) : ~AliveIn(t.queue, l)
<1> PICK c : c = CancelLoopWork(s, ended)
  OBVIOUS
<1>1. /\ Sound(c) /\ Adds(s, c, {}) /\ c.active_loops = s.active_loops
      /\ \A m \in ended : \A l \in LoopWork(m) : ~AliveIn(c.queue, l)
  BY CancelLoopWorkOK
<1>2. t = BeginAfters(c, ended)
  BY DEF EndLoops
<1>3. Sound(t) /\ Adds(c, t, Afters) /\ t.active_loops = c.active_loops
  BY <1>1, <1>2, BeginAftersOK
<1> QED BY <1>1, <1>3, WorkIsNoAfter DEF Adds

\* schedule_live_motion_repeat_tick.
LEMMA BeginRepeatOK ==
  ASSUME NEW s, Sound(s), NEW m, focused \in BOOLEAN, NEW t, t = BeginRepeat(s, m)
  PROVE  /\ Sound(t) /\ Adds(s, t, {<<m, "repeat">>}) /\ t.active_loops = s.active_loops
         /\ Allowed(focused) => OnlyAdds(s, t, {<<m, "repeat">>})
         /\ ~Allowed(focused) => Adds(s, t, {})
<1> PICK f : f = focused
  OBVIOUS
<1>1. CASE t = s
  BY <1>1 DEF Adds, OnlyAdds
<1>2. CASE t = BeginInFocus(s, <<m, "repeat">>, f)
  BY <1>2, BeginInFocusOK
<1> QED BY <1>1, <1>2 DEF BeginRepeat

-----------------------------------------------------------------------------
(* The loop's invariant. *)

Shape ==
  /\ pc \in Place /\ tick \in 1..(Len(RepeatOrder) + 1)
  /\ last_tick \in [Repeating -> Nat]
  /\ \A m \in Repeating : last_tick[m] <= Interval[m]
  /\ focused \in BOOLEAN /\ wake \in BOOLEAN /\ signalled \in BOOLEAN
  /\ callbacks \in Seq(Callback)

\* A repeat that has not been polled yet was scheduled in this very phase, with
\* the scope in focus: the focus cannot be lost before it is polled.
RepeatsPolledSoon ==
  \A m : FreshIn(queue, <<m, "repeat">>) => pc = "repeats" /\ Allowed(focused)

\* A repeat loop is never longer since its last tick than since its last repeat:
\* the tick is recorded even where no repeat comes of it.
CalmCovers ==
  /\ calm \in [Repeating -> Nat]
  /\ \A m \in Repeating : calm[m] >= last_tick[m]

IInv ==
  /\ Shape /\ Sound(Now)
  /\ ReleasedLoopsSilent /\ released \cap active_loops = {}
  /\ RepeatsPolledSoon /\ CalmCovers

\* The variables that stand for s hold a sound record.
LEMMA BecomeSound ==
  ASSUME NEW t, Sound(t), Become(t)
  PROVE  Sound(Now)' /\ Now' = t
<1>1. t = [queue |-> t.queue, tracker |-> t.tracker, active_loops |-> t.active_loops]
  BY MachineEta DEF Sound
<1>2. Now' = t
  BY <1>1 DEF Become, Now
<1> QED BY <1>2

\* A polling pass, granted or refused.
LEMMA DriveReadyOK ==
  ASSUME NEW s, Sound(s), NEW then, DriveReady(s, then)
  PROVE  /\ Sound(Now)' /\ active_loops' = s.active_loops
         /\ \A l : Alive(l)' => AliveIn(s.queue, l)
         /\ \A l : ~FreshIn(queue', l)
         /\ pc' \in {then, "failed"}
<1>0. s \in Machine /\ QueueOK(s.queue) /\ Quiet(s)
  BY DEF Sound
<1>1. /\ QueueOK(queue') /\ \A l : ~FreshIn(queue', l)
      /\ \A l : AliveIn(queue', l) => AliveIn(s.queue, l)
  <2>1. CASE queue' = Drive(s.queue)
    BY <1>0, <2>1, DriveOK
  <2>2. CASE queue' = EmptyQueue
    <3>1. queue'.runs = {} /\ queue'.active_triggers = {} /\ queue' \in Queue
      BY <2>2 DEF EmptyQueue, Queue
    <3> QED BY <3>1 DEF QueueOK, FreshIn, AliveIn
  <2> QED BY <2>1, <2>2 DEF DriveReady
<1>2. Now' = [queue |-> queue', tracker |-> s.tracker, active_loops |-> s.active_loops]
  BY DEF DriveReady, Now
<1>3. Sound(Now')
  BY <1>0, <1>1, <1>2 DEF Sound, Machine, QueueOK, Quiet
<1>4. \A l : Alive(l)' <=> AliveIn(queue', l)
  BY DEF Alive, AliveIn
<1> QED BY <1>1, <1>3, <1>4 DEF DriveReady

\* History where no repeat is scheduled.
LEMMA RecordQuietly ==
  ASSUME IInv, NEW report, Record(report), \A m : ~FreshIn(queue', <<m, "repeat">>),
         last_tick' = last_tick
  PROVE  CalmCovers' /\ \A m \in Repeating : ~Begun(<<m, "repeat">>)
<1>1. \A m \in Repeating : ~Begun(<<m, "repeat">>)
  BY DEF Begun, FreshIn
<1>2. calm' = [m \in Repeating |-> calm[m]]
  BY <1>1 DEF Record
<1>3. \A m \in Repeating : calm'[m] = calm[m]
  BY <1>2
<1>4. calm' \in [Repeating -> Nat]
  BY <1>2 DEF IInv, CalmCovers
<1>5. \A m \in Repeating : calm'[m] >= last_tick'[m]
  BY <1>3 DEF IInv, CalmCovers
<1> QED BY <1>1, <1>4, <1>5 DEF CalmCovers

\* Only the focus context, the mailbox and the places of the loop change.
LEMMA QuietStep ==
  ASSUME IInv, UNCHANGED <<machine, last_tick, history>>, Shape',
         pc' = pc \/ pc \notin {"repeats", "ended", "failed"},
         pc = "repeats" => focused' = focused
  PROVE  IInv'
<1>0. pc \in Place
  BY DEF IInv, Shape
<1>1. Now' = Now /\ queue' = queue /\ active_loops' = active_loops
  BY DEF Now, machine
<1>2. Sound(Now)'
  BY <1>1 DEF IInv
<1>3. ReleasedLoopsSilent' /\ (released \cap active_loops = {})'
  BY <1>1 DEF IInv, history, ReleasedLoopsSilent, Alive
<1>4. RepeatsPolledSoon'
  BY <1>1 DEF IInv, RepeatsPolledSoon, FreshIn, Allowed
<1>5. CalmCovers'
  BY DEF IInv, CalmCovers, history
<1> QED BY <1>2, <1>3, <1>4, <1>5 DEF IInv

\* A pass of the loop over its own queue.
LEMMA DriveStep ==
  ASSUME IInv, NEW then, DriveReady(Now, then), then \notin {"ended", "failed"}, Shape',
         Running, UNCHANGED <<last_tick, history>>
  PROVE  IInv'
<1>1. /\ Sound(Now)' /\ active_loops' = active_loops
      /\ \A l : Alive(l)' => Alive(l)
      /\ \A l : ~FreshIn(queue', l)
      /\ pc' \in {then, "failed"}
  <2> PICK s : s = Now
    OBVIOUS
  <2>1. Sound(s) /\ DriveReady(s, then)
    BY DEF IInv
  <2>2. s.queue = queue /\ s.active_loops = active_loops
    BY DEF Now
  <2> QED BY <2>1, <2>2, DriveReadyOK DEF Alive, AliveIn
<1>2. ReleasedLoopsSilent' /\ (released \cap active_loops = {})'
  BY <1>1 DEF IInv, history, ReleasedLoopsSilent
<1>3. RepeatsPolledSoon'
  BY <1>1 DEF RepeatsPolledSoon
<1>4. CalmCovers'
  BY DEF IInv, CalmCovers, history
<1> QED BY <1>1, <1>2, <1>3, <1>4 DEF IInv

\* Something is scheduled or cancelled, but no repeat: s is what it starts from,
\* with the loops the matcher left.
LEMMA ScheduleStep ==
  ASSUME IInv, NEW s, Sound(s), s.queue = queue,
         NEW t, Sound(t), Become(t), NEW L, Adds(s, t, L),
         NEW report, Record(report), last_tick' = last_tick, Shape', Running,
         pc # "repeats",
         \A m : <<m, "repeat">> \notin L,
         \A m \in released' : \A l \in LoopWork(m) :
           AliveIn(t.queue, l) => m \in released /\ l \notin L,
         released' \cap t.active_loops = {}
  PROVE  IInv'
<1>1. queue' = t.queue /\ active_loops' = t.active_loops /\ Sound(Now)'
  BY BecomeSound DEF Become
<1>2. \A m : ~FreshIn(queue', <<m, "repeat">>)
  BY <1>1 DEF IInv, RepeatsPolledSoon, Adds
<1>3. CalmCovers'
  BY <1>2, RecordQuietly
<1>4. RepeatsPolledSoon'
  BY <1>2 DEF RepeatsPolledSoon
<1>5. ReleasedLoopsSilent'
  <2> SUFFICES ASSUME NEW m \in released', NEW l \in LoopWork(m), AliveIn(queue', l)
               PROVE  FALSE
    BY DEF ReleasedLoopsSilent, Alive, AliveIn
  <2>1. m \in released /\ AliveIn(queue, l)
    BY <1>1 DEF Adds
  <2> QED BY <2>1 DEF IInv, ReleasedLoopsSilent, Alive, AliveIn
<1> QED BY <1>1, <1>3, <1>4, <1>5 DEF IInv

\* drain_live_shortcut_callbacks.
LEMMA PopStep ==
  ASSUME IInv, PopCallback, Shape'
  PROVE  IInv'
<1> PICK s : s = Now
  OBVIOUS
<1>0. Sound(s) /\ s.queue = queue /\ s.active_loops = active_loops
  BY DEF IInv, Now
<1>1. pc \in {"drain", "drain_wake"} /\ Running /\ pc' = pc /\ last_tick' = last_tick
  BY DEF PopCallback, Draining, Running
<1>2. focused' \in BOOLEAN
  BY DEF Shape
<1>3. released' = released
  BY DEF PopCallback, Record, Nothing, Report
<1>4. Record(Nothing)
  BY DEF PopCallback
<1>5. CASE Head(callbacks).hotkey \in Binding
  <2> PICK h, f : h = Head(callbacks).hotkey /\ f = focused'
    OBVIOUS
  <2> PICK t : t = BeginInFocus(s, <<h, "binding">>, f)
    OBVIOUS
  <2>1. Become(t)
    BY <1>5 DEF PopCallback
  <2>2. Sound(t) /\ Adds(s, t, {<<h, "binding">>}) /\ t.active_loops = s.active_loops
    BY <1>0, <1>2, BeginInFocusOK
  <2>3. \A m : \A l \in LoopWork(m) : l \notin {<<h, "binding">>}
    BY DEF LoopWork
  <2>4. \A m : <<m, "repeat">> \notin {<<h, "binding">>}
    OBVIOUS
  <2>5. released' \cap t.active_loops = {}
    BY <1>0, <1>3, <2>2 DEF IInv
  <2> QED BY <1>0, <1>1, <1>3, <1>4, <2>1, <2>2, <2>3, <2>4, <2>5, ScheduleStep
<1>6. CASE Head(callbacks).hotkey \notin Binding
  <2>1. UNCHANGED machine
    BY <1>6 DEF PopCallback
  <2>2. Become(s)
    BY <2>1 DEF Become, Now, machine
  <2>3. Adds(s, s, {})
    BY DEF Adds
  <2>4. released' \cap s.active_loops = {}
    BY <1>0, <1>3 DEF IInv
  <2> QED BY <1>0, <1>1, <1>3, <1>4, <2>2, <2>3, <2>4, ScheduleStep
<1> QED BY <1>5, <1>6

\* What the matcher may report of a press.
LEMMA PressReport ==
  ASSUME NEW loops, NEW report \in PressReports(loops)
  PROVE  /\ report.ended = {} /\ report.starts_loop \in BOOLEAN
         /\ report.triggered = {} => ~report.starts_loop
         /\ report.triggered # {} =>
              \E m \in Motion : report.triggered = {m} /\ (report.starts_loop => m \in Looping)
<1>1. CASE report = Nothing
  BY <1>1 DEF Nothing, Report
<1>2. CASE \E m \in Motion, b \in BOOLEAN : report = Report({m}, b, {})
                                           /\ \A n \in report.triggered :
                                                MayTrigger(loops, n, report.starts_loop)
  <2> PICK m \in Motion, b \in BOOLEAN : report = Report({m}, b, {})
                                         /\ \A n \in report.triggered :
                                              MayTrigger(loops, n, report.starts_loop)
    BY <1>2
  <2>1. report.ended = {} /\ report.starts_loop = b /\ report.triggered = {m}
    BY DEF Report
  <2> QED BY <2>1 DEF MayTrigger
<1>3. report = Nothing \/ \E m \in Motion, b \in BOOLEAN :
                            /\ report = Report({m}, b, {})
                            /\ \A n \in report.triggered :
                                 MayTrigger(loops, n, report.starts_loop)
  <2> DEFINE may(x) == \A n \in x.triggered : MayTrigger(loops, n, x.starts_loop)
             R(m, b) == Report({m}, b, {})
             all == {R(m, b) : m \in Motion, b \in BOOLEAN}
  <2>1. PressReports(loops) = {Nothing} \cup {x \in all : may(x)}
    BY DEF PressReports
  <2> HIDE DEF R
  <2>2. \A x \in all : \E m \in Motion, b \in BOOLEAN : x = R(m, b)
    OBVIOUS
  <2> HIDE DEF all
  <2>3. report = Nothing \/ (report \in all /\ may(report))
    BY <2>1
  <2> QED BY <2>2, <2>3 DEF R
<1> QED BY <1>1, <1>2, <1>3

\* A motion that triggers, with the deactivation taken after it.
LEMMA TriggerOK ==
  ASSUME NEW s, Sound(s), NEW m, NEW b \in BOOLEAN, NEW f \in BOOLEAN
  PROVE  LET t == TakeDeactivation(BeginMotion(s, m, b, f))
         IN  /\ Sound(t) /\ t.active_loops \subseteq s.active_loops
             /\ Adds(s, t, TriggerWork(m, b) \cup Afters)
<1> PICK c : c = BeginMotion(s, m, b, f)
  OBVIOUS
<1>1. Sound(c) /\ c.active_loops = s.active_loops /\ Adds(s, c, TriggerWork(m, b))
  BY BeginMotionOK
<1> PICK t : t = TakeDeactivation(c)
  OBVIOUS
<1>2. Sound(t) /\ Adds(c, t, Afters) /\ t.active_loops \subseteq c.active_loops
  BY <1>1, TakeDeactivationOK
<1>3. Adds(s, t, TriggerWork(m, b) \cup Afters)
  BY <1>1, <1>2 DEF Adds
<1> QED BY <1>1, <1>2, <1>3

\* What InputPressed does of a press definition, and of a motion.
ActOnPress(s, pressed, f) ==
  IF pressed = {} THEN s
  ELSE TakeDeactivation(BeginInFocus(s, <<CHOOSE p \in pressed : TRUE, "press">>, f))

ActOnMotion(s, report, f) ==
  IF report.triggered = {} THEN s
  ELSE TakeDeactivation(BeginMotion(s, CHOOSE m \in report.triggered : TRUE,
                                    report.starts_loop, f))

\* What they may schedule: the motion's loop work only when its loop starts.
PressWork(pressed, report) ==
  {<<p, "press">> : p \in pressed} \cup Afters
    \cup UNION {TriggerWork(m, report.starts_loop) : m \in report.triggered}

\* A press of a binding and the motion it completes, one after the other.
LEMMA PressSchedules ==
  ASSUME NEW s, Sound(s), NEW pressed, pressed \subseteq Presses,
         NEW loops, NEW report \in PressReports(loops), NEW f \in BOOLEAN,
         NEW t, t = ActOnMotion(ActOnPress(s, pressed, f), report, f)
  PROVE  /\ Sound(t) /\ t.active_loops \subseteq s.active_loops
         /\ Adds(s, t, PressWork(pressed, report))
<1> PICK u : u = ActOnPress(s, pressed, f)
  OBVIOUS
<1>1. /\ Sound(u) /\ u.active_loops \subseteq s.active_loops
      /\ Adds(s, u, {<<p, "press">> : p \in pressed} \cup Afters)
  <2>1. CASE pressed = {}
    BY <2>1 DEF Adds, ActOnPress
  <2>2. CASE pressed # {}
    <3> PICK p : p = CHOOSE x \in pressed : TRUE
      OBVIOUS
    <3> PICK c : c = BeginInFocus(s, <<p, "press">>, f)
      OBVIOUS
    <3>0. p \in pressed
      BY <2>2
    <3>1. Sound(c) /\ Adds(s, c, {<<p, "press">>}) /\ c.active_loops = s.active_loops
      BY BeginInFocusOK
    <3>2. u = TakeDeactivation(c)
      BY <2>2 DEF ActOnPress
    <3>3. Sound(u) /\ Adds(c, u, Afters) /\ u.active_loops \subseteq c.active_loops
      BY <3>1, <3>2, TakeDeactivationOK
    <3>4. {<<p, "press">>} \subseteq {<<x, "press">> : x \in pressed}
      BY <3>0
    <3> QED BY <3>1, <3>3, <3>4 DEF Adds
  <2> QED BY <2>1, <2>2
<1> DEFINE W == UNION {TriggerWork(m, report.starts_loop) : m \in report.triggered}
<1>2. /\ Sound(t) /\ t.active_loops \subseteq u.active_loops
      /\ Adds(u, t, Afters \cup W)
  <2>1. CASE report.triggered = {}
    BY <1>1, <2>1 DEF Adds, ActOnMotion
  <2>2. CASE report.triggered # {}
    <3>0. \E m \in report.triggered, b \in BOOLEAN :
            b = report.starts_loop /\ t = TakeDeactivation(BeginMotion(u, m, b, f))
      BY <2>2, PressReport DEF ActOnMotion
    <3> PICK m \in report.triggered, b \in BOOLEAN :
          b = report.starts_loop /\ t = TakeDeactivation(BeginMotion(u, m, b, f))
      BY <3>0
    <3>3. /\ Sound(t) /\ t.active_loops \subseteq u.active_loops
          /\ Adds(u, t, TriggerWork(m, b) \cup Afters)
      BY <1>1, TriggerOK
    <3>4. TriggerWork(m, b) \subseteq W
      OBVIOUS
    <3> HIDE DEF W
    <3> QED BY <3>3, <3>4 DEF Adds
  <2> QED BY <2>1, <2>2
<1> DEFINE P == {<<p, "press">> : p \in pressed}
<1>3. Adds(s, t, P \cup Afters \cup W)
  <2> HIDE DEF P, W
  <2> QED BY <1>1, <1>2 DEF Adds, P
<1> QED BY <1>1, <1>2, <1>3 DEF PressWork

\* None of it is a repeat's, and a loop's work is in it only if the loop starts.
LEMMA PressWorkIs ==
  ASSUME NEW pressed, NEW report, NEW l \in PressWork(pressed, report)
  PROVE  \/ l[2] \in {"press", "loop_after", "motion"}
         \/ \E m \in report.triggered : report.starts_loop
                /\ l \in {<<m, "loop_before">>, <<m, "loop_once">>}
<1>1. CASE l \in {<<p, "press">> : p \in pressed} \cup Afters
  BY <1>1 DEF Afters
<1>2. CASE \E m \in report.triggered : l \in TriggerWork(m, report.starts_loop)
  BY <1>2 DEF TriggerWork
<1> QED BY <1>1, <1>2 DEF PressWork

\* handle_observed_motion_input for a press.
LEMMA PressStep ==
  ASSUME IInv, InputPressed, Shape'
  PROVE  IInv'
<1> PICK f : f = focused
  OBVIOUS
<1> PICK report \in PressReports(active_loops), pressed \in {{}} \cup {{p} : p \in Presses} :
      /\ Become(ActOnMotion(ActOnPress([Now EXCEPT !.active_loops = LoopsAfter(@, report)],
                                       pressed, f), report, f))
      /\ Record(report)
  BY DEF InputPressed, ActOnMotion, ActOnPress
<1>0. /\ f \in BOOLEAN /\ Running /\ pc # "repeats" /\ last_tick' = last_tick
      /\ active_loops \subseteq Looping
  BY DEF IInv, Shape, InputPressed, Running, Sound, Machine, Now
<1>1. /\ report.ended = {} /\ report.starts_loop \in BOOLEAN
      /\ report.triggered = {} => ~report.starts_loop
      /\ report.triggered # {} =>
           \E m \in Motion : report.triggered = {m} /\ (report.starts_loop => m \in Looping)
  <2> PICK loops : loops = active_loops
    OBVIOUS
  <2> QED BY PressReport
<1>2. \E s : /\ Sound(s) /\ s.queue = queue
             /\ s.active_loops = active_loops \cup (IF report.starts_loop
                                                    THEN report.triggered ELSE {})
             /\ Become(ActOnMotion(ActOnPress(s, pressed, f), report, f))
  <2> PICK s : s = [Now EXCEPT !.active_loops = LoopsAfter(@, report)]
    OBVIOUS
  <2>1. /\ s.queue = queue /\ s.tracker = tracker
        /\ s.active_loops = LoopsAfter(active_loops, report)
        /\ s = [queue |-> queue, tracker |-> tracker, active_loops |-> s.active_loops]
    BY DEF Now
  <2>2. s.active_loops = active_loops \cup (IF report.starts_loop
                                            THEN report.triggered ELSE {})
    BY <1>1, <2>1 DEF LoopsAfter
  <2>3. s.active_loops \subseteq Looping
    BY <1>0, <1>1, <2>2
  <2>4. Sound(Now) /\ queue = Now.queue /\ tracker = Now.tracker
    BY DEF IInv, Now
  <2>5. s \in Machine
    BY <2>1, <2>3, <2>4 DEF Sound, Machine
  <2>6. Sound(s)
    BY <2>1, <2>4, <2>5 DEF Sound, Quiet
  <2> QED BY <2>1, <2>2, <2>6
<1> PICK s : /\ Sound(s) /\ s.queue = queue
             /\ s.active_loops = active_loops \cup (IF report.starts_loop
                                                    THEN report.triggered ELSE {})
             /\ Become(ActOnMotion(ActOnPress(s, pressed, f), report, f))
  BY <1>2
<1> PICK t : t = ActOnMotion(ActOnPress(s, pressed, f), report, f)
  OBVIOUS
<1> PICK L : L = PressWork(pressed, report)
  OBVIOUS
<1>3. Become(t) /\ Record(report)
  OBVIOUS
<1>4. Sound(t) /\ t.active_loops \subseteq s.active_loops /\ Adds(s, t, L)
  <2> PICK loops : loops = active_loops
    OBVIOUS
  <2>1. report \in PressReports(loops) /\ pressed \subseteq Presses
    OBVIOUS
  <2> QED BY <1>0, <2>1, PressSchedules
<1>5. released' = released \ (IF report.starts_loop THEN report.triggered ELSE {})
  BY <1>1 DEF Record
<1>6. \A l \in L : \/ l[2] \in {"press", "loop_after", "motion"}
                   \/ \E m \in report.triggered : report.starts_loop
                          /\ l \in {<<m, "loop_before">>, <<m, "loop_once">>}
  BY PressWorkIs
<1>7. /\ \A m : <<m, "repeat">> \notin L
      /\ \A m \in released' : m \in released /\ \A l \in LoopWork(m) : l \notin L
  BY <1>5, <1>6 DEF LoopWork
<1>8. released' \cap t.active_loops = {}
  BY <1>4, <1>5 DEF IInv
<1> QED BY <1>0, <1>3, <1>4, <1>7, <1>8, ScheduleStep

\* handle_observed_motion_input for a release.
LEMMA ReleaseStep ==
  ASSUME IInv, InputReleased, Shape'
  PROVE  IInv'
<1>1. \E ended : /\ ended \in SUBSET active_loops
                 /\ LET report == Report({}, FALSE, ended)
                        matched == [Now EXCEPT !.active_loops = LoopsAfter(@, report)]
                    IN  /\ Become(IF ended = {} THEN matched
                                  ELSE TakeDeactivation(EndLoops(matched, ended)))
                        /\ Record(report)
  <2> PICK report \in ReleaseReports(active_loops) :
        LET matched == [Now EXCEPT !.active_loops = LoopsAfter(@, report)]
        IN  /\ Become(IF report.ended = {} THEN matched
                      ELSE TakeDeactivation(EndLoops(matched, report.ended)))
            /\ Record(report)
    BY DEF InputReleased
  <2> PICK ended \in SUBSET active_loops : report = Report({}, FALSE, ended)
    BY DEF ReleaseReports
  <2>1. report.ended = ended
    BY DEF Report
  <2> QED BY <2>1
<1> PICK ended : /\ ended \in SUBSET active_loops
                 /\ LET report == Report({}, FALSE, ended)
                        matched == [Now EXCEPT !.active_loops = LoopsAfter(@, report)]
                    IN  /\ Become(IF ended = {} THEN matched
                                  ELSE TakeDeactivation(EndLoops(matched, ended)))
                        /\ Record(report)
  BY <1>1
<1> PICK report : report = Report({}, FALSE, ended)
  OBVIOUS
<1>0. /\ Running /\ pc # "repeats" /\ last_tick' = last_tick
      /\ active_loops \subseteq Looping /\ ended \in SUBSET Motion
  BY LiveLoopAssumption DEF IInv, Shape, InputReleased, Running, Sound, Machine, Now
<1>2. \E s : /\ Sound(s) /\ s.queue = queue /\ s.active_loops = active_loops \ ended
             /\ s = [Now EXCEPT !.active_loops = LoopsAfter(@, report)]
  <2> PICK s : s = [Now EXCEPT !.active_loops = LoopsAfter(@, report)]
    OBVIOUS
  <2>1. /\ s.queue = queue /\ s.tracker = tracker
        /\ s.active_loops = LoopsAfter(active_loops, report)
        /\ s = [queue |-> queue, tracker |-> tracker, active_loops |-> s.active_loops]
    BY DEF Now
  <2>2. s.active_loops = active_loops \ ended
    BY <2>1 DEF LoopsAfter, Report
  <2>3. s.active_loops \subseteq Looping
    BY <1>0, <2>2
  <2>4. Sound(Now) /\ queue = Now.queue /\ tracker = Now.tracker
    BY DEF IInv, Now
  <2>5. s \in Machine
    BY <2>1, <2>3, <2>4 DEF Sound, Machine
  <2>6. Sound(s)
    BY <2>1, <2>4, <2>5 DEF Sound, Quiet
  <2> QED BY <2>1, <2>2, <2>6
<1> PICK s : /\ Sound(s) /\ s.queue = queue /\ s.active_loops = active_loops \ ended
             /\ s = [Now EXCEPT !.active_loops = LoopsAfter(@, report)]
  BY <1>2
<1> PICK t : t = (IF ended = {} THEN s ELSE TakeDeactivation(EndLoops(s, ended)))
  OBVIOUS
<1>3. Become(t) /\ Record(report)
  OBVIOUS
<1>4. /\ Sound(t) /\ t.active_loops \subseteq s.active_loops /\ Adds(s, t, Afters)
      /\ \A m \in ended : \A l \in LoopWork(m) : ~AliveIn(t.queue, l)
  <2>1. CASE ended = {}
    BY <2>1 DEF Adds
  <2>2. CASE ended # {}
    <3> PICK c : c = EndLoops(s, ended)
      OBVIOUS
    <3>1. /\ Sound(c) /\ Adds(s, c, Afters) /\ c.active_loops = s.active_loops
          /\ \A m \in ended : \A l \in LoopWork(m) : ~AliveIn(c.queue, l)
      BY <1>0, EndLoopsOK
    <3>2. t = TakeDeactivation(c)
      BY <2>2
    <3>3. Sound(t) /\ Adds(c, t, Afters) /\ t.active_loops \subseteq c.active_loops
      BY <3>1, <3>2, TakeDeactivationOK
    <3> QED BY <3>1, <3>3, WorkIsNoAfter DEF Adds
  <2> QED BY <2>1, <2>2
<1>5. released' = released \cup ended
  BY <1>3 DEF Record, Report
<1>6. \A m : <<m, "repeat">> \notin Afters
  BY DEF Afters
<1>7. \A m \in released' : \A l \in LoopWork(m) :
        AliveIn(t.queue, l) => m \in released /\ l \notin Afters
  BY <1>4, <1>5, WorkIsNoAfter
<1>8. released' \cap t.active_loops = {}
  BY <1>4, <1>5 DEF IInv
<1> QED BY <1>0, <1>3, <1>4, <1>6, <1>7, <1>8, ScheduleStep

\* An entry of repeat_ticks: only its own motion's repeat can be scheduled, and
\* only when that motion's tick is due.
LEMMA RepeatStep ==
  ASSUME IInv, LookAtRepeat, Shape'
  PROVE  /\ IInv'
         /\ \A n \in Repeating :
              Begun(<<n, "repeat">>) => n \in active_loops /\ calm[n] >= Interval[n]
<1> PICK m : m = RepeatOrder[tick]
  OBVIOUS
<1> PICK f : f = focused
  OBVIOUS
<1>0. /\ m \in Repeating /\ pc = "repeats" /\ pc' = pc /\ focused' = f /\ f \in BOOLEAN
      /\ Interval \in [Repeating -> Nat] /\ last_tick \in [Repeating -> Nat]
      /\ calm \in [Repeating -> Nat] /\ Running /\ Running'
  <2>1. tick \in 1..Len(RepeatOrder)
    BY LiveLoopAssumption DEF IInv, Shape, LookAtRepeat
  <2> QED BY <2>1, LiveLoopAssumption
          DEF IInv, Shape, CalmCovers, LookAtRepeat, Repeating, Running
<1>1. CASE /\ UNCHANGED <<machine, released>>
           /\ \/ /\ last_tick' = [last_tick EXCEPT ![m] = Interval[m]]
                 /\ calm' = [calm EXCEPT ![m] = Interval[m]]
              \/ last_tick' = last_tick /\ calm' = calm
  <2>1. Now' = Now /\ queue' = queue /\ active_loops' = active_loops /\ focused' = focused
    BY <1>0, <1>1 DEF Now, machine
  <2>2. Sound(Now)'
    BY <2>1 DEF IInv
  <2>3. ReleasedLoopsSilent' /\ (released \cap active_loops = {})'
    BY <1>1, <2>1 DEF IInv, ReleasedLoopsSilent, Alive
  <2>4. RepeatsPolledSoon'
    BY <1>0, <2>1 DEF IInv, RepeatsPolledSoon, FreshIn, Allowed
  <2>5. CalmCovers'
    <3>1. \A n \in Repeating :
            \/ last_tick'[n] = last_tick[n] /\ calm'[n] = calm[n]
            \/ last_tick'[n] = Interval[n] /\ calm'[n] = Interval[n]
      BY <1>0, <1>1
    <3>2. calm' \in [Repeating -> Nat]
      BY <1>0, <1>1
    <3> QED BY <1>0, <3>1, <3>2 DEF IInv, CalmCovers
  <2>6. \A n : ~Begun(<<n, "repeat">>)
    BY <2>1 DEF Begun
  <2> QED BY <2>2, <2>3, <2>4, <2>5, <2>6 DEF IInv
<1>2. CASE /\ m \in active_loops /\ last_tick[m] >= Interval[m]
           /\ Become(TakeDeactivation(BeginRepeat(Now, m)))
           /\ last_tick' = [last_tick EXCEPT ![m] = 0]
           /\ Record(Nothing)
  <2> PICK s : s = Now
    OBVIOUS
  <2>0. Sound(s) /\ s.queue = queue /\ s.active_loops = active_loops
    BY DEF IInv, Now
  <2> PICK c : c = BeginRepeat(s, m)
    OBVIOUS
  <2> PICK t : t = TakeDeactivation(c)
    OBVIOUS
  <2>1. /\ Sound(c) /\ Adds(s, c, {<<m, "repeat">>}) /\ c.active_loops = s.active_loops
        /\ Allowed(f) => OnlyAdds(s, c, {<<m, "repeat">>})
        /\ ~Allowed(f) => Adds(s, c, {})
    BY <1>0, <2>0, BeginRepeatOK
  <2>2. /\ Sound(t) /\ Adds(c, t, Afters) /\ OnlyAdds(c, t, Afters)
        /\ t.active_loops \subseteq c.active_loops
    BY <2>1, TakeDeactivationOK
  <2>3. Become(t)
    BY <1>2
  <2>4. Sound(Now)' /\ queue' = t.queue /\ active_loops' = t.active_loops
    BY <2>2, <2>3, BecomeSound DEF Become
  <2>5. \A n : <<n, "repeat">> \notin Afters
    BY DEF Afters
  <2>6. \A n : FreshIn(queue, <<n, "repeat">>) => Allowed(f)
    BY DEF IInv, RepeatsPolledSoon
  <2>7. \A n : FreshIn(queue', <<n, "repeat">>) => Allowed(f)
    BY <2>0, <2>1, <2>2, <2>4, <2>5, <2>6 DEF Adds
  <2>8. RepeatsPolledSoon'
    BY <1>0, <2>7 DEF RepeatsPolledSoon, Allowed
  <2>9. released' = released
    BY <1>2 DEF Record, Nothing, Report
  <2>10. m \notin released
    BY <1>2 DEF IInv
  <2>11. ReleasedLoopsSilent'
    <3> SUFFICES ASSUME NEW n \in released, NEW l \in LoopWork(n), AliveIn(queue', l)
                 PROVE  FALSE
      BY <2>9 DEF ReleasedLoopsSilent, Alive, AliveIn
    <3>1. AliveIn(c.queue, l)
      BY <2>2, <2>4, WorkIsNoAfter DEF Adds
    <3>2. l # <<m, "repeat">>
      BY <2>10 DEF LoopWork
    <3>3. AliveIn(queue, l)
      BY <2>0, <2>1, <3>1, <3>2 DEF Adds
    <3> QED BY <3>3 DEF IInv, ReleasedLoopsSilent, Alive, AliveIn
  <2>12. (released \cap active_loops = {})'
    BY <2>0, <2>1, <2>2, <2>4, <2>9 DEF IInv
  <2>13. \A n : Begun(<<n, "repeat">>) => n = m
    <3> SUFFICES ASSUME NEW n, Begun(<<n, "repeat">>) PROVE n = m
      OBVIOUS
    <3>1. Allowed(f)
      BY <2>7 DEF Begun, FreshIn
    <3> PICK r \in queue'.runs \ queue.runs : r.label = <<n, "repeat">>
      BY DEF Begun
    <3>2. r.label = <<m, "repeat">> \/ r.label \in Afters
      BY <2>0, <2>1, <2>2, <2>4, <3>1 DEF OnlyAdds
    <3> QED BY <2>5, <3>2
  <2>14. calm' = [n \in Repeating |-> IF Begun(<<n, "repeat">>) THEN 0 ELSE calm[n]]
    BY <1>2 DEF Record
  <2>15. CalmCovers'
    <3>1. calm' \in [Repeating -> Nat]
      BY <1>0, <2>14
    <3>2. ASSUME NEW n \in Repeating PROVE calm'[n] >= last_tick'[n]
      <4>1. CASE n = m
        <5>1. last_tick'[m] = 0
          BY <1>0, <1>2
        <5>2. calm'[m] \in Nat
          BY <1>0, <3>1
        <5> QED BY <4>1, <5>1, <5>2
      <4>2. CASE n # m
        <5>1. last_tick'[n] = last_tick[n] /\ calm'[n] = calm[n]
          BY <1>0, <1>2, <2>13, <2>14, <4>2
        <5> QED BY <5>1 DEF IInv, CalmCovers
      <4> QED BY <4>1, <4>2
    <3> QED BY <3>1, <3>2 DEF CalmCovers
  <2>16. \A n \in Repeating :
           Begun(<<n, "repeat">>) => n \in active_loops /\ calm[n] >= Interval[n]
    <3>1. m \in active_loops /\ calm[m] >= Interval[m]
      BY <1>0, <1>2 DEF IInv, CalmCovers
    <3> QED BY <2>13, <3>1
  <2> QED BY <2>4, <2>8, <2>11, <2>12, <2>15, <2>16 DEF IInv
<1> QED BY <1>1, <1>2 DEF LookAtRepeat, Ticked, history

\* A millisecond, in the work of an iteration or in a wait.
LEMMA TimeStep ==
  ASSUME IInv, Time, Shape'
  PROVE  IInv'
<1> PICK q : q = queue
  OBVIOUS
<1>0. /\ QueueOK(q) /\ tracker \in Tracker /\ active_loops \subseteq Looping
      /\ Quiet(Now) /\ Running /\ pc # "repeats"
  BY DEF IInv, Sound, Now, Machine, Time, Running
<1>1. /\ QueueOK(queue') /\ tracker' = tracker /\ active_loops' = active_loops
      /\ \A l : AliveIn(queue', l) => AliveIn(queue, l)
      /\ \A l : FreshIn(queue', l) => FreshIn(queue, l)
  BY <1>0, AgedQueueOK DEF Time
<1>2. Sound(Now')
  BY <1>0, <1>1 DEF Sound, Now, Machine, QueueOK, Quiet
<1>3. ReleasedLoopsSilent' /\ (released \cap active_loops = {})'
  BY <1>1 DEF IInv, Time, ReleasedLoopsSilent, Alive, AliveIn
<1>4. RepeatsPolledSoon'
  BY <1>0, <1>1 DEF IInv, RepeatsPolledSoon
<1>5. CalmCovers'
  <2>1. /\ Interval \in [Repeating -> Nat] /\ last_tick \in [Repeating -> Nat]
        /\ calm \in [Repeating -> Nat]
    BY LiveLoopAssumption DEF IInv, Shape, CalmCovers
  <2>2. \A m \in Repeating :
          /\ calm'[m] = IF calm[m] < Interval[m] THEN calm[m] + 1 ELSE calm[m]
          /\ last_tick'[m] = IF last_tick[m] < Interval[m] THEN last_tick[m] + 1
                             ELSE last_tick[m]
    BY DEF Time
  <2>3. calm' \in [Repeating -> Nat]
    BY <2>1 DEF Time
  <2>4. \A m \in Repeating : calm'[m] >= last_tick'[m]
    <3> SUFFICES ASSUME NEW m \in Repeating
                 PROVE  calm'[m] >= last_tick'[m]
      OBVIOUS
    <3>1. calm[m] \in Nat /\ last_tick[m] \in Nat /\ Interval[m] \in Nat
          /\ calm[m] >= last_tick[m]
      BY <2>1 DEF IInv, CalmCovers
    <3> QED BY <2>2, <3>1
  <2> QED BY <2>3, <2>4 DEF CalmCovers
<1> QED BY <1>2, <1>3, <1>4, <1>5 DEF IInv

\* The shutdown signal: whatever the last pass plays is an `after`, or was there.
LEMMA SignalStep ==
  ASSUME IInv, WakeBySignal, Shape'
  PROVE  IInv'
<1> PICK ended : ended = active_loops
  OBVIOUS
<1>0. ended \in SUBSET Motion
  BY LiveLoopAssumption DEF IInv, Sound, Machine, Now
<1>1. \E s : Sound(s) /\ s.queue = queue /\ s.active_loops = {}
             /\ DriveReady(BeginAfters(s, ended), "ended")
  <2> PICK s : s = [Now EXCEPT !.active_loops = {}]
    OBVIOUS
  <2>1. /\ s.queue = queue /\ s.tracker = tracker /\ s.active_loops = {}
        /\ s = [queue |-> queue, tracker |-> tracker, active_loops |-> {}]
    BY DEF Now
  <2>2. Sound(Now) /\ queue = Now.queue /\ tracker = Now.tracker
    BY DEF IInv, Now
  <2>3. s \in Machine
    BY <2>1, <2>2 DEF Sound, Machine
  <2>4. Sound(s)
    BY <2>1, <2>2, <2>3 DEF Sound, Quiet
  <2> QED BY <2>1, <2>4 DEF WakeBySignal
<1> PICK s : Sound(s) /\ s.queue = queue /\ s.active_loops = {}
             /\ DriveReady(BeginAfters(s, ended), "ended")
  BY <1>1
<1> PICK t : t = BeginAfters(s, ended)
  OBVIOUS
<1>2. Sound(t) /\ Adds(s, t, Afters) /\ t.active_loops = s.active_loops
  BY <1>0, BeginAftersOK
<1>3. /\ Sound(Now)' /\ active_loops' = {}
      /\ \A l : Alive(l)' => AliveIn(t.queue, l)
      /\ \A l : ~FreshIn(queue', l)
      /\ pc' \in {"ended", "failed"}
  BY <1>2, DriveReadyOK
<1>4. ReleasedLoopsSilent'
  <2>1. released' = released
    BY DEF WakeBySignal, history
  <2> QED BY <1>2, <1>3, <2>1, WorkIsNoAfter
          DEF IInv, ReleasedLoopsSilent, Adds, Alive, AliveIn
<1>5. RepeatsPolledSoon' /\ (released \cap active_loops = {})'
  BY <1>3 DEF RepeatsPolledSoon
<1>6. CalmCovers'
  BY DEF WakeBySignal, history, IInv, CalmCovers
<1> QED BY <1>3, <1>4, <1>5, <1>6 DEF IInv

\* The places, clocks, focus and inbox keep their shape.
LEMMA ShapeStep ==
  ASSUME IInv, [Next \/ Stopped]_vars
  PROVE  Shape'
<1>0. /\ pc \in Place /\ tick \in 1..(Len(RepeatOrder) + 1) /\ Len(RepeatOrder) \in Nat
      /\ last_tick \in [Repeating -> Nat]
      /\ \A m \in Repeating : last_tick[m] <= Interval[m]
      /\ focused \in BOOLEAN /\ wake \in BOOLEAN /\ signalled \in BOOLEAN
      /\ callbacks \in Seq(Callback)
      /\ Interval \in [Repeating -> Nat]
      /\ \A i \in 1..Len(RepeatOrder) : RepeatOrder[i] \in Repeating
  BY LiveLoopAssumption DEF IInv, Shape, Repeating
<1>1. CASE UNCHANGED <<last_tick, focused, inbox, signalled>> /\ pc' \in Place
           /\ tick' \in 1..(Len(RepeatOrder) + 1)
  BY <1>0, <1>1 DEF Shape, inbox
<1>2. CASE Turn \/ FinishInputs \/ FinishRepeats \/ WakeBySignal
  BY <1>0, <1>1, <1>2 DEF Turn, FinishInputs, FinishRepeats, WakeBySignal, DriveReady, Place
<1>3. CASE FinishDrain \/ WakeByTimer \/ InputPressed \/ InputReleased
  BY <1>0, <1>1, <1>3 DEF FinishDrain, WakeByTimer, InputPressed, InputReleased, Place
<1>4. CASE PopCallback
  <2>1. Head(callbacks) \in Callback /\ Tail(callbacks) \in Seq(Callback)
    BY <1>0, <1>4 DEF PopCallback, Mailbox!Take
  <2>2. Head(callbacks).focused \in BOOLEAN
    BY <2>1 DEF Callback
  <2> QED BY <1>0, <1>4, <2>1, <2>2 DEF PopCallback, Mailbox!Take, Shape
<1>5. CASE WakeByCallback
  BY <1>0, <1>5 DEF WakeByCallback, Mailbox!Acknowledge, Shape, Place
<1>6. CASE LookAtRepeat
  <2> PICK m : m = RepeatOrder[tick]
    OBVIOUS
  <2>1. tick \in 1..Len(RepeatOrder) /\ tick' = tick + 1 /\ pc' = pc
    BY <1>0, <1>6 DEF LookAtRepeat
  <2>2. m \in Repeating /\ Interval[m] \in Nat
    BY <1>0, <2>1
  <2>3. \/ last_tick' = [last_tick EXCEPT ![m] = Interval[m]]
        \/ last_tick' = [last_tick EXCEPT ![m] = 0]
        \/ last_tick' = last_tick
    BY <1>6 DEF LookAtRepeat, Ticked
  <2>4. \A n \in Repeating : Interval[n] \in Nat
    BY <1>0
  <2>5. last_tick' \in [Repeating -> Nat]
    <3>1. CASE last_tick' = [last_tick EXCEPT ![m] = Interval[m]]
      <4> PICK v \in Nat : v = Interval[m]
        BY <2>2
      <4>1. last_tick' = [last_tick EXCEPT ![m] = v]
        BY <3>1
      <4> QED BY <1>0, <4>1
    <3>2. CASE last_tick' = [last_tick EXCEPT ![m] = 0]
      BY <1>0, <3>2
    <3>3. CASE last_tick' = last_tick
      BY <1>0, <3>3
    <3> QED BY <2>3, <3>1, <3>2, <3>3
  <2>6. \A n \in Repeating : last_tick'[n] \in {last_tick[n], 0, Interval[n]}
    BY <1>0, <2>2, <2>3
  <2>7. ASSUME NEW n \in Repeating PROVE last_tick'[n] <= Interval[n]
    <3>1. Interval[n] \in Nat /\ last_tick[n] <= Interval[n]
      BY <1>0, <2>4
    <3> QED BY <2>6, <3>1
  <2>8. UNCHANGED <<focused, inbox, signalled>>
    BY <1>6 DEF LookAtRepeat
  <2> QED BY <1>0, <2>1, <2>5, <2>7, <2>8 DEF Shape, inbox
<1>7. CASE KwinCalls
  <2>1. callbacks' \in Seq(Callback) /\ wake' \in BOOLEAN
    <3> PICK message \in Callback :
          callbacks' = IF Len(callbacks) < Capacity THEN Append(callbacks, message)
                       ELSE callbacks
      BY <1>7 DEF KwinCalls, Mailbox!Post
    <3>1. Append(callbacks, message) \in Seq(Callback)
      BY <1>0
    <3> QED BY <1>0, <1>7, <3>1 DEF KwinCalls, Mailbox!Post
  <2> QED BY <1>0, <1>7, <2>1 DEF KwinCalls, Shape
<1>8. CASE Signal
  BY <1>0, <1>8 DEF Signal, Shape, inbox
<1>9. CASE Time
  <2>1. \A m \in Repeating : last_tick[m] \in Nat /\ Interval[m] \in Nat
                             /\ last_tick[m] <= Interval[m]
    BY <1>0
  <2>2. last_tick' \in [Repeating -> Nat]
    BY <1>9, <2>1 DEF Time
  <2>3. \A m \in Repeating : last_tick'[m] <= Interval[m]
    BY <1>9, <2>1 DEF Time
  <2>4. focused' \in BOOLEAN
    BY <1>0, <1>9 DEF Time
  <2> QED BY <1>0, <1>9, <2>2, <2>3, <2>4 DEF Time, Shape, inbox
<1>10. CASE UNCHANGED vars
  BY <1>0, <1>10 DEF vars, Shape, inbox
<1> QED BY <1>2, <1>3, <1>4, <1>5, <1>6, <1>7, <1>8, <1>9, <1>10
        DEF Next, Loop, Wakes, Input, Stopped

\* The loop starts with an empty queue and every interval owed.
LEMMA InitIInv == Init => IInv
<1> SUFFICES ASSUME Init PROVE IInv
  OBVIOUS
<1>1. Shape
  <2>1. Len(RepeatOrder) \in Nat /\ Interval \in [Repeating -> Nat]
        /\ \A m \in Repeating : Interval[m] \in Nat
    BY LiveLoopAssumption
  <2>2. <<>> \in Seq(Callback)
    OBVIOUS
  <2>3. callbacks \in Seq(Callback) /\ tick \in 1..(Len(RepeatOrder) + 1)
    BY <2>1, <2>2 DEF Init
  <2>4. last_tick \in [Repeating -> Nat] /\ \A m \in Repeating : last_tick[m] <= Interval[m]
    BY <2>1 DEF Init
  <2>5. pc \in Place /\ focused \in BOOLEAN /\ wake \in BOOLEAN /\ signalled \in BOOLEAN
    BY DEF Init, Place
  <2> QED BY <2>3, <2>4, <2>5 DEF Shape
<1>2. queue.runs = {} /\ queue.active_triggers = {} /\ queue \in Queue
  BY DEF Init, EmptyQueue, Queue
<1>3. QueueOK(queue) /\ \A l : ~AliveIn(queue, l) /\ ~FreshIn(queue, l) /\ ~Alive(l)
  BY <1>2 DEF QueueOK, AliveIn, FreshIn, Alive
<1>4. tracker \in Tracker /\ tracker.active = "unknown" /\ active_loops = {}
  BY DEF Init, Tracker
<1>5. Sound(Now)
  BY <1>2, <1>3, <1>4 DEF Sound, Now, Machine, Quiet
<1>6. ReleasedLoopsSilent /\ released \cap active_loops = {} /\ RepeatsPolledSoon
  BY <1>3, <1>4 DEF ReleasedLoopsSilent, RepeatsPolledSoon
<1>7. CalmCovers
  <2>1. Interval \in [Repeating -> Nat]
    BY LiveLoopAssumption
  <2> QED BY <2>1 DEF Init, CalmCovers
<1> QED BY <1>1, <1>5, <1>6, <1>7 DEF IInv

\* One step of the loop or of the world outside it.
LEMMA NextIInv == IInv /\ [Next \/ Stopped]_vars => IInv'
<1> SUFFICES ASSUME IInv, [Next \/ Stopped]_vars PROVE IInv'
  OBVIOUS
<1>0. Shape'
  BY ShapeStep
<1>1. CASE Turn
  BY <1>0, <1>1, DriveStep DEF Turn, Running
<1>2. CASE PopCallback
  BY <1>0, <1>2, PopStep
<1>3. CASE FinishDrain
  BY <1>0, <1>3, QuietStep DEF FinishDrain, Draining
<1>4. CASE FinishInputs
  BY <1>0, <1>4, DriveStep DEF FinishInputs, Running
<1>5. CASE LookAtRepeat
  BY <1>0, <1>5, RepeatStep
<1>6. CASE FinishRepeats
  BY <1>0, <1>6, DriveStep DEF FinishRepeats, Running
<1>7. CASE WakeByTimer
  BY <1>0, <1>7, QuietStep DEF WakeByTimer
<1>8. CASE WakeByCallback
  BY <1>0, <1>8, QuietStep DEF WakeByCallback
<1>9. CASE WakeBySignal
  BY <1>0, <1>9, SignalStep
<1>10. CASE InputPressed
  BY <1>0, <1>10, PressStep
<1>11. CASE InputReleased
  BY <1>0, <1>11, ReleaseStep
<1>12. CASE KwinCalls
  BY <1>0, <1>12, QuietStep DEF KwinCalls
<1>13. CASE Signal
  BY <1>0, <1>13, QuietStep DEF Signal
<1>14. CASE Time
  BY <1>0, <1>14, TimeStep
<1>15. CASE UNCHANGED vars
  BY <1>0, <1>15, QuietStep DEF vars
<1> QED BY <1>1, <1>2, <1>3, <1>4, <1>5, <1>6, <1>7, <1>8, <1>9, <1>10, <1>11, <1>12,
           <1>13, <1>14, <1>15
        DEF Next, Loop, Wakes, Input, Stopped

\* The inductive invariant says all that Inv does.
LEMMA IInvImpliesInv == IInv => Inv
<1> SUFFICES ASSUME IInv PROVE Inv
  OBVIOUS
<1>0. /\ Shape /\ QueueOK(queue) /\ Quiet(Now) /\ tracker \in Tracker
      /\ active_loops \subseteq Looping
  BY DEF IInv, Sound, Now, Machine
<1>1. TypeOK
  <2>1. \A r \in queue.runs : r.label \in DOMAIN MacroOf /\ r.next_action <= Len(r.actions)
    BY <1>0 DEF QueueOK, RunOK, Run
  <2>2. queue.active_triggers = {r.label : r \in queue.runs}
    BY <1>0 DEF QueueOK
  <2>3. \A m \in Repeating : last_tick[m] \in 0..Interval[m]
    BY <1>0, LiveLoopAssumption DEF Shape
  <2> QED BY <1>0, <2>1, <2>2, <2>3 DEF TypeOK, Shape, Tracker
<1>2. InactiveScopeSilent
  <2> SUFFICES ASSUME tracker.active = "inactive", NEW l \in DOMAIN MacroOf,
                      l[2] # "loop_after", Alive(l)
               PROVE  FALSE
    BY DEF InactiveScopeSilent
  <2>1. AliveIn(queue, l)
    BY DEF Alive, AliveIn
  <2> QED BY <1>0, <2>1 DEF Quiet, Now
<1> QED BY <1>1, <1>2 DEF IInv, Inv

\* For every script, with or without a scope, and whatever the order of input,
\* callbacks, time and the signal: a released loop's work is silent until the
\* loop starts again, and so is the whole script but for `after` macros from the
\* moment the runner has seen the scope lose focus.
THEOREM LoopInvariant == Spec => []Inv
<1>1. Spec => []IInv
  BY InitIInv, NextIInv, PTL DEF Spec
<1> QED BY <1>1, IInvImpliesInv, PTL

-----------------------------------------------------------------------------
(* The repeats and the wait. *)

\* A repeat is scheduled by its own tick only.
LEMMA RepeatsAreTicks ==
  ASSUME IInv, IInv', [Next \/ Stopped]_vars
  PROVE  \A m \in Repeating :
           Begun(<<m, "repeat">>) => m \in active_loops /\ calm[m] >= Interval[m]
<1> SUFFICES ASSUME NEW m \in Repeating, Begun(<<m, "repeat">>)
             PROVE  m \in active_loops /\ calm[m] >= Interval[m]
  OBVIOUS
<1>1. FreshIn(queue', <<m, "repeat">>) /\ queue' # queue
  BY DEF Begun, FreshIn
<1>2. pc' = "repeats"
  BY <1>1 DEF IInv, RepeatsPolledSoon
<1>3. ~FinishInputs
  <2> SUFFICES ASSUME FinishInputs PROVE FALSE
    OBVIOUS
  <2> PICK s : s = Now
    OBVIOUS
  <2>1. Sound(s) /\ DriveReady(s, "repeats")
    BY DEF IInv, FinishInputs
  <2>2. \A l : ~FreshIn(queue', l)
    BY <2>1, DriveReadyOK
  <2> QED BY <1>1, <2>2
<1>4. LookAtRepeat
  BY <1>1, <1>2, <1>3 DEF Next, Loop, Wakes, Input, Stopped, vars, machine,
     Turn, PopCallback, Draining, FinishDrain, FinishRepeats, WakeByTimer, WakeByCallback,
     WakeBySignal, InputPressed, InputReleased, KwinCalls, Signal, Time, DriveReady
<1> QED BY <1>4, RepeatStep DEF IInv

\* For every script and interval, a repeat is scheduled for a running loop only,
\* and no sooner than every_ms after the loop's last one, also where the loop was
\* let go and held again in between, until a repeat phase finds it off.
THEOREM RepeatsKeepInterval == Spec => RepeatsKeepTheirInterval
<1>1. IInv /\ IInv' /\ [Next \/ Stopped]_vars
        => [\A m \in Repeating :
              Begun(<<m, "repeat">>) => m \in active_loops /\ calm[m] >= Interval[m]]_vars
  BY RepeatsAreTicks
<1> QED BY <1>1, InitIInv, NextIInv, PTL DEF Spec, RepeatsKeepTheirInterval

\* Time passes in the wait only while nothing is ready and no repeat is due.
THEOREM NoWorkSleptPast == Spec => NeverSleepsPastWork
<1>1. IInv /\ [Next \/ Stopped]_vars
        => [pc = "wait" /\ Time
              => /\ \A r \in queue.runs : ~Ready(r) /\ ~AtDelay(r) /\ ~AtGap(r)
                 /\ \A m \in active_loops \cap Repeating : last_tick[m] < Interval[m]]_vars
  <2> SUFFICES ASSUME IInv, pc = "wait", Time
               PROVE  /\ \A r \in queue.runs : ~Ready(r) /\ ~AtDelay(r) /\ ~AtGap(r)
                      /\ \A m \in active_loops \cap Repeating : last_tick[m] < Interval[m]
    OBVIOUS
  <2>1. 0 \notin Deadlines
    BY DEF Time
  <2>2. ASSUME NEW r \in queue.runs PROVE ~Ready(r) /\ ~AtDelay(r) /\ ~AtGap(r)
    <3>1. Over(r) \/ r.ready_in # 0
      BY <2>1 DEF Deadlines, Pending
    <3>2. r.ready_in \in Nat
      BY DEF IInv, Sound, Now, QueueOK, RunOK, Run
    <3> QED BY <3>1, <3>2 DEF Ready, AtDelay, AtGap, Waiting, Over
  <2>3. ASSUME NEW m \in active_loops \cap Repeating PROVE last_tick[m] < Interval[m]
    <3>1. DueIn(m) # 0
      BY <2>1 DEF Deadlines
    <3> QED BY <3>1 DEF DueIn
  <2> QED BY <2>2, <2>3
<1> QED BY <1>1, InitIInv, NextIInv, PTL DEF Spec, NeverSleepsPastWork
=============================================================================
