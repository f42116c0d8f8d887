------------------------ MODULE ControllerLoopProofs -------------------------
(* Theorems about the controller's callbacks, in two parts.  First about     *)
(* CallbackTasks, for every set of registrations, capacity, budget and       *)
(* length of slices, sleeps and waits, and whatever loop offers callbacks,   *)
(* lets time pass and drains.  Then about ControllerLoop: it makes of its    *)
(* callbacks only what CallbackTasks allows, for every script, and what is   *)
(* proved of the callbacks therefore holds of the loop.                      *)
EXTENDS ControllerLoop, SequenceTheorems, FiniteSetTheorems, TLAPS

-----------------------------------------------------------------------------
(* The callbacks, under any loop. *)

\* What the code adds up of a task is what Lua has run of it.
Counted ==
  /\ \A i \in DOMAIN pending : pending[i].elapsed = 0 /\ pending[i].spent = 0
  /\ \A i \in DOMAIN running : running[i].elapsed = running[i].spent
  /\ \A i \in DOMAIN continuations :
       continuations[i].task.elapsed = continuations[i].task.spent

TaskInv == TaskTypeOK /\ OneTaskPerLabel /\ Counted /\ BudgetKept

-----------------------------------------------------------------------------
(* Lemmas about the sequences the tasks move between. *)

\* At most one task runs: running is empty, or its one task.
LEMMA OneRuns ==
  ASSUME TaskTypeOK, running # <<>>
  PROVE  /\ running[1] \in Task /\ running = <<running[1]>>
         /\ DOMAIN running = {1}
  <1>1. running \in Seq(Task) /\ Len(running) \in Nat /\ Len(running) <= 1
    BY DEF TaskTypeOK
  <1>2. Len(running) = 1
    <2>  DEFINE n == Len(running)
    <2>1. n \in Nat \ {0} /\ n <= 1
      BY <1>1, EmptySeq, Zenon
    <2> HIDE DEF n
    <2>2. n = 1
      BY <2>1
    <2> QED
      BY <2>2 DEF n
  <1>3. running \in [1..1 -> Task]
    BY <1>1, <1>2
  <1> QED
    BY <1>1, <1>2, <1>3

\* Time takes no sleeper away, adds none, and changes no task.
LEMMA SleepersAge ==
  ASSUME TaskTypeOK, NEW ms \in Nat
  PROVE  /\ SleepersAfter(ms) \in Seq(Sleeper)
         /\ Len(SleepersAfter(ms)) = Len(continuations)
         /\ DOMAIN SleepersAfter(ms) = DOMAIN continuations
         /\ \A i \in DOMAIN continuations :
              SleepersAfter(ms)[i].task = continuations[i].task
  <1>1. continuations \in Seq(Sleeper) /\ Len(continuations) \in Nat
        /\ DOMAIN continuations = 1..Len(continuations)
    BY DEF TaskTypeOK
  <1>2. ASSUME NEW i \in DOMAIN continuations
        PROVE  /\ SleepersAfter(ms)[i] \in Sleeper
               /\ SleepersAfter(ms)[i].task = continuations[i].task
    <2> DEFINE s == continuations[i]
               r == IF s.ready_in > ms THEN s.ready_in - ms ELSE 0
    <2>1. s \in Sleeper
      BY <1>1
    <2>2. SleepersAfter(ms)[i] = [s EXCEPT !.ready_in = r]
      BY DEF SleepersAfter
    <2> HIDE DEF s
    <2>3. r \in Nat
      BY <2>1 DEF Sleeper
    <2> HIDE DEF r
    <2>4. [s EXCEPT !.ready_in = r] \in Sleeper /\ [s EXCEPT !.ready_in = r].task = s.task
      BY <2>1, <2>3 DEF Sleeper
    <2> QED
      BY <2>2, <2>4 DEF s
  <1>3. SleepersAfter(ms) \in [1..Len(continuations) -> Sleeper]
    BY <1>1, <1>2 DEF SleepersAfter
  <1> QED
    BY <1>1, <1>2, <1>3

\* Without drops the k-th element, and only that one.
LEMMA WithoutDropsOne ==
  ASSUME NEW S, NEW seq \in Seq(S), NEW k \in 1..Len(seq)
  PROVE  /\ Without(seq, k) \in Seq(S)
         /\ Len(Without(seq, k)) = Len(seq) - 1
         /\ \A i \in DOMAIN Without(seq, k) :
              Without(seq, k)[i] = seq[IF i < k THEN i ELSE i + 1]
         /\ \A j \in DOMAIN seq \ {k} :
              \E i \in DOMAIN Without(seq, k) : Without(seq, k)[i] = seq[j]
  <1>1. Len(seq) \in Nat \ {0} /\ DOMAIN seq = 1..Len(seq)
    OBVIOUS
  <1>2. \A i \in 1..(Len(seq) - 1) : (IF i < k THEN i ELSE i + 1) \in 1..Len(seq)
    BY <1>1
  <1>3. Without(seq, k) \in [1..(Len(seq) - 1) -> S]
    BY <1>1, <1>2 DEF Without
  <1>4. ASSUME NEW j \in DOMAIN seq \ {k}
        PROVE  \E i \in DOMAIN Without(seq, k) : Without(seq, k)[i] = seq[j]
    <2>1. CASE j < k
      BY <1>1, <2>1 DEF Without
    <2>2. CASE j > k
      <3>1. j - 1 \in 1..(Len(seq) - 1) /\ ~(j - 1 < k) /\ (j - 1) + 1 = j
        BY <1>1, <2>2
      <3> QED
        BY <1>1, <3>1 DEF Without
    <2> QED
      BY <1>1, <2>1, <2>2
  <1>5. Len(seq) - 1 \in Nat
    BY <1>1
  <1> QED
    BY <1>1, <1>3, <1>4, <1>5 DEF Without

-----------------------------------------------------------------------------
(* Every operation keeps the invariant. *)

LEMMA UnchangedKeeps ==
  ASSUME TaskInv, UNCHANGED tasks
  PROVE  TaskInv'
  <1>1. /\ pending' = pending /\ active_or_pending' = active_or_pending
        /\ continuations' = continuations /\ running' = running /\ stage' = stage
    BY DEF tasks
  <1>2. TaskTypeOK'
    BY <1>1 DEF TaskInv, TaskTypeOK
  <1>3. OneTaskPerLabel'
    <2>1. /\ PendingLabels' = PendingLabels /\ RunningLabels' = RunningLabels
          /\ SleepingLabels' = SleepingLabels
      BY <1>1 DEF PendingLabels, RunningLabels, SleepingLabels
    <2> QED
      BY <1>1, <2>1 DEF TaskInv, OneTaskPerLabel
  <1>4. Counted' /\ BudgetKept'
    BY <1>1 DEF TaskInv, Counted, BudgetKept
  <1> QED
    BY <1>2, <1>3, <1>4 DEF TaskInv

\* The scheduler accepts a task of a label that no task has.
LEMMA ScheduleKeeps ==
  ASSUME TaskInv, NEW label \in Registration, NEW callback \in Callback,
         Schedule(label, callback)
  PROVE  TaskInv'
  <1> DEFINE t == [label |-> label, callback |-> callback, elapsed |-> 0, spent |-> 0]
  <1>1. CASE ~Accepts(label)
    BY <1>1, UnchangedKeeps DEF Schedule, tasks
  <1>2. CASE Accepts(label)
    <2>1. /\ t \in Task /\ t.label = label /\ t.elapsed = 0 /\ t.spent = 0
      BY DEF Task
    <2> HIDE DEF t
    <2>2. /\ pending' = Append(pending, t)
          /\ active_or_pending' = active_or_pending \cup {label}
          /\ continuations' = continuations /\ running' = running /\ stage' = stage
      BY <1>2 DEF Schedule, t
    <2>3. /\ pending \in Seq(Task) /\ Len(pending) \in Nat /\ Len(pending) < MaxPending
          /\ DOMAIN pending = 1..Len(pending) /\ label \notin active_or_pending
      BY <1>2 DEF Accepts, TaskInv, TaskTypeOK
    <2>4. /\ pending' \in Seq(Task) /\ Len(pending') = Len(pending) + 1
          /\ DOMAIN pending' = 1..(Len(pending) + 1)
          /\ \A i \in DOMAIN pending : pending'[i] = pending[i]
          /\ pending'[Len(pending) + 1] = t
      BY <2>1, <2>2, <2>3
    <2>5. TaskTypeOK'
      <3>1. Len(pending') <= MaxPending
        BY <2>3, <2>4, TaskAssumption
      <3> QED
        BY <2>2, <2>4, <3>1 DEF TaskInv, TaskTypeOK
    <2>6. PendingLabels' = PendingLabels \cup {label}
      BY <2>1, <2>3, <2>4 DEF PendingLabels
    <2>7. RunningLabels' = RunningLabels /\ SleepingLabels' = SleepingLabels
      BY <2>2 DEF RunningLabels, SleepingLabels
    <2>8. \A i, j \in DOMAIN pending' : pending'[i].label = pending'[j].label => i = j
      <3>1. \A i \in DOMAIN pending : pending[i].label # label
        BY <2>3 DEF TaskInv, OneTaskPerLabel, PendingLabels
      <3>2. \A i \in DOMAIN pending' : i \in DOMAIN pending \/ i = Len(pending) + 1
        BY <2>3, <2>4
      <3> QED
        BY <2>1, <2>4, <3>1, <3>2 DEF TaskInv, OneTaskPerLabel
    <2>9. OneTaskPerLabel'
      BY <2>2, <2>3, <2>6, <2>7, <2>8 DEF TaskInv, OneTaskPerLabel
    <2>10. Counted'
      BY <2>1, <2>2, <2>3, <2>4 DEF TaskInv, Counted
    <2>11. BudgetKept'
      BY <2>2 DEF TaskInv, BudgetKept
    <2> QED
      BY <2>5, <2>9, <2>10, <2>11 DEF TaskInv
  <1> QED
    BY <1>1, <1>2

\* The sleepers after some time are the same tasks, in the same order.
LEMMA AgedSleepers ==
  ASSUME TaskInv, NEW ms \in Nat, continuations' = SleepersAfter(ms)
  PROVE  /\ continuations' \in Seq(Sleeper)
         /\ SleepingLabels' = SleepingLabels
         /\ \A i, j \in DOMAIN continuations' :
              continuations'[i].task.label = continuations'[j].task.label => i = j
         /\ \A i \in DOMAIN continuations' :
              /\ continuations'[i].task.elapsed = continuations'[i].task.spent
              /\ continuations'[i].task.spent < Budget
  <1>1. /\ continuations' \in Seq(Sleeper)
        /\ DOMAIN continuations' = DOMAIN continuations
        /\ \A i \in DOMAIN continuations' : continuations'[i].task = continuations[i].task
    BY SleepersAge DEF TaskInv
  <1>2. SleepingLabels' = SleepingLabels
    BY <1>1 DEF SleepingLabels
  <1> QED
    BY <1>1, <1>2 DEF TaskInv, OneTaskPerLabel, Counted, BudgetKept

LEMMA AgeKeeps ==
  ASSUME TaskInv, Age
  PROVE  TaskInv'
  <1>1. /\ pending' = pending /\ active_or_pending' = active_or_pending
        /\ running' = running /\ stage' = stage /\ continuations' = SleepersAfter(1)
    BY DEF Age
  <1>2. TaskTypeOK'
    BY <1>1, AgedSleepers DEF TaskInv, TaskTypeOK
  <1>3. PendingLabels' = PendingLabels /\ RunningLabels' = RunningLabels
    BY <1>1 DEF PendingLabels, RunningLabels
  <1>4. OneTaskPerLabel'
    BY <1>1, <1>3, AgedSleepers DEF TaskInv, OneTaskPerLabel
  <1>5. Counted' /\ BudgetKept'
    BY <1>1, AgedSleepers DEF TaskInv, Counted, BudgetKept
  <1> QED
    BY <1>2, <1>4, <1>5 DEF TaskInv

\* A cancellation empties the scheduler and wakes nobody; the drain is at rest
\* or between two callbacks.
LEMMA CancelAllKeeps ==
  ASSUME TaskInv, CancelAll
  PROVE  TaskInv'
  <1>1. /\ pending' = <<>> /\ active_or_pending' = {} /\ continuations' = <<>>
        /\ running' = <<>> /\ stage' = stage
    BY DEF CancelAll
  <1>2. TaskTypeOK'
    BY <1>1, TaskAssumption DEF TaskInv, TaskTypeOK
  <1>3. PendingLabels' = {} /\ RunningLabels' = {} /\ SleepingLabels' = {}
    BY <1>1 DEF PendingLabels, RunningLabels, SleepingLabels
  <1>4. OneTaskPerLabel'
    BY <1>1, <1>3 DEF OneTaskPerLabel
  <1>5. Counted' /\ BudgetKept'
    BY <1>1 DEF Counted, BudgetKept
  <1> QED
    BY <1>2, <1>4, <1>5 DEF TaskInv

\* A step of the drain that moves no task.
LEMMA StageKeeps ==
  ASSUME TaskInv, StartDrain \/ NoneReady \/ EndDrain
  PROVE  TaskInv'
  <1>1. /\ pending' = pending /\ active_or_pending' = active_or_pending
        /\ continuations' = continuations /\ running' = running
        /\ stage' \in {"rest", "resume", "start"}
    BY DEF StartDrain, NoneReady, EndDrain
  <1>2. TaskTypeOK'
    BY <1>1 DEF TaskInv, TaskTypeOK
  <1>3. /\ PendingLabels' = PendingLabels /\ RunningLabels' = RunningLabels
        /\ SleepingLabels' = SleepingLabels
    BY <1>1 DEF PendingLabels, RunningLabels, SleepingLabels
  <1>4. OneTaskPerLabel'
    BY <1>1, <1>3 DEF TaskInv, OneTaskPerLabel
  <1>5. Counted' /\ BudgetKept'
    BY <1>1 DEF TaskInv, Counted, BudgetKept
  <1> QED
    BY <1>2, <1>4, <1>5 DEF TaskInv

\* A sleeper becomes the running task.
LEMMA ResumeFirstKeeps ==
  ASSUME TaskInv, ResumeFirst
  PROVE  TaskInv'
  <1>1. /\ running = <<>> /\ pending' = pending
        /\ active_or_pending' = active_or_pending /\ stage' = stage
    BY DEF ResumeFirst
  <1>2. PICK k \in DOMAIN continuations :
          running' = <<continuations[k].task>> /\ continuations' = Without(continuations, k)
    BY DEF ResumeFirst, Ready
  <1>  DEFINE t == continuations[k].task
              later(i) == IF i < k THEN i ELSE i + 1
  <1>3. /\ continuations \in Seq(Sleeper) /\ Len(continuations) \in Nat
        /\ DOMAIN continuations = 1..Len(continuations) /\ k \in 1..Len(continuations)
    BY DEF TaskInv, TaskTypeOK
  <1>4. /\ continuations' \in Seq(Sleeper)
        /\ Len(continuations') = Len(continuations) - 1
        /\ \A i \in DOMAIN continuations' : continuations'[i] = continuations[later(i)]
        /\ \A j \in DOMAIN continuations \ {k} :
             \E i \in DOMAIN continuations' : continuations'[i] = continuations[j]
    BY <1>2, <1>3, WithoutDropsOne
  <1>5. DOMAIN continuations' = 1..(Len(continuations) - 1)
    BY <1>3, <1>4
  <1>6. \A i \in DOMAIN continuations' :
          later(i) \in DOMAIN continuations /\ later(i) # k
    BY <1>3, <1>5
  <1>7. \A i, j \in DOMAIN continuations' : later(i) = later(j) => i = j
    BY <1>3, <1>5
  <1>8. t \in Task /\ t.elapsed = t.spent /\ t.spent < Budget
    <2>1. continuations[k] \in Sleeper
      BY <1>3
    <2>2. t \in Task
      BY <2>1 DEF Sleeper
    <2> QED
      BY <2>2 DEF TaskInv, Counted, BudgetKept
  <1>9. TaskTypeOK'
    <2>1. running' \in Seq(Task) /\ Len(running') <= 1
      BY <1>2, <1>8
    <2> QED
      BY <1>1, <1>4, <2>1 DEF TaskInv, TaskTypeOK
  <1>10. SleepingLabels' = SleepingLabels \ {t.label}
    <2>1. \A j \in DOMAIN continuations : continuations[j].task.label = t.label => j = k
      BY DEF TaskInv, OneTaskPerLabel
    <2> HIDE DEF later
    <2>2. SleepingLabels' \subseteq SleepingLabels \ {t.label}
      BY <1>4, <1>6, <2>1 DEF SleepingLabels
    <2>3. SleepingLabels \ {t.label} \subseteq SleepingLabels'
      BY <1>4 DEF SleepingLabels
    <2> QED
      BY <2>2, <2>3
  <1>11. /\ t.label \in SleepingLabels /\ RunningLabels = {} /\ RunningLabels' = {t.label}
         /\ PendingLabels' = PendingLabels
    BY <1>1, <1>2 DEF SleepingLabels, RunningLabels, PendingLabels
  <1>12. OneTaskPerLabel'
    <2> HIDE DEF t, later
    <2>1. \A i, j \in DOMAIN continuations' :
            continuations'[i].task.label = continuations'[j].task.label => i = j
      <3> SUFFICES ASSUME NEW i \in DOMAIN continuations', NEW j \in DOMAIN continuations',
                          continuations'[i].task.label = continuations'[j].task.label
                   PROVE  i = j
        OBVIOUS
      <3>1. /\ later(i) \in DOMAIN continuations /\ later(j) \in DOMAIN continuations
            /\ continuations[later(i)].task.label = continuations[later(j)].task.label
        BY <1>4, <1>6
      <3>2. later(i) = later(j)
        BY <3>1 DEF TaskInv, OneTaskPerLabel
      <3> QED
        BY <1>7, <3>2
    <2> QED
      BY <1>1, <1>10, <1>11, <2>1 DEF TaskInv, OneTaskPerLabel
  <1>13. Counted' /\ BudgetKept'
    <2> HIDE DEF later
    <2>1. running'[1] = t /\ DOMAIN running' = {1}
      BY <1>2
    <2> QED
      BY <1>1, <1>4, <1>6, <1>8, <2>1 DEF TaskInv, Counted, BudgetKept
  <1> QED
    BY <1>9, <1>12, <1>13 DEF TaskInv

\* The first pending task becomes the running task.
LEMMA StartNextKeeps ==
  ASSUME TaskInv, StartNext
  PROVE  TaskInv'
  <1>  DEFINE t == Head(pending)
  <1>1. /\ running = <<>> /\ running' = <<t>> /\ pending' = Tail(pending)
        /\ active_or_pending' = active_or_pending /\ continuations' = continuations
        /\ stage' = stage
    BY DEF StartNext
  <1>2. /\ pending \in Seq(Task) /\ pending # <<>> /\ Len(pending) \in Nat
        /\ DOMAIN pending = 1..Len(pending)
    BY DEF TaskInv, TaskTypeOK, StartNext
  <1>3. Len(pending) \in Nat \ {0}
    BY <1>2, EmptySeq, Zenon
  <1>4. /\ pending' \in Seq(Task) /\ DOMAIN pending' = 1..(Len(pending) - 1)
        /\ Len(pending') = Len(pending) - 1 /\ t = pending[1]
        /\ \A i \in DOMAIN pending' : pending'[i] = pending[i + 1]
    BY <1>1, <1>2, <1>3
  <1>5. /\ 1 \in DOMAIN pending
        /\ \A i \in DOMAIN pending' : i + 1 \in DOMAIN pending /\ i + 1 # 1
        /\ \A j \in DOMAIN pending \ {1} : j - 1 \in DOMAIN pending' /\ (j - 1) + 1 = j
    BY <1>2, <1>3, <1>4
  <1>6. t \in Task /\ t.elapsed = 0 /\ t.spent = 0
    BY <1>2, <1>4, <1>5 DEF TaskInv, Counted
  <1> HIDE DEF t
  <1>7. TaskTypeOK'
    <2>1. running' \in Seq(Task) /\ Len(running') <= 1
      BY <1>1, <1>6
    <2>2. Len(pending') <= MaxPending
      BY <1>2, <1>4, TaskAssumption DEF TaskInv, TaskTypeOK
    <2> QED
      BY <1>1, <1>4, <2>1, <2>2 DEF TaskInv, TaskTypeOK
  <1>8. PendingLabels' = PendingLabels \ {t.label}
    <2>1. \A j \in DOMAIN pending : pending[j].label = t.label => j = 1
      BY <1>4, <1>5 DEF TaskInv, OneTaskPerLabel
    <2>2. PendingLabels' \subseteq PendingLabels \ {t.label}
      BY <1>4, <1>5, <2>1 DEF PendingLabels
    <2>3. \A j \in DOMAIN pending \ {1} : pending[j].label \in PendingLabels'
      <3>1. ASSUME NEW j \in DOMAIN pending \ {1}
            PROVE  pending[j] = pending'[j - 1] /\ j - 1 \in DOMAIN pending'
        BY <1>4, <1>5
      <3> QED
        BY <3>1 DEF PendingLabels
    <2>4. PendingLabels \ {t.label} \subseteq PendingLabels'
      BY <1>4, <2>3 DEF PendingLabels
    <2> QED
      BY <2>2, <2>4
  <1>9. /\ t.label \in PendingLabels /\ RunningLabels = {} /\ RunningLabels' = {t.label}
        /\ SleepingLabels' = SleepingLabels
    <2>1. t.label \in PendingLabels
      BY <1>4, <1>5 DEF PendingLabels
    <2>2. RunningLabels = {} /\ RunningLabels' = {t.label}
      BY <1>1 DEF RunningLabels
    <2> QED
      BY <1>1, <2>1, <2>2 DEF SleepingLabels
  <1>10. OneTaskPerLabel'
    <2>1. \A i, j \in DOMAIN pending' : pending'[i].label = pending'[j].label => i = j
      <3>1. \A i, j \in DOMAIN pending' : i + 1 = j + 1 => i = j
        BY <1>4
      <3> QED
        BY <1>4, <1>5, <3>1 DEF TaskInv, OneTaskPerLabel
    <2> QED
      BY <1>1, <1>8, <1>9, <2>1 DEF TaskInv, OneTaskPerLabel
  <1>11. Counted' /\ BudgetKept'
    <2>1. running'[1] = t /\ DOMAIN running' = {1} /\ 0 < Budget
      BY <1>1, TaskAssumption
    <2>2. \A i \in DOMAIN pending' : pending'[i].elapsed = 0 /\ pending'[i].spent = 0
      BY <1>4, <1>5 DEF TaskInv, Counted
    <2> QED
      BY <1>1, <1>6, <2>1, <2>2 DEF TaskInv, Counted, BudgetKept
  <1> QED
    BY <1>7, <1>10, <1>11 DEF TaskInv

\* What a slice makes of the running task.
LEMMA ResumedTask ==
  ASSUME TaskInv, running # <<>>, NEW slice \in Slices
  PROVE  /\ Resumed(slice) \in Task
         /\ Resumed(slice).label = running[1].label
         /\ Resumed(slice).elapsed = Resumed(slice).spent
         /\ ~OutOfBudget(slice) => Resumed(slice).spent < Budget
  <1>  DEFINE t == running[1]
              e == t.elapsed + slice
              s == t.spent + slice
  <1>1. t \in Task /\ t.elapsed = t.spent
    BY OneRuns DEF TaskInv, Counted
  <1>2. t.elapsed \in Nat /\ t.spent \in Nat /\ slice \in Nat
    BY <1>1, TaskAssumption DEF Task
  <1>3. e \in Nat /\ s \in Nat /\ e = s
    BY <1>1, <1>2
  <1>4. Resumed(slice) = [t EXCEPT !.elapsed = e, !.spent = s]
    BY DEF Resumed
  <1> HIDE DEF t, e, s
  <1>5. /\ Resumed(slice) \in Task /\ Resumed(slice).label = t.label
        /\ Resumed(slice).elapsed = e /\ Resumed(slice).spent = s
    BY <1>1, <1>3, <1>4 DEF Task
  <1>6. Budget \in Nat
    BY TaskAssumption
  <1> QED
    BY <1>3, <1>5, <1>6 DEF OutOfBudget, t

\* The end of the running task frees its label, and no other.
LEMMA FinishKeeps ==
  ASSUME TaskInv, NEW slice \in Slices, Finish(slice)
  PROVE  TaskInv'
  <1>  DEFINE l == running[1].label
  <1>1. /\ running # <<>> /\ running' = <<>> /\ pending' = pending /\ stage' = stage
        /\ active_or_pending' = active_or_pending \ {l}
        /\ continuations' = SleepersAfter(slice) /\ slice \in Nat
    BY TaskAssumption DEF Finish, Freed
  <1>2. TaskTypeOK'
    BY <1>1, AgedSleepers DEF TaskInv, TaskTypeOK
  <1>3. PendingLabels' = PendingLabels /\ RunningLabels = {l} /\ RunningLabels' = {}
    BY <1>1, OneRuns DEF PendingLabels, RunningLabels, TaskInv
  <1> HIDE DEF l
  <1>4. OneTaskPerLabel'
    BY <1>1, <1>3, AgedSleepers DEF TaskInv, OneTaskPerLabel
  <1>5. Counted' /\ BudgetKept'
    BY <1>1, AgedSleepers DEF TaskInv, Counted, BudgetKept
  <1> QED
    BY <1>2, <1>4, <1>5 DEF TaskInv

\* A host request leaves the task running, with what it has used.
LEMMA HostRequestKeeps ==
  ASSUME TaskInv, NEW slice \in Slices, NEW wait \in Waits, HostRequest(slice, wait)
  PROVE  TaskInv'
  <1>  DEFINE t == Resumed(slice)
  <1>1. /\ running # <<>> /\ ~OutOfBudget(slice) /\ running' = <<t>>
        /\ pending' = pending /\ stage' = stage
        /\ active_or_pending' = active_or_pending
        /\ continuations' = SleepersAfter(slice + wait) /\ slice + wait \in Nat
    BY TaskAssumption DEF HostRequest
  <1>2. /\ t \in Task /\ t.label = running[1].label /\ t.elapsed = t.spent
        /\ t.spent < Budget
    BY <1>1, ResumedTask
  <1> HIDE DEF t
  <1>3. running' \in Seq(Task) /\ Len(running') <= 1 /\ DOMAIN running' = {1} /\ running'[1] = t
    BY <1>1, <1>2
  <1>4. TaskTypeOK'
    BY <1>1, <1>3, AgedSleepers DEF TaskInv, TaskTypeOK
  <1>5. PendingLabels' = PendingLabels /\ RunningLabels' = RunningLabels
    BY <1>1, <1>2, <1>3, OneRuns DEF PendingLabels, RunningLabels, TaskInv
  <1>6. OneTaskPerLabel'
    BY <1>1, <1>5, AgedSleepers DEF TaskInv, OneTaskPerLabel
  <1>7. Counted' /\ BudgetKept'
    BY <1>1, <1>2, <1>3, AgedSleepers DEF TaskInv, Counted, BudgetKept
  <1> QED
    BY <1>4, <1>6, <1>7 DEF TaskInv

\* The running task goes to sleep with its label and its account.
LEMMA SleepKeeps ==
  ASSUME TaskInv, NEW slice \in Slices, NEW ms \in Sleeps, Sleep(slice, ms)
  PROVE  TaskInv'
  <1>  DEFINE t == Resumed(slice)
              sleeper == [task |-> t, ready_in |-> ms]
              old == SleepersAfter(slice)
              n == Len(continuations)
  <1>1. /\ running # <<>> /\ ~OutOfBudget(slice) /\ running' = <<>>
        /\ pending' = pending /\ stage' = stage
        /\ active_or_pending' = active_or_pending
        /\ continuations' = Append(old, sleeper) /\ slice \in Nat /\ ms \in Nat
    BY TaskAssumption DEF Sleep, Asleep
  <1>2. /\ t \in Task /\ t.label = running[1].label /\ t.elapsed = t.spent
        /\ t.spent < Budget
    BY <1>1, ResumedTask
  <1>3. sleeper \in Sleeper /\ sleeper.task = t
    BY <1>1, <1>2 DEF Sleeper
  <1>4. /\ old \in Seq(Sleeper) /\ Len(old) = n /\ DOMAIN old = DOMAIN continuations
        /\ n \in Nat /\ DOMAIN continuations = 1..n
        /\ \A i \in DOMAIN continuations : old[i].task = continuations[i].task
    BY <1>1, SleepersAge DEF TaskInv, TaskTypeOK
  <1> HIDE DEF t, sleeper, old, n
  <1>5. /\ continuations' \in Seq(Sleeper) /\ DOMAIN continuations' = 1..(n + 1)
        /\ \A i \in DOMAIN continuations : continuations'[i] = old[i]
        /\ continuations'[n + 1] = sleeper
    BY <1>1, <1>3, <1>4
  <1>6. /\ \A i \in DOMAIN continuations : continuations'[i].task = continuations[i].task
        /\ continuations'[n + 1].task = t
        /\ DOMAIN continuations' = DOMAIN continuations \cup {n + 1}
    BY <1>3, <1>4, <1>5
  <1>7. TaskTypeOK'
    BY <1>1, <1>5 DEF TaskInv, TaskTypeOK
  <1>8. /\ PendingLabels' = PendingLabels /\ RunningLabels = {t.label} /\ RunningLabels' = {}
    BY <1>1, <1>2, OneRuns DEF PendingLabels, RunningLabels, TaskInv
  <1>9. SleepingLabels' = SleepingLabels \cup {t.label}
    BY <1>6 DEF SleepingLabels
  <1>10. OneTaskPerLabel'
    <2>1. \A i \in DOMAIN continuations : continuations[i].task.label # t.label
      BY <1>8 DEF TaskInv, OneTaskPerLabel, SleepingLabels
    <2>2. \A i, j \in DOMAIN continuations' :
            continuations'[i].task.label = continuations'[j].task.label => i = j
      BY <1>6, <2>1 DEF TaskInv, OneTaskPerLabel
    <2> QED
      BY <1>1, <1>8, <1>9, <2>2 DEF TaskInv, OneTaskPerLabel
  <1>11. Counted' /\ BudgetKept'
    BY <1>1, <1>2, <1>6 DEF TaskInv, Counted, BudgetKept
  <1> QED
    BY <1>7, <1>10, <1>11 DEF TaskInv

-----------------------------------------------------------------------------
(* The theorems. *)

LEMMA TasksInit == TaskInit => TaskInv
  <1> SUFFICES ASSUME TaskInit PROVE TaskInv
    OBVIOUS
  <1>1. TaskTypeOK
    BY TaskAssumption DEF TaskInit, TaskTypeOK
  <1>2. OneTaskPerLabel
    BY DEF TaskInit, OneTaskPerLabel, PendingLabels, RunningLabels, SleepingLabels
  <1>3. Counted /\ BudgetKept
    BY DEF TaskInit, Counted, BudgetKept
  <1> QED
    BY <1>1, <1>2, <1>3 DEF TaskInv

LEMMA TasksNext == TaskInv /\ [TaskNext]_tasks => TaskInv'
  <1> SUFFICES ASSUME TaskInv, [TaskNext]_tasks PROVE TaskInv'
    OBVIOUS
  <1>1. CASE UNCHANGED tasks
    BY <1>1, UnchangedKeeps
  <1>2. CASE \E label \in Registration, callback \in Callback : Schedule(label, callback)
    BY <1>2, ScheduleKeeps
  <1>3. CASE CancelAll
    BY <1>3, CancelAllKeeps
  <1>4. CASE Age
    BY <1>4, AgeKeeps
  <1>5. CASE Drain
    BY <1>5, StageKeeps, ResumeFirstKeeps, StartNextKeeps DEF Drain
  <1>6. CASE \E slice \in Slices : Finish(slice)
    BY <1>6, FinishKeeps
  <1>7. CASE \E slice \in Slices, ms \in Sleeps : Sleep(slice, ms)
    BY <1>7, SleepKeeps
  <1>8. CASE \E slice \in Slices, wait \in Waits : HostRequest(slice, wait)
    BY <1>8, HostRequestKeeps
  <1> QED
    BY <1>1, <1>2, <1>3, <1>4, <1>5, <1>6, <1>7, <1>8 DEF TaskNext

LEMMA TasksInvariant == TaskSpec => []TaskInv
  BY TasksInit, TasksNext, PTL DEF TaskSpec

\* The scheduler never holds more than its capacity, and at most one callback
\* runs, for every capacity and set of registrations.
THEOREM TasksTypeCorrect == TaskSpec => []TaskTypeOK
  BY TasksInvariant, PTL DEF TaskInv

\* A label is busy exactly while one task carries it, for every number of
\* registrations and every order of sleeps, host requests and preemptions.
THEOREM LabelsMatchTasks == TaskSpec => []OneTaskPerLabel
  BY TasksInvariant, PTL DEF TaskInv

\* No callback outlives its budget, however often it sleeps or asks the host.
THEOREM BudgetIsKept == TaskSpec => []BudgetKept
  BY TasksInvariant, PTL DEF TaskInv

-----------------------------------------------------------------------------
(* The callbacks in the event loop. *)

Offered == [label : Registration, callback : Callback \ {"repeat"}]

\* What the handlers offer are callbacks of the script's registrations, and never
\* a loop's repeat.
OffersTyped ==
  /\ offers \in Seq(Offered)
  /\ active_loops \subseteq Looping
  /\ tick \in Nat \ {0}

-----------------------------------------------------------------------------
(* What the handlers offer. *)

LEMMA PressReported ==
  ASSUME NEW loops, loops \subseteq Looping, NEW report \in PressReports(loops)
  PROVE  /\ report.triggered \subseteq Motion
         /\ report.starts_loop => report.triggered \subseteq Looping
         /\ report.ended = {}
  BY DEF PressReports, Report, Nothing, MayTrigger

LEMMA ReleaseReported ==
  ASSUME NEW loops, NEW report \in ReleaseReports(loops)
  PROVE  report.triggered = {} /\ report.starts_loop = FALSE /\ report.ended \subseteq loops
  BY DEF ReleaseReports, Report

LEMMA OfferedByPolicy ==
  ASSUME NEW m \in Looping, NEW kind \in {"before", "after"}
  PROVE  Of(m, kind) \in Seq(Offered)
  <1>1. Offer(m, kind) \in Offered
    BY ControllerAssumption DEF Offer, Offered, Callback
  <1>2. Of(m, kind) = <<>> \/ Of(m, kind) = <<Offer(m, kind)>>
    BY DEF Of
  <1>3. <<>> \in Seq(Offered) /\ \A o \in Offered : <<o>> \in Seq(Offered)
    OBVIOUS
  <1> QED
    BY <1>1, <1>2, <1>3, Zenon

LEMMA OfferedByTrigger ==
  ASSUME NEW report \in PressReports(active_loops), active_loops \subseteq Looping
  PROVE  Triggered(report) \in Seq(Offered)
  <1>1. CASE report.triggered = {}
    BY <1>1 DEF Triggered
  <1>2. CASE report.triggered # {}
    <2>  DEFINE m == CHOOSE x \in report.triggered : TRUE
    <2>1. m \in report.triggered
      BY <1>2
    <2>2. m \in Motion /\ (report.starts_loop => m \in Looping)
      BY <2>1, PressReported
    <2>3. Triggered(report) = IF report.starts_loop THEN Of(m, "before")
                              ELSE IF m \in Looping THEN <<>> ELSE <<Offer(m, "main")>>
      BY <1>2 DEF Triggered
    <2> HIDE DEF m
    <2>4. Offer(m, "main") \in Offered
      BY <2>2, ControllerAssumption DEF Offer, Offered, Callback
    <2> QED
      BY <2>2, <2>3, <2>4, OfferedByPolicy
  <1> QED
    BY <1>1, <1>2

\* SetToSeqs yields sequences, because a script has finitely many loops.
LEMMA OfferedByCancel ==
  ASSUME NEW ended, ended \subseteq Looping, NEW seq \in Cancelled(ended)
  PROVE  seq \in Seq(Offered)
  <1>  DEFINE named == {x \in ended : "after" \in LoopCallbacks[x]}
              after == {Offer(m, "after") : m \in named}
  <1>1. IsFiniteSet(named)
    BY ControllerAssumption, FS_Subset
  <1>2. IsFiniteSet(after)
    <2>  DEFINE f == [m \in named |-> Offer(m, "after")]
    <2> HIDE DEF named
    <2>1. f \in Surjection(named, after)
      BY DEF Surjection
    <2> QED
      BY <1>1, <2>1, FS_Surjection
  <1>3. Cardinality(after) \in Nat
    BY <1>2, FS_CardinalityType
  <1>4. after \subseteq Offered
    BY ControllerAssumption DEF Offer, Offered, Callback
  <1>5. seq \in [1..Cardinality(after) -> after]
    BY DEF Cancelled, SetToSeqs
  <1> HIDE DEF after
  <1>6. seq \in [1..Cardinality(after) -> Offered]
    BY <1>4, <1>5
  <1> QED
    BY <1>3, <1>6

-----------------------------------------------------------------------------
(* The steps of the loop. *)

LEMMA OffersInit == Init => OffersTyped
  BY DEF Init, OffersTyped

\* The offers stay typed.
LEMMA OffersNext == OffersTyped /\ [Next \/ Stopped]_vars => OffersTyped'
  <1> SUFFICES ASSUME OffersTyped, [Next \/ Stopped]_vars PROVE OffersTyped'
    OBVIOUS
  <1>1. CASE OfferNext
    BY <1>1 DEF OfferNext, OffersTyped, place
  <1>2. CASE InputPressed
    <2>1. PICK report \in PressReports(active_loops), pressed \in {{}} \cup {{p} : p \in Presses} :
            /\ active_loops' = LoopsAfter(active_loops, report)
            /\ offers' = (IF pressed = {} THEN <<>>
                          ELSE <<Offer(CHOOSE p \in pressed : TRUE, "main")>>) \o Triggered(report)
      BY <1>2 DEF InputPressed
    <2>2. Triggered(report) \in Seq(Offered)
      BY OfferedByTrigger DEF OffersTyped
    <2>  DEFINE p == CHOOSE x \in pressed : TRUE
                first == IF pressed = {} THEN <<>> ELSE <<Offer(p, "main")>>
    <2>3. first \in Seq(Offered)
      <3>1. pressed # {} => p \in Registration
        BY ControllerAssumption
      <3>2. pressed # {} => Offer(p, "main") \in Offered
        BY <3>1 DEF Offer, Offered, Callback
      <3>3. <<>> \in Seq(Offered) /\ \A o \in Offered : <<o>> \in Seq(Offered)
        OBVIOUS
      <3> QED
        BY <3>2, <3>3, Zenon
    <2> HIDE DEF first
    <2>4. offers' \in Seq(Offered)
      <3>1. offers' = first \o Triggered(report)
        BY <2>1 DEF first
      <3> QED
        BY <2>2, <2>3, <3>1
    <2>5. active_loops' \subseteq Looping
      BY <2>1, PressReported DEF LoopsAfter, OffersTyped
    <2> QED
      BY <1>2, <2>4, <2>5 DEF InputPressed, OffersTyped
  <1>3. CASE InputToggles
    BY <1>3, PressReported DEF InputToggles, LoopsAfter, OffersTyped
  <1>4. CASE InputReleased
    <2>1. PICK report \in ReleaseReports(active_loops) :
            /\ active_loops' = LoopsAfter(active_loops, report)
            /\ offers' \in Cancelled(report.ended)
      BY <1>4 DEF InputReleased
    <2>2. report.ended \subseteq Looping
      BY ReleaseReported DEF OffersTyped
    <2>3. offers' \in Seq(Offered)
      BY <2>1, <2>2, OfferedByCancel
    <2>4. active_loops' \subseteq Looping
      BY <2>1, ReleaseReported DEF LoopsAfter, OffersTyped
    <2> QED
      BY <1>4, <2>3, <2>4 DEF InputReleased, OffersTyped
  <1>5. CASE DrainTasks
    BY <1>5 DEF DrainTasks, OffersTyped, place
  <1>6. CASE LookAtRepeat
    BY <1>6 DEF LookAtRepeat, OffersTyped
  <1>7. CASE \/ PopShortcut \/ FinishShortcuts \/ RunTask \/ TaskFails \/ FinishInputs
             \/ FinishRepeats \/ Wakes \/ KwinCalls \/ Signal \/ Time \/ Stopped
             \/ UNCHANGED vars
    BY <1>7 DEF PopShortcut, FinishShortcuts, RunTask, TaskFails, FinishInputs, FinishRepeats,
       Wakes, WakeByTimer, WakeByCallback, WakeBySignal, KwinCalls, Signal, Time, Stopped,
       OffersTyped, vars, place
  <1> QED
    BY <1>1, <1>2, <1>3, <1>4, <1>5, <1>6, <1>7 DEF Next, Loop, Wakes, Input

\* Whatever the loop does, it makes of the callbacks a step of TaskSpec.
LEMMA LoopMakesTaskSteps == OffersTyped /\ [Next \/ Stopped]_vars => [TaskNext]_tasks
  <1> SUFFICES ASSUME OffersTyped, [Next \/ Stopped]_vars PROVE [TaskNext]_tasks
    OBVIOUS
  <1>1. CASE OfferNext
    <2>1. Head(offers) \in Offered
      BY <1>1, EmptySeq DEF OfferNext, OffersTyped
    <2>2. Head(offers).label \in Registration /\ Head(offers).callback \in Callback
      BY <2>1 DEF Offered
    <2> QED
      BY <1>1, <2>2 DEF OfferNext, Ask, TaskNext
  <1>2. CASE PopShortcut
    <2>1. Hotkeys \subseteq Registration /\ "main" \in Callback
      BY ControllerAssumption DEF Callback
    <2> QED
      BY <1>2, <2>1 DEF PopShortcut, Ask, TaskNext
  <1>3. CASE LookAtRepeat
    <2>1. RepeatOrder[tick] \in Registration /\ "repeat" \in Callback
      <3>1. tick \in 1..Len(RepeatOrder)
        BY <1>3, ControllerAssumption DEF LookAtRepeat, OffersTyped
      <3> QED
        BY <3>1, ControllerAssumption DEF Callback
    <2> QED
      BY <1>3, <2>1 DEF LookAtRepeat, Ask, TaskNext
  <1>4. CASE DrainTasks \/ FinishShortcuts \/ FinishInputs \/ FinishRepeats
    BY <1>4 DEF DrainTasks, FinishShortcuts, FinishInputs, FinishRepeats, TaskNext, Drain
  <1>5. CASE RunTask
    BY <1>5 DEF RunTask, TaskNext
  <1>6. CASE WakeBySignal \/ Time
    BY <1>6 DEF WakeBySignal, Time, TaskNext
  <1>7. CASE \/ TaskFails \/ WakeByTimer \/ WakeByCallback \/ Input \/ KwinCalls \/ Signal
             \/ Stopped \/ UNCHANGED vars
    BY <1>7 DEF TaskFails, WakeByTimer, WakeByCallback, Input, InputPressed, InputToggles,
       InputReleased, KwinCalls, Signal, Stopped, vars
  <1> QED
    BY <1>1, <1>2, <1>3, <1>4, <1>5, <1>6, <1>7 DEF Next, Loop, Wakes

-----------------------------------------------------------------------------
(* The shape of the loop's own state. *)

\* TypeOK, less the callbacks and the offers, with last_tick as a function.
LoopTyped ==
  /\ pc \in Place /\ then \in {"wait", "repeats", "shortcuts"}
  /\ tick \in 1..(Len(RepeatOrder) + 1)
  /\ last_tick \in [Looping -> Nat]
  /\ \A m \in Looping : last_tick[m] <= Interval[m]
  /\ focused \in BOOLEAN /\ wake \in BOOLEAN /\ signalled \in BOOLEAN
  /\ callbacks \in Seq(Shortcut)

\* Time does not take a tick past its interval.
LEMMA SinceTyped ==
  ASSUME LoopTyped, NEW ms \in Nat
  PROVE  /\ Since(ms) \in [Looping -> Nat]
         /\ \A m \in Looping : Since(ms)[m] <= Interval[m]
  BY ControllerAssumption DEF LoopTyped, Since

\* What time does to the loop's state.
LEMMA LastsTyped ==
  ASSUME LoopTyped, NEW ms \in Nat, Lasts(ms)
  PROVE  /\ last_tick' \in [Looping -> Nat]
         /\ \A m \in Looping : last_tick'[m] <= Interval[m]
         /\ focused' \in BOOLEAN
  BY SinceTyped DEF LoopTyped, Lasts

LEMMA LoopTypedInit == Init => LoopTyped
  <1>1. Len(RepeatOrder) \in Nat
    BY ControllerAssumption
  <1>2. 1 \in 1..(Len(RepeatOrder) + 1)
    BY <1>1
  <1>3. Interval \in [Looping -> Nat] /\ \A m \in Looping : Interval[m] <= Interval[m]
    BY ControllerAssumption
  <1>4. <<>> \in Seq(Shortcut)
    OBVIOUS
  <1> QED
    BY <1>2, <1>3, <1>4 DEF Init, LoopTyped, Place

\* The steps that move the loop on without touching its clocks.
LEMMA ControlTyped ==
  ASSUME LoopTyped,
         \/ FinishShortcuts \/ DrainTasks \/ TaskFails \/ WakeByTimer \/ WakeBySignal
         \/ InputToggles \/ FinishInputs \/ FinishRepeats \/ Stopped \/ UNCHANGED vars
  PROVE  LoopTyped'
  <1>1. Len(RepeatOrder) \in Nat
    BY ControllerAssumption
  <1>2. 1 \in 1..(Len(RepeatOrder) + 1)
    BY <1>1
  <1>3. CASE FinishShortcuts \/ TaskFails \/ WakeByTimer \/ WakeBySignal
    BY <1>3 DEF FinishShortcuts, TaskFails, WakeByTimer, WakeBySignal, LoopTyped, Place, inbox
  <1>4. CASE DrainTasks
    BY <1>2, <1>4 DEF DrainTasks, LoopTyped, Place, place, inbox
  <1>5. CASE InputToggles \/ FinishInputs \/ FinishRepeats
    BY <1>5 DEF InputToggles, FinishInputs, FinishRepeats, LoopTyped, Place, inbox
  <1>6. CASE Stopped \/ UNCHANGED vars
    BY <1>6 DEF Stopped, vars, LoopTyped, place, inbox
  <1> QED
    BY <1>3, <1>4, <1>5, <1>6

\* The steps that touch the clocks, the inbox or the input.
LEMMA LoopTypedNext == LoopTyped /\ OffersTyped /\ [Next \/ Stopped]_vars => LoopTyped'
  <1> SUFFICES ASSUME LoopTyped, OffersTyped, [Next \/ Stopped]_vars PROVE LoopTyped'
    OBVIOUS
  <1>1. CASE PopShortcut
    <2>1. callbacks \in Seq(Shortcut) /\ callbacks # <<>>
      BY <1>1 DEF PopShortcut, Mailbox!Take, LoopTyped
    <2>2. Head(callbacks) \in Shortcut /\ Tail(callbacks) \in Seq(Shortcut)
      BY <2>1
    <2> QED
      BY <1>1, <2>2 DEF PopShortcut, Mailbox!Take, LoopTyped, Shortcut, place
  <1>2. CASE RunTask
    <2>1. PICK ms \in Nat : Lasts(ms)
      BY <1>2, TaskAssumption DEF RunTask
    <2>2. /\ last_tick' \in [Looping -> Nat]
          /\ \A m \in Looping : last_tick'[m] <= Interval[m]
          /\ focused' \in BOOLEAN
      BY <2>1, LastsTyped
    <2> QED
      BY <1>2, <2>2 DEF RunTask, LoopTyped, place, inbox
  <1>3. CASE Time
    BY <1>3, LastsTyped DEF Time, LoopTyped, place, inbox
  <1>4. CASE OfferNext \/ Signal
    BY <1>4 DEF OfferNext, Signal, LoopTyped, place, inbox
  <1>5. CASE WakeByCallback
    BY <1>5 DEF WakeByCallback, Mailbox!Acknowledge, LoopTyped, Place
  <1>6. CASE KwinCalls
    <2>1. PICK message \in Shortcut :
            callbacks' = IF Len(callbacks) < Capacity THEN Append(callbacks, message)
                         ELSE callbacks
      BY <1>6 DEF KwinCalls, Mailbox!Post
    <2>2. callbacks' \in Seq(Shortcut)
      BY <2>1 DEF LoopTyped
    <2> QED
      BY <1>6, <2>2 DEF KwinCalls, Mailbox!Post, LoopTyped, place
  <1>7. CASE InputPressed
    BY <1>7, ControllerAssumption DEF InputPressed, LoopTyped, Place, inbox
  <1>8. CASE InputReleased
    BY <1>8, ControllerAssumption DEF InputReleased, LoopTyped, Place, inbox
  <1>9. CASE LookAtRepeat
    <2>1. Len(RepeatOrder) \in Nat /\ tick \in 1..Len(RepeatOrder)
      BY <1>9, ControllerAssumption DEF LookAtRepeat, LoopTyped
    <2>2. RepeatOrder[tick] \in Looping
      BY <2>1, ControllerAssumption
    <2>3. tick' \in 1..(Len(RepeatOrder) + 1)
      BY <1>9, <2>1 DEF LookAtRepeat
    <2>4. /\ last_tick' \in [Looping -> Nat]
          /\ \A m \in Looping : last_tick'[m] <= Interval[m]
      <3>  DEFINE r == RepeatOrder[tick]
      <3>1. \A n \in Nat : n <= Interval[r] =>
              /\ [last_tick EXCEPT ![r] = n] \in [Looping -> Nat]
              /\ \A m \in Looping : [last_tick EXCEPT ![r] = n][m] <= Interval[m]
        BY <2>2 DEF LoopTyped
      <3>2. Interval[r] \in Nat
        BY <2>2, ControllerAssumption
      <3>3. \E n \in Nat : n <= Interval[r] /\ last_tick' \in {last_tick, [last_tick EXCEPT ![r] = n]}
        <4>1. last_tick' \in {last_tick, [last_tick EXCEPT ![r] = 0],
                              [last_tick EXCEPT ![r] = Interval[r]]}
          BY <1>9 DEF LookAtRepeat
        <4> HIDE DEF r
        <4> QED
          BY <3>2, <4>1
      <3> QED
        BY <3>1, <3>3 DEF LoopTyped
    <2> QED
      BY <1>9, <2>3, <2>4 DEF LookAtRepeat, LoopTyped, inbox
  <1> QED
    BY <1>1, <1>2, <1>3, <1>4, <1>5, <1>6, <1>7, <1>8, <1>9, ControlTyped
    DEF Next, Loop, Wakes, Input

-----------------------------------------------------------------------------
(* The theorems. *)

\* The controller's event loop implements the callback tasks: it adds no other
\* way to accept, run, suspend, end or cancel a callback.
THEOREM LoopImplementsTasks == Spec => TaskSpec
  <1>1. Init => TaskInit
    BY DEF Init
  <1> QED
    BY <1>1, OffersInit, OffersNext, LoopMakesTaskSteps, PTL DEF Spec, TaskSpec

\* In the event loop a label is busy exactly while one callback carries it, no
\* callback outlives its budget, and every variable keeps its shape, for every
\* script.
THEOREM LoopIsSound == Spec => []Inv
  <1>1. OffersTyped /\ LoopTyped /\ TaskTypeOK => TypeOK
    <2> SUFFICES ASSUME OffersTyped, LoopTyped, TaskTypeOK PROVE TypeOK
      OBVIOUS
    <2>1. \A i \in DOMAIN offers : offers[i].label \in Registration /\ offers[i].callback \in Callback
      <3>1. offers \in Seq(Offered)
        BY DEF OffersTyped
      <3>2. \A i \in DOMAIN offers : offers[i] \in Offered
        BY <3>1
      <3> QED
        BY <3>2 DEF Offered
    <2>2. \A m \in Looping : last_tick[m] \in 0..Interval[m]
      BY ControllerAssumption DEF LoopTyped
    <2> QED
      BY <2>1, <2>2 DEF TypeOK, OffersTyped, LoopTyped
  <1>2. Spec => []TaskTypeOK /\ []OneTaskPerLabel /\ []BudgetKept
    BY LoopImplementsTasks, TasksTypeCorrect, LabelsMatchTasks, BudgetIsKept, PTL
  <1>3. Spec => []OffersTyped /\ []LoopTyped
    BY OffersInit, OffersNext, LoopTypedInit, LoopTypedNext, PTL DEF Spec
  <1> QED
    BY <1>1, <1>2, <1>3, PTL DEF Inv

-----------------------------------------------------------------------------
(* Time is kept. *)

\* Only the handler of an input offers, and the loop goes on to the callbacks when
\* it has offered all.
OffersAreInputs == offers # <<>> => pc = "inputs"

\* The wait comes after a drain, and nothing is accepted in it.
RestsInWait == pc = "wait" => pending = <<>> /\ running = <<>>

\* No tick of a running loop is nearer than the time its loop has been calm; one
\* that is off has lost its tick, and gets a new one when it starts.
CalmCovers ==
  /\ calm \in [Looping -> Nat]
  /\ \A m \in active_loops : last_tick[m] <= calm[m]

LEMMA TimeInit == Init => OffersAreInputs /\ RestsInWait /\ CalmCovers
  BY ControllerAssumption DEF Init, OffersAreInputs, RestsInWait, CalmCovers

\* What is offered and when the loop rests, by every step of the loop.
LEMMA RestNext ==
  OffersAreInputs /\ RestsInWait /\ [Next \/ Stopped]_vars => OffersAreInputs' /\ RestsInWait'
  <1> SUFFICES ASSUME OffersAreInputs, RestsInWait, [Next \/ Stopped]_vars
               PROVE  OffersAreInputs' /\ RestsInWait'
    OBVIOUS
  <1>1. CASE OfferNext
    BY <1>1 DEF OfferNext, place, OffersAreInputs, RestsInWait
  <1>2. CASE DrainTasks
    BY <1>2 DEF DrainTasks, ResumeFirst, NoneReady, StartNext, EndDrain, place,
                OffersAreInputs, RestsInWait
  <1>3. CASE FinishShortcuts \/ FinishInputs \/ FinishRepeats
    BY <1>3 DEF FinishShortcuts, FinishInputs, FinishRepeats, Draining,
                OffersAreInputs, RestsInWait
  <1>4. CASE PopShortcut \/ RunTask \/ LookAtRepeat
    BY <1>4 DEF PopShortcut, Draining, RunTask, LookAtRepeat, place, OffersAreInputs, RestsInWait
  <1>5. CASE TaskFails \/ WakeByTimer \/ WakeByCallback \/ WakeBySignal
    BY <1>5 DEF TaskFails, WakeByTimer, WakeByCallback, WakeBySignal,
                OffersAreInputs, RestsInWait
  <1>6. CASE Input
    BY <1>6 DEF Input, InputPressed, InputToggles, InputReleased, OffersAreInputs, RestsInWait
  <1>7. CASE KwinCalls \/ Signal \/ Time \/ Stopped \/ UNCHANGED vars
    BY <1>7 DEF KwinCalls, Signal, Time, Age, Stopped, vars, place, tasks,
                OffersAreInputs, RestsInWait
  <1> QED
    BY <1>1, <1>2, <1>3, <1>4, <1>5, <1>6, <1>7 DEF Next, Loop, Wakes

\* Time brings a tick nearer and keeps a loop calm.
LEMMA LastsCalm ==
  ASSUME LoopTyped, OffersTyped, CalmCovers, NEW ms \in Nat, Lasts(ms),
         active_loops' = active_loops
  PROVE  CalmCovers'
  <1>1. \A m \in Looping : Interval[m] \in Nat /\ last_tick[m] \in Nat /\ calm[m] \in Nat
    BY ControllerAssumption DEF LoopTyped, CalmCovers
  <1>2. /\ last_tick' = [m \in Looping |-> Since(ms)[m]]
        /\ calm' = [m \in Looping |-> CalmFor(ms)[m]]
        /\ \A m \in Looping :
             /\ Since(ms)[m] = IF last_tick[m] + ms < Interval[m] THEN last_tick[m] + ms
                               ELSE Interval[m]
             /\ CalmFor(ms)[m] = IF calm[m] + ms < Interval[m] THEN calm[m] + ms
                                 ELSE Interval[m]
    BY DEF Lasts, Since, CalmFor
  <1>3. \A m \in Looping : /\ last_tick[m] <= calm[m] => Since(ms)[m] <= CalmFor(ms)[m]
                           /\ CalmFor(ms)[m] \in Nat
    <2> SUFFICES ASSUME NEW m \in Looping
                 PROVE  /\ last_tick[m] <= calm[m] => Since(ms)[m] <= CalmFor(ms)[m]
                        /\ CalmFor(ms)[m] \in Nat
      OBVIOUS
    <2>1. /\ Since(ms)[m] = IF last_tick[m] + ms < Interval[m] THEN last_tick[m] + ms
                            ELSE Interval[m]
          /\ CalmFor(ms)[m] = IF calm[m] + ms < Interval[m] THEN calm[m] + ms ELSE Interval[m]
      BY <1>2
    <2>2. Interval[m] \in Nat /\ last_tick[m] \in Nat /\ calm[m] \in Nat
      BY <1>1
    <2> QED
      BY <2>1, <2>2
  <1>4. active_loops \subseteq Looping
    BY DEF OffersTyped
  <1> QED
    BY <1>2, <1>3, <1>4 DEF CalmCovers

\* What a step does to the clocks of a running loop: both start over when it does,
\* a repeat sets its tick back first, and time is the same for both.
LEMMA CalmNext ==
  OffersTyped /\ LoopTyped /\ CalmCovers /\ [Next \/ Stopped]_vars => CalmCovers'
  <1> SUFFICES ASSUME OffersTyped, LoopTyped, CalmCovers, [Next \/ Stopped]_vars
               PROVE  CalmCovers'
    OBVIOUS
  <1>1. \A m \in Looping : Interval[m] \in Nat /\ last_tick[m] \in Nat /\ calm[m] \in Nat
    BY ControllerAssumption DEF LoopTyped, CalmCovers
  <1>0. active_loops \subseteq Looping
    BY DEF OffersTyped
  <1>2. CASE RunTask
    <2>1. PICK ms \in Nat : Lasts(ms)
      BY <1>2, TaskAssumption DEF RunTask
    <2> QED
      BY <1>2, <2>1, LastsCalm DEF RunTask
  <1>3. CASE Time
    BY <1>3, LastsCalm DEF Time
  <1>4. CASE InputPressed
    <2> PICK report \in PressReports(active_loops) :
          /\ active_loops' = LoopsAfter(active_loops, report)
          /\ last_tick' = [m \in Looping |->
                             IF m \in {n \in report.triggered : report.starts_loop}
                             THEN 0 ELSE last_tick[m]]
          /\ calm' = [m \in Looping |-> IF m \in {n \in report.triggered : report.starts_loop}
                                        THEN 0 ELSE calm[m]]
      BY <1>4 DEF InputPressed
    <2>1. /\ report.ended = {}
          /\ {n \in report.triggered : report.starts_loop} \subseteq Looping
      BY PressReported DEF OffersTyped
    <2>2. active_loops' = active_loops \cup {n \in report.triggered : report.starts_loop}
      BY <2>1 DEF LoopsAfter
    <2>3. calm' \in [Looping -> Nat]
      BY <1>1
    <2>4. \A m \in active_loops' : last_tick'[m] <= calm'[m]
      BY <1>0, <1>1, <2>1, <2>2 DEF CalmCovers
    <2> QED
      BY <2>3, <2>4 DEF CalmCovers
  <1>5. CASE InputToggles
    <2> PICK report \in PressReports(active_loops) :
          active_loops' = LoopsAfter(active_loops, report)
      BY <1>5 DEF InputToggles
    <2>1. active_loops' \subseteq Looping
      BY <1>0, PressReported DEF LoopsAfter, OffersTyped
    <2>2. /\ last_tick' = last_tick
          /\ calm' = [m \in Looping |-> IF m \in active_loops' \ active_loops THEN Interval[m]
                                        ELSE calm[m]]
      BY <1>5 DEF InputToggles
    <2>3. calm' \in [Looping -> Nat]
      BY <1>1, <2>2
    <2>4. \A m \in active_loops' : last_tick'[m] <= calm'[m]
      BY <1>1, <2>1, <2>2 DEF CalmCovers, LoopTyped
    <2> QED
      BY <2>3, <2>4 DEF CalmCovers
  <1>6. CASE InputReleased
    <2> PICK report \in ReleaseReports(active_loops) :
          /\ active_loops' = LoopsAfter(active_loops, report)
          /\ last_tick' = [m \in Looping |-> IF m \in report.ended THEN Interval[m]
                                             ELSE last_tick[m]]
          /\ calm' = calm
      BY <1>6 DEF InputReleased
    <2>1. active_loops' = active_loops \ report.ended
      BY ReleaseReported DEF LoopsAfter
    <2> QED
      BY <1>0, <1>1, <2>1 DEF CalmCovers
  <1>7. CASE LookAtRepeat
    <2> PICK r : r = RepeatOrder[tick]
      OBVIOUS
    <2>1. r \in Looping
      BY <1>7, ControllerAssumption DEF LookAtRepeat, LoopTyped
    <2>2. active_loops' = active_loops
      BY <1>7 DEF LookAtRepeat
    <2>3. CASE r \notin active_loops
      <3>1. last_tick' = [last_tick EXCEPT ![r] = Interval[r]] /\ calm' = calm
        BY <1>7, <2>3 DEF LookAtRepeat
      <3> QED
        BY <1>0, <1>1, <2>1, <2>2, <2>3, <3>1 DEF CalmCovers, LoopTyped
    <2>4. CASE r \in active_loops
      <3>1. \/ last_tick' = last_tick /\ calm' = calm
            \/ /\ last_tick' = [last_tick EXCEPT ![r] = 0]
               /\ calm' \in {calm, [calm EXCEPT ![r] = 0]}
        BY <1>7, <2>4 DEF LookAtRepeat
      <3>2. last_tick \in [Looping -> Nat] /\ calm \in [Looping -> Nat]
        BY DEF LoopTyped, CalmCovers
      <3> QED
        BY <1>0, <1>1, <2>1, <2>2, <2>4, <3>1, <3>2 DEF CalmCovers
    <2> QED
      BY <2>3, <2>4
  <1>8. CASE \/ OfferNext \/ PopShortcut \/ FinishShortcuts \/ DrainTasks \/ TaskFails
             \/ FinishInputs \/ FinishRepeats \/ Wakes \/ KwinCalls \/ Signal \/ Stopped
             \/ UNCHANGED vars
    <2>1. calm' = calm /\ last_tick' = last_tick /\ active_loops' = active_loops
      BY <1>8 DEF OfferNext, PopShortcut, FinishShortcuts, DrainTasks, TaskFails, FinishInputs,
         FinishRepeats, Wakes, WakeByTimer, WakeByCallback, WakeBySignal, KwinCalls, Signal,
         Stopped, vars
    <2> QED
      BY <2>1 DEF CalmCovers
  <1> QED
    BY <1>2, <1>3, <1>4, <1>5, <1>6, <1>7, <1>8 DEF Next, Loop, Input

\* Time passes in a wait only while nothing is pending, ready or due.
LEMMA WaitHasNoWork ==
  ASSUME LoopTyped, OffersTyped, TaskTypeOK, RestsInWait, pc = "wait", Time
  PROVE  /\ pending = <<>> /\ running = <<>> /\ Ready = {}
         /\ \A m \in active_loops : last_tick[m] < Interval[m]
  <1>1. 0 \notin Deadlines
    BY DEF Time
  <1>2. \A i \in DOMAIN continuations : continuations[i].ready_in # 0
    BY <1>1 DEF Deadlines
  <1>3. \A m \in active_loops : DueIn(m) # 0
    BY <1>1 DEF Deadlines
  <1>4. \A m \in active_loops : /\ Interval[m] \in Nat /\ last_tick[m] \in Nat
                                /\ last_tick[m] <= Interval[m]
    BY ControllerAssumption DEF LoopTyped, OffersTyped
  <1> QED
    BY <1>2, <1>3, <1>4 DEF RestsInWait, Ready, DueIn

\* What is accepted as a repeat is the entry looked at, whose loop runs and is due.
LEMMA RepeatsAreTicks ==
  ASSUME LoopTyped, OffersTyped, TaskTypeOK, CalmCovers, [Next \/ Stopped]_vars,
         NEW m \in AcceptedRepeats
  PROVE  calm[m] >= Interval[m]
  <1>1. /\ pending \in Seq(Task) /\ Len(pending) \in Nat
        /\ Len(pending') > Len(pending)
        /\ pending'[Len(pending')].label = m /\ pending'[Len(pending')].callback = "repeat"
        /\ m \in Looping
    BY DEF AcceptedRepeats, TaskTypeOK
  <1>2. \A label, callback : Schedule(label, callback) => label = m /\ callback = "repeat"
    <2> SUFFICES ASSUME NEW label, NEW callback, Schedule(label, callback)
                 PROVE  label = m /\ callback = "repeat"
      OBVIOUS
    <2> PICK e : e = [label |-> label, callback |-> callback, elapsed |-> 0, spent |-> 0]
      OBVIOUS
    <2>1. pending' = Append(pending, e)
      BY <1>1 DEF Schedule
    <2>2. pending'[Len(pending')] = e
      BY <1>1, <2>1
    <2> QED
      BY <1>1, <2>2
  <1>3. \A label, callback, in_focus :
          Ask(label, callback, in_focus) => label = m /\ callback = "repeat"
    BY <1>1, <1>2 DEF Ask, tasks
  <1>4. ~OfferNext
    <2>1. offers # <<>> => Head(offers) \in Offered
      BY EmptySeq DEF OffersTyped
    <2>2. offers # <<>> => Head(offers).callback # "repeat"
      BY <2>1 DEF Offered
    <2> QED
      BY <1>3, <2>2 DEF OfferNext
  <1>5. ~PopShortcut
    <2>1. pending' # pending
      BY <1>1
    <2> QED
      BY <1>3, <2>1 DEF PopShortcut, tasks
  <1>6. ~DrainTasks
    BY <1>1 DEF DrainTasks, ResumeFirst, NoneReady, StartNext, EndDrain
  <1>7. CASE LookAtRepeat
    <2> PICK r : r = RepeatOrder[tick]
      OBVIOUS
    <2>1. pending' # pending
      BY <1>1
    <2>2. r \in active_loops /\ last_tick[r] >= Interval[r] /\ Ask(r, "repeat", focused)
      BY <1>7, <2>1 DEF LookAtRepeat, tasks
    <2>3. r = m
      BY <1>3, <2>2
    <2>4. last_tick[m] \in Nat /\ calm[m] \in Nat /\ Interval[m] \in Nat /\ last_tick[m] <= calm[m]
      BY <1>1, <2>2, <2>3, ControllerAssumption DEF LoopTyped, CalmCovers
    <2> QED
      BY <2>2, <2>3, <2>4
  <1>8. ~( \/ FinishShortcuts \/ RunTask \/ TaskFails \/ FinishInputs \/ FinishRepeats
           \/ Wakes \/ Input \/ KwinCalls \/ Signal \/ Time \/ Stopped \/ UNCHANGED vars)
    <2>1. pending' # pending /\ pending' # <<>>
      <3>1. Len(<<>>) = 0
        OBVIOUS
      <3> QED
        BY <1>1, <3>1
    <2> QED
      BY <2>1 DEF FinishShortcuts, StartDrain, RunTask, Finish, Sleep, HostRequest, TaskFails,
         FinishInputs, FinishRepeats, Wakes, WakeByTimer, WakeByCallback, WakeBySignal, CancelAll,
         Input, InputPressed, InputToggles, InputReleased, KwinCalls, Signal, Time, Age, Stopped,
         vars, tasks
  <1> QED
    BY <1>4, <1>5, <1>6, <1>7, <1>8 DEF Next, Loop

\* For every script, interval and budget: the loop sleeps past no accepted callback,
\* ready sleeper or due loop, and repeats are never nearer than their interval to
\* the last one or to their loop's start, however long callbacks keep the thread.
THEOREM LoopKeepsTime == Spec => TimeIsKept
  <1>1. Spec => []TaskTypeOK
    BY LoopImplementsTasks, TasksTypeCorrect, PTL
  <1>2. Spec => []OffersTyped /\ []LoopTyped
    BY OffersInit, OffersNext, LoopTypedInit, LoopTypedNext, PTL DEF Spec
  <1>3. Spec => []RestsInWait
    BY TimeInit, RestNext, PTL DEF Spec
  <1>4. Spec => []CalmCovers
    BY TimeInit, CalmNext, <1>2, PTL DEF Spec
  <1>5. LoopTyped /\ OffersTyped /\ TaskTypeOK /\ RestsInWait
          => (pc = "wait" /\ Time
                => /\ pending = <<>> /\ running = <<>> /\ Ready = {}
                   /\ \A m \in active_loops : last_tick[m] < Interval[m])
    BY WaitHasNoWork
  <1>6. Spec => NeverSleepsPastWork
    BY <1>1, <1>2, <1>3, <1>5, PTL DEF Spec, NeverSleepsPastWork
  <1>7. LoopTyped /\ OffersTyped /\ TaskTypeOK /\ CalmCovers /\ [Next \/ Stopped]_vars
          => \A m \in AcceptedRepeats : calm[m] >= Interval[m]
    BY RepeatsAreTicks
  <1>8. Spec => RepeatsKeepTheirInterval
    BY <1>1, <1>2, <1>4, <1>7, PTL DEF Spec, RepeatsKeepTheirInterval
  <1> QED
    BY <1>6, <1>8 DEF TimeIsKept
=============================================================================
