-------------------------- MODULE RunnerSessionProofs --------------------------
(* What runners leave on the desktop, whose scripts are taken from it, and    *)
(* whose the keys are, for every number of runners, any scripts and limits,   *)
(* and failing calls of any of them.                                          *)
EXTENDS RunnerSession, SequenceTheorems, TLAPS

JobType == [why : {"make", "window", "purge", "disable", "unload"},
            at : {"write", "load", "start", "unload", "unregister", "remove"},
            script : KwinScript]

Early == {"prepare", "monitor", "hotkeys", "developer"}

\* A runner that has ended does nothing any more, one that has not begun has
\* made no script, and the stages of a startup are those of its plan.
Staged ==
  \A p \in Pids :
    /\ ended[p] # "" => stage[p] = "off"
    /\ stage[p] = "new" => next[p] = 0
    /\ stage[p] \in Early => stage[p] \in Range(script[p].plan)
    /\ stage[p] \in {"new", "off"} => job[p] = NoJob /\ bridge[p] = "none"

\* A runner's handles are its own, and a purge is for the scripts of dead runners.
Tied ==
  \A p \in Pids : /\ \A s \in handles[p] : s.pid = p
                  /\ \A a \in stale[p] : a.pid # p /\ stage[a.pid] = "off"

\* So is the script of a job; it is not loaded before its turn, and gone from
\* KWin and KGlobalAccel when its file is removed.
JobSound(p) ==
  LET s == job[p].script
  IN /\ job[p].why # "purge" => s.pid = p
     /\ job[p].why = "purge" => s.pid # p /\ stage[s.pid] = "off"
     /\ job[p].at \in {"write", "load", "start"} => job[p].why = "make"
     /\ job[p].why = "make" => s.n <= next[p]
     /\ job[p].why # "purge" /\ p \notin faults =>
          /\ job[p].at \in {"write", "load", "unregister", "remove"} => s \notin loaded
          /\ job[p].at \in {"write", "load", "remove"} => s \notin actions

Jobs == \A p \in Pids : job[p] # NoJob => JobSound(p)

\* What a runner has on the desktop is in its hands.
Held(p) ==
  \A s \in Leftovers(p) : s \in handles[p] \/ (job[p] # NoJob /\ job[p].script = s)

\* next_index is ahead of every script there is.
Numbered == \A s \in loaded \cup actions : s.n <= next[s.pid]

IInv == TypeOK /\ Staged /\ Tied /\ Jobs /\ Numbered /\ EveryScriptIsHeld /\ NothingLeftBehind

-----------------------------------------------------------------------------
(* The operators.                                                            *)

LEMMA NoJobIsNone == NoJob \notin JobType
  BY DEF NoJob, JobType

LEMMA NextIsNat ==
  ASSUME TypeOK, NEW p \in Pids
  PROVE  next \in [Pids -> Nat] /\ next[p] \in Nat /\ next[p] <= next[p]
  <1>1. next \in [Pids -> Nat]
    BY DEF TypeOK
  <1>2. next[p] \in Nat
    BY <1>1
  <1>3. next[p] <= next[p]
    BY <1>2
  <1> QED
    BY <1>1, <1>2, <1>3

LEMMA PlansOfScripts ==
  ASSUME TypeOK, NEW p \in Pids
  PROVE  script[p].plan \in Plans /\ script[p].hotkeys \in Seq(Keys)
  BY SessionAssumption DEF TypeOK, Script

LEMMA TasksAreKinds ==
  ASSUME TypeOK, NEW p \in Pids, NEW s
  PROVE  Tasks(p, s) \in Seq(Kinds)
  <1>1. script[p].hotkeys \in Seq(Kinds)
    <2>1. Keys \subseteq Kinds
      BY DEF Kinds, Shortcuts
    <2> QED
      BY <2>1, PlansOfScripts
  <1>2. <<"monitor">> \in Seq(Kinds) /\ <<Toggle>> \in Seq(Kinds) /\ <<>> \in Seq(Kinds)
    BY DEF Kinds, Shortcuts
  <1> QED
    BY <1>1, <1>2 DEF Tasks

LEMMA RestIsKinds ==
  ASSUME TypeOK, NEW p \in Pids
  PROVE  Rest(p) \in Seq(Kinds)
  <1>1. todo[p] \in Seq(Kinds)
    BY DEF TypeOK
  <1>2. \A i \in 2..Len(todo[p]) : todo[p][i] \in Kinds
    BY <1>1
  <1> QED
    BY <1>1, <1>2, SubSeqProperties DEF Rest

\* The stage after one of a startup's is the next of its plan.
LEMMA PlanGoesOn ==
  ASSUME TypeOK, NEW p \in Pids, NEW s \in Early, s \in Range(script[p].plan)
  PROVE  /\ After(p, s) \in {"monitor", "hotkeys", "developer", "loop"}
         /\ After(p, s) \in Range(script[p].plan)
  <1> DEFINE plan == script[p].plan
             i == CHOOSE j \in DOMAIN plan : plan[j] = s
  <1>1. i \in DOMAIN plan /\ plan[i] = s
    BY DEF Range
  <1>2. After(p, s) = plan[i + 1]
    BY DEF After, Early
  <1> HIDE DEF i
  <1>3. plan \in Plans
    BY PlansOfScripts
  <1>4. i + 1 \in DOMAIN plan /\ plan[i + 1] \in {"monitor", "hotkeys", "developer", "loop"}
    <2>1. CASE plan = LiveDeclarative
      BY <1>1, <2>1 DEF LiveDeclarative, Early
    <2>2. CASE plan = RealDeclarative
      BY <1>1, <2>2 DEF RealDeclarative, Early
    <2>3. CASE plan = RealController
      BY <1>1, <2>3 DEF RealController, Early
    <2> QED
      BY <1>3, <2>1, <2>2, <2>3 DEF Plans
  <1> QED
    BY <1>2, <1>4 DEF Range

-----------------------------------------------------------------------------
(* Steps of a runner that leave its scripts alone.                           *)

\* Nobody comes back to life, and no one ends.
Onward ==
  /\ stage' \in [Pids -> Stages]
  /\ \A q \in Pids :
       /\ stage[q] = "off" => stage'[q] = "off"
       /\ stage'[q] \in {"new", "off"} => stage'[q] = stage[q]
       /\ stage'[q] \in Early => stage'[q] \in Range(script[q].plan)

LEMMA OneMovesOn ==
  ASSUME IInv, NEW p \in Pids, stage[p] # "off",
         NEW s \in Stages \ {"new", "off"}, stage' = [stage EXCEPT ![p] = s],
         s \in Early => s \in Range(script[p].plan)
  PROVE  Onward
  BY DEF IInv, TypeOK, Staged, Onward

\* What a failed call comes to is one of the ends, or the stage goes on.
LEMMA FailedMovesOn ==
  ASSUME IInv, NEW p \in Pids, stage[p] \notin {"new", "off"},
         NEW rest \in Seq(Kinds), Failed(p, rest)
  PROVE  Onward /\ todo' \in [Pids -> Seq(Kinds)]
  <1>1. PICK s \in {"undo", "leaving", stage[p]} :
          /\ stage' = [stage EXCEPT ![p] = s]
          /\ todo' = [todo EXCEPT ![p] = IF s = stage[p] THEN rest ELSE <<>>]
    BY DEF Failed
  <1>2. stage[p] \in Stages /\ (stage[p] \in Early => stage[p] \in Range(script[p].plan))
    BY DEF IInv, TypeOK, Staged
  <1>3. s \in Stages \ {"new", "off"} /\ (s \in Early => s \in Range(script[p].plan))
    BY <1>2 DEF Stages, Early
  <1>4. Onward
    BY <1>1, <1>3, OneMovesOn
  <1>5. todo' \in [Pids -> Seq(Kinds)]
    <2>1. <<>> \in Seq(Kinds)
      OBVIOUS
    <2>2. todo \in [Pids -> Seq(Kinds)]
      BY DEF IInv, TypeOK
    <2> QED
      BY <1>1, <2>1, <2>2
  <1> QED
    BY <1>4, <1>5

\* Scripts and shortcuts that nobody touches stay in the hands they are in.
LEMMA SameHands ==
  ASSUME EveryScriptIsHeld, NothingLeftBehind, faults \subseteq faults',
         UNCHANGED <<desktop, job, handles, ended>>
  PROVE  EveryScriptIsHeld' /\ NothingLeftBehind'
  <1>1. \A p \in Pids : Leftovers(p)' = Leftovers(p)
    BY DEF Leftovers, Of, desktop
  <1>2. EveryScriptIsHeld'
    BY <1>1 DEF EveryScriptIsHeld
  <1>3. NothingLeftBehind'
    BY <1>1 DEF NothingLeftBehind
  <1> QED
    BY <1>2, <1>3

\* Nothing but stages, tasks, bridges, purges and signals has changed.
LEMMA Calm ==
  ASSUME IInv, Onward, faults \subseteq faults', faults' \subseteq Pids,
         UNCHANGED <<desktop, script, job, handles, next, ended>>,
         todo' \in [Pids -> Seq(Kinds)], bridge' \in [Pids -> {"none", "purging", "up"}],
         \A q \in Pids : bridge'[q] = bridge[q] \/ stage'[q] \notin {"new", "off"},
         stale' \in [Pids -> SUBSET {s \in KwinScript : IsShortcut(s)}],
         \A q \in Pids : \A a \in stale'[q] : a.pid # q /\ stage[a.pid] = "off",
         masked' \subseteq Pids, pending' \subseteq masked', devMode' \in [Pids -> BOOLEAN],
         recycled' \subseteq Pids, company' \subseteq Pids
  PROVE  IInv'
  <1>1. Staged'
    BY DEF IInv, Staged, Onward, TypeOK
  <1>2. \A q \in Pids : \A a \in stale'[q] : a.pid \in Pids
    BY DEF KwinScript
  <1>3. Tied'
    BY <1>2 DEF Onward, IInv, Tied
  <1>4. Numbered' /\ Jobs'
    <2>1. Numbered'
      BY DEF IInv, Numbered, desktop
    <2>2. \A q \in Pids : job[q] # NoJob => job[q].script.pid \in Pids
      BY DEF IInv, TypeOK, KwinScript
    <2>3. Jobs'
      BY <2>2 DEF IInv, Jobs, JobSound, Onward, desktop
    <2> QED
      BY <2>1, <2>3
  <1>5. EveryScriptIsHeld' /\ NothingLeftBehind'
    BY SameHands DEF IInv
  <1>6. TypeOK'
    BY DEF IInv, TypeOK, Onward, desktop
  <1> QED
    BY <1>1, <1>3, <1>4, <1>5, <1>6 DEF IInv

LEMMA LaunchStep ==
  ASSUME IInv, NEW p \in Pids, Launch(p)
  PROVE  IInv'
  <1>1. Onward
    BY OneMovesOn DEF Launch, Stages, Early
  <1>2. company' \subseteq Pids
    BY DEF Launch, IInv, TypeOK, Others
  <1> QED
    BY <1>1, <1>2, Calm DEF Launch, IInv, TypeOK, Tied, work, signals

LEMMA StartupSteps ==
  ASSUME IInv, NEW p \in Pids, GiveUp(p) \/ Accept(p) \/ Prepare(p) \/ RefuseHotkeys(p)
  PROVE  IInv'
  <1>1. CASE GiveUp(p)
    <2>1. Onward
      BY <1>1, OneMovesOn DEF GiveUp, Stages, Early
    <2> QED
      BY <1>1, <2>1, Calm DEF GiveUp, IInv, TypeOK, Tied, work, signals, ghosts
  <1>2. CASE Accept(p)
    <2>1. "prepare" \in Range(script[p].plan)
      BY PlansOfScripts DEF IInv, Plans, LiveDeclarative, RealDeclarative, RealController, Range
    <2>2. Onward
      BY <1>2, <2>1, OneMovesOn DEF Accept, Stages
    <2> QED
      BY <1>2, <2>2, Calm DEF Accept, IInv, TypeOK, Tied, work, ghosts
  <1>3. CASE Prepare(p)
    <2>1. PICK s \in {After(p, "prepare"), "undo"} : Enter(p, s)
      BY <1>3 DEF Prepare
    <2>2. s \in {"monitor", "hotkeys", "developer", "loop", "undo"}
          /\ (s \in Early => s \in Range(script[p].plan))
      BY <1>3, <2>1, PlanGoesOn DEF Prepare, IInv, Staged, Early
    <2>3. Onward
      BY <1>3, <2>1, <2>2, OneMovesOn DEF Prepare, Enter, Stages
    <2>4. todo' \in [Pids -> Seq(Kinds)]
      BY <2>1, TasksAreKinds DEF Enter, IInv, TypeOK
    <2> QED
      BY <1>3, <2>3, <2>4, Calm DEF Prepare, IInv, TypeOK, Tied, signals, ghosts
  <1>4. CASE RefuseHotkeys(p)
    <2>1. Onward
      BY <1>4, OneMovesOn DEF RefuseHotkeys, Unparsed, Enter, Stages, Early
    <2>2. todo' \in [Pids -> Seq(Kinds)]
      BY <1>4, TasksAreKinds DEF RefuseHotkeys, Enter, IInv, TypeOK
    <2> QED
      BY <1>4, <2>1, <2>2, Calm DEF RefuseHotkeys, IInv, TypeOK, Tied, signals, ghosts
  <1> QED
    BY <1>1, <1>2, <1>3, <1>4

LEMMA FinishStageStep ==
  ASSUME IInv, NEW p \in Pids, FinishStage(p)
  PROVE  IInv'
  <1>1. After(p, stage[p]) \in {"monitor", "hotkeys", "developer", "loop"}
        /\ (After(p, stage[p]) \in Early => After(p, stage[p]) \in Range(script[p].plan))
    <2>1. CASE stage[p] \in Early
      BY <2>1, PlanGoesOn DEF IInv, Staged
    <2>2. CASE stage[p] \in {"window", "enable", "disable"}
      BY <2>2 DEF After, Early
    <2> QED
      BY <2>1, <2>2 DEF FinishStage, Making, Early
  <1>2. Onward
    BY <1>1, OneMovesOn DEF FinishStage, Enter, Stages, Making
  <1>3. todo' \in [Pids -> Seq(Kinds)]
    BY TasksAreKinds DEF FinishStage, Enter, IInv, TypeOK
  <1> QED
    BY <1>2, <1>3, Calm DEF FinishStage, IInv, TypeOK, Tied, signals, ghosts

LEMMA LoopSteps ==
  ASSUME IInv, NEW p \in Pids,
         AskWindow(p) \/ ToggleDevMode(p) \/ DrainSignal(p) \/ EndLoop(p)
  PROVE  IInv'
  <1>1. PICK s \in {"window", "enable", "disable", "leaving"} : stage' = [stage EXCEPT ![p] = s]
    BY DEF AskWindow, ToggleDevMode, DrainSignal, EndLoop
  <1>2. stage[p] = "loop"
    BY DEF AskWindow, ToggleDevMode, DrainSignal, EndLoop
  <1>3. Onward
    BY <1>1, <1>2, OneMovesOn DEF Stages, Early
  <1>4. todo' \in [Pids -> Seq(Kinds)]
    <2>1. \A keys \in InOrder : keys \in Seq(Kinds)
      <3>1. "Num1" \in Kinds /\ "Num2" \in Kinds
        BY DEF Kinds, Shortcuts, DevKeys
      <3>2. <<>> \in Seq(Kinds) /\ <<"Num1">> \in Seq(Kinds) /\ <<"Num2">> \in Seq(Kinds)
        BY <3>1
      <3>3. <<"Num1", "Num2">> \in Seq(Kinds)
        BY <3>1
      <3> QED
        BY <3>2, <3>3 DEF InOrder
    <2>2. <<"window">> \in Seq(Kinds)
      BY DEF Kinds
    <2>3. todo \in [Pids -> Seq(Kinds)]
      BY DEF IInv, TypeOK
    <2>4. todo' = todo \/ \E keys \in InOrder \cup {<<"window">>} : todo' = [todo EXCEPT ![p] = keys]
      BY DEF AskWindow, ToggleDevMode, DrainSignal, EndLoop, work
    <2> QED
      BY <2>1, <2>2, <2>3, <2>4
  <1>5. devMode' \in [Pids -> BOOLEAN] /\ masked' \subseteq Pids /\ pending' \subseteq masked'
    BY DEF AskWindow, ToggleDevMode, DrainSignal, EndLoop, signals, IInv, TypeOK
  <1>6. UNCHANGED <<desktop, recycled, script, bridge, stale, job, next, handles, ghosts>>
    BY DEF AskWindow, ToggleDevMode, DrainSignal, EndLoop, work
  <1> QED
    BY <1>3, <1>4, <1>5, <1>6, Calm DEF IInv, TypeOK, Tied, ghosts

LEMMA ConnectSteps ==
  ASSUME IInv, NEW p \in Pids, Connect(p) \/ FinishConnect(p)
  PROVE  IInv'
  <1>1. stage[p] \notin {"new", "off"}
    BY DEF Connect, FinishConnect, Making, IInv, Staged
  <1>2. Onward /\ todo' \in [Pids -> Seq(Kinds)]
    <2>1. CASE UNCHANGED <<stage, todo>>
      BY <2>1 DEF IInv, TypeOK, Staged, Onward
    <2>2. CASE Failed(p, Rest(p))
      BY <2>2, <1>1, RestIsKinds, FailedMovesOn DEF IInv
    <2> QED
      BY <2>1, <2>2 DEF Connect, FinishConnect
  <1>3. bridge' \in [Pids -> {"none", "purging", "up"}]
        /\ (\A q \in Pids : bridge'[q] = bridge[q] \/ stage'[q] \notin {"new", "off"})
    BY <1>1, <1>2 DEF Connect, FinishConnect, IInv, TypeOK, Onward
  <1>4. CASE UNCHANGED stale
    <2>1. UNCHANGED <<desktop, recycled, script, job, next, handles, signals, devMode, ended, company>>
      BY DEF Connect, FinishConnect
    <2>2. faults \subseteq faults' /\ faults' \subseteq Pids
      BY DEF Connect, FinishConnect, Fault, IInv, TypeOK
    <2> QED
      BY <1>2, <1>3, <1>4, <2>1, <2>2, Calm DEF IInv, TypeOK, Tied, signals
  <1>5. CASE stale' = [stale EXCEPT ![p] = Stale]
    <2>1. \A a \in Stale : a.pid \in Pids /\ a.pid # p /\ stage[a.pid] = "off"
      <3> SUFFICES ASSUME NEW a \in Stale
                   PROVE  a.pid \in Pids /\ a.pid # p /\ stage[a.pid] = "off"
        OBVIOUS
      <3>1. a \in actions /\ a \in KwinScript /\ ~Alive(a.pid)
        BY DEF Stale, IInv, TypeOK
      <3>2. a.pid \in Pids /\ a.n \in Nat \ {0} /\ a.n <= next[a.pid]
        BY <3>1 DEF KwinScript, IInv, Numbered
      <3>3. stage[a.pid] # "new"
        <4>1. stage[a.pid] = "new" => next[a.pid] = 0
          BY <3>2 DEF IInv, Staged
        <4> QED
          BY <3>2, <4>1
      <3>4. stage[a.pid] \in {"new", "off"}
        BY <3>1 DEF Alive
      <3> QED
        BY <1>1, <3>2, <3>3, <3>4
    <2>2. stale' \in [Pids -> SUBSET {s \in KwinScript : IsShortcut(s)}]
      <3>1. Stale \subseteq {s \in KwinScript : IsShortcut(s)}
        BY DEF Stale, IInv, TypeOK
      <3> QED
        BY <1>5, <3>1 DEF IInv, TypeOK
    <2>3. \A q \in Pids : \A a \in stale'[q] : a.pid # q /\ stage[a.pid] = "off"
      <3>1. \A q \in Pids : stale'[q] = IF q = p THEN Stale ELSE stale[q]
        BY <1>5 DEF IInv, TypeOK
      <3>2. \A q \in Pids : \A a \in stale[q] : a.pid # q /\ stage[a.pid] = "off"
        BY DEF IInv, Tied
      <3> QED
        BY <2>1, <3>1, <3>2
    <2>4. UNCHANGED <<desktop, recycled, script, job, next, handles, signals, devMode, ended, company>>
          /\ faults \subseteq faults' /\ faults' \subseteq Pids
      BY DEF Connect, FinishConnect, Fault, IInv, TypeOK
    <2>5. masked' \subseteq Pids /\ pending' \subseteq masked' /\ devMode' \in [Pids -> BOOLEAN]
          /\ recycled' \subseteq Pids /\ company' \subseteq Pids
      BY <2>4 DEF IInv, TypeOK, signals
    <2> QED
      BY <1>2, <1>3, <2>2, <2>3, <2>4, <2>5, Calm
  <1> QED
    BY <1>4, <1>5 DEF Connect, FinishConnect

-----------------------------------------------------------------------------
(* The end of a runner.                                                      *)

LEMMA DiesStep ==
  ASSUME IInv, NEW p \in Pids, NEW how \in {"self", "signal", "killed"},
         Dies(p, how), stage[p] # "new", faults \subseteq faults', faults' \subseteq Pids,
         how = "self" /\ p \notin faults' => Leftovers(p) = {}
  PROVE  IInv'
  <1>1. TypeOK'
    <2>1. stage' \in [Pids -> Stages] /\ ended' \in [Pids -> {"", "self", "signal", "killed"}]
          /\ bridge' \in [Pids -> {"none", "purging", "up"}]
      BY DEF Dies, IInv, TypeOK, Stages
    <2>2. stale' \in [Pids -> SUBSET {s \in KwinScript : IsShortcut(s)}]
          /\ handles' \in [Pids -> SUBSET KwinScript] /\ devMode' \in [Pids -> BOOLEAN]
      BY DEF Dies, IInv, TypeOK
    <2>3. job' \in [Pids -> {NoJob} \cup JobType]
      BY DEF Dies, IInv, TypeOK, JobType
    <2>4. todo' \in [Pids -> Seq(Kinds)]
      <3>1. <<>> \in Seq(Kinds)
        OBVIOUS
      <3> QED
        BY <3>1 DEF Dies, IInv, TypeOK
    <2>5. masked' \subseteq Pids /\ pending' \subseteq masked'
      BY DEF Dies, IInv, TypeOK
    <2> QED
      BY <2>1, <2>2, <2>3, <2>4, <2>5 DEF Dies, IInv, TypeOK, JobType, desktop
  <1>2. \A q \in Pids :
          /\ stage'[q] = IF q = p THEN "off" ELSE stage[q]
          /\ ended'[q] = IF q = p THEN how ELSE ended[q]
          /\ bridge'[q] = IF q = p THEN "none" ELSE bridge[q]
          /\ stale'[q] = IF q = p THEN {} ELSE stale[q]
          /\ job'[q] = IF q = p THEN NoJob ELSE job[q]
          /\ handles'[q] = IF q = p THEN {} ELSE handles[q]
    BY DEF Dies, IInv, TypeOK
  <1>3. UNCHANGED <<loaded, actions, files, script, next>>
    BY DEF Dies, desktop
  <1>4. Staged'
    BY <1>2, <1>3 DEF IInv, Staged, Early
  <1>5. Tied'
    <2>1. \A q \in Pids : \A a \in stale[q] : a.pid \in Pids
      <3>1. stale \in [Pids -> SUBSET KwinScript]
        BY DEF IInv, TypeOK
      <3> QED
        BY <3>1 DEF KwinScript
    <2> QED
      BY <1>2, <2>1 DEF IInv, Tied
  <1>6. Numbered' /\ Jobs'
    <2>1. \A q \in Pids : job[q] # NoJob => job[q].script.pid \in Pids
      BY DEF IInv, TypeOK, KwinScript
    <2> QED
      BY <1>2, <1>3, <2>1 DEF IInv, Numbered, Jobs, JobSound
  <1>7. EveryScriptIsHeld'
    <2> SUFFICES ASSUME NEW q \in Pids, ended'[q] = "", q \notin faults', NEW s \in Leftovers(q)'
                 PROVE  s \in handles'[q] \/ (job'[q] # NoJob /\ job'[q].script = s)
      BY DEF EveryScriptIsHeld
    <2>1. q # p /\ ended[q] = "" /\ q \notin faults /\ s \in Leftovers(q)
      BY <1>2, <1>3 DEF Leftovers, Of
    <2>2. s \in handles[q] \/ (job[q] # NoJob /\ job[q].script = s)
      BY <2>1 DEF IInv, EveryScriptIsHeld
    <2> QED
      BY <1>2, <2>1, <2>2
  <1>8. NothingLeftBehind'
    BY <1>2, <1>3 DEF IInv, NothingLeftBehind, Leftovers, Of
  <1> QED
    BY <1>1, <1>4, <1>5, <1>6, <1>7, <1>8 DEF IInv

\* A runner without a job and without handles has nothing on the desktop.
LEMMA EmptyHands ==
  ASSUME IInv, NEW p \in Pids, stage[p] # "off", job[p] = NoJob, handles[p] = {}, p \notin faults
  PROVE  Leftovers(p) = {}
  BY DEF IInv, TypeOK, Staged, EveryScriptIsHeld

LEMMA DeathSteps ==
  ASSUME IInv, NEW p \in Pids, Exit(p) \/ Kill(p)
  PROVE  IInv'
  <1>1. CASE Exit(p)
    <2>1. p \notin faults' => Leftovers(p) = {}
      BY <1>1, EmptyHands DEF Exit, Fault
    <2> QED
      BY <1>1, <2>1, DiesStep DEF Exit, Fault, IInv, TypeOK
  <1>2. CASE Kill(p)
    BY <1>2, DiesStep DEF Kill, IInv, TypeOK
  <1> QED
    BY <1>1, <1>2

\* The signal mask is lifted: the runner dies of a signal that waited, or goes on.
LEMMA UnmaskStep ==
  ASSUME IInv, NEW p \in Pids, NEW to \in {"undo", "drop"}, stage[p] \notin {"new", "off"},
         Unmask(p, to)
  PROVE  IInv'
  <1>1. CASE p \in pending
    BY <1>1, DiesStep DEF Unmask, IInv, TypeOK
  <1>2. CASE p \notin pending
    <2>1. UNCHANGED <<desktop, recycled, script, work, pending, devMode, ghosts>>
          /\ masked' = masked \ {p} /\ stage' = [stage EXCEPT ![p] = to]
      BY <1>2 DEF Unmask
    <2>2. Onward
      BY <2>1, OneMovesOn DEF Stages, Early
    <2>3. masked' \subseteq Pids /\ pending' \subseteq masked'
      BY <1>2, <2>1 DEF IInv, TypeOK
    <2> QED
      BY <2>1, <2>2, <2>3, Calm DEF IInv, TypeOK, Tied, work, ghosts
  <1> QED
    BY <1>1, <1>2

LEMMA StutterStep ==
  ASSUME IInv, UNCHANGED vars
  PROVE  IInv'
  <1>1. Onward
    BY DEF IInv, TypeOK, Staged, Onward, vars
  <1> QED
    BY <1>1, Calm DEF IInv, TypeOK, Tied, vars, work, signals, ghosts

LEMMA SignalSteps ==
  ASSUME IInv, NEW p \in Pids, Signal(p) \/ Recycle(p)
  PROVE  IInv'
  <1>1. CASE Signal(p) /\ p \notin masked
    BY <1>1, DiesStep DEF Signal, IInv, TypeOK
  <1>2. CASE (Signal(p) /\ p \in masked) \/ Recycle(p)
    <2>1. UNCHANGED <<desktop, script, stage, work, masked, devMode, ended, faults>>
      BY <1>2 DEF Signal, Recycle, signals, ghosts
    <2>2. Onward
      BY <2>1 DEF IInv, TypeOK, Staged, Onward
    <2>3. pending' \subseteq masked' /\ recycled' \subseteq Pids /\ company' \subseteq Pids
      BY <1>2, <2>1 DEF Signal, Recycle, signals, ghosts, IInv, TypeOK
    <2> QED
      BY <2>1, <2>2, <2>3, Calm DEF IInv, TypeOK, Tied, work
  <1> QED
    BY <1>1, <1>2

-----------------------------------------------------------------------------
(* Steps of a runner on a script.                                            *)

\* What a step of runner p may do to the desktop and to the runners' lists.
Mine(p) ==
  /\ stage[p] \notin {"new", "off"} /\ stage'[p] \notin {"new", "off"} /\ Onward
  /\ UNCHANGED <<script, ended, bridge>> /\ faults \subseteq faults'
  /\ \A q \in Pids : next[q] <= next'[q]
  /\ \A q \in Pids \ {p} : /\ job'[q] = job[q] /\ handles'[q] = handles[q]
                           /\ stale'[q] = stale[q] /\ next'[q] = next[q]
  /\ stale'[p] \subseteq stale[p]
  /\ \A s \in loaded' \ loaded : s.pid = p /\ s.n <= next'[p]
  /\ actions' \ actions \subseteq loaded
  /\ \A s \in files' \ files : s.pid = p

LEMMA OwnScriptsOnly ==
  ASSUME IInv, TypeOK', NEW p \in Pids, Mine(p),
         \A s \in handles'[p] : s.pid = p,
         job'[p] # NoJob => JobSound(p)',
         p \notin faults' => Held(p)'
  PROVE  IInv'
  <1>1. Staged'
    <2>1. Staged
      BY DEF IInv
    <2>2. UNCHANGED <<script, ended, bridge>> /\ Onward /\ stage[p] # "off"
          /\ stage'[p] \notin {"new", "off"}
          /\ \A q \in Pids \ {p} : job'[q] = job[q] /\ next'[q] = next[q]
      BY DEF Mine
    <2> SUFFICES ASSUME NEW q \in Pids
                 PROVE  /\ ended'[q] # "" => stage'[q] = "off"
                        /\ stage'[q] = "new" => next'[q] = 0
                        /\ stage'[q] \in Early => stage'[q] \in Range(script'[q].plan)
                        /\ stage'[q] \in {"new", "off"} => job'[q] = NoJob /\ bridge'[q] = "none"
      BY DEF Staged
    <2>3. /\ stage[q] = "off" => stage'[q] = "off"
          /\ stage'[q] \in {"new", "off"} => stage'[q] = stage[q] /\ q # p
          /\ stage'[q] \in Early => stage'[q] \in Range(script[q].plan)
      BY <2>2 DEF Onward
    <2> QED
      BY <2>1, <2>2, <2>3 DEF Staged
  <1>2. Tied'
    <2>1. \A q \in Pids : \A a \in stale'[q] : a.pid \in Pids
      <3>1. stale' \in [Pids -> SUBSET KwinScript]
        BY DEF TypeOK
      <3> QED
        BY <3>1 DEF KwinScript
    <2>2. \A q \in Pids : stale'[q] \subseteq stale[q] /\ \A s \in handles'[q] : s.pid = q
      BY DEF IInv, Tied, Mine
    <2> QED
      BY <2>1, <2>2 DEF IInv, Tied, Mine, Onward
  <1>3. Numbered'
    <2> SUFFICES ASSUME NEW s \in loaded' \cup actions'
                 PROVE  s.n <= next'[s.pid]
      BY DEF Numbered
    <2>1. s.n \in Nat /\ s.pid \in Pids
      BY DEF TypeOK, KwinScript
    <2>2. next[s.pid] \in Nat /\ next'[s.pid] \in Nat
      BY <2>1 DEF IInv, TypeOK
    <2>3. CASE s \in loaded \cup actions
      BY <2>1, <2>2, <2>3 DEF IInv, Numbered, Mine
    <2>4. CASE s \notin loaded \cup actions
      BY <2>4 DEF Mine
    <2> QED
      BY <2>3, <2>4
  <1>4. Jobs'
    <2> SUFFICES ASSUME NEW q \in Pids, q # p, job[q] # NoJob
                 PROVE  JobSound(q)'
      BY DEF Jobs, Mine
    <2>1. JobSound(q) /\ job'[q] = job[q] /\ next'[q] = next[q]
      BY DEF IInv, Jobs, Mine
    <2>2. job[q].script.pid \in Pids
      BY DEF IInv, TypeOK, KwinScript
    <2>3. job[q].why = "purge" => stage'[job[q].script.pid] = "off"
      BY <2>1, <2>2 DEF JobSound, Mine, Onward
    <2>4. job[q].script.pid = q => /\ job[q].script \notin loaded => job[q].script \notin loaded'
                                   /\ job[q].script \notin loaded \cup actions => job[q].script \notin actions'
      BY DEF Mine
    <2> QED
      BY <2>1, <2>3, <2>4 DEF JobSound, Mine
  <1>5. ended[p] = ""
    BY DEF IInv, TypeOK, Staged, Mine
  <1>6. \A q \in Pids \ {p} : Leftovers(q)' \subseteq Leftovers(q)
    BY DEF Mine, Leftovers, Of
  <1>7. EveryScriptIsHeld' /\ NothingLeftBehind'
    <2>1. EveryScriptIsHeld'
      <3> SUFFICES ASSUME NEW q \in Pids, ended'[q] = "", q \notin faults', q # p, NEW s \in Leftovers(q)'
                   PROVE  s \in handles'[q] \/ (job'[q] # NoJob /\ job'[q].script = s)
        BY DEF EveryScriptIsHeld, Held
      <3>1. s \in Leftovers(q) /\ ended[q] = "" /\ q \notin faults
        BY <1>6 DEF Mine
      <3>2. s \in handles[q] \/ (job[q] # NoJob /\ job[q].script = s)
        BY <3>1 DEF IInv, EveryScriptIsHeld
      <3> QED
        BY <3>2 DEF Mine
    <2>2. NothingLeftBehind'
      BY <1>5, <1>6 DEF IInv, NothingLeftBehind, Mine
    <2> QED
      BY <2>1, <2>2
  <1> QED
    BY <1>1, <1>2, <1>3, <1>4, <1>7 DEF IInv

\* A runner with a job runs.
LEMMA AtWork ==
  ASSUME IInv, NEW p \in Pids, job[p] # NoJob
  PROVE  /\ job[p] \in JobType /\ job[p].script \in KwinScript
         /\ stage[p] \notin {"new", "off"} /\ JobSound(p)
         /\ p \notin faults => Held(p)
  <1>1. job[p] \in JobType
    BY DEF IInv, TypeOK, JobType
  <1>2. stage[p] \notin {"new", "off"} /\ JobSound(p)
    BY DEF IInv, Staged, Jobs
  <1>3. ended[p] = ""
    BY <1>2 DEF IInv, TypeOK, Staged
  <1>4. p \notin faults => Held(p)
    BY <1>3 DEF IInv, EveryScriptIsHeld, Held
  <1> QED
    BY <1>1, <1>2, <1>4 DEF JobType

LEMMA StandsStill ==
  ASSUME IInv, UNCHANGED stage
  PROVE  Onward
  BY DEF IInv, TypeOK, Staged, Onward

\* What Step and Fails do to the runner's own state.
LEMMA StepTypes ==
  ASSUME IInv, NEW p \in Pids, job[p] # NoJob,
         NEW to \in {"load", "start", "unregister", "remove"}, Step(p, to)
  PROVE  /\ Onward /\ todo' \in [Pids -> Seq(Kinds)]
         /\ job' \in [Pids -> {NoJob} \cup JobType]
         /\ \A q \in Pids : q # p => job'[q] = job[q]
         /\ job'[p] # NoJob /\ job'[p].at = to
         /\ job'[p].script = job[p].script /\ job'[p].why = job[p].why
  <1>1. Onward /\ todo' \in [Pids -> Seq(Kinds)]
    BY StandsStill DEF Step, IInv, TypeOK
  <1>2. job \in [Pids -> {NoJob} \cup JobType] /\ job[p] \in JobType
    BY DEF IInv, TypeOK, JobType
  <1>3. [job[p] EXCEPT !.at = to] \in JobType
    BY <1>2 DEF JobType
  <1>4. job' = [job EXCEPT ![p] = [job[p] EXCEPT !.at = to]]
    BY DEF Step
  <1>5. job'[p] = [job[p] EXCEPT !.at = to]
    BY <1>2, <1>4
  <1>6. job'[p].at = to /\ job'[p].script = job[p].script /\ job'[p].why = job[p].why
    BY <1>2, <1>5 DEF JobType
  <1> QED
    BY <1>1, <1>2, <1>3, <1>4, <1>5, <1>6, NoJobIsNone

LEMMA FailsTypes ==
  ASSUME IInv, NEW p \in Pids, job[p] # NoJob, Fails(p)
  PROVE  /\ Onward /\ todo' \in [Pids -> Seq(Kinds)]
         /\ job' \in [Pids -> {NoJob} \cup JobType]
         /\ \A q \in Pids : q # p => job'[q] = job[q]
         /\ job'[p] = NoJob
  <1>1. todo[p] \in Seq(Kinds)
    BY DEF IInv, TypeOK
  <1>2. Onward /\ todo' \in [Pids -> Seq(Kinds)]
    BY <1>1, AtWork, FailedMovesOn DEF Fails
  <1>3. job \in [Pids -> {NoJob} \cup JobType]
    BY DEF IInv, TypeOK, JobType
  <1> QED
    BY <1>2, <1>3 DEF Fails

\* The types of what a step on a script may change.
LEMMA WorkTypes ==
  ASSUME IInv, Onward, UNCHANGED <<recycled, script, bridge, signals, devMode, ended, company>>,
         todo' \in [Pids -> Seq(Kinds)], job' \in [Pids -> {NoJob} \cup JobType],
         next' \in [Pids -> Nat], handles' \in [Pids -> SUBSET KwinScript],
         stale' \in [Pids -> SUBSET {s \in KwinScript : IsShortcut(s)}],
         loaded' \subseteq KwinScript, started' \subseteq loaded', files' \subseteq KwinScript,
         actions' \subseteq {s \in KwinScript : IsShortcut(s)},
         owner' \in [Shortcuts -> {NoOwner} \cup actions'], faults' \subseteq Pids
  PROVE  TypeOK'
  BY DEF IInv, TypeOK, Onward, JobType, signals

\* A step on the script of a job.
LEMMA ScriptStep ==
  ASSUME IInv, NEW p \in Pids, job[p] # NoJob, Onward,
         todo' \in [Pids -> Seq(Kinds)], job' \in [Pids -> {NoJob} \cup JobType],
         \A q \in Pids : q # p => job'[q] = job[q],
         UNCHANGED <<recycled, script, bridge, stale, next, signals, devMode, ended, company>>,
         faults \subseteq faults', faults' \subseteq Pids,
         loaded' \subseteq loaded \cup {job[p].script}, started' \subseteq loaded',
         files' \subseteq files \cup {job[p].script},
         handles' \in {handles, [handles EXCEPT ![p] = @ \cup {job[p].script}]},
         \/ job[p].why = "make"
         \/ loaded' \subseteq loaded /\ files' \subseteq files /\ handles' = handles,
         actions' \subseteq actions \cup {s \in loaded : IsShortcut(s)},
         owner' \in [Shortcuts -> {NoOwner} \cup actions'],
         job'[p] # NoJob => JobSound(p)',
         p \notin faults' => Held(p)'
  PROVE  IInv'
  <1>1. /\ job[p].script \in KwinScript /\ stage[p] \notin {"new", "off"}
        /\ job[p].why = "make" => job[p].script.pid = p /\ job[p].script.n <= next[p]
    BY AtWork DEF JobSound
  <1>2. handles \in [Pids -> SUBSET KwinScript] /\ next \in [Pids -> Nat]
        /\ loaded \subseteq KwinScript /\ files \subseteq KwinScript
        /\ stale \in [Pids -> SUBSET {s \in KwinScript : IsShortcut(s)}]
        /\ actions \subseteq {s \in KwinScript : IsShortcut(s)}
    BY DEF IInv, TypeOK
  <1>3. handles' \in [Pids -> SUBSET KwinScript]
        /\ (\A q \in Pids : q # p => handles'[q] = handles[q])
        /\ handles'[p] \in {handles[p], handles[p] \cup {job[p].script}}
    <2>1. CASE handles' = handles
      BY <1>2, <2>1
    <2>2. CASE handles' = [handles EXCEPT ![p] = @ \cup {job[p].script}]
      <3>1. handles[p] \cup {job[p].script} \in SUBSET KwinScript
        BY <1>1, <1>2
      <3> QED
        BY <1>2, <2>2, <3>1
    <2> QED
      BY <2>1, <2>2
  <1>4. TypeOK'
    <2>1. /\ loaded' \subseteq KwinScript /\ files' \subseteq KwinScript
          /\ actions' \subseteq {s \in KwinScript : IsShortcut(s)}
      BY <1>1, <1>2
    <2>2. next' \in [Pids -> Nat] /\ stale' \in [Pids -> SUBSET {s \in KwinScript : IsShortcut(s)}]
      BY <1>2
    <2> QED
      BY <1>3, <2>1, <2>2, WorkTypes
  <1>5. Mine(p)
    <2>1. stage'[p] \notin {"new", "off"}
      BY <1>1 DEF Onward
    <2>2. \A q \in Pids : next[q] <= next'[q]
      BY <1>2
    <2>3. \A s \in loaded' \ loaded : s.pid = p /\ s.n <= next'[p]
      BY <1>1
    <2>4. \A s \in files' \ files : s.pid = p
      BY <1>1
    <2> QED
      BY <1>1, <1>3, <2>1, <2>2, <2>3, <2>4 DEF Mine
  <1>6. \A s \in handles'[p] : s.pid = p
    <2>1. \A s \in handles[p] : s.pid = p
      BY DEF IInv, Tied
    <2>2. handles' = handles \/ job[p].script.pid = p
      BY <1>1
    <2> QED
      BY <1>3, <2>1, <2>2
  <1> QED
    BY <1>4, <1>5, <1>6, OwnScriptsOnly

LEMMA WriteFileStep ==
  ASSUME IInv, NEW p \in Pids, WriteFile(p)
  PROVE  IInv'
  <1> DEFINE s == job[p].script
  <1>1. job[p] # NoJob /\ job[p].at = "write"
    BY DEF WriteFile, At
  <1>2. s \in KwinScript /\ s.pid = p /\ job[p].why = "make" /\ s.n <= next[p]
        /\ (p \notin faults => s \notin loaded /\ s \notin actions)
    BY <1>1, AtWork DEF JobSound
  <1>3. UNCHANGED <<loaded, started, actions, owner, recycled, script, bridge, stale, next, handles,
                   signals, devMode, ended, company>>
        /\ files' \subseteq files \cup {s} /\ faults \subseteq faults' /\ faults' \subseteq Pids
    BY DEF WriteFile, Fault, kwin, IInv, TypeOK
  <1>4. /\ started' \subseteq loaded' /\ actions' \subseteq actions \cup {t \in loaded : IsShortcut(t)}
        /\ owner' \in [Shortcuts -> {NoOwner} \cup actions'] /\ loaded' \subseteq loaded \cup {s}
    BY <1>3 DEF IInv, TypeOK
  <1>5. CASE Step(p, "load") /\ UNCHANGED faults
    <2>1. Onward /\ todo' \in [Pids -> Seq(Kinds)] /\ job' \in [Pids -> {NoJob} \cup JobType]
          /\ (\A q \in Pids : q # p => job'[q] = job[q])
          /\ job'[p] # NoJob /\ job'[p].at = "load" /\ job'[p].script = s /\ job'[p].why = "make"
      BY <1>1, <1>2, <1>5, StepTypes
    <2>2. job'[p] # NoJob => JobSound(p)'
      BY <1>2, <1>3, <1>5, <2>1 DEF JobSound
    <2>3. p \notin faults' => Held(p)'
      BY <1>1, <1>3, <1>5, <2>1, AtWork DEF Held, Leftovers, Of
    <2> QED
      BY <1>1, <1>2, <1>3, <1>4, <2>1, <2>2, <2>3, ScriptStep
  <1>6. CASE Fault(p) /\ Fails(p)
    <2>1. Onward /\ todo' \in [Pids -> Seq(Kinds)] /\ job' \in [Pids -> {NoJob} \cup JobType]
          /\ (\A q \in Pids : q # p => job'[q] = job[q]) /\ job'[p] = NoJob /\ p \in faults'
      BY <1>1, <1>6, FailsTypes DEF Fault
    <2> QED
      BY <1>1, <1>2, <1>3, <1>4, <2>1, ScriptStep
  <1> QED
    BY <1>5, <1>6 DEF WriteFile

LEMMA LoadScriptStep ==
  ASSUME IInv, NEW p \in Pids, LoadScript(p)
  PROVE  IInv'
  <1> DEFINE s == job[p].script
  <1>1. job[p] # NoJob /\ job[p].at = "load"
    BY DEF LoadScript, At
  <1>2. s \in KwinScript /\ s.pid = p /\ job[p].why = "make" /\ s.n <= next[p]
        /\ (p \notin faults => s \notin loaded /\ s \notin actions)
    BY <1>1, AtWork DEF JobSound
  <1>3. UNCHANGED <<actions, owner, started, recycled, script, bridge, stale, next, handles,
                   signals, devMode, ended, company>>
        /\ loaded' \in {loaded, loaded \cup {s}} /\ files' \subseteq files
        /\ faults \subseteq faults' /\ faults' \subseteq Pids
    BY DEF LoadScript, Fault, kwin, IInv, TypeOK
  <1>4. /\ started' \subseteq loaded' /\ actions' \subseteq actions \cup {t \in loaded : IsShortcut(t)}
        /\ owner' \in [Shortcuts -> {NoOwner} \cup actions'] /\ loaded' \subseteq loaded \cup {s}
        /\ files' \subseteq files \cup {s}
    BY <1>3 DEF IInv, TypeOK
  <1>5. CASE Step(p, "start") /\ UNCHANGED <<files, faults>>
    <2>1. Onward /\ todo' \in [Pids -> Seq(Kinds)] /\ job' \in [Pids -> {NoJob} \cup JobType]
          /\ (\A q \in Pids : q # p => job'[q] = job[q])
          /\ job'[p] # NoJob /\ job'[p].at = "start" /\ job'[p].script = s /\ job'[p].why = "make"
      BY <1>1, <1>2, <1>5, StepTypes
    <2>2. job'[p] # NoJob => JobSound(p)'
      BY <1>2, <1>3, <1>5, <2>1 DEF JobSound
    <2>3. p \notin faults' => Held(p)'
      BY <1>1, <1>3, <1>5, <2>1, AtWork DEF Held, Leftovers, Of
    <2> QED
      BY <1>1, <1>2, <1>3, <1>4, <2>1, <2>2, <2>3, ScriptStep
  <1>6. CASE files' = files \ {s} /\ Fails(p) /\ UNCHANGED <<kwin, faults>>
    <2>1. Onward /\ todo' \in [Pids -> Seq(Kinds)] /\ job' \in [Pids -> {NoJob} \cup JobType]
          /\ (\A q \in Pids : q # p => job'[q] = job[q]) /\ job'[p] = NoJob
      BY <1>1, <1>6, FailsTypes
    <2>2. p \notin faults' => Held(p)'
      BY <1>1, <1>2, <1>3, <1>6, AtWork DEF Held, Leftovers, Of, kwin
    <2> QED
      BY <1>1, <1>2, <1>3, <1>4, <2>1, <2>2, ScriptStep
  <1>7. CASE Fault(p) /\ Fails(p)
    <2>1. Onward /\ todo' \in [Pids -> Seq(Kinds)] /\ job' \in [Pids -> {NoJob} \cup JobType]
          /\ (\A q \in Pids : q # p => job'[q] = job[q]) /\ job'[p] = NoJob /\ p \in faults'
      BY <1>1, <1>7, FailsTypes DEF Fault
    <2> QED
      BY <1>1, <1>2, <1>3, <1>4, <2>1, ScriptStep
  <1> QED
    BY <1>5, <1>6, <1>7 DEF LoadScript

LEMMA KwinStartTypes ==
  ASSUME IInv, KwinStart
  PROVE  /\ started' \subseteq loaded' /\ loaded' = loaded
         /\ actions' \subseteq actions \cup {s \in loaded : IsShortcut(s)}
         /\ owner' \in [Shortcuts -> {NoOwner} \cup actions']
  <1> DEFINE fresh == {s \in loaded \ started : IsShortcut(s)}
  <1>1. actions' = actions \cup fresh /\ started' = loaded /\ loaded' = loaded
    BY DEF KwinStart
  <1>2. owner' \in [Shortcuts -> {NoOwner} \cup actions \cup fresh]
    BY DEF KwinStart
  <1>3. {NoOwner} \cup actions \cup fresh = {NoOwner} \cup actions'
    BY <1>1
  <1>4. owner' \in [Shortcuts -> {NoOwner} \cup actions']
    BY <1>2, <1>3, Zenon
  <1> QED
    BY <1>1, <1>4

LEMMA StartScriptStep ==
  ASSUME IInv, NEW p \in Pids, StartScript(p)
  PROVE  IInv'
  <1> DEFINE s == job[p].script
  <1>1. job[p] # NoJob /\ job[p].at = "start"
    BY DEF StartScript, At
  <1>2. s \in KwinScript /\ s.pid = p /\ job[p].why = "make"
    BY <1>1, AtWork DEF JobSound
  <1>3. UNCHANGED <<files, recycled, script, bridge, stale, next, signals, devMode, ended, company>>
        /\ faults \subseteq faults' /\ faults' \subseteq Pids
    BY DEF StartScript, Fault, IInv, TypeOK
  <1>4. /\ started' \subseteq loaded' /\ loaded' = loaded
        /\ actions' \subseteq actions \cup {t \in loaded : IsShortcut(t)}
        /\ owner' \in [Shortcuts -> {NoOwner} \cup actions']
    <2>1. CASE KwinStart
      BY <2>1, KwinStartTypes
    <2>2. CASE UNCHANGED kwin
      BY <2>2 DEF kwin, IInv, TypeOK
    <2> QED
      BY <2>1, <2>2 DEF StartScript
  <1>5. loaded' \subseteq loaded \cup {s} /\ files' \subseteq files \cup {s}
    BY <1>3, <1>4
  <1>6. CASE s.kind = "window" /\ UNCHANGED <<stage, todo, faults, handles>>
             /\ job' = [job EXCEPT ![p] = Release(s, "window")]
    <2>1. job \in [Pids -> {NoJob} \cup JobType] /\ Release(s, "window") \in JobType
      BY <1>2 DEF IInv, TypeOK, JobType, Release
    <2>2. job' \in [Pids -> {NoJob} \cup JobType] /\ (\A q \in Pids : q # p => job'[q] = job[q])
          /\ job'[p] = Release(s, "window")
      BY <1>6, <2>1
    <2>3. Onward /\ todo' \in [Pids -> Seq(Kinds)]
      BY <1>6, StandsStill DEF IInv, TypeOK
    <2>4. job'[p] # NoJob /\ job'[p].why = "window" /\ job'[p].at = "unload" /\ job'[p].script = s
      BY <2>1, <2>2, NoJobIsNone DEF Release
    <2>5. job'[p] # NoJob => JobSound(p)'
      BY <1>2, <2>4 DEF JobSound
    <2>6. p \notin faults' => Held(p)'
      BY <1>1, <1>3, <1>4, <1>6, <2>4, AtWork DEF Held, Leftovers, Of
    <2>7. handles' \in {handles, [handles EXCEPT ![p] = @ \cup {s}]}
      BY <1>6
    <2> QED
      BY <1>1, <1>2, <1>3, <1>4, <1>5, <2>2, <2>3, <2>5, <2>6, <2>7, ScriptStep
  <1>7. CASE UNCHANGED <<stage, todo, faults>> /\ job' = [job EXCEPT ![p] = NoJob]
             /\ handles' = [handles EXCEPT ![p] = @ \cup {s}]
    <2>1. job' \in [Pids -> {NoJob} \cup JobType] /\ (\A q \in Pids : q # p => job'[q] = job[q])
          /\ job'[p] = NoJob
      BY <1>7 DEF IInv, TypeOK, JobType
    <2>2. Onward /\ todo' \in [Pids -> Seq(Kinds)]
      BY <1>7, StandsStill DEF IInv, TypeOK
    <2>3. handles'[p] = handles[p] \cup {s}
      BY <1>7 DEF IInv, TypeOK
    <2>4. p \notin faults' => Held(p)'
      BY <1>1, <1>3, <1>4, <1>7, <2>1, <2>3, AtWork DEF Held, Leftovers, Of
    <2>5. handles' \in {handles, [handles EXCEPT ![p] = @ \cup {s}]}
      BY <1>7
    <2> QED
      BY <1>1, <1>2, <1>3, <1>4, <1>5, <2>1, <2>2, <2>4, <2>5, ScriptStep
  <1>8. CASE Fault(p) /\ Fails(p) /\ UNCHANGED handles
    <2>1. Onward /\ todo' \in [Pids -> Seq(Kinds)] /\ job' \in [Pids -> {NoJob} \cup JobType]
          /\ (\A q \in Pids : q # p => job'[q] = job[q]) /\ job'[p] = NoJob /\ p \in faults'
      BY <1>1, <1>8, FailsTypes DEF Fault
    <2>2. handles' \in {handles, [handles EXCEPT ![p] = @ \cup {s}]}
      BY <1>8
    <2> QED
      BY <1>1, <1>2, <1>3, <1>4, <1>5, <2>1, <2>2, ScriptStep
  <1> QED
    BY <1>6, <1>7, <1>8 DEF StartScript, IInv, TypeOK

\* unloadScript and unregister take away the script of the job, nothing else.
LEMMA RemovalStep ==
  ASSUME IInv, NEW p \in Pids, job[p] # NoJob, job[p].at \in {"unload", "unregister"},
         NEW to \in {"unregister", "remove"}, Step(p, to),
         UNCHANGED <<files, recycled, script, bridge, stale, next, handles, signals, devMode,
                     ended, company>>,
         faults \subseteq faults', faults' \subseteq Pids,
         loaded' \subseteq loaded, started' \subseteq loaded', actions' \subseteq actions,
         owner' \in [Shortcuts -> {NoOwner} \cup actions'],
         job[p].why # "purge" /\ p \notin faults' =>
           /\ job[p].script \notin loaded'
           /\ to = "remove" => job[p].script \notin actions'
  PROVE  IInv'
  <1> DEFINE s == job[p].script
  <1>1. Onward /\ todo' \in [Pids -> Seq(Kinds)] /\ job' \in [Pids -> {NoJob} \cup JobType]
        /\ (\A q \in Pids : q # p => job'[q] = job[q])
        /\ job'[p] # NoJob /\ job'[p].at = to /\ job'[p].script = s /\ job'[p].why = job[p].why
    BY StepTypes
  <1>2. job'[p] # NoJob => JobSound(p)'
    <2>1. JobSound(p) /\ s.pid \in Pids
      BY AtWork DEF KwinScript
    <2>2. stage' = stage
      BY DEF Step
    <2> QED
      BY <1>1, <2>1, <2>2 DEF JobSound
  <1>3. p \notin faults' => Held(p)'
    BY <1>1, AtWork DEF Held, Leftovers, Of
  <1>4. /\ handles' \in {handles, [handles EXCEPT ![p] = @ \cup {s}]}
        /\ loaded' \subseteq loaded \cup {s} /\ files' \subseteq files \cup {s} /\ files' \subseteq files
        /\ actions' \subseteq actions \cup {t \in loaded : IsShortcut(t)}
    OBVIOUS
  <1> QED
    BY <1>1, <1>2, <1>3, <1>4, ScriptStep

LEMMA UnloadScriptStep ==
  ASSUME IInv, NEW p \in Pids, UnloadScript(p)
  PROVE  IInv'
  <1> DEFINE s == job[p].script
             to == IF IsShortcut(s) THEN "unregister" ELSE "remove"
  <1>1. job[p] # NoJob /\ job[p].at = "unload" /\ Step(p, to)
    BY DEF UnloadScript, At
  <1>2. UNCHANGED <<files, recycled, script, bridge, stale, next, handles, signals, devMode, ended, company>>
        /\ UNCHANGED <<actions, owner>> /\ faults \subseteq faults' /\ faults' \subseteq Pids
    BY DEF UnloadScript, KwinUnload, Fault, kwin, IInv, TypeOK
  <1>3. loaded' \subseteq loaded /\ started' \subseteq loaded'
    BY DEF UnloadScript, KwinUnload, kwin, IInv, TypeOK
  <1>4. actions' \subseteq actions /\ owner' \in [Shortcuts -> {NoOwner} \cup actions']
    BY <1>2 DEF IInv, TypeOK
  <1>5. p \notin faults' => /\ s \notin loaded'
                            /\ to = "remove" => s \notin actions'
    <2>1. p \notin faults' => s \notin loaded'
      BY DEF UnloadScript, KwinUnload, Fault
    <2>2. to = "remove" => s \notin actions'
      BY <1>2 DEF IInv, TypeOK
    <2> QED
      BY <2>1, <2>2
  <1>6. to \in {"unregister", "remove"}
    OBVIOUS
  <1> HIDE DEF to
  <1> QED
    BY <1>1, <1>2, <1>3, <1>4, <1>5, <1>6, RemovalStep

LEMMA UnregisterStep ==
  ASSUME IInv, NEW p \in Pids, UnregisterAction(p)
  PROVE  IInv'
  <1> DEFINE s == job[p].script
  <1>1. job[p] # NoJob /\ job[p].at = "unregister" /\ Step(p, "remove")
    BY DEF UnregisterAction, At
  <1>2. UNCHANGED <<files, recycled, script, bridge, stale, next, handles, signals, devMode, ended, company>>
        /\ UNCHANGED <<loaded, started>> /\ faults \subseteq faults' /\ faults' \subseteq Pids
    BY DEF UnregisterAction, Unregister, Fault, kwin, IInv, TypeOK
  <1>3. loaded' \subseteq loaded /\ started' \subseteq loaded'
    BY <1>2 DEF IInv, TypeOK
  <1>4. actions' \subseteq actions /\ owner' \in [Shortcuts -> {NoOwner} \cup actions']
    <2>1. owner \in [Shortcuts -> {NoOwner} \cup actions]
      BY DEF IInv, TypeOK
    <2>2. CASE Unregister(s)
      BY <2>1, <2>2 DEF Unregister
    <2>3. CASE UNCHANGED kwin
      BY <2>1, <2>3 DEF kwin
    <2> QED
      BY <2>2, <2>3 DEF UnregisterAction
  <1>5. job[p].why # "purge" /\ p \notin faults' => s \notin loaded' /\ s \notin actions'
    <2>1. p \notin faults' => Unregister(s) /\ p \notin faults
      BY DEF UnregisterAction, Fault
    <2>2. job[p].why = "purge" \/ p \in faults \/ s \notin loaded
      BY <1>1, AtWork DEF JobSound
    <2> QED
      BY <1>2, <2>1, <2>2 DEF Unregister
  <1> QED
    BY <1>1, <1>2, <1>3, <1>4, <1>5, RemovalStep

LEMMA RemoveFileStep ==
  ASSUME IInv, NEW p \in Pids, RemoveFile(p)
  PROVE  IInv'
  <1> DEFINE s == job[p].script
  <1>1. job[p] # NoJob /\ job[p].at = "remove"
    BY DEF RemoveFile, At
  <1>2. UNCHANGED <<loaded, started, actions, owner, recycled, script, bridge, stale, next, handles,
                   signals, devMode, ended, company>>
        /\ files' \subseteq files /\ faults \subseteq faults' /\ faults' \subseteq Pids
    BY DEF RemoveFile, Fault, kwin, IInv, TypeOK
  <1>3. /\ started' \subseteq loaded' /\ actions' \subseteq actions \cup {t \in loaded : IsShortcut(t)}
        /\ owner' \in [Shortcuts -> {NoOwner} \cup actions'] /\ loaded' \subseteq loaded
        /\ handles' \in {handles, [handles EXCEPT ![p] = @ \cup {s}]}
    BY <1>2 DEF IInv, TypeOK
  <1>4. Onward /\ todo' \in [Pids -> Seq(Kinds)] /\ job' \in [Pids -> {NoJob} \cup JobType]
        /\ (\A q \in Pids : q # p => job'[q] = job[q]) /\ job'[p] = NoJob
    <2>1. CASE Fails(p)
      BY <1>1, <2>1, FailsTypes
    <2>2. CASE job' = [job EXCEPT ![p] = NoJob] /\ UNCHANGED <<stage, todo>>
      <3>1. Onward
        BY <2>2, StandsStill
      <3>2. job \in [Pids -> {NoJob} \cup JobType] /\ todo \in [Pids -> Seq(Kinds)]
        BY DEF IInv, TypeOK, JobType
      <3> QED
        BY <2>2, <3>1, <3>2
    <2> QED
      BY <2>1, <2>2 DEF RemoveFile
  <1>5. p \notin faults' => Held(p)'
    <2> SUFFICES ASSUME p \notin faults', NEW t \in Leftovers(p)'
                 PROVE  t \in handles[p]
      BY <1>2 DEF Held
    <2>1. files' = files \ {s} /\ p \notin faults
      BY DEF RemoveFile, Fault
    <2>2. t \in Leftovers(p) /\ t # s
      <3>1. t.pid = p /\ t \in Leftovers(p)
        BY <1>2, <2>1 DEF Leftovers, Of
      <3>2. job[p].why = "purge" => s.pid # p
        BY <1>1, AtWork DEF JobSound
      <3>3. job[p].why # "purge" => s \notin loaded \cup actions
        BY <1>1, <2>1, AtWork DEF JobSound
      <3> QED
        BY <1>2, <2>1, <3>1, <3>2, <3>3 DEF Leftovers, Of
    <2> QED
      BY <1>1, <2>1, <2>2, AtWork DEF Held
  <1>6. loaded' \subseteq loaded \cup {s} /\ files' \subseteq files \cup {s} /\ handles' = handles
    BY <1>2
  <1> QED
    BY <1>1, <1>2, <1>3, <1>4, <1>5, <1>6, ScriptStep

-----------------------------------------------------------------------------
(* Steps of a runner on its lists, between two scripts.                      *)

LEMMA ListStep ==
  ASSUME IInv, NEW p \in Pids, stage[p] \notin {"new", "off"}, job[p] = NoJob, Onward,
         UNCHANGED <<desktop, recycled, script, bridge, signals, devMode, ended, company>>,
         faults \subseteq faults', faults' \subseteq Pids,
         todo' \in [Pids -> Seq(Kinds)], job' \in [Pids -> {NoJob} \cup JobType],
         next' \in [Pids -> Nat], handles' \in [Pids -> SUBSET KwinScript],
         stale' \in [Pids -> SUBSET {s \in KwinScript : IsShortcut(s)}],
         \A q \in Pids \ {p} : /\ job'[q] = job[q] /\ handles'[q] = handles[q]
                               /\ stale'[q] = stale[q] /\ next'[q] = next[q],
         next[p] <= next'[p], handles'[p] \subseteq handles[p], stale'[p] \subseteq stale[p],
         job'[p] # NoJob => JobSound(p)',
         p \notin faults' =>
           \A s \in handles[p] : s \in handles'[p] \/ (job'[p] # NoJob /\ job'[p].script = s)
  PROVE  IInv'
  <1>1. TypeOK'
    <2>1. /\ loaded' \subseteq KwinScript /\ started' \subseteq loaded' /\ files' \subseteq KwinScript
          /\ actions' \subseteq {s \in KwinScript : IsShortcut(s)}
          /\ owner' \in [Shortcuts -> {NoOwner} \cup actions']
      BY DEF desktop, IInv, TypeOK
    <2> QED
      BY <2>1, WorkTypes
  <1>2. Mine(p)
    <2>1. \A q \in Pids : next[q] <= next'[q]
      <3>1. \A q \in Pids : next[q] \in Nat /\ (q # p => next'[q] = next[q])
        BY DEF IInv, TypeOK
      <3> QED
        BY <3>1
    <2>2. stage'[p] \notin {"new", "off"}
      BY DEF Onward
    <2> QED
      BY <2>1, <2>2 DEF Mine, desktop
  <1>3. \A s \in handles'[p] : s.pid = p
    BY DEF IInv, Tied
  <1>4. p \notin faults' => Held(p)'
    <2>1. ended[p] = ""
      BY DEF IInv, TypeOK, Staged
    <2>2. p \notin faults => \A s \in Leftovers(p) : s \in handles[p]
      BY <2>1 DEF IInv, EveryScriptIsHeld
    <2> QED
      BY <2>2 DEF Held, Leftovers, Of, desktop
  <1> QED
    BY <1>1, <1>2, <1>3, <1>4, OwnScriptsOnly

\* A script is handed from the runner's list to a job that removes it.
LEMMA ReleaseTypes ==
  ASSUME IInv, NEW p \in Pids, NEW s \in KwinScript,
         NEW why \in {"window", "purge", "disable", "unload"},
         job' = [job EXCEPT ![p] = Release(s, why)]
  PROVE  /\ job' \in [Pids -> {NoJob} \cup JobType]
         /\ \A q \in Pids \ {p} : job'[q] = job[q]
         /\ job'[p] # NoJob /\ job'[p].why = why /\ job'[p].at = "unload" /\ job'[p].script = s
  <1>1. job \in [Pids -> {NoJob} \cup JobType] /\ Release(s, why) \in JobType
    BY DEF IInv, TypeOK, JobType, Release
  <1>2. job'[p] = Release(s, why)
    BY <1>1
  <1> QED
    BY <1>1, <1>2, NoJobIsNone DEF Release

LEMMA PurgeNextStep ==
  ASSUME IInv, NEW p \in Pids, PurgeNext(p)
  PROVE  IInv'
  <1>1. stage[p] \notin {"new", "off"} /\ job[p] = NoJob
    BY DEF PurgeNext, IInv, Staged
  <1>2. PICK a \in stale[p] : /\ stale' = [stale EXCEPT ![p] = @ \ {a}]
                              /\ job' = [job EXCEPT ![p] = Release(a, "purge")]
    BY DEF PurgeNext
  <1>3. UNCHANGED <<desktop, recycled, script, stage, bridge, todo, next, handles, signals, devMode, ghosts>>
    BY DEF PurgeNext
  <1>4. a \in KwinScript /\ a.pid \in Pids /\ a.pid # p /\ stage[a.pid] = "off"
    <2>1. a \in KwinScript
      BY DEF IInv, TypeOK
    <2> QED
      BY <2>1 DEF IInv, Tied, KwinScript
  <1>5. stale' \in [Pids -> SUBSET {s \in KwinScript : IsShortcut(s)}]
        /\ (\A q \in Pids \ {p} : stale'[q] = stale[q]) /\ stale'[p] \subseteq stale[p]
    BY <1>2 DEF IInv, TypeOK
  <1>6. /\ job' \in [Pids -> {NoJob} \cup JobType] /\ \A q \in Pids \ {p} : job'[q] = job[q]
        /\ job'[p] # NoJob /\ job'[p].why = "purge" /\ job'[p].at = "unload" /\ job'[p].script = a
    BY <1>2, <1>4, ReleaseTypes
  <1>7. job'[p] # NoJob => JobSound(p)'
    BY <1>3, <1>4, <1>6 DEF JobSound
  <1>8. Onward
    BY <1>3, StandsStill
  <1>9. next[p] <= next'[p] /\ next' \in [Pids -> Nat] /\ handles' \in [Pids -> SUBSET KwinScript]
        /\ todo' \in [Pids -> Seq(Kinds)] /\ faults' \subseteq Pids
    BY <1>3, NextIsNat DEF IInv, TypeOK, ghosts
  <1> QED
    BY <1>1, <1>3, <1>5, <1>6, <1>7, <1>8, <1>9, ListStep DEF ghosts

LEMMA BeginStep ==
  ASSUME IInv, NEW p \in Pids, Begin(p)
  PROVE  IInv'
  <1>1. stage[p] \notin {"new", "off"} /\ job[p] = NoJob /\ todo[p] # <<>>
    BY DEF Begin, Making, Free
  <1>2. UNCHANGED <<desktop, recycled, script, bridge, stale, handles, signals, devMode, ghosts>>
    BY DEF Begin
  <1>3. stale' \in [Pids -> SUBSET {s \in KwinScript : IsShortcut(s)}]
        /\ handles' \in [Pids -> SUBSET KwinScript] /\ faults' \subseteq Pids
    BY <1>2 DEF IInv, TypeOK, ghosts
  <1>4. CASE Failed(p, Rest(p)) /\ UNCHANGED <<next, job>>
    <2>1. Onward /\ todo' \in [Pids -> Seq(Kinds)]
      BY <1>1, <1>4, RestIsKinds, FailedMovesOn DEF IInv
    <2>2. next' \in [Pids -> Nat] /\ next[p] <= next'[p] /\ job' \in [Pids -> {NoJob} \cup JobType]
      BY <1>4, NextIsNat DEF IInv, TypeOK, JobType
    <2> QED
      BY <1>1, <1>2, <1>3, <1>4, <2>1, <2>2, ListStep DEF ghosts
  <1>5. CASE /\ next' = [next EXCEPT ![p] = @ + 1]
             /\ job' = [job EXCEPT ![p] = [why |-> "make", at |-> "write", script |-> NewScript(p)]]
             /\ todo' = [todo EXCEPT ![p] = Rest(p)]
             /\ UNCHANGED stage
    <2>1. next \in [Pids -> Nat] /\ next[p] \in Nat /\ Head(todo[p]) \in Kinds
      <3>1. todo[p] \in Seq(Kinds)
        BY DEF IInv, TypeOK
      <3>2. Head(todo[p]) \in Kinds
        BY <1>1, <3>1
      <3> QED
        BY <3>2, NextIsNat DEF IInv
    <2>2. next' \in [Pids -> Nat] /\ next'[p] = next[p] + 1 /\ next[p] <= next'[p]
          /\ (\A q \in Pids \ {p} : next'[q] = next[q])
      BY <1>5, <2>1
    <2>3. NewScript(p) \in KwinScript
      BY <2>1 DEF NewScript, KwinScript
    <2>4. job \in [Pids -> {NoJob} \cup JobType]
          /\ [why |-> "make", at |-> "write", script |-> NewScript(p)] \in JobType
      BY <2>3 DEF IInv, TypeOK, JobType
    <2>5. job' \in [Pids -> {NoJob} \cup JobType] /\ (\A q \in Pids \ {p} : job'[q] = job[q])
          /\ job'[p] = [why |-> "make", at |-> "write", script |-> NewScript(p)]
      BY <1>5, <2>4
    <2>6. NewScript(p) \notin loaded \cup actions
      <3> SUFFICES ASSUME NewScript(p) \in loaded \cup actions
                   PROVE  FALSE
        OBVIOUS
      <3>1. NewScript(p).n <= next[NewScript(p).pid]
        BY DEF IInv, Numbered
      <3> QED
        BY <2>1, <3>1 DEF NewScript
    <2>7. job'[p] # NoJob => JobSound(p)'
      <3>1. NewScript(p).pid = p /\ NewScript(p).n <= next'[p]
        BY <2>1, <2>2 DEF NewScript
      <3> QED
        BY <1>2, <2>5, <2>6, <3>1 DEF JobSound, desktop
    <2>8. Onward
      BY <1>5, StandsStill
    <2>9. todo' \in [Pids -> Seq(Kinds)]
      BY <1>5, RestIsKinds DEF IInv, TypeOK
    <2> QED
      BY <1>1, <1>2, <1>3, <2>2, <2>5, <2>7, <2>8, <2>9, ListStep DEF ghosts
  <1> QED
    BY <1>4, <1>5 DEF Begin

\* One script less in the list, one more to be removed.
LEMMA LetGo ==
  ASSUME IInv, NEW p \in Pids, NEW s \in handles[p],
         handles' = [handles EXCEPT ![p] = @ \ {s}]
  PROVE  /\ s \in KwinScript /\ s.pid = p
         /\ handles' \in [Pids -> SUBSET KwinScript] /\ handles'[p] = handles[p] \ {s}
         /\ \A q \in Pids \ {p} : handles'[q] = handles[q]
  <1>1. handles \in [Pids -> SUBSET KwinScript]
    BY DEF IInv, TypeOK
  <1>2. s \in KwinScript
    BY <1>1
  <1>3. s.pid = p
    BY DEF IInv, Tied
  <1>4. handles'[p] = handles[p] \ {s} /\ \A q \in Pids \ {p} : handles'[q] = handles[q]
    BY <1>1
  <1>5. handles' \in [Pids -> SUBSET KwinScript]
    BY <1>1
  <1> QED
    BY <1>2, <1>3, <1>4, <1>5

LEMMA DisableStep ==
  ASSUME IInv, NEW p \in Pids, Disable(p)
  PROVE  IInv'
  <1>1. stage[p] \notin {"new", "off"} /\ job[p] = NoJob
    BY DEF Disable, Free
  <1>2. PICK s \in handles[p] :
          /\ handles' = [handles EXCEPT ![p] = @ \ {s}]
          /\ \/ /\ job' = [job EXCEPT ![p] = Release(s, "disable")]
                /\ todo' = [todo EXCEPT ![p] = Rest(p)] /\ UNCHANGED <<stage, faults>>
             \/ Fault(p) /\ Failed(p, <<>>) /\ UNCHANGED job
    BY DEF Disable
  <1>3. UNCHANGED <<desktop, recycled, script, bridge, stale, next, signals, devMode, ended, company>>
        /\ faults \subseteq faults' /\ faults' \subseteq Pids
    BY DEF Disable, Fault, IInv, TypeOK
  <1>4. stale' \in [Pids -> SUBSET {t \in KwinScript : IsShortcut(t)}]
        /\ next' \in [Pids -> Nat] /\ next[p] <= next'[p]
    BY <1>3, NextIsNat DEF IInv, TypeOK
  <1>5. s \in KwinScript /\ s.pid = p
        /\ handles' \in [Pids -> SUBSET KwinScript] /\ handles'[p] = handles[p] \ {s}
        /\ \A q \in Pids \ {p} : handles'[q] = handles[q]
    BY <1>2, LetGo
  <1>6. CASE /\ job' = [job EXCEPT ![p] = Release(s, "disable")]
             /\ todo' = [todo EXCEPT ![p] = Rest(p)] /\ UNCHANGED <<stage, faults>>
    <2>1. /\ job' \in [Pids -> {NoJob} \cup JobType] /\ \A q \in Pids \ {p} : job'[q] = job[q]
          /\ job'[p] # NoJob /\ job'[p].why = "disable" /\ job'[p].at = "unload" /\ job'[p].script = s
      <3>1. s \in KwinScript /\ job' = [job EXCEPT ![p] = Release(s, "disable")]
        BY <1>5, <1>6
      <3> QED
        BY <3>1, ReleaseTypes
    <2>2. job'[p] # NoJob => JobSound(p)'
      BY <1>5, <2>1 DEF JobSound
    <2>3. Onward
      BY <1>6, StandsStill
    <2>4. todo' \in [Pids -> Seq(Kinds)]
      BY <1>6, RestIsKinds DEF IInv, TypeOK
    <2> QED
      BY <1>1, <1>3, <1>4, <1>5, <2>1, <2>2, <2>3, <2>4, ListStep
  <1>7. CASE Fault(p) /\ Failed(p, <<>>) /\ UNCHANGED job
    <2>1. <<>> \in Seq(Kinds)
      OBVIOUS
    <2>2. Onward /\ todo' \in [Pids -> Seq(Kinds)]
      BY <1>1, <1>7, <2>1, FailedMovesOn
    <2>3. job' \in [Pids -> {NoJob} \cup JobType] /\ p \in faults'
      BY <1>7 DEF IInv, TypeOK, JobType, Fault
    <2> QED
      BY <1>1, <1>3, <1>4, <1>5, <1>7, <2>2, <2>3, ListStep
  <1> QED
    BY <1>2, <1>6, <1>7

LEMMA UnloadStep ==
  ASSUME IInv, NEW p \in Pids, Unload(p)
  PROVE  IInv'
  <1>1. stage[p] \notin {"new", "off"} /\ job[p] = NoJob
    BY DEF Unload
  <1>2. PICK s \in handles[p] : /\ handles' = [handles EXCEPT ![p] = @ \ {s}]
                                /\ job' = [job EXCEPT ![p] = Release(s, "unload")]
    BY DEF Unload
  <1>3. UNCHANGED <<desktop, recycled, script, stage, bridge, stale, todo, next, signals, devMode, ghosts>>
    BY DEF Unload
  <1>4. stale' \in [Pids -> SUBSET {t \in KwinScript : IsShortcut(t)}] /\ faults' \subseteq Pids
        /\ next' \in [Pids -> Nat] /\ next[p] <= next'[p] /\ todo' \in [Pids -> Seq(Kinds)]
    BY <1>3, NextIsNat DEF IInv, TypeOK, ghosts
  <1>5. s \in KwinScript /\ s.pid = p
        /\ handles' \in [Pids -> SUBSET KwinScript] /\ handles'[p] = handles[p] \ {s}
        /\ \A q \in Pids \ {p} : handles'[q] = handles[q]
    BY <1>2, LetGo
  <1>6. /\ job' \in [Pids -> {NoJob} \cup JobType] /\ \A q \in Pids \ {p} : job'[q] = job[q]
        /\ job'[p] # NoJob /\ job'[p].why = "unload" /\ job'[p].at = "unload" /\ job'[p].script = s
    BY <1>2, <1>5, ReleaseTypes
  <1>7. job'[p] # NoJob => JobSound(p)'
    BY <1>5, <1>6 DEF JobSound
  <1>8. Onward
    BY <1>3, StandsStill
  <1> QED
    BY <1>1, <1>3, <1>4, <1>5, <1>6, <1>7, <1>8, ListStep DEF ghosts

LEMMA UndoneStep ==
  ASSUME IInv, NEW p \in Pids, Undone(p)
  PROVE  IInv'
  <1>1. Onward
    BY OneMovesOn DEF Undone, Stages, Early
  <1>2. faults \subseteq faults' /\ faults' \subseteq Pids
    BY DEF Undone, Fault, IInv, TypeOK
  <1>3. bridge' \in [Pids -> {"none", "purging", "up"}]
        /\ \A q \in Pids : bridge'[q] = bridge[q] \/ stage'[q] \notin {"new", "off"}
    BY DEF Undone, IInv, TypeOK
  <1> QED
    BY <1>1, <1>2, <1>3, Calm DEF Undone, IInv, TypeOK, Tied, signals

LEMMA ReturnSteps ==
  ASSUME IInv, NEW p \in Pids, Return(p) \/ DropSignalFd(p)
  PROVE  IInv'
  BY UnmaskStep DEF Return, DropSignalFd

-----------------------------------------------------------------------------
(* The invariant.                                                            *)

LEMMA InitIsSound == Init => IInv
  <1> SUFFICES ASSUME Init
               PROVE  IInv
    OBVIOUS
  <1>1. TypeOK
    <2>1. <<>> \in Seq(Kinds)
      OBVIOUS
    <2>2. stage \in [Pids -> Stages] /\ bridge \in [Pids -> {"none", "purging", "up"}]
          /\ ended \in [Pids -> {"", "self", "signal", "killed"}]
      BY DEF Init, Stages
    <2>3. job \in [Pids -> {NoJob} \cup JobType] /\ todo \in [Pids -> Seq(Kinds)]
      BY <2>1 DEF Init
    <2>4. stale \in [Pids -> SUBSET {s \in KwinScript : IsShortcut(s)}]
          /\ handles \in [Pids -> SUBSET KwinScript]
      BY DEF Init
    <2>5. next \in [Pids -> Nat] /\ devMode \in [Pids -> BOOLEAN]
          /\ owner \in [Shortcuts -> {NoOwner} \cup actions]
      BY DEF Init
    <2> QED
      BY <2>2, <2>3, <2>4, <2>5 DEF Init, TypeOK, JobType
  <1>2. Staged
    BY DEF Init, Staged, Early
  <1>3. Tied /\ Jobs /\ Numbered
    BY DEF Init, Tied, Jobs, Numbered
  <1>4. EveryScriptIsHeld /\ NothingLeftBehind
    BY DEF Init, EveryScriptIsHeld, NothingLeftBehind, Leftovers, Of
  <1> QED
    BY <1>1, <1>2, <1>3, <1>4 DEF IInv

LEMMA StepIsSound == IInv /\ [Next]_vars => IInv'
  <1> SUFFICES ASSUME IInv, [Next]_vars
               PROVE  IInv'
    OBVIOUS
  <1>1. CASE UNCHANGED vars
    BY <1>1, StutterStep
  <1>2. ASSUME NEW p \in Pids, Launch(p) \/ Signal(p) \/ Kill(p) \/ Recycle(p)
        PROVE  IInv'
    BY <1>2, LaunchStep, SignalSteps, DeathSteps
  <1>3. ASSUME NEW p \in Pids, Startup(p)
        PROVE  IInv'
    BY <1>3, StartupSteps, FinishStageStep DEF Startup
  <1>4. ASSUME NEW p \in Pids, Bridge(p)
        PROVE  IInv'
    BY <1>4, ConnectSteps, PurgeNextStep, BeginStep, WriteFileStep, LoadScriptStep, StartScriptStep,
       UnloadScriptStep, UnregisterStep, RemoveFileStep DEF Bridge
  <1>5. ASSUME NEW p \in Pids, Looping(p)
        PROVE  IInv'
    BY <1>5, LoopSteps, DisableStep DEF Looping
  <1>6. ASSUME NEW p \in Pids, Ending(p)
        PROVE  IInv'
    BY <1>6, LoopSteps, ReturnSteps, UnloadStep, UndoneStep, DeathSteps DEF Ending
  <1> QED
    BY <1>1, <1>2, <1>3, <1>4, <1>5, <1>6 DEF Next, Runner

LEMMA Invariance == Spec => []IInv
  BY InitIsSound, StepIsSound, PTL DEF Spec

\* Whatever the number of runners, their scripts and limits: as long as no call
\* of it has failed, everything a running runner has on the desktop is in its
\* handles or in the job it works on, and one that ends by itself has left
\* nothing behind.
THEOREM ScriptsAreKept == Spec => []Inv
  <1>1. IInv => Inv
    BY DEF IInv, Inv
  <1> QED
    BY <1>1, Invariance, PTL

-----------------------------------------------------------------------------
(* Whose scripts are taken from the desktop.                                 *)

\* What is taken away is the script of somebody's job.
LEMMA OnlyJobsTake ==
  ASSUME IInv, [Next]_vars, NEW s \in loaded \cup actions, s \notin loaded' \cup actions'
  PROVE  \E q \in Pids : job[q] # NoJob /\ job[q].script = s
  <1>1. CASE UNCHANGED vars
    BY <1>1 DEF vars, desktop
  <1>2. CASE Next
    <2> PICK q \in Pids : Launch(q) \/ Runner(q) \/ Signal(q) \/ Kill(q) \/ Recycle(q)
      BY <1>2 DEF Next
    <2>1. ASSUME UNCHANGED <<loaded, actions>> PROVE FALSE
      BY <2>1
    <2>2. CASE Launch(q) \/ Signal(q) \/ Kill(q) \/ Recycle(q)
      BY <2>1, <2>2 DEF Launch, Signal, Kill, Recycle, Dies, desktop
    <2>3. CASE Startup(q)
      BY <2>1, <2>3 DEF Startup, GiveUp, Accept, Prepare, RefuseHotkeys, FinishStage, desktop
    <2>4. CASE Looping(q)
      BY <2>1, <2>4 DEF Looping, AskWindow, ToggleDevMode, Disable, EndLoop, desktop
    <2>5. CASE Ending(q)
      BY <2>1, <2>5 DEF Ending, DrainSignal, Return, Unload, Undone, DropSignalFd, Exit, Unmask, Dies, desktop
    <2>6. CASE Bridge(q)
      <3>1. CASE Connect(q) \/ PurgeNext(q) \/ FinishConnect(q) \/ Begin(q)
        BY <2>1, <3>1 DEF Connect, PurgeNext, FinishConnect, Begin, desktop
      <3>2. CASE WriteFile(q) \/ RemoveFile(q)
        BY <2>1, <3>2 DEF WriteFile, RemoveFile, kwin
      <3>3. CASE LoadScript(q)
        BY <3>3 DEF LoadScript, kwin
      <3>4. CASE StartScript(q)
        BY <3>4 DEF StartScript, KwinStart, kwin
      <3>5. CASE UnloadScript(q)
        BY <2>1, <3>5 DEF UnloadScript, KwinUnload, At, kwin
      <3>6. CASE UnregisterAction(q)
        BY <2>1, <3>6 DEF UnregisterAction, Unregister, At, kwin
      <3> QED
        BY <2>6, <3>1, <3>2, <3>3, <3>4, <3>5, <3>6 DEF Bridge
    <2> QED
      BY <2>2, <2>3, <2>4, <2>5, <2>6 DEF Runner
  <1> QED
    BY <1>1, <1>2

\* Whatever the number of runners and their steps: a script leaves KWin, and a
\* shortcut KGlobalAccel, by the hand of its own runner or after that runner is
\* gone; the purge of a starting runner never takes a running one's.
THEOREM TheLivingAreSpared == Spec => OnlyTheDeadArePurged
  <1>1. ASSUME IInv, [Next]_vars, NEW p \in Pids, Alive(p), p \notin recycled,
               NEW s \in Of(p, loaded \cup actions) \ (loaded' \cup actions')
        PROVE  job[p] # NoJob /\ job[p].script = s
    <2>1. s.pid = p /\ stage[p] # "off"
      BY <1>1 DEF Of, Alive
    <2>2. PICK q \in Pids : job[q] # NoJob /\ job[q].script = s
      BY <1>1, OnlyJobsTake DEF Of
    <2>3. JobSound(q)
      BY <1>1, <2>2, AtWork
    <2>4. q = p
      BY <2>1, <2>2, <2>3 DEF JobSound
    <2> QED
      BY <2>2, <2>4
  <1>2. IInv /\ [Next]_vars =>
          [\A p \in Pids : Alive(p) /\ p \notin recycled =>
             \A s \in Of(p, loaded \cup actions) \ (loaded' \cup actions') :
               job[p] # NoJob /\ job[p].script = s]_vars
    BY <1>1
  <1> QED
    BY <1>2, Invariance, PTL DEF Spec, OnlyTheDeadArePurged

-----------------------------------------------------------------------------
(* The keys of a runner that is alone.                                       *)

\* A key goes to an action of its own; a runner that has not begun holds nothing.
KeysMatch ==
  /\ \A k \in Shortcuts : owner[k] # NoOwner => owner[k].kind = k
  /\ \A p \in Pids : stage[p] = "new" => handles[p] = {}

Lone(p) == stage[p] \notin {"new", "off"} /\ p \notin faults \cup company

Apart(p) == \A q \in Pids \ {p} : stage[q] \in {"new", "off"} /\ q \notin recycled

\* The script of its job is no handle; one it makes is made on a bridge that has
\* purged, and does not run before its turn.
JobApart(p) ==
  LET s == job[p].script
  IN /\ s \notin handles[p]
     /\ job[p].why = "make" => bridge[p] = "up" /\ job[p].at \in {"write", "load", "start"}
     /\ job[p].at \in {"write", "load", "start"} => s \notin started \cup actions
     /\ job[p].at = "start" => s \in loaded
     /\ job[p].why = "purge" => IsShortcut(s)

\* Its handles run, and start runs no script but the one it is for.
LoadedRuns(p) ==
  /\ handles[p] \subseteq started
  /\ \A s \in loaded \ started : job[p] # NoJob /\ job[p].script = s /\ job[p].at = "start"

\* An action that is not its own is still to be purged, or nothing was purged yet.
Due(p, a) ==
  \/ bridge[p] = "none"
  \/ bridge[p] = "purging" /\ a \in stale[p]
  \/ /\ bridge[p] = "purging" /\ job[p] # NoJob /\ job[p].why = "purge"
     /\ job[p].script = a /\ job[p].at \in {"unload", "unregister"}

Purged(p) == \A a \in actions : a.pid = p \/ Due(p, a)

Owned(p, k) == owner[k] \in handles[p] \cap started
InMaking(p, k) == job[p] # NoJob /\ job[p].why = "make" /\ job[p].script.kind = k
InLoop == {"developer", "loop", "window", "enable", "disable"}
Wanted(p) == Range(script[p].hotkeys)

\* A key of its script is still to be registered, is being registered or is its own.
Progress(p) ==
  /\ stage[p] = "hotkeys" =>
       \A k \in Wanted(p) : k \in Range(todo[p]) \/ InMaking(p, k) \/ Owned(p, k)
  /\ stage[p] \in InLoop => \A k \in Wanted(p) : Owned(p, k)
  /\ stage[p] = "disable" => Range(todo[p]) \subseteq DevKeys

Alone(p) ==
  Apart(p) /\ (job[p] # NoJob => JobApart(p)) /\ LoadedRuns(p) /\ Purged(p) /\ Progress(p)

KInv == KeysMatch /\ \A p \in Pids : Lone(p) => Alone(p)

-----------------------------------------------------------------------------
LEMMA StateTypes ==
  ASSUME IInv
  PROVE  /\ stage \in [Pids -> Stages] /\ bridge \in [Pids -> {"none", "purging", "up"}]
         /\ stale \in [Pids -> SUBSET {s \in KwinScript : IsShortcut(s)}]
         /\ todo \in [Pids -> Seq(Kinds)] /\ job \in [Pids -> {NoJob} \cup JobType]
         /\ handles \in [Pids -> SUBSET KwinScript]
         /\ loaded \subseteq KwinScript /\ started \subseteq loaded
         /\ actions \subseteq {s \in KwinScript : IsShortcut(s)}
         /\ owner \in [Shortcuts -> {NoOwner} \cup actions]
  BY DEF IInv, TypeOK, JobType

LEMMA NobodyOwns == NoOwner \notin KwinScript
  BY DEF NoOwner, KwinScript

\* The keys of the scripts are shortcuts, and none of developer mode's.
LEMMA WantedKeys ==
  ASSUME IInv, NEW p \in Pids, NEW k \in Wanted(p)
  PROVE  k \in Shortcuts /\ k \notin DevKeys /\ k # "window" /\ k # "monitor"
  <1>1. k \in Keys
    <2>1. script[p].hotkeys \in Seq(Keys)
      BY PlansOfScripts DEF IInv
    <2>2. PICK i \in DOMAIN script[p].hotkeys : k = script[p].hotkeys[i]
      BY DEF Wanted, Range
    <2> QED
      BY <2>1, <2>2
  <1> QED
    BY <1>1, SessionAssumption DEF Shortcuts

LEMMA RestOfTasks ==
  ASSUME NEW s, NEW t \in Seq(s), t # <<>>
  PROVE  /\ \A k \in Range(t) : k = Head(t) \/ k \in Range(SubSeq(t, 2, Len(t)))
         /\ Range(SubSeq(t, 2, Len(t))) \subseteq Range(t)
  <1> DEFINE r == SubSeq(t, 2, Len(t))
  <1>1. Len(t) \in Nat /\ Len(t) > 0 /\ DOMAIN t = 1..Len(t) /\ Head(t) = t[1]
    BY EmptySeq
  <1>2. Len(r) = Len(t) - 1 /\ \A i \in 1..(Len(t) - 1) : r[i] = t[i + 1]
    BY <1>1, SubSeqProperties
  <1>3. DOMAIN r = 1..(Len(t) - 1)
    BY <1>1, <1>2, SubSeqProperties
  <1> HIDE DEF r
  <1>4. ASSUME NEW i \in DOMAIN t
        PROVE  t[i] = Head(t) \/ t[i] \in Range(r)
    <2>1. CASE i = 1
      BY <1>1, <2>1
    <2>2. CASE i # 1
      <3>1. i - 1 \in 1..(Len(t) - 1) /\ (i - 1) + 1 = i
        BY <1>1, <2>2
      <3> QED
        BY <1>2, <1>3, <3>1 DEF Range
    <2> QED
      BY <2>1, <2>2
  <1>5. ASSUME NEW i \in DOMAIN r
        PROVE  r[i] \in Range(t)
    <2>1. i + 1 \in DOMAIN t /\ r[i] = t[i + 1]
      BY <1>1, <1>2, <1>3
    <2> QED
      BY <2>1 DEF Range
  <1> QED
    BY <1>4, <1>5 DEF Range, r

\* Where a startup goes: the hotkeys come before everything of the loop.
LEMMA HotkeysFirst ==
  ASSUME IInv, NEW p \in Pids, NEW s \in {"prepare", "monitor"}, s \in Range(script[p].plan)
  PROVE  After(p, s) \in {"monitor", "hotkeys"}
  <1> DEFINE plan == script[p].plan
             i == CHOOSE j \in DOMAIN plan : plan[j] = s
  <1>1. i \in DOMAIN plan /\ plan[i] = s
    BY DEF Range
  <1>2. After(p, s) = plan[i + 1]
    BY DEF After
  <1> HIDE DEF i
  <1>3. plan \in Plans
    BY PlansOfScripts DEF IInv
  <1> HIDE DEF plan
  <1>4. CASE plan = LiveDeclarative
    BY <1>1, <1>2, <1>4 DEF LiveDeclarative
  <1>5. CASE plan = RealDeclarative
    BY <1>1, <1>2, <1>5 DEF RealDeclarative
  <1>6. CASE plan = RealController
    BY <1>1, <1>2, <1>6 DEF RealController
  <1> QED
    BY <1>3, <1>4, <1>5, <1>6 DEF Plans

-----------------------------------------------------------------------------
(* How the keys of a lone runner fare.                                       *)

\* A key it owns stays its own while the key, the script and the handle do.
LEMMA OwnedStays ==
  ASSUME UNCHANGED <<owner, started>>, NEW p \in Pids, handles[p] \subseteq handles'[p], NEW k
  PROVE  Owned(p, k) => Owned(p, k)'
  BY DEF Owned

LEMMA ProgressKept ==
  ASSUME NEW p \in Pids, Progress(p), UNCHANGED script, stage'[p] = stage[p], todo'[p] = todo[p],
         \A k \in Wanted(p) : Owned(p, k) => Owned(p, k)',
         stage[p] = "hotkeys" =>
           \A k \in Wanted(p) : InMaking(p, k) => InMaking(p, k)' \/ Owned(p, k)'
  PROVE  Progress(p)'
  <1>1. Wanted(p)' = Wanted(p)
    BY DEF Wanted
  <1> QED
    BY <1>1 DEF Progress

LEMMA ProgressEnds ==
  ASSUME NEW p \in Pids, stage'[p] \notin InLoop \cup {"hotkeys"}
  PROVE  Progress(p)'
  BY DEF Progress, InLoop

\* From one part of the loop to another.
LEMMA ProgressInLoop ==
  ASSUME NEW p \in Pids, Progress(p), UNCHANGED script, stage[p] \in InLoop, stage'[p] \in InLoop,
         \A k \in Wanted(p) : Owned(p, k) => Owned(p, k)',
         stage'[p] = "disable" => Range(todo'[p]) \subseteq DevKeys
  PROVE  Progress(p)'
  <1>1. Wanted(p)' = Wanted(p)
    BY DEF Wanted
  <1> QED
    BY <1>1 DEF Progress, InLoop

LEMMA FailedProgress ==
  ASSUME IInv, NEW p \in Pids, Progress(p), UNCHANGED <<script, owner, started, handles>>,
         NEW rest, Failed(p, rest)
  PROVE  Progress(p)'
  <1>1. /\ stage'[p] \in {"undo", "leaving", stage[p]}
        /\ stage'[p] \in {"undo", "leaving"} \/ stage[p] \in {"developer", "enable", "window"}
    BY StateTypes DEF Failed
  <1>2. CASE stage'[p] \in {"undo", "leaving"}
    BY <1>2, ProgressEnds DEF InLoop
  <1>3. CASE stage'[p] = stage[p] /\ stage[p] \in {"developer", "enable", "window"}
    <2>1. \A k \in Wanted(p) : Owned(p, k) => Owned(p, k)'
      BY OwnedStays
    <2> QED
      BY <1>3, <2>1, ProgressInLoop DEF InLoop
  <1> QED
    BY <1>1, <1>2, <1>3

-----------------------------------------------------------------------------
(* The steps of a lone runner, one by one.                                   *)

\* The others stand where they stood.
LEMMA ApartStays ==
  ASSUME NEW p \in Pids, Apart(p), \A q \in Pids \ {p} : stage'[q] = stage[q], recycled' = recycled
  PROVE  Apart(p)'
  BY DEF Apart

\* A step that touches neither the desktop nor the work in hand.
LEMMA NothingTaken ==
  ASSUME NEW p \in Pids, Alone(p), UNCHANGED <<kwin, job, handles>>,
         UNCHANGED <<bridge, stale>> \/ (Purged(p)' /\ (bridge[p] = "up" => bridge'[p] = "up")),
         Apart(p)', Progress(p)'
  PROVE  Alone(p)'
  <1>1. (job[p] # NoJob => JobApart(p))'
    BY DEF Alone, JobApart, kwin
  <1>2. LoadedRuns(p)'
    BY DEF Alone, LoadedRuns, kwin
  <1>3. Purged(p)'
    BY DEF Alone, Purged, Due, kwin
  <1> QED
    BY <1>1, <1>2, <1>3 DEF Alone

LEMMA LoneLaunch ==
  ASSUME IInv, KeysMatch, NEW p \in Pids, Launch(p), Lone(p)'
  PROVE  Alone(p)'
  <1>1. Others(p) = {} /\ Orphans(p) = {}
    BY DEF Launch, Lone
  <1>2. stage'[p] = "ask" /\ (\A q \in Pids \ {p} : stage'[q] = stage[q]) /\ recycled' = recycled
    BY StateTypes DEF Launch
  <1>3. Apart(p)'
    BY <1>1, <1>2 DEF Apart, Others, Alive
  <1>4. job'[p] = NoJob /\ bridge'[p] = "none" /\ next[p] = 0
    BY DEF Launch, work, IInv, Staged
  <1>5. handles'[p] = {}
    BY DEF Launch, work, KeysMatch
  <1>6. loaded \ started = {}
    <2> SUFFICES ASSUME NEW s \in loaded \ started
                 PROVE  FALSE
      OBVIOUS
    <2>1. s.pid = p
      BY <1>1 DEF Orphans
    <2>2. s.n \in Nat \ {0}
      BY StateTypes DEF KwinScript
    <2>3. s.n <= next[p]
      BY <2>1 DEF IInv, Numbered
    <2> QED
      BY <1>4, <2>2, <2>3
  <1>7. LoadedRuns(p)'
    BY <1>5, <1>6 DEF LoadedRuns, Launch, desktop
  <1>8. Purged(p)'
    BY <1>4 DEF Purged, Due
  <1>9. Progress(p)'
    BY <1>2, ProgressEnds DEF InLoop
  <1> QED
    BY <1>3, <1>4, <1>7, <1>8, <1>9 DEF Alone

LEMMA LoneStartup ==
  ASSUME IInv, NEW p \in Pids, Alone(p), GiveUp(p) \/ Accept(p) \/ Prepare(p) \/ RefuseHotkeys(p)
  PROVE  Alone(p)'
  <1>1. UNCHANGED <<kwin, script, recycled, bridge, stale, job, handles>>
    BY DEF GiveUp, Accept, Prepare, RefuseHotkeys, desktop, kwin, work
  <1>2. \A q \in Pids \ {p} : stage'[q] = stage[q]
    BY StateTypes DEF GiveUp, Accept, Prepare, RefuseHotkeys, Enter
  <1>3. Progress(p)'
    <2>1. CASE GiveUp(p) \/ Accept(p) \/ RefuseHotkeys(p)
      <3>1. stage'[p] \in {"drop", "prepare"}
        BY <2>1, StateTypes DEF GiveUp, Accept, RefuseHotkeys, Enter
      <3> QED
        BY <3>1, ProgressEnds DEF InLoop
    <2>2. CASE Prepare(p)
      <3>1. PICK s \in {After(p, "prepare"), "undo"} : Enter(p, s)
        BY <2>2 DEF Prepare
      <3>2. s \in {"monitor", "hotkeys", "undo"}
        BY <2>2, HotkeysFirst DEF Prepare, IInv, Staged, Early
      <3>3. stage'[p] = s /\ (s = "hotkeys" => todo'[p] = script[p].hotkeys)
        BY <3>1, StateTypes DEF Enter, Tasks
      <3> QED
        BY <1>1, <3>2, <3>3 DEF Progress, InLoop, Wanted
    <2> QED
      BY <2>1, <2>2
  <1>4. Apart(p)'
    BY <1>1, <1>2, ApartStays DEF Alone
  <1> QED
    BY <1>1, <1>3, <1>4, NothingTaken

LEMMA LoneFinishStage ==
  ASSUME IInv, NEW p \in Pids, Alone(p), FinishStage(p)
  PROVE  Alone(p)'
  <1>1. UNCHANGED <<kwin, script, recycled, bridge, stale, job, handles>>
    BY DEF FinishStage, desktop, kwin
  <1>2. stage'[p] = After(p, stage[p]) /\ todo'[p] = Tasks(p, After(p, stage[p]))
        /\ \A q \in Pids \ {p} : stage'[q] = stage[q]
    BY StateTypes DEF FinishStage, Enter
  <1>3. job[p] = NoJob /\ todo[p] = <<>> /\ stage[p] \in Making \cup {"disable"}
    BY DEF FinishStage, Free
  <1>4. Wanted(p)' = Wanted(p) /\ \A k \in Wanted(p) : Owned(p, k) => Owned(p, k)'
    BY <1>1, OwnedStays DEF kwin, Wanted
  <1>5. Progress(p)'
    <2>1. CASE stage[p] = "monitor"
      <3>1. stage'[p] \in {"monitor", "hotkeys"}
        BY <1>2, <2>1, HotkeysFirst DEF IInv, Staged, Early
      <3>2. stage'[p] = "hotkeys" => todo'[p] = script[p].hotkeys
        BY <1>2 DEF Tasks
      <3> QED
        BY <1>4, <3>1, <3>2 DEF Progress, InLoop, Wanted
    <2>2. CASE stage[p] # "monitor"
      <3>1. \A k \in Wanted(p) : Owned(p, k)
        <4>1. CASE stage[p] = "hotkeys"
          <5>1. Range(todo[p]) = {} /\ \A k \in Wanted(p) : ~InMaking(p, k)
            BY <1>3 DEF Range, InMaking
          <5> QED
            BY <4>1, <5>1 DEF Alone, Progress
        <4>2. CASE stage[p] # "hotkeys"
          BY <1>3, <2>2, <4>2 DEF Alone, Progress, Making, InLoop
        <4> QED
          BY <4>1, <4>2
      <3>2. stage'[p] \in {"monitor", "hotkeys", "developer", "loop"}
        <4>1. CASE stage[p] \in Early
          BY <1>2, <4>1, PlanGoesOn DEF IInv, Staged
        <4>2. CASE stage[p] \notin Early
          BY <1>2, <1>3, <4>2 DEF After, Making, Early
        <4> QED
          BY <4>1, <4>2
      <3> QED
        BY <1>4, <3>1, <3>2 DEF Progress
    <2> QED
      BY <2>1, <2>2
  <1>6. Apart(p)'
    BY <1>1, <1>2, ApartStays DEF Alone
  <1> QED
    BY <1>1, <1>5, <1>6, NothingTaken

LEMMA LoneLoop ==
  ASSUME IInv, NEW p \in Pids, Alone(p),
         AskWindow(p) \/ ToggleDevMode(p) \/ DrainSignal(p) \/ EndLoop(p)
  PROVE  Alone(p)'
  <1>1. UNCHANGED <<kwin, script, recycled, bridge, stale, job, handles>> /\ stage[p] = "loop"
    BY DEF AskWindow, ToggleDevMode, DrainSignal, EndLoop, desktop, kwin, work
  <1>2. stage'[p] \in {"window", "enable", "disable", "leaving"}
        /\ \A q \in Pids \ {p} : stage'[q] = stage[q]
    BY StateTypes DEF AskWindow, ToggleDevMode, DrainSignal, EndLoop
  <1>3. stage'[p] = "disable" => Range(todo'[p]) \subseteq DevKeys
    <2> SUFFICES ASSUME stage'[p] = "disable"
                 PROVE  Range(todo'[p]) \subseteq DevKeys
      OBVIOUS
    <2>1. ToggleDevMode(p)
      BY StateTypes DEF AskWindow, ToggleDevMode, DrainSignal, EndLoop
    <2>2. PICK keys \in InOrder : Range(keys) \subseteq DevKeys /\ todo' = [todo EXCEPT ![p] = keys]
      BY <2>1 DEF ToggleDevMode
    <2> QED
      BY <2>2, StateTypes
  <1>4. Progress(p)'
    <2>1. CASE stage'[p] = "leaving"
      BY <2>1, ProgressEnds DEF InLoop
    <2>2. CASE stage'[p] # "leaving"
      <3>1. \A k \in Wanted(p) : Owned(p, k) => Owned(p, k)'
        BY <1>1, OwnedStays DEF kwin
      <3> QED
        BY <1>1, <1>2, <1>3, <2>2, <3>1, ProgressInLoop DEF Alone, InLoop
    <2> QED
      BY <2>1, <2>2
  <1>5. Apart(p)'
    BY <1>1, <1>2, ApartStays DEF Alone
  <1> QED
    BY <1>1, <1>4, <1>5, NothingTaken

\* The purge is for every action but its own: the others are gone.
LEMMA LoneConnect ==
  ASSUME IInv, NEW p \in Pids, Alone(p), Connect(p) \/ FinishConnect(p), Lone(p)'
  PROVE  Alone(p)'
  <1>1. ~Fault(p)
    BY DEF Fault, Lone
  <1>2. UNCHANGED <<kwin, script, recycled, job, handles, stage, todo>>
    BY <1>1 DEF Connect, FinishConnect, desktop, kwin
  <1>3. Purged(p)' /\ bridge[p] # "up"
    <2>1. CASE Connect(p)
      <3>1. bridge'[p] = "purging" /\ stale'[p] = Stale /\ bridge[p] # "up"
        BY <1>1, <2>1, StateTypes DEF Connect
      <3>2. ASSUME NEW a \in actions, a.pid # p
            PROVE  a \in Stale
        <4>1. a.pid \in Pids
          BY StateTypes DEF KwinScript
        <4> QED
          BY <3>2, <4>1 DEF Stale, Alive, Alone, Apart
      <3> QED
        BY <1>2, <3>1, <3>2 DEF Purged, Due, kwin
    <2>2. CASE FinishConnect(p)
      BY <1>1, <1>2, <2>2 DEF FinishConnect, Alone, Purged, Due, kwin
    <2> QED
      BY <2>1, <2>2
  <1>4. Progress(p)'
    <2>1. \A k \in Wanted(p) : /\ Owned(p, k) => Owned(p, k)'
                               /\ InMaking(p, k) => InMaking(p, k)'
      BY <1>2, OwnedStays DEF kwin, InMaking
    <2> QED
      BY <1>2, <2>1, ProgressKept DEF Alone
  <1>5. Apart(p)'
    BY <1>2, ApartStays DEF Alone
  <1> QED
    BY <1>2, <1>3, <1>4, <1>5, NothingTaken

\* A failed call, with no script in hand any more.
LEMMA LoneFails ==
  ASSUME IInv, NEW p \in Pids, Alone(p), UNCHANGED <<kwin, script, recycled, bridge, stale, handles>>,
         job[p] = NoJob \/ job[p].at \notin {"start", "unload", "unregister"},
         job'[p] = NoJob, NEW rest, Failed(p, rest)
  PROVE  Alone(p)'
  <1>1. Progress(p)'
    BY FailedProgress DEF Alone, kwin
  <1>2. \A q \in Pids \ {p} : stage'[q] = stage[q]
    BY StateTypes DEF Failed
  <1>3. Apart(p)'
    BY <1>2, ApartStays DEF Alone
  <1>4. Purged(p)' /\ LoadedRuns(p)'
    BY DEF Alone, Purged, Due, LoadedRuns, kwin
  <1> QED
    BY <1>1, <1>3, <1>4 DEF Alone

LEMMA LoneBegin ==
  ASSUME IInv, NEW p \in Pids, Alone(p), Begin(p)
  PROVE  Alone(p)'
  <1>1. UNCHANGED <<kwin, script, recycled, bridge, stale, handles>>
    BY DEF Begin, desktop, kwin
  <1>2. job[p] = NoJob /\ todo[p] # <<>> /\ bridge[p] = "up" /\ stage[p] \in Making
    BY DEF Begin, Free
  <1>3. CASE Failed(p, Rest(p)) /\ UNCHANGED job
    BY <1>1, <1>2, <1>3, LoneFails
  <1>4. CASE /\ job' = [job EXCEPT ![p] = [why |-> "make", at |-> "write", script |-> NewScript(p)]]
             /\ todo' = [todo EXCEPT ![p] = Rest(p)]
             /\ UNCHANGED stage
    <2>1. /\ job'[p] # NoJob /\ job'[p].why = "make" /\ job'[p].at = "write"
          /\ job'[p].script = NewScript(p) /\ NewScript(p).kind = Head(todo[p])
      BY <1>4, StateTypes DEF NoJob, NewScript
    <2>2. todo'[p] = Rest(p) /\ todo[p] \in Seq(Kinds)
      BY <1>4, StateTypes
    <2>3. NewScript(p) \notin loaded \cup actions
      <3> SUFFICES ASSUME NewScript(p) \in loaded \cup actions
                   PROVE  FALSE
        OBVIOUS
      <3>1. NewScript(p).n <= next[NewScript(p).pid]
        BY DEF IInv, Numbered
      <3>2. next[p] \in Nat
        BY NextIsNat DEF IInv
      <3> QED
        BY <3>1, <3>2 DEF NewScript
    <2>4. JobApart(p)'
      <3>1. NewScript(p) \notin handles[p]
        BY <2>3, StateTypes DEF Alone, LoadedRuns
      <3>2. NewScript(p) \notin started
        BY <2>3, StateTypes
      <3> QED
        BY <1>1, <1>2, <2>1, <2>3, <3>1, <3>2 DEF JobApart, kwin
    <2>5. LoadedRuns(p)' /\ Purged(p)'
      BY <1>1, <1>2 DEF Alone, LoadedRuns, Purged, Due, kwin
    <2>6. Progress(p)'
      <3>1. \A k \in Wanted(p) : Owned(p, k) => Owned(p, k)'
        BY <1>1, OwnedStays DEF kwin
      <3>2. Wanted(p)' = Wanted(p) /\ stage'[p] = stage[p] /\ stage[p] # "disable"
        BY <1>1, <1>2, <1>4 DEF Wanted, Making
      <3>3. ASSUME NEW k \in Wanted(p), stage[p] = "hotkeys"
            PROVE  k \in Range(todo'[p]) \/ InMaking(p, k)' \/ Owned(p, k)'
        <4>1. k \in Range(todo[p]) \/ Owned(p, k)
          BY <1>2, <3>3 DEF Alone, Progress, InMaking
        <4>2. CASE k \in Range(todo[p])
          <5>1. k = Head(todo[p]) \/ k \in Range(Rest(p))
            BY <1>2, <2>2, <4>2, RestOfTasks DEF Rest
          <5> QED
            BY <2>1, <2>2, <5>1 DEF InMaking
        <4> QED
          BY <3>1, <4>1, <4>2
      <3> QED
        BY <3>1, <3>2, <3>3 DEF Alone, Progress
    <2>7. Apart(p)'
      BY <1>1, <1>4, ApartStays DEF Alone
    <2> QED
      BY <2>1, <2>4, <2>5, <2>6, <2>7 DEF Alone
  <1> QED
    BY <1>3, <1>4 DEF Begin

\* A step of a job that leaves stage and tasks alone.
LEMMA StepIs ==
  ASSUME IInv, NEW p \in Pids, job[p] # NoJob, NEW to, Step(p, to)
  PROVE  /\ stage' = stage /\ todo' = todo
         /\ job'[p] # NoJob /\ job'[p].at = to
         /\ job'[p].why = job[p].why /\ job'[p].script = job[p].script
  <1>1. job[p] \in JobType /\ job \in [Pids -> {NoJob} \cup JobType]
    BY StateTypes
  <1>2. job'[p] = [job[p] EXCEPT !.at = to]
    BY <1>1 DEF Step
  <1>3. job'[p].at = to /\ job'[p].why = job[p].why /\ job'[p].script = job[p].script
    BY <1>1, <1>2 DEF JobType
  <1>4. job'[p] # NoJob
    <2>1. DOMAIN job'[p] = {"why", "at", "script"}
      BY <1>1, <1>2 DEF JobType
    <2> QED
      BY <2>1 DEF NoJob
  <1> QED
    BY <1>3, <1>4 DEF Step

LEMMA FailsIs ==
  ASSUME IInv, NEW p \in Pids, Fails(p)
  PROVE  job'[p] = NoJob /\ Failed(p, todo[p])
  BY StateTypes DEF Fails

LEMMA LoneWriteFile ==
  ASSUME IInv, NEW p \in Pids, Alone(p), WriteFile(p), Lone(p)'
  PROVE  Alone(p)'
  <1>1. job[p] # NoJob /\ job[p].at = "write" /\ Step(p, "load")
    BY DEF WriteFile, At, Fault, Lone
  <1>2. /\ stage' = stage /\ todo' = todo /\ job'[p] # NoJob /\ job'[p].at = "load"
        /\ job'[p].why = job[p].why /\ job'[p].script = job[p].script
    BY <1>1, StepIs
  <1>3. UNCHANGED <<kwin, script, recycled, bridge, stale, handles>>
    BY DEF WriteFile
  <1>4. JobApart(p)' /\ LoadedRuns(p)' /\ Purged(p)'
    BY <1>1, <1>2, <1>3 DEF Alone, JobApart, LoadedRuns, Purged, Due, kwin
  <1>5. Progress(p)'
    <2>1. \A k \in Wanted(p) : /\ Owned(p, k) => Owned(p, k)'
                               /\ InMaking(p, k) => InMaking(p, k)'
      BY <1>2, <1>3, OwnedStays DEF kwin, InMaking
    <2> QED
      BY <1>2, <1>3, <2>1, ProgressKept DEF Alone
  <1>6. Apart(p)'
    BY <1>2, <1>3, ApartStays DEF Alone
  <1> QED
    BY <1>4, <1>5, <1>6 DEF Alone

LEMMA LoneLoadScript ==
  ASSUME IInv, NEW p \in Pids, Alone(p), LoadScript(p), Lone(p)'
  PROVE  Alone(p)'
  <1> DEFINE s == job[p].script
  <1>1. job[p] # NoJob /\ job[p].at = "load" /\ ~Fault(p)
    BY DEF LoadScript, At, Fault, Lone
  <1>2. UNCHANGED <<script, recycled, bridge, stale, handles>>
    BY DEF LoadScript
  <1>3. CASE Fails(p) /\ UNCHANGED kwin
    <2>1. job'[p] = NoJob /\ Failed(p, todo[p])
      BY <1>3, FailsIs
    <2> QED
      BY <1>1, <1>2, <1>3, <2>1, LoneFails
  <1>4. CASE loaded' = loaded \cup {s} /\ UNCHANGED <<started, actions, owner>> /\ Step(p, "start")
    <2>1. /\ stage' = stage /\ todo' = todo /\ job'[p] # NoJob /\ job'[p].at = "start"
          /\ job'[p].why = job[p].why /\ job'[p].script = s
      BY <1>1, <1>4, StepIs
    <2>2. JobApart(p)' /\ Purged(p)'
      BY <1>1, <1>2, <1>4, <2>1 DEF Alone, JobApart, Purged, Due
    <2>3. LoadedRuns(p)'
      BY <1>1, <1>2, <1>4, <2>1 DEF Alone, LoadedRuns
    <2>4. Progress(p)'
      <3>1. \A k \in Wanted(p) : /\ Owned(p, k) => Owned(p, k)'
                                 /\ InMaking(p, k) => InMaking(p, k)'
        BY <1>2, <1>4, <1>1, <2>1, OwnedStays DEF InMaking
      <3> QED
        BY <1>2, <2>1, <3>1, ProgressKept DEF Alone
    <2>5. Apart(p)'
      BY <1>2, <2>1, ApartStays DEF Alone
    <2> QED
      BY <2>2, <2>3, <2>4, <2>5 DEF Alone
  <1> QED
    BY <1>1, <1>3, <1>4 DEF LoadScript

\* start runs the one script that is due, and gives it its key: no other action
\* can hold it any more.
LEMMA LoneStartScript ==
  ASSUME IInv, KeysMatch, NEW p \in Pids, Alone(p), StartScript(p), Lone(p), Lone(p)'
  PROVE  Alone(p)'
  <1> DEFINE s == job[p].script
             fresh == {t \in loaded \ started : IsShortcut(t)}
  <1>1. job[p] # NoJob /\ job[p].at = "start" /\ ~Fault(p)
    BY DEF StartScript, At, Fault, Lone
  <1>2. UNCHANGED <<script, recycled, bridge, stale>>
    BY DEF StartScript
  <1>3. /\ KwinStart /\ UNCHANGED <<stage, todo, faults>>
        /\ job' = [job EXCEPT ![p] = IF s.kind = "window" THEN Release(s, "window") ELSE NoJob]
        /\ handles' = [handles EXCEPT ![p] = IF s.kind = "window" THEN @ ELSE @ \cup {s}]
    BY <1>1 DEF StartScript
  <1>4. JobSound(p) /\ Held(p) /\ s \in KwinScript
    BY <1>1, AtWork DEF Lone
  <1>5. /\ job[p].why = "make" /\ s.pid = p /\ bridge[p] = "up"
        /\ s \notin handles[p] /\ s \in loaded /\ s \notin started \cup actions
    BY <1>1, <1>4 DEF JobSound, Alone, JobApart
  <1>6. /\ handles'[p] = IF s.kind = "window" THEN handles[p] ELSE handles[p] \cup {s}
        /\ job'[p] = IF s.kind = "window" THEN Release(s, "window") ELSE NoJob
    BY <1>3, StateTypes
  <1>7. /\ started' = loaded /\ loaded' = loaded /\ actions' = actions \cup fresh
        /\ \A k \in Shortcuts :
             IF owner[k] = NoOwner /\ {t \in fresh : t.kind = k} # {}
             THEN owner'[k] \in {t \in fresh : t.kind = k} ELSE owner'[k] = owner[k]
    BY <1>3 DEF KwinStart
  <1>8. loaded \ started = {s} /\ fresh \subseteq {s}
    <2>1. \A t \in loaded \ started : t = s
      BY DEF Alone, LoadedRuns
    <2> QED
      BY <1>5, <2>1
  <1>9. IsShortcut(s) => fresh = {s}
    BY <1>8
  <1> HIDE DEF fresh
  <1>10. LoadedRuns(p)'
    <2>1. handles'[p] \subseteq loaded
      BY <1>5, <1>6, StateTypes DEF Alone, LoadedRuns
    <2> QED
      BY <1>7, <2>1 DEF LoadedRuns
  <1>11. Purged(p)'
    BY <1>2, <1>5, <1>7, <1>8 DEF Alone, Purged, Due
  <1>12. (job[p] # NoJob => JobApart(p))'
    <2>1. CASE s.kind = "window"
      <3>1. job'[p].script = s /\ job'[p].why = "window" /\ job'[p].at = "unload"
            /\ handles'[p] = handles[p]
        BY <1>6, <2>1 DEF Release
      <3> QED
        BY <1>5, <3>1 DEF JobApart
    <2>2. CASE s.kind # "window"
      BY <1>6, <2>2
    <2> QED
      BY <2>1, <2>2
  <1>13. ASSUME NEW k \in Wanted(p), Owned(p, k)
         PROVE  Owned(p, k)'
    <2>1. k \in Shortcuts
      BY WantedKeys
    <2>2. owner[k] \in handles[p] /\ owner[k] \in started /\ owner[k] # NoOwner
      BY <1>13, StateTypes, NobodyOwns DEF Owned
    <2>3. owner'[k] = owner[k]
      BY <1>7, <2>1, <2>2
    <2> QED
      BY <1>6, <1>7, <2>2, <2>3, StateTypes DEF Owned
  <1>14. ASSUME NEW k \in Wanted(p), s.kind = k
         PROVE  Owned(p, k)'
    <2>1. k \in Shortcuts /\ k # "window" /\ IsShortcut(s)
      BY <1>14, WantedKeys DEF IsShortcut
    <2>2. handles'[p] = handles[p] \cup {s}
      BY <1>6, <1>14, <2>1
    <2>3. CASE owner[k] = NoOwner
      <3>1. {t \in fresh : t.kind = k} = {s}
        BY <1>9, <1>14, <2>1
      <3>2. owner'[k] = s
        BY <1>7, <2>1, <2>3, <3>1
      <3> QED
        BY <1>5, <1>7, <2>2, <3>2 DEF Owned
    <2>4. CASE owner[k] # NoOwner
      <3>1. owner[k] \in actions /\ owner[k].pid = p
        BY <1>5, <2>1, <2>4, StateTypes DEF Alone, Purged, Due
      <3>2. owner[k] \in handles[p]
        BY <1>5, <3>1, <1>4 DEF Held, Leftovers, Of
      <3>3. Owned(p, k)
        BY <3>2 DEF Alone, LoadedRuns, Owned
      <3> QED
        BY <1>13, <3>3
    <2> QED
      BY <2>3, <2>4
  <1>15. Progress(p)'
    <2>1. \A k \in Wanted(p) : InMaking(p, k) => Owned(p, k)'
      BY <1>14 DEF InMaking
    <2> QED
      BY <1>2, <1>3, <1>13, <2>1, ProgressKept DEF Alone
  <1>16. Apart(p)'
    BY <1>2, <1>3, ApartStays DEF Alone
  <1> QED
    BY <1>10, <1>11, <1>12, <1>15, <1>16 DEF Alone

\* What is unloaded or unregistered is no handle: the keys stay with the handles.
LEMMA LoneRemoval ==
  ASSUME IInv, NEW p \in Pids, Alone(p), UnloadScript(p) \/ UnregisterAction(p), Lone(p)'
  PROVE  Alone(p)'
  <1> DEFINE s == job[p].script
  <1>1. job[p] # NoJob /\ job[p].at \in {"unload", "unregister"} /\ ~Fault(p)
    BY DEF UnloadScript, UnregisterAction, At, Fault, Lone
  <1>2. UNCHANGED <<script, recycled, bridge, stale, handles>>
    BY DEF UnloadScript, UnregisterAction
  <1>3. /\ s \notin handles[p] /\ job[p].why # "make"
        /\ job[p].why = "purge" => IsShortcut(s)
    BY <1>1 DEF Alone, JobApart
  <1>4. \E to \in {"unregister", "remove"} :
          Step(p, to) /\ (to = "remove" => ~IsShortcut(s) \/ UnregisterAction(p))
    BY DEF UnloadScript, UnregisterAction
  <1>5. PICK to \in {"unregister", "remove"} :
          Step(p, to) /\ (to = "remove" => ~IsShortcut(s) \/ UnregisterAction(p))
    BY <1>4
  <1>6. /\ stage' = stage /\ todo' = todo /\ job'[p] # NoJob /\ job'[p].at = to
        /\ job'[p].why = job[p].why /\ job'[p].script = s
    BY <1>1, <1>5, StepIs
  <1>7. \/ KwinUnload(s)
        \/ Unregister(s) /\ UnregisterAction(p)
    BY <1>1 DEF UnloadScript, UnregisterAction
  <1>8. /\ loaded' \subseteq loaded /\ loaded' \ started' \subseteq loaded \ started
        /\ handles[p] \subseteq started'
        /\ actions' \subseteq actions /\ (UnregisterAction(p) => s \notin actions' \/ KwinUnload(s))
    BY <1>3, <1>7 DEF KwinUnload, Unregister, Alone, LoadedRuns
  <1>9. UnregisterAction(p) => s \notin actions'
    BY <1>1 DEF UnregisterAction, Unregister
  <1>10. JobApart(p)' /\ LoadedRuns(p)'
    <2>1. loaded \ started = {}
      BY <1>1 DEF Alone, LoadedRuns
    <2> QED
      BY <1>2, <1>3, <1>5, <1>6, <1>8, <2>1 DEF JobApart, LoadedRuns
  <1>11. Purged(p)'
    <2> SUFFICES ASSUME NEW a \in actions', a.pid # p
                 PROVE  Due(p, a)'
      BY DEF Purged
    <2>1. Due(p, a)
      BY <1>8 DEF Alone, Purged
    <2>2. CASE bridge[p] = "none" \/ (bridge[p] = "purging" /\ a \in stale[p])
      BY <1>2, <2>2 DEF Due
    <2>3. CASE bridge[p] = "purging" /\ job[p].why = "purge" /\ s = a
      <3>1. to = "unregister"
        BY <1>3, <1>5, <1>9, <2>3
      <3> QED
        BY <1>2, <1>6, <2>3, <3>1 DEF Due
    <2> QED
      BY <2>1, <2>2, <2>3 DEF Due
  <1>12. ASSUME NEW k \in Wanted(p), Owned(p, k)
         PROVE  Owned(p, k)'
    <2>1. k \in Shortcuts
      BY WantedKeys
    <2>2. owner[k] \in handles[p] /\ owner[k] # s
      BY <1>3, <1>12 DEF Owned
    <2>3. owner'[k] = owner[k]
      BY <1>7, <2>1, <2>2 DEF KwinUnload, Unregister
    <2> QED
      BY <1>2, <1>8, <2>2, <2>3 DEF Owned
  <1>13. Progress(p)'
    <2>1. \A k \in Wanted(p) : ~InMaking(p, k)
      BY <1>3 DEF InMaking
    <2> QED
      BY <1>2, <1>6, <1>12, <2>1, ProgressKept DEF Alone
  <1>14. Apart(p)'
    BY <1>2, <1>6, ApartStays DEF Alone
  <1> QED
    BY <1>10, <1>11, <1>13, <1>14 DEF Alone

LEMMA LoneRemoveFile ==
  ASSUME IInv, NEW p \in Pids, Alone(p), RemoveFile(p)
  PROVE  Alone(p)'
  <1>1. job[p] # NoJob /\ job[p].at = "remove"
    BY DEF RemoveFile, At
  <1>2. UNCHANGED <<kwin, script, recycled, bridge, stale, handles>>
    BY DEF RemoveFile
  <1>3. CASE Fails(p)
    <2>1. job'[p] = NoJob /\ Failed(p, todo[p])
      BY <1>3, FailsIs
    <2> QED
      BY <1>1, <1>2, <2>1, LoneFails
  <1>4. CASE job' = [job EXCEPT ![p] = NoJob] /\ UNCHANGED <<stage, todo>>
    <2>1. job'[p] = NoJob
      BY <1>4, StateTypes
    <2>2. Purged(p)' /\ LoadedRuns(p)'
      BY <1>1, <1>2 DEF Alone, Purged, Due, LoadedRuns, kwin
    <2>3. Progress(p)'
      <3>1. \A k \in Wanted(p) : (Owned(p, k) => Owned(p, k)') /\ ~InMaking(p, k)
        BY <1>1, <1>2, OwnedStays DEF kwin, InMaking, Alone, JobApart
      <3> QED
        BY <1>2, <1>4, <3>1, ProgressKept DEF Alone
    <2>4. Apart(p)'
      BY <1>2, <1>4, ApartStays DEF Alone
    <2> QED
      BY <2>1, <2>2, <2>3, <2>4 DEF Alone
  <1> QED
    BY <1>3, <1>4 DEF RemoveFile

LEMMA LonePurgeNext ==
  ASSUME IInv, NEW p \in Pids, Alone(p), PurgeNext(p)
  PROVE  Alone(p)'
  <1>1. job[p] = NoJob /\ bridge[p] = "purging"
    BY DEF PurgeNext
  <1>2. PICK a \in stale[p] : /\ stale' = [stale EXCEPT ![p] = @ \ {a}]
                              /\ job' = [job EXCEPT ![p] = Release(a, "purge")]
    BY DEF PurgeNext
  <1>3. UNCHANGED <<kwin, recycled, script, stage, bridge, todo, handles>>
    BY DEF PurgeNext, desktop, kwin
  <1>4. a \in KwinScript /\ IsShortcut(a) /\ a.pid # p /\ a \notin handles[p]
    BY StateTypes DEF IInv, Tied
  <1>5. /\ job'[p] # NoJob /\ job'[p].why = "purge" /\ job'[p].at = "unload" /\ job'[p].script = a
        /\ stale'[p] = stale[p] \ {a}
    BY <1>2, <1>4, ReleaseTypes, StateTypes
  <1>6. JobApart(p)'
    BY <1>3, <1>4, <1>5 DEF JobApart
  <1>7. LoadedRuns(p)' /\ Purged(p)'
    BY <1>1, <1>3, <1>5 DEF Alone, LoadedRuns, Purged, Due, kwin
  <1>8. Progress(p)'
    <2>1. \A k \in Wanted(p) : (Owned(p, k) => Owned(p, k)') /\ ~InMaking(p, k)
      BY <1>1, <1>3, OwnedStays DEF kwin, InMaking
    <2> QED
      BY <1>3, <2>1, ProgressKept DEF Alone
  <1>9. Apart(p)'
    BY <1>3, ApartStays DEF Alone
  <1> QED
    BY <1>6, <1>7, <1>8, <1>9 DEF Alone

\* A handle that is given up is its job's; the keys of its script are no
\* developer shortcuts.
LEMMA LoneDisable ==
  ASSUME IInv, KeysMatch, NEW p \in Pids, Alone(p), Disable(p), Lone(p)'
  PROVE  Alone(p)'
  <1>1. job[p] = NoJob /\ stage[p] = "disable" /\ todo[p] # <<>>
    BY DEF Disable, Free
  <1>2. PICK s \in handles[p] :
          /\ s.kind = Head(todo[p])
          /\ handles' = [handles EXCEPT ![p] = @ \ {s}]
          /\ job' = [job EXCEPT ![p] = Release(s, "disable")]
          /\ todo' = [todo EXCEPT ![p] = Rest(p)] /\ UNCHANGED stage
    BY DEF Disable, Fault, Lone
  <1>3. UNCHANGED <<kwin, recycled, script, bridge, stale>>
    BY DEF Disable, desktop, kwin
  <1>4. s \in KwinScript /\ handles'[p] = handles[p] \ {s} /\ todo'[p] = Rest(p)
        /\ todo[p] \in Seq(Kinds)
    BY <1>2, StateTypes
  <1>5. /\ job'[p] # NoJob /\ job'[p].why = "disable" /\ job'[p].at = "unload" /\ job'[p].script = s
    BY <1>2, <1>4, ReleaseTypes
  <1>6. JobApart(p)'
    BY <1>3, <1>4, <1>5 DEF JobApart
  <1>7. LoadedRuns(p)' /\ Purged(p)'
    BY <1>1, <1>3, <1>4 DEF Alone, LoadedRuns, Purged, Due, kwin
  <1>8. Range(todo[p]) \subseteq DevKeys /\ s.kind \in DevKeys
    <2>1. Range(todo[p]) \subseteq DevKeys
      BY <1>1 DEF Alone, Progress
    <2>2. Head(todo[p]) = todo[p][1] /\ 1 \in DOMAIN todo[p]
      BY <1>1, <1>4, EmptySeq
    <2> QED
      BY <1>2, <2>1, <2>2 DEF Range
  <1>9. ASSUME NEW k \in Wanted(p), Owned(p, k)
        PROVE  Owned(p, k)'
    <2>1. k \in Shortcuts /\ k \notin DevKeys
      BY WantedKeys
    <2>2. owner[k] \in handles[p] /\ owner[k] # NoOwner
      BY <1>9, StateTypes, NobodyOwns DEF Owned
    <2>3. owner[k] # s
      BY <1>8, <2>1, <2>2 DEF KeysMatch
    <2> QED
      BY <1>3, <1>4, <1>9, <2>3 DEF Owned, kwin
  <1>10. Range(todo'[p]) \subseteq DevKeys
    BY <1>1, <1>4, <1>8, RestOfTasks DEF Rest
  <1>11. Progress(p)'
    BY <1>1, <1>2, <1>3, <1>9, <1>10, ProgressInLoop DEF Alone, InLoop
  <1>12. Apart(p)'
    BY <1>2, <1>3, ApartStays DEF Alone
  <1> QED
    BY <1>6, <1>7, <1>11, <1>12 DEF Alone

LEMMA LoneUnload ==
  ASSUME IInv, NEW p \in Pids, Alone(p), Unload(p)
  PROVE  Alone(p)'
  <1>1. job[p] = NoJob /\ stage[p] \in {"undo", "drop"}
    BY DEF Unload
  <1>2. PICK s \in handles[p] : /\ handles' = [handles EXCEPT ![p] = @ \ {s}]
                                /\ job' = [job EXCEPT ![p] = Release(s, "unload")]
    BY DEF Unload
  <1>3. UNCHANGED <<kwin, recycled, script, stage, bridge, stale>>
    BY DEF Unload, desktop, kwin
  <1>4. s \in KwinScript /\ handles'[p] = handles[p] \ {s}
    BY <1>2, StateTypes
  <1>5. /\ job'[p] # NoJob /\ job'[p].why = "unload" /\ job'[p].at = "unload" /\ job'[p].script = s
    BY <1>2, <1>4, ReleaseTypes
  <1>6. JobApart(p)'
    BY <1>3, <1>4, <1>5 DEF JobApart
  <1>7. LoadedRuns(p)' /\ Purged(p)'
    BY <1>1, <1>3, <1>4 DEF Alone, LoadedRuns, Purged, Due, kwin
  <1>8. Progress(p)'
    BY <1>1, <1>3, ProgressEnds DEF InLoop
  <1>9. Apart(p)'
    BY <1>3, ApartStays DEF Alone
  <1> QED
    BY <1>6, <1>7, <1>8, <1>9 DEF Alone

LEMMA LoneEnding ==
  ASSUME IInv, NEW p \in Pids, Alone(p), Undone(p) \/ Return(p) \/ DropSignalFd(p), Lone(p)'
  PROVE  Alone(p)'
  <1>1. CASE Undone(p)
    <2>1. UNCHANGED <<kwin, recycled, script, stale, job, handles>> /\ job[p] = NoJob
      BY <1>1 DEF Undone, desktop, kwin
    <2>2. stage'[p] = "drop" /\ (\A q \in Pids \ {p} : stage'[q] = stage[q])
          /\ (bridge'[p] = "none" \/ bridge' = bridge)
      BY <1>1, StateTypes DEF Undone
    <2>3. LoadedRuns(p)' /\ Purged(p)'
      BY <2>1, <2>2 DEF Alone, LoadedRuns, Purged, Due, kwin
    <2>4. Progress(p)' /\ Apart(p)'
      BY <2>1, <2>2, ProgressEnds, ApartStays DEF InLoop, Alone
    <2> QED
      BY <2>1, <2>3, <2>4 DEF Alone
  <1>2. ASSUME NEW to \in {"undo", "drop"}, Unmask(p, to)
        PROVE  Alone(p)'
    <2>1. ~Dies(p, "signal")
      BY StateTypes DEF Dies, Lone
    <2>2. UNCHANGED <<kwin, recycled, script, bridge, stale, job, handles>>
          /\ stage' = [stage EXCEPT ![p] = to]
      BY <1>2, <2>1 DEF Unmask, desktop, kwin, work
    <2>3. stage'[p] = to /\ \A q \in Pids \ {p} : stage'[q] = stage[q]
      BY <2>2, StateTypes
    <2>4. Progress(p)' /\ Apart(p)'
      BY <2>2, <2>3, ProgressEnds, ApartStays DEF InLoop, Alone
    <2> QED
      BY <2>2, <2>4, NothingTaken
  <1> QED
    BY <1>1, <1>2 DEF Return, DropSignalFd

LEMMA LoneSignal ==
  ASSUME IInv, NEW p \in Pids, Alone(p), Signal(p) \/ Kill(p) \/ Exit(p) \/ Recycle(p), Lone(p)'
  PROVE  Alone(p)'
  <1>1. \A how : ~Dies(p, how)
    BY StateTypes DEF Dies, Lone
  <1>2. stage'[p] # "off"
    BY DEF Lone
  <1>3. UNCHANGED <<desktop, recycled, script, stage, work>>
    BY <1>1, <1>2 DEF Signal, Kill, Exit, Recycle
  <1>4. Progress(p)'
    <2>1. \A k \in Wanted(p) : /\ Owned(p, k) => Owned(p, k)'
                               /\ InMaking(p, k) => InMaking(p, k)'
      BY <1>3, OwnedStays DEF desktop, work, InMaking
    <2> QED
      BY <1>3, <2>1, ProgressKept DEF Alone, work
  <1>5. Apart(p)'
    BY <1>3, ApartStays DEF Alone
  <1> QED
    BY <1>3, <1>4, <1>5, NothingTaken DEF desktop, kwin, work

-----------------------------------------------------------------------------
(* The keys of the desktop, and the steps of the others.                     *)

\* A runner that has not begun, or is over, can only begin or have its id reused.
LEMMA IdleSteps ==
  ASSUME IInv, NEW q \in Pids, stage[q] \in {"new", "off"},
         Launch(q) \/ Runner(q) \/ Signal(q) \/ Kill(q) \/ Recycle(q)
  PROVE  Launch(q) \/ Recycle(q)
  <1>1. job[q] = NoJob /\ bridge[q] = "none"
    BY DEF IInv, Staged
  <1>2. ~Signal(q) /\ ~Kill(q)
    BY DEF Signal, Kill
  <1>3. ~Startup(q)
    BY DEF Startup, GiveUp, Accept, Prepare, RefuseHotkeys, Unparsed, FinishStage, Making
  <1>4. ~Bridge(q)
    <2>1. ~Connect(q) /\ ~PurgeNext(q) /\ ~FinishConnect(q) /\ ~Begin(q)
      BY <1>1 DEF Connect, PurgeNext, FinishConnect, Begin, Making
    <2>2. /\ ~WriteFile(q) /\ ~LoadScript(q) /\ ~StartScript(q)
          /\ ~UnloadScript(q) /\ ~UnregisterAction(q) /\ ~RemoveFile(q)
      BY <1>1 DEF WriteFile, LoadScript, StartScript, UnloadScript, UnregisterAction, RemoveFile, At
    <2> QED
      BY <2>1, <2>2 DEF Bridge
  <1>5. ~Looping(q)
    BY DEF Looping, AskWindow, ToggleDevMode, Disable, EndLoop
  <1>6. ~Ending(q)
    BY DEF Ending, DrainSignal, Return, Unload, Undone, DropSignalFd, Exit
  <1> QED
    BY <1>2, <1>3, <1>4, <1>5, <1>6 DEF Runner

\* A step of another runner ends the loneliness.
LEMMA OthersStep ==
  ASSUME IInv, NEW p \in Pids, Lone(p), Apart(p), NEW q \in Pids \ {p},
         Launch(q) \/ Runner(q) \/ Signal(q) \/ Kill(q) \/ Recycle(q)
  PROVE  ~Lone(p)'
  <1>1. stage[q] \in {"new", "off"}
    BY DEF Apart
  <1>2. Launch(q) \/ Recycle(q)
    BY <1>1, IdleSteps
  <1>3. p \in company'
    BY <1>2 DEF Launch, Recycle, Others, Alive, Lone
  <1> QED
    BY <1>3 DEF Lone

\* A step of one runner moves no other's stage and touches no other's handles;
\* nobody is new again.
LEMMA StagesAndHands ==
  ASSUME IInv, NEW q \in Pids, stage[q] \notin {"new", "off"},
         Runner(q) \/ Signal(q) \/ Kill(q)
  PROVE  /\ \A p \in Pids \ {q} : stage'[p] = stage[p] /\ handles'[p] = handles[p]
         /\ stage'[q] # "new"
  <1>1. /\ stage \in [Pids -> Stages] /\ handles \in [Pids -> SUBSET KwinScript]
    BY StateTypes
  <1> DEFINE Fine == /\ \A p \in Pids \ {q} : stage'[p] = stage[p] /\ handles'[p] = handles[p]
                     /\ stage'[q] # "new"
  <1>2. ASSUME NEW how, Dies(q, how) PROVE Fine
    BY <1>1, <1>2 DEF Dies
  <1>3. ASSUME NEW to \in {"undo", "drop"}, Unmask(q, to) PROVE Fine
    <2>1. CASE Dies(q, "signal")
      BY <1>2, <2>1
    <2>2. CASE ~Dies(q, "signal")
      BY <1>1, <1>3, <2>2 DEF Unmask, work
    <2> QED
      BY <2>1, <2>2
  <1>4. ASSUME NEW rest, Failed(q, rest), UNCHANGED handles PROVE Fine
    BY <1>1, <1>4 DEF Failed
  <1>5. ASSUME UNCHANGED <<stage, handles>> PROVE Fine
    BY <1>5
  <1>6. CASE Signal(q) \/ Kill(q)
    <2>1. CASE UNCHANGED <<stage, work>>
      BY <2>1, <1>5 DEF work
    <2>2. CASE \E how : Dies(q, how)
      BY <2>2, <1>2
    <2> QED
      BY <1>6, <2>1, <2>2 DEF Signal, Kill
  <1>7. CASE Startup(q)
    <2>1. CASE GiveUp(q) \/ Accept(q) \/ RefuseHotkeys(q)
      BY <1>1, <2>1 DEF GiveUp, Accept, RefuseHotkeys, Enter, work
    <2>2. CASE Prepare(q)
      <3>1. PICK s \in {After(q, "prepare"), "undo"} : Enter(q, s)
        BY <2>2 DEF Prepare
      <3>2. s # "new"
        BY <2>2, <3>1, HotkeysFirst DEF Prepare, IInv, Staged, Early
      <3> QED
        BY <1>1, <2>2, <3>1, <3>2 DEF Prepare, Enter
    <2>3. CASE FinishStage(q)
      <3>1. After(q, stage[q]) # "new"
        <4>1. CASE stage[q] \in Early
          BY <4>1, PlanGoesOn DEF IInv, Staged
        <4>2. CASE stage[q] \notin Early
          BY <2>3, <4>2 DEF FinishStage, After, Making, Early
        <4> QED
          BY <4>1, <4>2
      <3> QED
        BY <1>1, <2>3, <3>1 DEF FinishStage, Enter
    <2> QED
      BY <1>7, <2>1, <2>2, <2>3 DEF Startup
  <1>8. CASE Bridge(q)
    <2>1. CASE Connect(q)
      BY <2>1, <1>4, <1>5 DEF Connect
    <2>2. CASE PurgeNext(q)
      BY <2>2, <1>5 DEF PurgeNext
    <2>3. CASE FinishConnect(q)
      BY <2>3, <1>4, <1>5 DEF FinishConnect
    <2>4. CASE Begin(q)
      BY <2>4, <1>4, <1>5 DEF Begin
    <2>5. CASE WriteFile(q) \/ LoadScript(q) \/ UnloadScript(q) \/ UnregisterAction(q) \/ RemoveFile(q)
      BY <2>5, <1>4, <1>5
         DEF WriteFile, LoadScript, UnloadScript, UnregisterAction, RemoveFile, Step, Fails
    <2>6. CASE StartScript(q)
      BY <2>6, <1>1, <1>4 DEF StartScript, Fails
    <2> QED
      BY <1>8, <2>1, <2>2, <2>3, <2>4, <2>5, <2>6 DEF Bridge
  <1>9. CASE Looping(q)
    <2>1. CASE Disable(q)
      <3>1. PICK s \in handles[q] : /\ handles' = [handles EXCEPT ![q] = @ \ {s}]
                                    /\ UNCHANGED stage \/ Failed(q, <<>>)
        BY <2>1 DEF Disable
      <3> QED
        BY <1>1, <3>1 DEF Failed
    <2>2. CASE AskWindow(q) \/ ToggleDevMode(q) \/ EndLoop(q)
      BY <1>1, <2>2 DEF AskWindow, ToggleDevMode, EndLoop, work
    <2> QED
      BY <1>9, <2>1, <2>2 DEF Looping
  <1>10. CASE Ending(q)
    <2>1. CASE DrainSignal(q) \/ Unload(q) \/ Undone(q)
      BY <1>1, <2>1 DEF DrainSignal, Unload, Undone, work
    <2>2. CASE Return(q) \/ DropSignalFd(q)
      BY <1>3, <2>2 DEF Return, DropSignalFd
    <2>3. CASE Exit(q)
      BY <1>2, <2>3 DEF Exit
    <2> QED
      BY <1>10, <2>1, <2>2, <2>3 DEF Ending
  <1> QED
    BY <1>6, <1>7, <1>8, <1>9, <1>10 DEF Runner

LEMMA NewHoldsNothing ==
  ASSUME IInv, KeysMatch, [Next]_vars, NEW p \in Pids, stage'[p] = "new"
  PROVE  handles'[p] = {}
  <1>1. CASE UNCHANGED vars
    BY <1>1 DEF vars, work, KeysMatch
  <1>2. CASE Next
    <2> PICK q \in Pids : Launch(q) \/ Runner(q) \/ Signal(q) \/ Kill(q) \/ Recycle(q)
      BY <1>2 DEF Next
    <2>1. CASE Launch(q) \/ Recycle(q)
      BY <2>1, StateTypes DEF Launch, Recycle, work, KeysMatch
    <2>2. CASE ~(Launch(q) \/ Recycle(q))
      <3>1. stage[q] \notin {"new", "off"} /\ (Runner(q) \/ Signal(q) \/ Kill(q))
        BY <2>2, IdleSteps
      <3> QED
        BY <3>1, StagesAndHands DEF KeysMatch
    <2> QED
      BY <2>1, <2>2
  <1> QED
    BY <1>1, <1>2

\* Only start and unregister hand keys out and take them back.
LEMMA KeysStayPut ==
  ASSUME IInv, [Next]_vars
  PROVE  owner' = owner \/ KwinStart \/ \E s : Unregister(s)
  <1>1. CASE UNCHANGED vars
    BY <1>1 DEF vars, desktop
  <1>2. CASE Next
    <2> PICK q \in Pids : Launch(q) \/ Runner(q) \/ Signal(q) \/ Kill(q) \/ Recycle(q)
      BY <1>2 DEF Next
    <2>1. CASE Launch(q) \/ Signal(q) \/ Kill(q) \/ Recycle(q)
      BY <2>1 DEF Launch, Signal, Kill, Recycle, Dies, desktop
    <2>2. CASE Startup(q)
      BY <2>2 DEF Startup, GiveUp, Accept, Prepare, RefuseHotkeys, FinishStage, desktop
    <2>3. CASE Looping(q)
      BY <2>3 DEF Looping, AskWindow, ToggleDevMode, Disable, EndLoop, desktop
    <2>4. CASE Ending(q)
      BY <2>4 DEF Ending, DrainSignal, Return, Unload, Undone, DropSignalFd, Exit, Unmask, Dies, desktop
    <2>5. CASE Bridge(q)
      <3>1. CASE Connect(q) \/ PurgeNext(q) \/ FinishConnect(q) \/ Begin(q)
        BY <3>1 DEF Connect, PurgeNext, FinishConnect, Begin, desktop
      <3>2. CASE WriteFile(q) \/ RemoveFile(q) \/ LoadScript(q)
        BY <3>2 DEF WriteFile, RemoveFile, LoadScript, kwin
      <3>3. CASE StartScript(q)
        BY <3>3 DEF StartScript, kwin
      <3>4. CASE UnloadScript(q)
        BY <3>4 DEF UnloadScript, KwinUnload, kwin
      <3>5. CASE UnregisterAction(q)
        BY <3>5 DEF UnregisterAction, kwin
      <3> QED
        BY <2>5, <3>1, <3>2, <3>3, <3>4, <3>5 DEF Bridge
    <2> QED
      BY <2>1, <2>2, <2>3, <2>4, <2>5 DEF Runner
  <1> QED
    BY <1>1, <1>2

LEMMA KeysMatchStays ==
  ASSUME IInv, KeysMatch, [Next]_vars
  PROVE  KeysMatch'
  <1>1. \A p \in Pids : stage'[p] = "new" => handles'[p] = {}
    BY NewHoldsNothing
  <1>2. ASSUME NEW k \in Shortcuts, owner'[k] # NoOwner
        PROVE  owner'[k].kind = k
    <2>1. owner[k] # NoOwner => owner[k].kind = k
      BY DEF KeysMatch
    <2>2. CASE owner' = owner
      BY <1>2, <2>1, <2>2
    <2>3. CASE KwinStart
      <3> DEFINE mine == {t \in {u \in loaded \ started : IsShortcut(u)} : t.kind = k}
      <3>1. IF owner[k] = NoOwner /\ mine # {} THEN owner'[k] \in mine ELSE owner'[k] = owner[k]
        BY <2>3 DEF KwinStart
      <3> QED
        BY <1>2, <2>1, <3>1
    <2>4. CASE \E s : Unregister(s)
      BY <1>2, <2>1, <2>4 DEF Unregister
    <2> QED
      BY <2>2, <2>3, <2>4, KeysStayPut
  <1> QED
    BY <1>1, <1>2 DEF KeysMatch

LEMMA OwnStep ==
  ASSUME IInv, KeysMatch, NEW p \in Pids, Lone(p) => Alone(p), Lone(p)',
         Launch(p) \/ Runner(p) \/ Signal(p) \/ Kill(p) \/ Recycle(p), faults \subseteq faults',
         company \subseteq company'
  PROVE  Alone(p)'
  <1>1. CASE Launch(p)
    BY <1>1, LoneLaunch
  <1>2. CASE ~Launch(p)
    <2>1. stage[p] \notin {"new", "off"}
      <3>1. stage[p] \in {"new", "off"} => Recycle(p)
        BY <1>2, IdleSteps
      <3>2. ~(Recycle(p) /\ stage[p] \in {"new", "off"})
        BY DEF Recycle, Lone
      <3> QED
        BY <3>1, <3>2
    <2>2. Lone(p) /\ Alone(p)
      BY <2>1 DEF Lone
    <2>3. CASE Startup(p)
      BY <2>2, <2>3, LoneStartup, LoneFinishStage DEF Startup
    <2>4. CASE Bridge(p)
      BY <2>2, <2>4, LoneConnect, LonePurgeNext, LoneBegin, LoneWriteFile, LoneLoadScript,
         LoneStartScript, LoneRemoval, LoneRemoveFile DEF Bridge
    <2>5. CASE Looping(p)
      BY <2>2, <2>5, LoneLoop, LoneDisable DEF Looping
    <2>6. CASE Ending(p) \/ Signal(p) \/ Kill(p) \/ Recycle(p)
      BY <2>2, <2>6, LoneLoop, LoneUnload, LoneEnding, LoneSignal DEF Ending
    <2> QED
      BY <1>2, <2>3, <2>4, <2>5, <2>6 DEF Runner
  <1> QED
    BY <1>1, <1>2

\* What a runner went through is not forgotten.
LEMMA GhostsGrow ==
  ASSUME [Next]_vars
  PROVE  faults \subseteq faults' /\ company \subseteq company'
  <1>1. CASE UNCHANGED vars
    BY <1>1 DEF vars, ghosts
  <1>2. CASE Next
    <2> PICK q \in Pids : Launch(q) \/ Runner(q) \/ Signal(q) \/ Kill(q) \/ Recycle(q)
      BY <1>2 DEF Next
    <2>1. CASE Launch(q) \/ Signal(q) \/ Kill(q) \/ Recycle(q)
      BY <2>1 DEF Launch, Signal, Kill, Recycle, Dies, ghosts
    <2>2. CASE Startup(q)
      BY <2>2 DEF Startup, GiveUp, Accept, Prepare, RefuseHotkeys, FinishStage, ghosts
    <2>3. CASE Looping(q)
      BY <2>3 DEF Looping, AskWindow, ToggleDevMode, Disable, EndLoop, Fault, ghosts
    <2>4. CASE Ending(q)
      BY <2>4 DEF Ending, DrainSignal, Return, Unload, Undone, DropSignalFd, Exit, Unmask, Dies,
                  Fault, ghosts
    <2>5. CASE Bridge(q)
      <3>1. CASE Connect(q) \/ PurgeNext(q) \/ FinishConnect(q) \/ Begin(q)
        BY <3>1 DEF Connect, PurgeNext, FinishConnect, Begin, Fault, ghosts
      <3>2. CASE WriteFile(q) \/ RemoveFile(q) \/ LoadScript(q)
        BY <3>2 DEF WriteFile, RemoveFile, LoadScript, Fault
      <3>3. CASE StartScript(q) \/ UnloadScript(q) \/ UnregisterAction(q)
        BY <3>3 DEF StartScript, UnloadScript, UnregisterAction, Fault
      <3> QED
        BY <2>5, <3>1, <3>2, <3>3 DEF Bridge
    <2> QED
      BY <2>1, <2>2, <2>3, <2>4, <2>5 DEF Runner
  <1> QED
    BY <1>1, <1>2

LEMMA KeysInitially == Init => KInv
  <1> SUFFICES ASSUME Init
               PROVE  KInv
    OBVIOUS
  <1>1. \A k \in Shortcuts : owner[k] = NoOwner
    BY DEF Init
  <1>2. \A p \in Pids : stage[p] = "new" /\ handles[p] = {}
    BY DEF Init
  <1> QED
    BY <1>1, <1>2 DEF KInv, KeysMatch, Lone

LEMMA KeysStep == IInv /\ KInv /\ [Next]_vars => KInv'
  <1> SUFFICES ASSUME IInv, KInv, [Next]_vars
               PROVE  KInv'
    OBVIOUS
  <1>1. KeysMatch'
    BY KeysMatchStays DEF KInv
  <1>2. ASSUME NEW p \in Pids, Lone(p)'
        PROVE  Alone(p)'
    <2>1. faults \subseteq faults' /\ company \subseteq company'
      BY GhostsGrow
    <2>2. CASE UNCHANGED vars
      <3>1. Lone(p) /\ UNCHANGED <<desktop, recycled, script, stage, work>>
        BY <1>2, <2>2 DEF vars, ghosts, Lone
      <3> QED
        BY <3>1 DEF KInv, Alone, Apart, JobApart, LoadedRuns, Purged, Due, Progress, Wanted, Owned,
                    InMaking, desktop, work
    <2>3. CASE Next
      <3> PICK q \in Pids : Launch(q) \/ Runner(q) \/ Signal(q) \/ Kill(q) \/ Recycle(q)
        BY <2>3 DEF Next
      <3>1. CASE q = p
        BY <1>2, <2>1, <3>1, OwnStep DEF KInv
      <3>2. CASE q # p
        <4>1. stage'[p] = stage[p]
          <5>1. CASE Launch(q) \/ Recycle(q)
            BY <3>2, <5>1, StateTypes DEF Launch, Recycle
          <5>2. CASE ~(Launch(q) \/ Recycle(q))
            <6>1. stage[q] \notin {"new", "off"} /\ (Runner(q) \/ Signal(q) \/ Kill(q))
              BY <5>2, IdleSteps
            <6> QED
              BY <3>2, <6>1, StagesAndHands
          <5> QED
            BY <5>1, <5>2
        <4>2. Lone(p)
          BY <1>2, <2>1, <4>1 DEF Lone
        <4> QED
          BY <1>2, <3>2, <4>2, OthersStep DEF KInv, Alone
      <3> QED
        BY <3>1, <3>2
    <2> QED
      BY <2>2, <2>3
  <1> QED
    BY <1>1, <1>2 DEF KInv

\* Whatever the number of runners, their scripts and what was left behind when
\* others were killed: a runner that started alone and met no failing call owns
\* every key of its script once its loop runs, while it is alone.
THEOREM TheKeysAreOwned == Spec => []KeysReachTheRunner
  <1>1. KInv => KeysReachTheRunner
    <2> SUFFICES ASSUME KInv, NEW p \in Pids, stage[p] = "loop", p \notin faults \cup company,
                        NEW i \in DOMAIN script[p].hotkeys
                 PROVE  owner[script[p].hotkeys[i]] \in handles[p] \cap started
      BY DEF KeysReachTheRunner
    <2>1. Alone(p)
      BY DEF KInv, Lone
    <2>2. script[p].hotkeys[i] \in Wanted(p)
      BY DEF Wanted, Range
    <2> QED
      BY <2>1, <2>2 DEF Alone, Progress, InLoop, Owned
  <1> QED
    BY <1>1, KeysInitially, KeysStep, Invariance, PTL DEF Spec
=============================================================================
