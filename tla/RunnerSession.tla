----------------------------- MODULE RunnerSession -----------------------------
(***************************************************************************)
(* The life of a runner and what it leaves on the desktop: startup, the    *)
(* KWin scripts it loads one D-Bus call at a time, the purge of what dead  *)
(* runners left, signals, cleanup and crashes.  Several runners share one  *)
(* KWin, KGlobalAccel and temporary directory; each process id is used by  *)
(* one runner, and afterwards perhaps by some other program.               *)
(***************************************************************************)
EXTENDS Integers, Sequences, FiniteSets, Functions

CONSTANTS
  Pids,       \* process ids the runners get
  Keys,       \* shortcuts of the users' scripts
  Scripts,    \* what the runners may be started with, see Script
  MaxScripts, \* how many KWin scripts a runner makes before it asks for no more
  Faulty      \* runners of which one call to the desktop may fail

VARIABLES
  loaded, started, \* KWin scripting: the scripts it has loaded, those it has run
  actions, owner,  \* KGlobalAccel: the registered actions, the one each key goes to
  files,           \* the script files in the temporary directory
  recycled,        \* ids of ended runners that other programs have now
  script, stage,   \* per runner: what it runs, what it does next
  bridge, stale,   \* the KwinShortcutBridge; the actions its purge still has to remove
  todo, job,       \* scripts still to make or remove; the one being worked on
  next, handles,   \* next_index; scripts and active_process_monitor
  masked, pending, \* RuntimeSignalFd blocks SIGINT and SIGTERM; one is waiting
  devMode,         \* DeveloperDiagnosticState.enabled
  ended,           \* how it ended: "self", "signal", "killed"; "" before
  faults, company  \* which runners met a failing call; which were not alone

desktop == <<loaded, started, actions, owner, files>>
kwin == <<loaded, started, actions, owner>>
work == <<bridge, stale, todo, job, next, handles>>
signals == <<masked, pending>>
ghosts == <<ended, faults, company>>
vars == <<desktop, recycled, script, stage, work, signals, devMode, ghosts>>

\* DEV_MODE_TOGGLE_HOTKEY, and the two shortcuts developer mode adds.
Toggle == "Num0+NumEnter"
DevKeys == {"Num1", "Num2"}
InOrder == {<<>>, <<"Num1">>, <<"Num2">>, <<"Num1", "Num2">>}
Shortcuts == Keys \cup DevKeys \cup {Toggle}
Kinds == Shortcuts \cup {"monitor", "window"}

\* The start functions, as the order of what they do with the adapter.
LiveDeclarative == <<"prepare", "monitor", "hotkeys", "developer", "loop">>
LiveController == <<"prepare", "monitor", "hotkeys", "developer", "loop">>
RealDeclarative == <<"prepare", "hotkeys", "loop">>
RealController == <<"prepare", "monitor", "hotkeys", "loop">>
Plans == {LiveDeclarative, RealDeclarative, RealController}

\* hotkeys: the bindings to register, a controller's overlay toggles after its
\* own; parses: every controller hotkey is one HotkeyId::parse accepts.
Script == [plan : Plans, monitored : BOOLEAN, parses : BOOLEAN, hotkeys : Seq(Keys)]

ASSUME SessionAssumption ==
  /\ Keys \cap (DevKeys \cup {Toggle, "monitor", "window"}) = {}
  /\ Scripts \subseteq [Pids -> Script]
  /\ MaxScripts \in [Pids -> Nat] /\ Faulty \subseteq Pids

Live(p) == script[p].plan = LiveDeclarative

KwinScript == [pid : Pids, n : Nat \ {0}, kind : Kinds]
IsShortcut(s) == s.kind \in Shortcuts
Of(p, S) == {s \in S : s.pid = p}
NoOwner == [kind |-> "none"]
NoJob == [why |-> "none", at |-> "none"]

Stages == {"new", "ask", "prepare", "monitor", "hotkeys", "developer", "loop", "window",
           "enable", "disable", "leaving", "undo", "drop", "off"}

\* /proc/<pid> exists.
Alive(p) == stage[p] \notin {"new", "off"} \/ p \in recycled

After(p, s) ==
  IF s \in {"window", "enable", "disable"} THEN "loop"
  ELSE LET plan == script[p].plan
           i == CHOOSE j \in DOMAIN plan : plan[j] = s
       IN plan[i + 1]

\* What there is to register when a stage begins.
Tasks(p, s) ==
  CASE s = "monitor" -> IF script[p].monitored THEN <<"monitor">> ELSE <<>>
    [] s = "hotkeys" -> script[p].hotkeys
    [] s = "developer" -> <<Toggle>>
    [] OTHER -> <<>>

(***************************************************************************)
(* The desktop's side of a call.                                           *)
(***************************************************************************)
\* start runs every loaded script that has not run, whoever loaded it; an
\* action gets its key unless another action has it already.
KwinStart ==
  LET fresh == {s \in loaded \ started : IsShortcut(s)}
      For(k) == {s \in fresh : s.kind = k}
  IN /\ started' = loaded
     /\ actions' = actions \cup fresh
     /\ owner' \in [Shortcuts -> {NoOwner} \cup actions \cup fresh]
     /\ \A k \in Shortcuts :
          IF owner[k] = NoOwner /\ For(k) # {} THEN owner'[k] \in For(k) ELSE owner'[k] = owner[k]
     /\ UNCHANGED loaded

KwinUnload(s) ==
  loaded' = loaded \ {s} /\ started' = started \ {s} /\ UNCHANGED <<actions, owner>>

Unregister(s) ==
  /\ actions' = actions \ {s}
  /\ owner' = [k \in Shortcuts |-> IF owner[k] = s THEN NoOwner ELSE owner[k]]
  /\ UNCHANGED <<loaded, started>>

\* A D-Bus or file operation of runner p fails.
Fault(p) == p \in Faulty \ faults /\ faults' = faults \cup {p}

(***************************************************************************)
(* Startup.                                                                *)
(***************************************************************************)
Others(p) == {q \in Pids \ {p} : Alive(q)}

\* A script that was loaded and never started is nobody's: no purge finds it.
Orphans(p) == {s \in loaded \ started : s.pid # p}

Launch(p) ==
  /\ stage[p] = "new"
  /\ stage' = [stage EXCEPT ![p] = "ask"]
  /\ company' = company \cup (IF Others(p) = {} /\ Orphans(p) = {} THEN {} ELSE {p} \cup Others(p))
  /\ UNCHANGED <<desktop, recycled, script, work, signals, devMode, ended, faults>>

\* The script does not load, the user cancels the scope prompt or the device
\* selection fails: the function returns before it touches the adapter.
GiveUp(p) ==
  /\ stage[p] = "ask"
  /\ stage' = [stage EXCEPT ![p] = "drop"]
  /\ UNCHANGED <<desktop, recycled, script, work, signals, devMode, ghosts>>

\* RuntimeSignalFd::shutdown, and the cleanup session.
Accept(p) ==
  /\ stage[p] = "ask"
  /\ stage' = [stage EXCEPT ![p] = "prepare"]
  /\ masked' = IF Live(p) THEN masked \cup {p} ELSE masked
  /\ UNCHANGED <<desktop, recycled, script, work, pending, devMode, ghosts>>

Enter(p, s) == stage' = [stage EXCEPT ![p] = s] /\ todo' = [todo EXCEPT ![p] = Tasks(p, s)]

\* configure_input_provider and probe_capabilities touch nothing on the desktop.
Prepare(p) ==
  /\ stage[p] = "prepare"
  /\ \E s \in {After(p, "prepare"), "undo"} : Enter(p, s)
  /\ UNCHANGED <<desktop, recycled, script, bridge, stale, job, next, handles, signals, devMode, ghosts>>

\* controller_hotkey_bindings(&program)? leaves the function without the
\* session's cleanup.
Unparsed(p) == stage[p] = "hotkeys" /\ ~script[p].parses

RefuseHotkeys(p) ==
  /\ Unparsed(p)
  /\ Enter(p, "drop")
  /\ UNCHANGED <<desktop, recycled, script, bridge, stale, job, next, handles, signals, devMode, ghosts>>

Making == {"monitor", "hotkeys", "developer", "window", "enable"}
Free(p) == job[p] = NoJob /\ bridge[p] # "purging"

FinishStage(p) ==
  /\ stage[p] \in Making \cup {"disable"} /\ Free(p)
  /\ todo[p] = <<>> /\ ~Unparsed(p)
  /\ Enter(p, After(p, stage[p]))
  /\ UNCHANGED <<desktop, recycled, script, bridge, stale, job, next, handles, signals, devMode, ghosts>>

\* What a failed call comes to: developer shortcuts and some window requests
\* are only warned about, startup cleans up, the live loop ends.
Failed(p, rest) ==
  LET to == CASE stage[p] \in {"monitor", "hotkeys"} -> {"undo"}
              [] stage[p] \in {"developer", "enable"} -> {stage[p]}
              [] stage[p] = "window" -> {"window", "leaving"}
              [] OTHER -> {"leaving"}
  IN \E s \in to : /\ stage' = [stage EXCEPT ![p] = s]
                   /\ todo' = [todo EXCEPT ![p] = IF s = stage[p] THEN rest ELSE <<>>]

\* The scripts after the one that is due.
Rest(p) == SubSeq(todo[p], 2, Len(todo[p]))

(***************************************************************************)
(* KwinShortcutBridge::connect.                                            *)
(***************************************************************************)
\* Mutants of Stale: a purge that takes running runners' shortcuts for stale,
\* one that looks only for shortcuts whose script is still loaded.
StaleAll == actions
StaleLoaded == {a \in actions \cap loaded : ~Alive(a.pid)}

\* stale_signal_auras_action_names: the shortcuts of processes without a /proc entry.
Stale == {a \in actions : ~Alive(a.pid)}

Connect(p) ==
  /\ stage[p] \in Making /\ todo[p] # <<>> /\ bridge[p] = "none" /\ ~Unparsed(p)
  /\ \/ /\ bridge' = [bridge EXCEPT ![p] = "purging"]
        /\ \/ stale' = [stale EXCEPT ![p] = Stale] /\ UNCHANGED faults
           \/ Fault(p) /\ UNCHANGED stale
        /\ UNCHANGED <<stage, todo>>
     \/ Fault(p) /\ Failed(p, Rest(p)) /\ UNCHANGED <<bridge, stale>>
  /\ UNCHANGED <<desktop, recycled, script, job, next, handles, signals, devMode, ended, company>>

Release(s, why) == [why |-> why, at |-> "unload", script |-> s]

PurgeNext(p) ==
  /\ bridge[p] = "purging" /\ job[p] = NoJob
  /\ \E a \in stale[p] : /\ stale' = [stale EXCEPT ![p] = @ \ {a}]
                         /\ job' = [job EXCEPT ![p] = Release(a, "purge")]
  /\ UNCHANGED <<desktop, recycled, script, stage, bridge, todo, next, handles, signals, devMode, ghosts>>

\* The purge is over, and the listener thread starts or does not.
FinishConnect(p) ==
  /\ bridge[p] = "purging" /\ job[p] = NoJob /\ stale[p] = {}
  /\ \/ bridge' = [bridge EXCEPT ![p] = "up"] /\ UNCHANGED <<stage, todo, faults>>
     \/ bridge' = [bridge EXCEPT ![p] = "none"] /\ Fault(p) /\ Failed(p, Rest(p))
  /\ UNCHANGED <<desktop, recycled, script, stale, job, next, handles, signals, devMode, ended, company>>

(***************************************************************************)
(* register_shortcut, ensure_active_process_monitor, run_window_script:    *)
(* write the file, loadScript, start; then keep a handle or unload again.  *)
(***************************************************************************)
NewScript(p) == [pid |-> p, n |-> next[p] + 1, kind |-> Head(todo[p])]

Begin(p) ==
  /\ stage[p] \in Making /\ Free(p) /\ todo[p] # <<>> /\ bridge[p] = "up" /\ ~Unparsed(p)
  /\ \/ /\ next' = [next EXCEPT ![p] = @ + 1]
        /\ job' = [job EXCEPT ![p] = [why |-> "make", at |-> "write", script |-> NewScript(p)]]
        /\ todo' = [todo EXCEPT ![p] = Rest(p)]
        /\ UNCHANGED stage
     \/ \* register: a capability is missing, or the hotkey is reserved
        Head(todo[p]) \in Shortcuts /\ Failed(p, Rest(p)) /\ UNCHANGED <<next, job>>
  /\ UNCHANGED <<desktop, recycled, script, bridge, stale, handles, signals, devMode, ghosts>>

At(p, step) == job[p] # NoJob /\ job[p].at = step
Step(p, to) == job' = [job EXCEPT ![p].at = to] /\ UNCHANGED <<stage, todo>>
Fails(p) == job' = [job EXCEPT ![p] = NoJob] /\ Failed(p, todo[p])

WriteFile(p) ==
  /\ At(p, "write")
  /\ \/ files' = files \cup {job[p].script} /\ Step(p, "load") /\ UNCHANGED faults
     \/ files' \in {files, files \cup {job[p].script}} /\ Fault(p) /\ Fails(p)
  /\ UNCHANGED <<kwin, recycled, script, bridge, stale, next, handles, signals, devMode, ended, company>>

LoadScript(p) ==
  LET s == job[p].script
      Loads == loaded' = loaded \cup {s} /\ UNCHANGED <<started, actions, owner>>
  IN
  /\ At(p, "load")
  /\ \/ Loads /\ Step(p, "start") /\ UNCHANGED <<files, faults>>
     \/ files' = files \ {s} /\ Fails(p) /\ UNCHANGED <<kwin, faults>>
     \/ Fault(p) /\ Fails(p) /\ (Loads \/ UNCHANGED kwin) /\ UNCHANGED files
  /\ UNCHANGED <<recycled, script, bridge, stale, next, handles, signals, devMode, ended, company>>

StartScript(p) ==
  LET s == job[p].script
      window == s.kind = "window"
  IN
  /\ At(p, "start")
  /\ \/ /\ KwinStart /\ UNCHANGED <<stage, todo, faults>>
        /\ job' = [job EXCEPT ![p] = IF window THEN Release(s, "window") ELSE NoJob]
        /\ handles' = [handles EXCEPT ![p] = IF window THEN @ ELSE @ \cup {s}]
     \/ Fault(p) /\ Fails(p) /\ (KwinStart \/ UNCHANGED kwin) /\ UNCHANGED handles
  /\ UNCHANGED <<files, recycled, script, bridge, stale, next, signals, devMode, ended, company>>

(***************************************************************************)
(* unload, unregister_shortcut_script and the purge: unloadScript,         *)
(* unregister, remove the file.  A call that fails does not stop the next. *)
(***************************************************************************)
UnloadScript(p) ==
  /\ At(p, "unload")
  /\ (KwinUnload(job[p].script) /\ UNCHANGED faults) \/ (Fault(p) /\ UNCHANGED kwin)
  /\ Step(p, IF IsShortcut(job[p].script) THEN "unregister" ELSE "remove")
  /\ UNCHANGED <<files, recycled, script, bridge, stale, next, handles, signals, devMode, ended, company>>

UnregisterAction(p) ==
  /\ At(p, "unregister")
  /\ (Unregister(job[p].script) /\ UNCHANGED faults) \/ (Fault(p) /\ UNCHANGED kwin)
  /\ Step(p, "remove")
  /\ UNCHANGED <<files, recycled, script, bridge, stale, next, handles, signals, devMode, ended, company>>

\* A window request that had no answer in time fails once it has cleaned up.
RemoveFile(p) ==
  /\ At(p, "remove")
  /\ (files' = files \ {job[p].script} /\ UNCHANGED faults) \/ (Fault(p) /\ UNCHANGED files)
  /\ \/ job' = [job EXCEPT ![p] = NoJob] /\ UNCHANGED <<stage, todo>>
     \/ job[p].why = "window" /\ Fails(p)
  /\ UNCHANGED <<kwin, recycled, script, bridge, stale, next, handles, signals, devMode, ended, company>>

(***************************************************************************)
(* The live loop, as far as it makes and removes scripts.                  *)
(***************************************************************************)
AskWindow(p) ==
  /\ stage[p] = "loop" /\ next[p] < MaxScripts[p]
  /\ stage' = [stage EXCEPT ![p] = "window"]
  /\ todo' = [todo EXCEPT ![p] = <<"window">>]
  /\ UNCHANGED <<desktop, recycled, script, bridge, stale, job, next, handles, signals, devMode, ghosts>>

Registered(p, kind) == \E s \in handles[p] : s.kind = kind

\* The toggle's callback arrives: pointer_registration and ghost_registration
\* are taken up or given back.
ToggleDevMode(p) ==
  LET on == ~devMode[p]
      Due(kind) == Registered(p, kind) = ~on
  IN
  /\ stage[p] = "loop" /\ owner[Toggle] \in handles[p] \cap started
  /\ on => next[p] + Cardinality(DevKeys) <= MaxScripts[p]
  /\ devMode' = [devMode EXCEPT ![p] = on]
  /\ stage' = [stage EXCEPT ![p] = IF on THEN "enable" ELSE "disable"]
  /\ \E keys \in InOrder : /\ Range(keys) = {k \in DevKeys : Due(k)}
                          /\ todo' = [todo EXCEPT ![p] = keys]
  /\ UNCHANGED <<desktop, recycled, script, bridge, stale, job, next, handles, signals, ghosts>>

\* unregister_internal_hotkey gives the handle up before it has its proxies.
Disable(p) ==
  /\ stage[p] = "disable" /\ Free(p) /\ todo[p] # <<>>
  /\ \E s \in handles[p] :
       /\ s.kind = Head(todo[p])
       /\ handles' = [handles EXCEPT ![p] = @ \ {s}]
       /\ \/ /\ job' = [job EXCEPT ![p] = Release(s, "disable")]
             /\ todo' = [todo EXCEPT ![p] = Rest(p)] /\ UNCHANGED <<stage, faults>>
          \/ Fault(p) /\ Failed(p, <<>>) /\ UNCHANGED job
  /\ UNCHANGED <<desktop, recycled, script, bridge, stale, next, signals, devMode, ended, company>>

\* drain_shutdown_reason: every signal that waits is read at once.
DrainSignal(p) ==
  /\ stage[p] = "loop" /\ p \in pending
  /\ pending' = pending \ {p}
  /\ stage' = [stage EXCEPT ![p] = "leaving"]
  /\ UNCHANGED <<desktop, recycled, script, work, masked, devMode, ghosts>>

\* A runtime error; or the shutdown event of a lifecycle without a signal fd.
EndLoop(p) ==
  /\ stage[p] = "loop"
  /\ stage' = [stage EXCEPT ![p] = "leaving"]
  /\ UNCHANGED <<desktop, recycled, script, work, signals, devMode, ghosts>>

(***************************************************************************)
(* The end.                                                                *)
(***************************************************************************)
Dies(p, how) ==
  /\ stage' = [stage EXCEPT ![p] = "off"]
  /\ ended' = [ended EXCEPT ![p] = how]
  /\ bridge' = [bridge EXCEPT ![p] = "none"]
  /\ stale' = [stale EXCEPT ![p] = {}]
  /\ todo' = [todo EXCEPT ![p] = <<>>]
  /\ job' = [job EXCEPT ![p] = NoJob]
  /\ handles' = [handles EXCEPT ![p] = {}]
  /\ devMode' = [devMode EXCEPT ![p] = FALSE]
  /\ masked' = masked \ {p} /\ pending' = pending \ {p}
  /\ UNCHANGED <<desktop, recycled, script, next, company>>

\* The RuntimeSignalFd is dropped: a signal that waited is delivered.
Unmask(p, to) ==
  IF p \in pending THEN Dies(p, "signal") /\ UNCHANGED faults
  ELSE /\ masked' = masked \ {p}
       /\ stage' = [stage EXCEPT ![p] = to]
       /\ UNCHANGED <<desktop, recycled, script, work, pending, devMode, ghosts>>

\* run_live_real_lifecycle owns the signal fd: it ends with the lifecycle,
\* before the session cleans up.
Return(p) == stage[p] = "leaving" /\ Unmask(p, "undo")

\* unload drains the handles one script at a time.
Unload(p) ==
  /\ stage[p] \in {"undo", "drop"} /\ job[p] = NoJob
  /\ stage[p] = "drop" => p \notin masked
  /\ \E s \in handles[p] : /\ handles' = [handles EXCEPT ![p] = @ \ {s}]
                           /\ job' = [job EXCEPT ![p] = Release(s, "unload")]
  /\ UNCHANGED <<desktop, recycled, script, stage, bridge, stale, todo, next, signals, devMode, ghosts>>

\* Mutant of Undone: unregister_all drops the bridge's list without unloading it.
UndoneUnloaded(p) ==
  /\ stage[p] = "undo" /\ job[p] = NoJob
  /\ stage' = [stage EXCEPT ![p] = "drop"]
  /\ bridge' = [bridge EXCEPT ![p] = "none"] /\ handles' = [handles EXCEPT ![p] = {}]
  /\ UNCHANGED <<desktop, recycled, script, stale, todo, job, next, signals, devMode, ghosts>>

\* unregister_all is through, or has no proxies and keeps every handle.
Undone(p) ==
  /\ stage[p] = "undo" /\ job[p] = NoJob
  /\ stage' = [stage EXCEPT ![p] = "drop"]
  /\ \/ handles[p] = {} /\ bridge' = [bridge EXCEPT ![p] = "none"] /\ UNCHANGED faults
     \/ handles[p] # {} /\ Fault(p) /\ UNCHANGED bridge
  /\ UNCHANGED <<desktop, recycled, script, stale, todo, job, next, handles, signals, devMode, ended, company>>

\* The start function returns: its signal fd is dropped, then run_cli's adapter.
DropSignalFd(p) == stage[p] = "drop" /\ p \in masked /\ Unmask(p, "drop")

\* Whatever Drop for KwinShortcutBridge could not unload stays.
Exit(p) ==
  /\ stage[p] = "drop" /\ p \notin masked /\ job[p] = NoJob
  /\ Dies(p, "self")
  /\ (handles[p] = {} /\ UNCHANGED faults) \/ (handles[p] # {} /\ Fault(p))

Signal(p) ==
  /\ stage[p] \notin {"new", "off"}
  /\ IF p \in masked THEN /\ pending' = pending \cup {p} /\ p \notin pending
                          /\ UNCHANGED <<desktop, recycled, script, stage, work, masked, devMode, ghosts>>
     ELSE Dies(p, "signal") /\ UNCHANGED faults

\* SIGKILL, or a crash.
Kill(p) == stage[p] \notin {"new", "off"} /\ Dies(p, "killed") /\ UNCHANGED faults

Recycle(p) ==
  /\ stage[p] = "off" /\ p \notin recycled
  /\ recycled' = recycled \cup {p}
  /\ company' = company \cup {q \in Pids : stage[q] \notin {"new", "off"}}
  /\ UNCHANGED <<desktop, script, stage, work, signals, devMode, ended, faults>>

Init ==
  /\ loaded = {} /\ started = {} /\ actions = {} /\ files = {}
  /\ owner = [k \in Shortcuts |-> NoOwner]
  /\ recycled = {}
  /\ script \in Scripts
  /\ stage = [p \in Pids |-> "new"]
  /\ bridge = [p \in Pids |-> "none"] /\ stale = [p \in Pids |-> {}]
  /\ todo = [p \in Pids |-> <<>>] /\ job = [p \in Pids |-> NoJob]
  /\ next = [p \in Pids |-> 0] /\ handles = [p \in Pids |-> {}]
  /\ masked = {} /\ pending = {}
  /\ devMode = [p \in Pids |-> FALSE]
  /\ ended = [p \in Pids |-> ""] /\ faults = {} /\ company = {}

Startup(p) ==
  \/ GiveUp(p) \/ Accept(p) \/ Prepare(p) \/ RefuseHotkeys(p) \/ FinishStage(p)
Bridge(p) ==
  \/ Connect(p) \/ PurgeNext(p) \/ FinishConnect(p)
  \/ Begin(p) \/ WriteFile(p) \/ LoadScript(p) \/ StartScript(p)
  \/ UnloadScript(p) \/ UnregisterAction(p) \/ RemoveFile(p)
Looping(p) == AskWindow(p) \/ ToggleDevMode(p) \/ Disable(p) \/ EndLoop(p)
Ending(p) == DrainSignal(p) \/ Return(p) \/ Unload(p) \/ Undone(p) \/ DropSignalFd(p) \/ Exit(p)
Runner(p) == Startup(p) \/ Bridge(p) \/ Looping(p) \/ Ending(p)

Next == \E p \in Pids : Launch(p) \/ Runner(p) \/ Signal(p) \/ Kill(p) \/ Recycle(p)

Spec == Init /\ [][Next]_vars

(***************************************************************************)
(* Properties.                                                             *)
(***************************************************************************)
TypeOK ==
  /\ loaded \in SUBSET KwinScript /\ started \in SUBSET loaded
  /\ actions \in SUBSET {s \in KwinScript : IsShortcut(s)}
  /\ owner \in [Shortcuts -> {NoOwner} \cup actions]
  /\ files \in SUBSET KwinScript /\ recycled \in SUBSET Pids
  /\ script \in Scripts /\ stage \in [Pids -> Stages]
  /\ bridge \in [Pids -> {"none", "purging", "up"}]
  /\ stale \in [Pids -> SUBSET {s \in KwinScript : IsShortcut(s)}]
  /\ todo \in [Pids -> Seq(Kinds)]
  /\ job \in [Pids -> {NoJob} \cup
                [why : {"make", "window", "purge", "disable", "unload"},
                 at : {"write", "load", "start", "unload", "unregister", "remove"},
                 script : KwinScript]]
  /\ next \in [Pids -> Nat] /\ handles \in [Pids -> SUBSET KwinScript]
  /\ masked \in SUBSET Pids /\ pending \in SUBSET masked
  /\ devMode \in [Pids -> BOOLEAN]
  /\ ended \in [Pids -> {"", "self", "signal", "killed"}]
  /\ faults \in SUBSET Pids /\ company \in SUBSET Pids

Leftovers(p) == Of(p, loaded \cup actions \cup files)

\* While no call of it has failed, everything a running runner has on the
\* desktop is in its list of handles or is the script it is working on: the
\* bookkeeping of register_shortcut, run_window_script, unload and
\* unregister_shortcut_script never loses a script between two calls.
EveryScriptIsHeld ==
  \A p \in Pids : ended[p] = "" /\ p \notin faults =>
    \A s \in Leftovers(p) : s \in handles[p] \/ (job[p] # NoJob /\ job[p].script = s)

\* A runner that ends by itself, after any refused registration, runtime error,
\* cancelled prompt or signal, and met no failing call, leaves no script,
\* shortcut or file behind, whatever runners it shared the desktop with.
NothingLeftBehind ==
  \A p \in Pids : ended[p] = "self" /\ p \notin faults => Leftovers(p) = {}

\* The shape of the state, and whose hands the scripts are in.
Inv == TypeOK /\ EveryScriptIsHeld /\ NothingLeftBehind

\* A runner that started alone and met no failing call owns the keys of its
\* script once its loop runs, whatever earlier runners left when they crashed:
\* the purge at connect has freed the keys.
KeysReachTheRunner ==
  \A p \in Pids : stage[p] = "loop" /\ p \notin faults \cup company =>
    \A i \in DOMAIN script[p].hotkeys : owner[script[p].hotkeys[i]] \in handles[p] \cap started

\* A script leaves KWin, and a shortcut KGlobalAccel, by the hand of its own
\* runner or after that runner is gone: no purge takes a running runner's.
OnlyTheDeadArePurged ==
  [][\A p \in Pids : Alive(p) /\ p \notin recycled =>
       \A s \in Of(p, loaded \cup actions) \ (loaded' \cup actions') :
         job[p] # NoJob /\ job[p].script = s]_vars

\* specs/012-runtime-shutdown-reliability: a signal ends a run through its
\* cleanup, also when another one arrives while it shuts down.
SignalsLeadToCleanup ==
  \A p \in Pids : Live(p) /\ ended[p] = "signal" /\ p \notin faults => Leftovers(p) = {}
=============================================================================
