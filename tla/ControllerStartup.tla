--------------------------- MODULE ControllerStartup ---------------------------
(* A controller script from the disk to its callbacks: the runner reads it    *)
(* twice, once for the program and once for the Lua runtime, asks for what the *)
(* program needs, and then runs callbacks, from the program's actions when it  *)
(* found any and in the runtime otherwise (cli/src/runner.rs,                 *)
(* cli/src/runner/controller.rs).  The file may be edited meanwhile.           *)
(*                                                                           *)
(* A script is known by its name in Scripts.                                   *)
EXTENDS ControllerScript

CONSTANTS
  Scripts,    \* every script that the file may hold at first, by name
  Editions,   \* the scripts that the file may be edited into
  Granted     \* the capabilities the desktop grants

ASSUME StartupAssumption == Editions \subseteq DOMAIN Scripts

VARIABLES
  disk,       \* the script in the file
  stage,      \* "program", "runtime", "start", "running", "refused" or "ended"
  program,    \* the program that the loader made, or NONE
  runtime,    \* the Lua runtime, by what running the script registered and defined, or NONE
  readAs,     \* the scripts that the two were made of, by what they were made into
  task,       \* the callback that runs: its name, whether in Lua, and the calls made and to come; or NONE
  ran,        \* the callback that completed last, or NONE
  why         \* why the runner ended: "" or "missing" or "capability"

vars == <<disk, stage, program, runtime, readAs, task, ran, why>>

TypeOK ==
  /\ disk \in DOMAIN Scripts /\ readAs \in [{"program", "runtime"} -> DOMAIN Scripts \cup {NONE}]
  /\ stage \in {"program", "runtime", "start", "running", "refused", "ended"}
  /\ why \in {"", "missing", "capability"} /\ (stage = "ended" <=> why # "")

Init == /\ disk \in DOMAIN Scripts /\ stage = "program"
        /\ program = NONE /\ runtime = NONE /\ readAs = [made \in {"program", "runtime"} |-> NONE]
        /\ task = NONE /\ ran = NONE /\ why = ""

\* Somebody saves another script under the same name between the two reads; an edit before
\* them only means another script at first, and after them nobody reads the file.
Edit == /\ stage = "runtime"
        /\ \E name \in Editions \ {disk} : disk' = name
        /\ UNCHANGED <<stage, program, runtime, readAs, task, ran, why>>

\* load_lua_controller_program_file
LoadProgram ==
  /\ stage = "program"
  /\ program' = Program(Scripts[disk])
  /\ stage' = IF program' = NONE THEN "refused" ELSE "runtime"
  /\ readAs' = [readAs EXCEPT !["program"] = disk]
  /\ UNCHANGED <<disk, runtime, task, ran, why>>

\* The text asks for what only Lua can do.
NeedsLua(script) == \E mark \in {".sleep", ".window."} : Mentions(Source(script).text, mark)

\* load_imperative_controller_runtime: the file is read and validated again.
LoadRuntime ==
  /\ stage = "runtime"
  /\ IF Program(Scripts[disk]) = NONE THEN stage' = "refused" /\ UNCHANGED runtime
     ELSE /\ runtime' = IF NeedsLua(Scripts[disk]) THEN LuaController(Scripts[disk]) ELSE NONE
          /\ stage' = IF NeedsLua(Scripts[disk]) /\ runtime' = NONE THEN "refused" ELSE "start"
  /\ readAs' = [readAs EXCEPT !["runtime"] = disk]
  /\ UNCHANGED <<disk, program, task, ran, why>>

\* The capability report covers what the program needs.
Start == /\ stage = "start"
         /\ stage' = IF program.needs \subseteq Granted THEN "running" ELSE "refused"
         /\ UNCHANGED <<disk, program, runtime, readAs, task, ran, why>>

\* The callbacks that input, time and the end of a loop may ask for.
Fired == UNION {{entry.callback} \cup LoopCallbacks(entry) : entry \in Range(program.registrations)}

\* What a call needs when Lua makes it; a log needs nothing.
RequiredCapability(api) ==
  CASE api = "aura.sleep" -> {"timer"}
    [] api = "aura.window.active" -> {"active_window_metadata"}
    [] api \in {"aura.window.find", "aura.window.activate", "aura.window.wait_active"} -> {"window_activation"}
    [] api \in InputApis -> {"synthesized_input"}
    [] OTHER -> {}

\* Starting a callback: its actions if it has any, else its coroutine if there is a runtime.
ExecuteTask ==
  /\ stage = "running" /\ task = NONE
  /\ \E name \in Fired :
       LET actions == IF name \in DOMAIN program.callbacks THEN program.callbacks[name] ELSE NONE
           inLua   == actions = <<>> /\ runtime # NONE
       IN IF \/ actions = NONE
             \/ inLua /\ name \notin DOMAIN runtime.callbacks
          THEN stage' = "ended" /\ why' = "missing" /\ UNCHANGED task
          ELSE /\ task' = [callback |-> name, lua |-> inLua, done |-> <<>>,
                           left |-> IF inLua THEN Written(runtime.callbacks[name]) ELSE actions]
               /\ UNCHANGED <<stage, why>>
  /\ UNCHANGED <<disk, program, runtime, readAs, ran>>

\* A call of the task is made; Lua's must be declared by what it registered, and reported.
Call ==
  /\ stage = "running" /\ task # NONE
  /\ task.left # <<>>
  /\ LET api    == Head(task.left)[1]
         denied == task.lua /\ ~(RequiredCapability(api) \subseteq runtime.declared \cap program.needs)
     IN IF denied THEN stage' = "ended" /\ why' = "capability" /\ task' = NONE
        ELSE /\ task' = [task EXCEPT !.left = Tail(@),
                                     !.done = Append(@, Head(task.left))]
             /\ UNCHANGED <<stage, why>>
  /\ UNCHANGED <<disk, program, runtime, readAs, ran>>

Complete == /\ stage = "running" /\ task # NONE
            /\ task.left = <<>>
            /\ ran' = [callback |-> task.callback, done |-> task.done]
            /\ task' = NONE
            /\ UNCHANGED <<disk, stage, program, runtime, readAs, why>>

Next == Edit \/ LoadProgram \/ LoadRuntime \/ Start \/ ExecuteTask \/ Call \/ Complete

Spec == Init /\ [][Next]_vars

--------------------------------------------------------------------------
(* Properties.                                                               *)

\* A script without code that does not run and without comments on its fields.
RECURSIVE AllLive(_)
AllLive(value) == CASE value[1] = "table" -> \A f \in Range(value[2]) : f.live /\ AllLive(f.value)
                    [] value[1] = "list"  -> \A v \in Range(value[2]) : AllLive(v)
                    [] OTHER -> TRUE
Statements(script) == Range(script.main) \cup UNION {Range(script.files[f]) : f \in DOMAIN script.files}
Live(script) == \A s \in Statements(script) : s.live /\ (s.op \notin {"callback", "run", "import"} => AllLive(s.table))

\* A registration without a scope of its own, or with one written as a table.
Literal(script) == \A s \in Statements(script) :
                     s.op \in Range(Kinds) => TreeField(s.table, "scope") = TreeTable(s.table, "scope")

Alike(entry, said) == \A field \in {"kind", "trigger", "callback", "mode", "scope", "held"} : entry[field] = said[field]

\* A loop as a table says it.
SaidLoop(loop) ==
  IF loop = NONE THEN NONE
  ELSE [held   |-> TreeStrings(TreeTable(loop, "while_held")),
        before |-> TreeString(loop, "before"), every |-> TreeNumber(TreeTable(loop, "repeat"), "every_ms"),
        repeat |-> TreeString(TreeTable(loop, "repeat"), "callback"), after |-> TreeString(loop, "after")]

RegistrationsAgree(entries, made, registered) ==
  /\ Len(entries) = Len(made)
  /\ \A i \in DOMAIN made : \E entry \in Range(entries) :
       Alike(entry, registered[i]) /\ entry.loop = SaidLoop(TreeTable(made[i].table, "loop"))

TrackersAgree(trackers, tracked, locals) ==
  Says!TrackersOk(tracked, locals) /\ trackers = Says!Trackers(tracked, locals)
OverlaysAgree(overlays, trackers, mounted, locals) ==
  Says!OverlaysOk(mounted, trackers, locals) /\ overlays = Says!Overlays(mounted, locals)
OptionsAgree(options, configured) ==
  options = IF configured = <<>> THEN NONE
            ELSE [input_provider |-> Says!InputProvider(configured[1]), leader |-> Says!Leader(configured[1])]

\* The program that the loader finds in a script's text is what the script says: the
\* registrations that Lua would make, with their loops, and the trackers, overlays and options of
\* the tables, each of them acceptable.
ReadAsLuaReads ==
  stage = "runtime" /\ Live(Scripts[readAs["program"]]) /\ Literal(Scripts[readAs["program"]]) =>
    LET statements == Executed(Scripts[readAs["program"]])
    IN /\ RegistrationsAgree(program.registrations, Registrations(statements),
                             Registered(Registrations(statements), Locals(statements)))
       /\ TrackersAgree(program.trackers, Given(statements, "state.track"), Locals(statements))
       /\ OverlaysAgree(program.overlays, program.trackers, Given(statements, "overlay.mount"),
                        Locals(statements))
       /\ OptionsAgree(program.options, Given(statements, "configure"))

\* A body whose lines are literal calls of the input API, or that Lua must run and there is Lua for.
Plain(body) == \A line \in Range(body) : line.form = "--" \/ (line.form = "" /\ "aura." \o line.api \in InputApis
                                                              /\ line.arg[1] = "string")
RunByLua(body) == \E line \in Range(body) : line.form \in {"if ", "for ", "while ", "local "}
                                              \/ line.api \in {"sleep", "window.active", "window.find"}

SameScript == runtime # NONE => readAs["runtime"] = readAs["program"]

\* A callback that has run to its end has made the calls of its body, each of them in its turn and
\* no other, whether the loader's actions were played or Lua ran, as long as both reads of the
\* file found the same script.
WrittenIsDone ==
  ran # NONE /\ SameScript /\ Live(Scripts[readAs["program"]]) =>
    LET definitions == Made(Executed(Scripts[readAs["program"]]), "callback")
        body        == definitions[Definition(definitions, ran.callback)].body
    IN Plain(body) \/ (RunByLua(body) /\ runtime # NONE) => ran.done = Written(body)

\* No input, no timer and no end of a loop asks for a callback that is not there, which would end
\* the runner long after it started: only an edit between the two reads can bring that about.
EveryFiredCallbackIsDefined ==
  why = "missing" => ~SameScript \/ ~Live(Scripts[readAs["program"]])
==========================================================================
