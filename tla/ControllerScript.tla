--------------------------- MODULE ControllerScript ---------------------------
(* A controller script and the two things the runner makes of it: the program  *)
(* the loader finds in its text (lua/src/sandbox.rs) and the controller that   *)
(* running it as Lua registers (lua/src/runtime.rs).                           *)
(*                                                                           *)
(* A script is a main file and the modules beside it, each a sequence of       *)
(* statements [op, name, table, body, live, indent]: a call of the context     *)
(* with a table (a registration, state.track, overlay.mount, configure), the   *)
(* definition of a callback, an import, the call of what a module defines, or  *)
(* a local table.  A statement that is not live is there and does not run; a   *)
(* field that is not live is in a comment.  A callback's body is a sequence of *)
(* lines [form, api, arg, times]: a call that Lua makes `times' times, alone   *)
(* on its line ("") or after a keyword.                                        *)
EXTENDS LuaText, FiniteSets

Reads == INSTANCE ControllerReading WITH
           StringIn <- field_string, NumberIn <- field_u64, TableIn <- table_body_after,
           TableAt <- table_body_field_after, ValueAt <- field_value, FieldAt <- has_field,
           Strings <- quoted_strings, Tables <- top_level_tables, Says <- Mentions

--------------------------------------------------------------------------
(* The text of a script.                                                     *)

RECURSIVE ValueText(_)
FieldText(field) == (IF field.live THEN <<>> ELSE <<W("--")>>)
                      \o <<W(field.key), W("=")>> \o ValueText(field.value)
ValueText(value) ==
  CASE value[1] = "table" -> <<W("{")>> \o FlattenSeq([i \in DOMAIN value[2] |-> FieldText(value[2][i])])
                                        \o <<W("}")>>
    [] value[1] = "list"  -> <<W("{")>> \o FlattenSeq([i \in DOMAIN value[2] |-> ValueText(value[2][i])])
                                        \o <<W("}")>>
    [] OTHER -> <<value>>

LineText(line) ==
  <<Indent>> \o (IF line.form = "" THEN <<>> ELSE <<W(line.form)>>)
             \o <<W("aura." \o line.api), W("("), line.arg, W(")")>>
             \o (IF line.form \in {"if ", "for ", "while "} THEN <<W("end")>> ELSE <<>>)

CallText(s) ==
  CASE s.op = "callback" -> <<W("aura.callback"), W("("), S(s.name), W("function"), W("("), W(")")>>
                              \o FlattenSeq([i \in DOMAIN s.body |-> LineText(s.body[i])])
                              \o <<IF s.indent THEN Indent ELSE Break, W("end"), W(")")>>
    [] s.op = "import"   -> <<W("aura.import"), W("("), S(s.name), W(")")>>
    [] s.op = "run"      -> <<W(s.name), W("("), W("aura"), W(")")>>
    [] s.op = "local"    -> <<W("local "), W(s.name), W("=")>> \o ValueText(s.table)
    [] OTHER -> <<W("aura." \o s.op), W("(")>> \o ValueText(s.table) \o <<W(")")>>

StatementText(s) ==
  <<IF s.indent THEN Indent ELSE Break>>
    \o (IF s.live THEN CallText(s) ELSE <<W("if "), W("false"), W("then")>> \o CallText(s) \o <<W("end")>>)
BlockText(statements) == FlattenSeq([i \in DOMAIN statements |-> StatementText(statements[i])])

ModuleText(script, name) == <<W("function"), W(name), W("("), W("aura"), W(")")>>
                              \o BlockText(script.files[name]) \o <<Break, W("end")>>
MainText(script) ==
  CASE script.entry = "named" ->
         <<W("local function"), W("configure"), W("("), W("aura"), W(")")>> \o BlockText(script.main)
           \o <<Break, W("end"), Break, W("return"), W("configure")>>
    [] script.entry = "anonymous" ->
         <<W("return"), W("function"), W("("), W("aura"), W(")")>> \o BlockText(script.main)
           \o <<Break, W("end")>>
    [] OTHER -> BlockText(script.main)

--------------------------------------------------------------------------
(* The source tree: a file after the modules it imports, each of them once.    *)

controller_imports(text) ==
  LET calls == SelectSeq([i \in DOMAIN text |-> i], LAMBDA i : Holds(text[i], ".import"))
  IN [k \in DOMAIN calls |-> first_quoted(After(text, calls[k]))]

Importable(script, name) == /\ ~HasPart(name, "..") /\ SubSeq(name, 1, 1) # "/"
                            /\ name \in DOMAIN script.files

\* A module is read once; NONE once an import is refused.
RECURSIVE SourceTree(_, _, _)
SourceTree(script, text, before) ==
  LET imports == controller_imports(text)
      Take(read, name) ==
        CASE read = NONE -> NONE
          [] read # NONE /\ ~Importable(script, name) -> NONE
          [] read # NONE /\ Importable(script, name) /\ name \in read.visited -> read
          [] OTHER -> SourceTree(script, ModuleText(script, name),
                                 [read EXCEPT !.visited = @ \cup {name}])
      read == FoldLeft(Take, before, imports)
  IN IF read = NONE THEN NONE ELSE [read EXCEPT !.text = @ \o text]

Source(script) == SourceTree(script, MainText(script), [visited |-> {}, text |-> <<>>])

\* The parameter of the function the script returns; NONE when it returns none.
controller_context_name(text) ==
  LET first == Find(text, "return")
      last  == SelectLastInSeq(text, LAMBDA t : Holds(t, "return"))
      named == SelectInSeq([i \in 1..(Len(text) - 1) |-> <<text[i], text[i + 1]>>],
                           LAMBDA pair : pair = <<W("local function"), text[last + 1]>>)
  IN CASE first = 0 \/ Mentions(text, "sa.") -> NONE
       [] first # 0 /\ text[first + 1] = W("function") -> text[first + 3][2]
       [] OTHER -> IF named = 0 THEN NONE ELSE text[named + 3][2]

\* The tables that calls of this function of the context are given, in the order of the text.
RECURSIVE Calls(_, _)
Calls(text, api) ==
  LET call == Find(text, api)
      open == NextToken(text, NextToken(text, call, W("(")), W("{"))
      end  == matching_brace(text, open)
  IN IF open = 0 THEN <<>>
     ELSE <<SubSeq(text, open + 1, end - 1)>> \o Calls(After(text, end), api)

--------------------------------------------------------------------------
(* Registrations.                                                            *)

Kinds == <<"hotkey", "motion", "press", "timer", "shutdown">>

\* What a registration needs that does not say so; running it as Lua adds the timer's own.
controller_required_capabilities(kind, mode, scope) ==
  Reads!ScopeNeeds(scope) \cup
    (CASE kind = "hotkey" -> {"global_shortcut"}
       [] kind \in {"motion", "press"} ->
            {"composite_pointer_observation"}
              \cup (IF mode = "consume" THEN {"composite_pointer_consumption"} ELSE {})
       [] OTHER -> {})

Trigger(kind, written) == IF written = NONE /\ kind = "shutdown" THEN "shutdown" ELSE written

\* while_held, before, repeat and after of a loop; NONE for a callback it does without.
LoopPolicy(loop) ==
  IF loop = NONE THEN NONE
  ELSE LET repeat == table_body_field_after(loop, "repeat")
       IN [held   |-> quoted_strings(table_body_field_after(loop, "while_held")),
           before |-> field_string(loop, "before"), every |-> field_u64(repeat, "every_ms"),
           repeat |-> field_string(repeat, "callback"), after |-> field_string(loop, "after")]
LoopPolicyOk(loop) ==
  loop # NONE =>
    /\ \A field \in {"while_held", "repeat"} : table_body_field_after(loop, field) # NONE
    /\ LoopPolicy(loop).every \notin {NONE, -1, 0} /\ LoopPolicy(loop).repeat # NONE

\* A mistake: the first table of a registration is its scope.
FirstTableIsScope(b) == IF BodyAfter(b, 1) = NONE THEN Reads!Everywhere
                        ELSE Reads!ProcessScope(BodyAfter(b, 1))

RegistrationScope(b) == IF table_body_after(b, "scope") = NONE THEN Reads!Everywhere
                        ELSE Reads!ProcessScope(table_body_after(b, "scope"))

parse_controller_entry(kind, b) ==
  [kind |-> kind, trigger |-> Trigger(kind, field_string(b, "trigger")),
   callback |-> Reads!Or(field_string(b, "callback"), field_string(b, "handler")),
   mode |-> Reads!Mode(b), scope |-> RegistrationScope(b),
   capabilities |->
     Reads!CapabilitiesOr(b, controller_required_capabilities(kind, Reads!Mode(b), RegistrationScope(b))),
   held |-> IF has_field(b, "requires_held")
            THEN quoted_strings(table_body_field_after(b, "requires_held")) ELSE <<>>,
   loop |-> LoopPolicy(table_body_field_after(b, "loop"))]
EntryOk(entry, b) ==
  /\ entry.trigger \notin {NONE, ""} /\ entry.callback \notin {NONE, ""}
  /\ Reads!ModeOk(b) /\ Reads!CapabilitiesOk(b)
  /\ ~NoTableAfter(b, "scope") /\ entry.scope # {}
  /\ LoopPolicyOk(table_body_field_after(b, "loop"))

\* No two of a kind and a scope are the same, and no motion begins with another of its scope.
RegistrationSetOk(all) ==
  \A i, j \in DOMAIN all :
    i # j /\ all[i].kind = all[j].kind /\ all[i].scope = all[j].scope =>
      /\ all[i].trigger # all[j].trigger
      /\ all[i].kind = "motion" => ~IsPrefix(all[i].trigger \o " ", all[j].trigger)

LoopCallbacks(entry) == IF entry.loop = NONE THEN {}
                        ELSE {entry.loop.before, entry.loop.repeat, entry.loop.after} \ {NONE}

--------------------------------------------------------------------------
(* Callbacks as the loader reads them: the calls that can be made without Lua. *)

\* The next end at the start of a line, or else the next that follows a space; 0 for none.
BodyEnd(text) ==
  LET own == {i \in 1..(Len(text) - 1) : text[i] = Break /\ text[i + 1] = W("end")}
  IN IF own # {} THEN Min(own) ELSE SelectInSeq(text, LAMBDA t : t = W("end"))

BreakAt(text) == SelectSeq([i \in DOMAIN text |-> i], LAMBDA i : text[i] \in {Break, Indent})
Lines(text) ==
  LET at == BreakAt(text) \o <<Len(text) + 1>>
  IN [k \in 1..(Len(at) - 1) |-> SubSeq(text, at[k] + 1, at[k + 1] - 1)]

InputApis == {"aura.input.key", "aura.input.key_down", "aura.input.key_up", "aura.input.text",
              "aura.input.mouse_click"}
SupportedApis == InputApis \cup {"aura.sleep", "aura.window.active", "aura.window.find",
                                 "aura.window.activate", "aura.window.wait_active"}

\* A call of the input API with a literal at the start of a line.
IsLiteralCall(line) == /\ Len(line) > 2 /\ line[1][2] \in InputApis
                       /\ line[2] = W("(") /\ line[3][1] = "string"

\* A mistake: a body that only sleeps is not left to Lua.
LeftToLuaUnlessAsleep(body) ==
  \E mark \in {"aura.window.", "while ", "for ", "if ", "local ", ".."} : Mentions(body, mark)

LeftToLua(body) ==
  \E mark \in {"aura.sleep", "aura.window.", "while ", "for ", "if ", "local ", ".."} : Mentions(body, mark)

\* The actions of a body; none when it is left to Lua, and NONE when it is refused.
parse_controller_output_actions(body) ==
  LET code  == SelectSeq(Lines(body), LAMBDA line : line # <<>> /\ line[1] # W("--"))
      calls == SelectSeq(code, IsLiteralCall)
      Unsupported(line) == /\ IsPrefix("aura.", line[1][2])
                           /\ ~\E api \in SupportedApis : IsPrefix(api, line[1][2])
  IN CASE Mentions(body, "aura.configure") -> NONE
       [] ~Mentions(body, "aura.configure") /\ LeftToLua(body) -> <<>>
       [] OTHER -> IF \E line \in Range(code) : Unsupported(line) THEN NONE
                   ELSE [i \in DOMAIN calls |-> <<calls[i][1][2], calls[i][3][2]>>]

\* Every definition of a callback and its actions, in the order of the text.
RECURSIVE parse_controller_callbacks(_)
parse_controller_callbacks(text) ==
  LET call  == After(text, NextToken(text, Find(text, "aura.callback"), W("(")))
      body  == After(call, NextToken(call, NextToken(call, 1, W("function")), W(")")))
      found == <<[name |-> first_quoted(call),
                  actions |-> parse_controller_output_actions(SubSeq(body, 1, BodyEnd(body) - 1))]>>
  IN IF ~Mentions(text, "aura.callback") THEN <<>>
     ELSE found \o parse_controller_callbacks(After(body, BodyEnd(body)))

\* A name defined twice is what it was defined as last.
Defined(definitions) == {definitions[i].name : i \in DOMAIN definitions}
Definition(definitions, name) == SelectLastInSeq(definitions, LAMBDA d : d.name = name)

--------------------------------------------------------------------------
(* The program the loader makes of a script; NONE when it refuses it.          *)

Entries(text) ==
  FlattenSeq([k \in DOMAIN Kinds |->
    LET tables == Calls(text, "aura." \o Kinds[k])
    IN [i \in DOMAIN tables |-> parse_controller_entry(Kinds[k], tables[i])]])
EntriesOk(text) ==
  \A kind \in Range(Kinds) : \A b \in Range(Calls(text, "aura." \o kind)) :
    EntryOk(parse_controller_entry(kind, b), b)

\* A mistake: the callbacks of a loop are not looked for.
CallbacksOkWithoutLoops(registrations, definitions) ==
  \A entry \in Range(registrations) : entry.callback \in Defined(definitions)

\* ControllerProgram::new: what is registered, loops and all, is defined.
CallbacksOk(registrations, definitions) ==
  \A entry \in Range(registrations) :
    {entry.callback} \cup LoopCallbacks(entry) \subseteq Defined(definitions)

OptionsOk(text) ==
  LET configure == Calls(text, "aura.configure")
  IN /\ ~has_field(text, "input_provider") /\ ~has_field(text, "leader")
     /\ Len(configure) <= 1
     /\ configure # <<>> =>
          /\ Reads!InputProviderOk(configure[1])
          /\ Reads!Leader(configure[1]) # NONE => ~IsPrefix("<", Reads!Leader(configure[1]))
Options(text) ==
  LET configure == Calls(text, "aura.configure")
  IN IF configure = <<>> THEN NONE
     ELSE [input_provider |-> Reads!InputProvider(configure[1]), leader |-> Reads!Leader(configure[1])]

Accepted(text, entries, defined, trackers) ==
  /\ OptionsOk(text) /\ EntriesOk(text) /\ RegistrationSetOk(entries)
  /\ Reads!TrackersOk(Calls(text, "aura.state.track"), text)
  /\ Reads!OverlaysOk(Calls(text, "aura.overlay.mount"), trackers, text)
  /\ \A i \in DOMAIN defined : defined[i].actions # NONE /\ defined[i].name # NONE
  /\ CallbacksOk(entries, defined)

ProgramWith(text, entries, defined, trackers, overlays) ==
  LET acts == \E name \in Defined(defined) : defined[Definition(defined, name)].actions # <<>>
  IN IF Accepted(text, entries, defined, trackers)
     THEN [registrations |-> entries, trackers |-> trackers, overlays |-> overlays,
           options |-> Options(text),
           callbacks |-> [name \in Defined(defined) |-> defined[Definition(defined, name)].actions],
           needs |-> UNION {entries[i].capabilities : i \in DOMAIN entries}
                       \cup (IF acts THEN {"synthesized_input"} ELSE {})
                       \cup Reads!TrackerNeeds(trackers) \cup Reads!OverlayNeeds(overlays)]
     ELSE NONE

ProgramOf(text) == ProgramWith(text, Entries(text), parse_controller_callbacks(text),
                               Reads!Trackers(Calls(text, "aura.state.track"), text),
                               Reads!Overlays(Calls(text, "aura.overlay.mount"), text))

\* validate_controller_sandbox runs the script once, with calls that do nothing.
RunsAsLua(script, source) == \A s \in Range(script.main) : s.live /\ s.op = "run" => s.name \in source.visited

Program(script) ==
  LET source == Source(script)
  IN IF source = NONE THEN NONE
     ELSE IF controller_context_name(source.text) = NONE \/ ~RunsAsLua(script, source) THEN NONE
     ELSE ProgramOf(source.text)

--------------------------------------------------------------------------
(* The script itself: what its tables say, and what it does when it is run.    *)

TreeField(b, key) == LET fields == SelectSeq(b[2], LAMBDA f : f.live /\ f.key = key)
                     IN IF fields = <<>> THEN NONE ELSE Last(fields).value
TreeOf(kinds, b, key) == LET value == TreeField(b, key)
                         IN IF value = NONE THEN NONE
                            ELSE IF value[1] \in kinds THEN value ELSE NONE
TreeTable(b, key)  == TreeOf({"table", "list"}, b, key)
TreeString(b, key) == LET value == TreeOf({"string"}, b, key) IN IF value = NONE THEN NONE ELSE value[2]
TreeNumber(b, key) == LET value == TreeField(b, key)
                      IN CASE value = NONE -> NONE
                           [] value # NONE /\ value[1] = "number" -> value[2]
                           [] OTHER -> -1
TreeValue(b, key)  == IF TreeTable(b, key) = NONE THEN TreeField(b, key) ELSE W("{")
TreeHas(b, key)    == TreeField(b, key) # NONE
TreeSays(b, key)   == TreeField(b, key) = W("true")
TreeTables(b)      == SelectSeq(b[2], LAMBDA value : value[1] = "table")

RECURSIVE TreeStrings(_)
TreeStrings(value) ==
  CASE value[1] = "string" -> <<value[2]>>
    [] value[1] = "list"   -> FlattenSeq([i \in DOMAIN value[2] |-> TreeStrings(value[2][i])])
    [] value[1] = "table"  -> FlattenSeq([i \in DOMAIN value[2] |-> TreeStrings(value[2][i].value)])
    [] OTHER -> <<>>

Says == INSTANCE ControllerReading WITH
          StringIn <- TreeString, NumberIn <- TreeNumber, TableIn <- TreeTable,
          TableAt <- TreeTable, ValueAt <- TreeValue, FieldAt <- TreeHas,
          Strings <- TreeStrings, Tables <- TreeTables, Says <- TreeSays

\* The statements that are run, in order: a module's where its function is called.
Executed(script) ==
  FlattenSeq([i \in DOMAIN script.main |->
    LET s == script.main[i]
    IN SelectSeq(IF s.op = "run" /\ s.live THEN script.files[s.name] ELSE <<s>>, LAMBDA t : t.live)])

Made(statements, op) == SelectSeq(statements, LAMBDA s : s.op = op)
Given(statements, op) == LET made == Made(statements, op) IN [i \in DOMAIN made |-> made[i].table]

\* The local tables, as the fields of one.
Locals(statements) == LET made == Made(statements, "local")
                      IN <<"table", [i \in DOMAIN made |-> [key |-> made[i].name, live |-> TRUE,
                                                            value |-> made[i].table]]>>

\* parse_scope_field: any scope that lists no processes is everywhere.
LuaScope(b, locals) ==
  LET field == TreeField(b, "scope")
      scope == IF field # NONE /\ field[1] = "word" THEN TreeTable(locals, field[2]) ELSE field
      named == IF scope = NONE THEN NONE ELSE TreeTable(scope, "processes")
  IN IF scope = NONE \/ named = NONE \/ TreeSays(scope, "global") THEN Reads!Everywhere
     ELSE IF TreeStrings(named) = <<>> THEN Reads!Everywhere ELSE Range(TreeStrings(named))

\* parse_registration_table, which knows no loops.
LuaRegistration(kind, b, locals) ==
  LET scope == LuaScope(b, locals)
      needs == controller_required_capabilities(kind, Says!Mode(b), scope)
  IN [kind |-> kind, trigger |-> Trigger(kind, TreeString(b, "trigger")),
      callback |-> Reads!Or(TreeString(b, "callback"), TreeString(b, "handler")),
      mode |-> Says!Mode(b), scope |-> scope,
      capabilities |-> Says!CapabilitiesOr(b, needs \cup (IF kind = "timer" THEN {"timer"} ELSE {})),
      held |-> IF TreeTable(b, "requires_held") = NONE THEN <<>>
               ELSE TreeStrings(TreeTable(b, "requires_held"))]

\* What running the script registers and defines; NONE when that is refused.
ControllerWith(made, registered, definitions) ==
  IF /\ RegistrationSetOk(registered)
     /\ \A i \in DOMAIN made : /\ Says!ModeOk(made[i].table) /\ Says!CapabilitiesOk(made[i].table)
                               /\ registered[i].trigger \notin {NONE, ""}
     /\ \A i \in DOMAIN made : registered[i].callback \in Defined(definitions)
  THEN [registrations |-> registered,
        callbacks |-> [name \in Defined(definitions) |-> definitions[Definition(definitions, name)].body],
        declared |-> UNION {registered[i].capabilities : i \in DOMAIN registered}]
  ELSE NONE

Registered(made, locals) == [i \in DOMAIN made |-> LuaRegistration(made[i].op, made[i].table, locals)]
Registrations(statements) == SelectSeq(statements, LAMBDA s : s.op \in Range(Kinds))

LuaController(script) ==
  LET statements == Executed(script)
  IN ControllerWith(Registrations(statements),
                    Registered(Registrations(statements), Locals(statements)),
                    Made(statements, "callback"))

\* The calls that a body makes.
Written(body) == FlattenSeq([i \in DOMAIN body |->
                   IF body[i].form = "--" THEN <<>>
                   ELSE [n \in 1..body[i].times |-> <<"aura." \o body[i].api, body[i].arg[2]>>]])
============================================================================
