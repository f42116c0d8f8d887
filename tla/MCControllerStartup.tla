------------------------- MODULE MCControllerStartup -------------------------
(* Scripts as examples/poe2.lua and examples/poe2_minion.lua write them, with *)
(* one thing changed at a time.  A script is named after what was changed.     *)
EXTENDS ControllerStartup

F(key, value) == [key |-> key, value |-> value, live |-> TRUE]
Off(field)    == [field EXCEPT !.live = FALSE]
T(fields)     == <<"table", fields>>
L(strings)    == <<"list", [i \in DOMAIN strings |-> S(strings[i])]>>
Cell(fields)  == <<"list", fields>>

Statement(op, name, table, body) ==
  [op |-> op, name |-> name, table |-> table, body |-> body, live |-> TRUE, indent |-> FALSE]
Give(op, fields)     == Statement(op, "", T(fields), <<>>)
Callback(name, body) == Statement("callback", name, T(<<>>), body)
Local(name, table)   == Statement("local", name, table, <<>>)
Of(op, name)         == Statement(op, name, T(<<>>), <<>>)

Line(api, arg)  == [form |-> "", api |-> api, arg |-> arg, times |-> 1]
Within(form, times, line) == [line EXCEPT !.form = form, !.times = times]
Key(key)   == Line("input.key", S(key))
Down(key)  == Line("input.key_down", S(key))
Up(key)    == Line("input.key_up", S(key))
Click      == Line("input.mouse_click", S("left"))
Sleep      == Line("sleep", N(100))

--------------------------------------------------------------------------
(* The parts.                                                                *)

Poe == T(<<F("processes", L(<<"steam", "exile">>))>>)

Configure(devices) == Give("configure",
  <<F("input_provider", T(<<F("backend", S("evdev")), F("mode", S("grab")), F("output", S("uinput"))>>
                            \o devices)),
    F("leader", S("F9"))>>)
Interactive == Configure(<<F("devices", S("interactive"))>>)

Home == Give("press", <<F("trigger", S("F5")), F("mode", S("passthrough")), F("callback", S("home"))>>)
Panel == Give("hotkey", <<F("requires_held", L(<<"Leader">>)), F("trigger", S("Left")),
                          F("callback", S("panel"))>>)
Dash(before) == Give("motion",
  <<F("requires_held", L(<<"Leader">>)), F("trigger", S("LClick LClick")), F("mode", S("passthrough")),
    F("callback", S("down")),
    F("loop", T(<<F("while_held", L(<<"LClick">>)), F("before", S(before)),
                  F("repeat", T(<<F("every_ms", N(40)), F("callback", S("click"))>>)),
                  F("after", S("up"))>>))>>)

Bodies == << Callback("home", <<Key("Enter"), Line("input.text", S("hideout")), Key("Enter")>>),
             Callback("panel", <<Within("--", 1, Key("Down")), Key("Left")>>),
             Callback("down", <<Down("Ctrl")>>), Callback("click", <<Down("Alt"), Click, Up("Alt")>>),
             Callback("up", <<Up("Ctrl")>>) >>

Rule(angle, limit, amount, fill) ==
  T(<<F("sample", T(<<F("kind", S("clock_probe")), F("angle_deg", N(angle)), F("radius_px", N(15)),
                      F("w", N(3)), F("h", N(3))>>)),
      F(limit, N(amount)), F("progress_fill", S(fill))>>)
Cooldown(order, scope, last) == Give("state.track",
  <<F("id", S("cooldown")), F("scope", scope), F("capabilities", L(<<"screen_read">>)), F("poll_ms", N(50)),
    F("detector", T(<<
      F("kind", S("radial_cooldown")),
      F("roi", T(<<F("x", N(1923)), F("y", N(1370)), F("w", N(36)), F("h", N(36))>>)),
      F("mask", T(<<F("shape", S("circle")), F("inset", N(10))>>)),
      F("prediction", T(<<F("duration_ms", N(7000)), F("stable_after_ms", N(500))>>)),
      F("phases", T(<<F("order", L(order)), F("fallback", S("unknown")),
                      F("ready", Rule(352, "min_luminance_percent", 44, "full")),
                      F("active", Rule(8, "max_saturation", last, "empty"))>>))>>))>>)
BarAt(id, when) == Give("state.track",
  <<F("id", S(id)), F("poll_ms", N(100)), F("scope", W("poe")),
    F("detector", T(<<F("kind", S("horizontal_progress_bar")),
                      F("roi", T(<<F("x", N(1)), F("y", N(1)), F("w", N(40)), F("h", N(4))>>)),
                      F("fill", T(<<F("direction", S("left_to_right"))>>))>>))>>
  \o when)
When(tracker) == <<F("when", T(<<F("tracker", S(tracker)), F("phase", S("ready"))>>))>>

Visual(tracker, field, colour) ==
  T(<<F("id", S("v_" \o tracker)), F("kind", S("progress_bar")),
      F("bind", T(<<F("tracker", S(tracker)), F("field", S(field))>>)),
      F("rect", T(<<F("x", N(10)), F("y", N(20)), F("w", N(80)), F("h", N(8))>>)),
      F("fill", S(colour)), F("background", S("#202020")), F("opacity", N(900)),
      F("label", T(<<F("visible", W("true"))>>)),
      F("ready", T(<<F("fill", S("#00ff00")), F("opacity", N(500))>>))>>)
Shown(visuals) == Give("overlay.mount",
  <<F("id", S("hud")), F("provider", S("native")), F("surface", S("overlay")), F("scope", Poe),
    F("hotkey", T(<<F("trigger", S("F8")), F("mode", S("consume"))>>)), F("visuals", Cell(visuals))>>)

--------------------------------------------------------------------------
(* The scripts.                                                              *)

Script(entry, statements) == [entry |-> entry, main |-> statements, files |-> <<>>]
Main(statements) == Script("named", statements)

Inputs == <<Interactive, Local("poe", Poe), Home, Panel, Dash("down")>>
Screen == <<Cooldown(<<"ready", "active">>, W("poe"), 20), BarAt("charges", When("cooldown")),
            Shown(<<Visual("cooldown", "remaining_ms", "#ff0000"),
                    Visual("charges", "progress_percent", "#0000ff")>>)>>
Full  == Main(Inputs \o Screen \o Bodies)

\* One more registration, with its callback.
Plus(op, fields, body) ==
  Main(Inputs \o <<Give(op, fields \o <<F("callback", S("extra"))>>)>> \o Bodies \o <<Callback("extra", body)>>)
Capable == F("capabilities", L(<<"composite_pointer_observation", "synthesized_input", "timer",
                                 "active_window_metadata">>))
WithBody(body)  == Plus("press", <<F("trigger", S("F6")), F("mode", S("passthrough")), Capable>>, body)
WithScope(scope) == Plus("press", <<F("trigger", S("F6")), F("scope", scope)>>, <<Key("a")>>)
WithTracker(tracker) == Main(<<Local("poe", Poe), tracker>> \o Inputs \o Bodies)
WithVisual(visual) ==
  Main(Inputs \o <<Cooldown(<<"ready", "active">>, Poe, 20), Shown(<<visual>>)>> \o Bodies)
WithLoop(loop) == Main(<<Interactive, loop>> \o Bodies)
Module(imports) == [entry |-> "anonymous", files |-> [keys |-> <<Panel>> \o Bodies],
                    main |-> imports \o <<Interactive, Home, Dash("down")>>]

Good ==
  [full      |-> Full,
   anonymous |-> Script("anonymous", Full.main),
   module    |-> Module(<<Of("import", "keys"), Of("run", "keys")>>),
   twice     |-> Module(<<Of("import", "keys"), Of("import", "keys"), Of("run", "keys")>>),
   scoped    |-> WithScope(Poe),
   global    |-> WithScope(T(<<F("global", W("true"))>>)),
   shutdown  |-> Plus("shutdown", <<>>, <<Up("Ctrl")>>),
   timer     |-> Plus("timer", <<F("trigger", S("tick"))>>, <<Sleep, Key("a")>>),
   handler   |-> Main(<<Give("hotkey", <<F("trigger", S("F7")), F("handler", S("panel"))>>)>> \o Bodies),
   redefined |-> Main(<<Panel>> \o Bodies \o <<Callback("panel", <<Key("Right")>>)>>),
   sleeps    |-> WithBody(<<Key("a"), Sleep, Key("b")>>),
   asks      |-> WithBody(<<Within("local ", 1, Line("window.active", W("options"))),
                            Within("if ", 0, Key("a")), Sleep, Key("b"), Line("log", S("done"))>>),
   repeats   |-> WithBody(<<Sleep, Within("for ", 2, Click)>>),
   variable  |-> WithBody(<<Sleep, Line("input.key", W("chosen"))>>),
   titled    |-> WithBody(<<Line("window.active", W("options")), Key("c")>>),
   undeclared |-> Plus("press", <<F("trigger", S("F6"))>>, <<Sleep, Key("a")>>),
   listed    |-> Main(<<Configure(<<F("devices", L(<<"event3", "event4">>))>>), Home>> \o Bodies),
   observed  |-> Main(<<Give("configure", <<F("input_provider", T(<<F("backend", S("evdev")),
                                                                   F("devices", S("all"))>>))>>), Home>> \o Bodies),
   bar       |-> WithTracker(BarAt("charges", <<>>)),
   percent   |-> WithVisual(Visual("cooldown", "remaining_ms", "#A0b1C2"))]

\* Scripts that the loader refuses, for one reason each.
Bad ==
  [all       |-> Main(<<Configure(<<F("devices", S("all"))>>), Home>> \o Bodies),
   unknown   |-> Main(Inputs),
   noentry   |-> Script("none", Full.main),
   outside   |-> Module(<<Of("import", "../keys")>>),
   configured |-> Main(<<Interactive, Interactive, Home>> \o Bodies),
   same      |-> Main(<<Home, Home>> \o Bodies),
   prefix    |-> Main(<<Dash("down"), Give("motion", <<F("trigger", S("LClick LClick LClick")),
                                                      F("callback", S("up"))>>)>> \o Bodies),
   nobefore  |-> WithLoop(Dash("nothing")),
   logs      |-> WithBody(<<Key("a"), Line("log", S("pressed"))>>),
   twoscopes |-> Main(<<Give("press", <<F("trigger", S("F6")), F("callback", S("up")), F("scope", T(<<>>))>>)>>
                        \o Bodies),
   later     |-> Main(<<Local("poe", Poe), BarAt("charges", When("cooldown"))>> \o Bodies),
   unordered |-> WithTracker(Cooldown(<<"ready", "recovering">>, Poe, 20)),
   vivid     |-> WithTracker(Cooldown(<<"ready", "active">>, Poe, 256)),
   elsewhere |-> WithTracker(Cooldown(<<"ready", "active">>, W("maps"), 20)),
   colour    |-> WithVisual(Visual("cooldown", "remaining_ms", "red")),
   unbound   |-> WithVisual(Visual("cooldown", "progress_percent", "#ff0000"))]

\* Scripts that are read otherwise than Lua reads them.
Odd ==
  [dead      |-> [Full EXCEPT !.main[4].live = FALSE, !.main[10].live = FALSE],
   commented |-> Plus("press", <<F("trigger", S("F6")), Off(F("scope", Poe))>>, <<Key("a")>>),
   named     |-> WithScope(W("poe")),
   silent    |-> WithBody(<<Within("for ", 2, Click)>>),
   indented  |-> [Full EXCEPT !.main[10].indent = TRUE]]

MCScripts == Good @@ Bad @@ Odd
MCEditions == {"full", "sleeps", "redefined", "silent", "colour"}

MCGranted == Says!Capabilities \ {"window_activation"}
=============================================================================
