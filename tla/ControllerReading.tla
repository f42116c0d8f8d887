-------------------------- MODULE ControllerReading --------------------------
(* What the loader makes of the tables of a controller script: trackers,      *)
(* overlays and options (lua/src/sandbox.rs).  How a field of a table is found *)
(* is a parameter: LuaText's searches read the text as the loader does, and    *)
(* the fields of the tables themselves are what the script says.              *)
(*                                                                           *)
(* Each table has an operator for its value and one, -Ok, for whether it is    *)
(* accepted; the value is meant only where it is.  Opacities, scales and fill  *)
(* limits are numbers in the units of Detectors.                              *)
EXTENDS Detectors, Sequences, FiniteSets

CONSTANTS
  StringIn(_, _), NumberIn(_, _), TableIn(_, _),  \* field_string, field_u64, table_body_after
  TableAt(_, _), ValueAt(_, _), FieldAt(_, _),    \* the same at a field of the table itself
  Strings(_), Tables(_), Says(_, _)               \* the strings, the tables, whether a word is there

Or(value, default) == IF value = NONE THEN default ELSE value

Natural(b, field)   == NumberIn(b, field) = NONE \/ NumberIn(b, field) >= 0
Needs(b, fields)    == \A f \in fields : NumberIn(b, f) # NONE /\ NumberIn(b, f) >= 0
Distinct(sequence)  == \A i, j \in DOMAIN sequence : sequence[i] = sequence[j] => i = j
Number(b, field)    == IF ValueAt(b, field) = NONE THEN NONE ELSE ValueAt(b, field)[2]
Word(b, field)      == IF ValueAt(b, field) # NONE /\ ValueAt(b, field)[1] = "word"
                       THEN ValueAt(b, field)[2] ELSE NONE

--------------------------------------------------------------------------
(* Common fields.                                                            *)

Everywhere == NONE    \* ExplicitGlobal; any other scope is the set of its processes

Capabilities == {"global_shortcut", "composite_pointer_observation", "composite_pointer_consumption",
                 "active_process_metadata", "active_window_metadata", "window_activation",
                 "synthesized_input", "timer", "screen_read"}

Mode(b)   == Or(StringIn(b, "mode"), "consume")
ModeOk(b) == Mode(b) \in {"consume", "passthrough"}

CapabilitiesOr(b, default) ==
  IF TableAt(b, "capabilities") = NONE THEN default ELSE Range(Strings(TableAt(b, "capabilities")))
CapabilitiesOk(b) == CapabilitiesOr(b, {}) \subseteq Capabilities

ProcessScope(body) == IF Says(body, "global") THEN Everywhere ELSE Range(Strings(body))
ScopeNeeds(scope)  == IF scope = Everywhere THEN {} ELSE {"active_process_metadata"}

\* A tracker's or an overlay's scope: a table, or a variable of the script.
UsesTable(b, field) == ValueAt(b, field) = <<"word", "{">>
Variable(b) == IF UsesTable(b, "scope") THEN NONE ELSE Word(b, "scope")
Scope(b, source) ==
  CASE UsesTable(b, "scope") -> ProcessScope(TableIn(b, "scope"))
    [] Variable(b) # NONE    -> ProcessScope(TableAt(source, Variable(b)))
    [] OTHER                 -> Everywhere
ScopeOk(b, source) == /\ Variable(b) # NONE => TableAt(source, Variable(b)) # NONE
                      /\ Scope(b, source) # {}

--------------------------------------------------------------------------
(* Trackers.                                                                 *)

Phase  == [ready |-> "Ready", activated |-> "Activated", active |-> "Active",
           recovering |-> "Recovering", unknown |-> "Unknown"]
Metric == [average |-> "Average", bright_ratio |-> "BrightRatio"]
Fill   == [empty |-> "Empty", fraction |-> "Fraction", full |-> "Full"]

Roi(b)   == [x |-> Or(NumberIn(b, "x"), 0), y |-> Or(NumberIn(b, "y"), 0),
             w |-> NumberIn(b, "w"), h |-> NumberIn(b, "h")]
RoiOk(b) == Needs(b, {"w", "h"}) /\ Natural(b, "x") /\ Natural(b, "y")

Region(b) ==
  CASE StringIn(b, "kind") = "clock_probe" ->
         [kind |-> "ClockProbe", angle |-> Number(b, "angle_deg"), radius |-> NumberIn(b, "radius_px"),
          w |-> NumberIn(b, "w"), h |-> NumberIn(b, "h")]
    [] StringIn(b, "kind") = "annulus_arc" ->
         [kind |-> "AnnulusArc", inner |-> NumberIn(b, "inner_radius_px"),
          outer |-> NumberIn(b, "outer_radius_px"),
          start |-> Number(b, "start_deg"), end |-> Number(b, "end_deg")]
    [] OTHER -> [kind |-> "AggregateMask"]
RegionOk(b) ==
  CASE StringIn(b, "kind") = "clock_probe" ->
         Number(b, "angle_deg") # NONE /\ Needs(b, {"radius_px", "w", "h"})
    [] StringIn(b, "kind") = "annulus_arc" ->
         /\ Needs(b, {"inner_radius_px", "outer_radius_px"})
         /\ Number(b, "start_deg") # NONE /\ Number(b, "end_deg") # NONE
    [] OTHER -> StringIn(b, "kind") = "aggregate_mask"

Rule(phase, b) ==
  [phase |-> Phase[phase], region |-> Region(TableAt(b, "sample")),
   minLuminance |-> NumberIn(b, "min_luminance_percent"),
   maxLuminance |-> NumberIn(b, "max_luminance_percent"),
   minSaturation |-> NumberIn(b, "min_saturation"), maxSaturation |-> NumberIn(b, "max_saturation"),
   metric |-> Metric[Or(StringIn(b, "metric"), "average")], scale |-> Number(b, "metric_scale"),
   fill |-> Fill[StringIn(b, "progress_fill")], maxFill |-> Number(b, "max_fill_until_ready")]
RuleOk(phase, b) ==
  /\ phase \in DOMAIN Phase /\ b # NONE
  /\ \A style \in {"fill", "background", "opacity"} : ~FieldAt(b, style)
  /\ TableAt(b, "sample") # NONE /\ RegionOk(TableAt(b, "sample"))
  /\ \A limit \in {<<"min_luminance_percent", 100>>, <<"max_luminance_percent", 100>>,
                   <<"min_saturation", 255>>, <<"max_saturation", 255>>} :
       NumberIn(b, limit[1]) = NONE \/ NumberIn(b, limit[1]) \in 0..limit[2]
  /\ Or(StringIn(b, "metric"), "average") \in DOMAIN Metric
  /\ StringIn(b, "progress_fill") \in DOMAIN Fill

Mask(b) == IF TableAt(b, "mask") = NONE THEN NONE ELSE Or(NumberIn(TableAt(b, "mask"), "inset"), 0)
MaskOk(b) == LET mask == TableAt(b, "mask")
             IN mask # NONE => /\ Or(StringIn(mask, "shape"), "circle") = "circle"
                               /\ Natural(mask, "inset")

Prediction(b) ==
  LET p == TableAt(b, "prediction")
  IN IF p = NONE THEN NONE
     ELSE [duration |-> NumberIn(p, "duration_ms"), stable |-> Or(NumberIn(p, "stable_after_ms"), 0)]
PredictionOk(b) == LET p == TableAt(b, "prediction")
                   IN p # NONE => Needs(p, {"duration_ms"}) /\ Natural(p, "stable_after_ms")

Order(phases) == Strings(TableAt(phases, "order"))
PhasesOk(phases) == /\ phases # NONE /\ TableAt(phases, "order") # NONE
                    /\ Or(StringIn(phases, "fallback"), "unknown") = "unknown"
                    /\ \A i \in DOMAIN Order(phases) :
                         RuleOk(Order(phases)[i], TableAt(phases, Order(phases)[i]))

Detector(b) ==
  IF StringIn(b, "kind") = "radial_cooldown"
  THEN LET phases == TableAt(b, "phases")
       IN [kind |-> "RadialCooldown", roi |-> Roi(TableAt(b, "roi")), mask |-> Mask(b),
           prediction |-> Prediction(b),
           order |-> [i \in DOMAIN Order(phases) |-> Rule(Order(phases)[i], TableAt(phases, Order(phases)[i]))]]
  ELSE [kind |-> "HorizontalProgressBar", roi |-> Roi(TableAt(b, "roi"))]
DetectorOk(b) ==
  /\ TableAt(b, "roi") # NONE /\ RoiOk(TableAt(b, "roi"))
  /\ CASE StringIn(b, "kind") = "radial_cooldown" ->
            MaskOk(b) /\ PredictionOk(b) /\ PhasesOk(TableAt(b, "phases"))
       [] StringIn(b, "kind") = "horizontal_progress_bar" ->
            /\ TableAt(b, "fill") # NONE
            /\ Or(StringIn(TableAt(b, "fill"), "direction"), "left_to_right") = "left_to_right"
       [] OTHER -> FALSE
  /\ ValidDetector(Detector(b))

Condition(b) == LET when == TableAt(b, "when")
                IN IF when = NONE THEN NONE
                   ELSE [tracker |-> StringIn(when, "tracker"), phase |-> Phase[StringIn(when, "phase")]]
ConditionOk(b) == LET when == TableAt(b, "when")
                  IN when # NONE => /\ StringIn(when, "tracker") # NONE
                                    /\ StringIn(when, "phase") \in DOMAIN Phase

Tracker(b, source) ==
  [id |-> StringIn(b, "id"), scope |-> Scope(b, source),
   capabilities |-> CapabilitiesOr(b, {"screen_read"}), poll |-> NumberIn(b, "poll_ms"),
   detector |-> Detector(TableAt(b, "detector")), condition |-> Condition(b)]
TrackerOk(b, source) ==
  /\ \A field \in {"emits", "fixture", "source", "callback", "macro"} : ~FieldAt(b, field)
  /\ StringIn(b, "id") # NONE /\ ScopeOk(b, source)
  /\ CapabilitiesOk(b) /\ "screen_read" \in CapabilitiesOr(b, {"screen_read"})
  /\ Needs(b, {"poll_ms"}) /\ NumberIn(b, "poll_ms") > 0
  /\ TableAt(b, "detector") # NONE /\ DetectorOk(TableAt(b, "detector")) /\ ConditionOk(b)

Trackers(tables, source) == [i \in DOMAIN tables |-> Tracker(tables[i], source)]
TrackersOk(tables, source) ==
  /\ \A i \in DOMAIN tables : TrackerOk(tables[i], source)
  /\ LET all == Trackers(tables, source)
     IN /\ Distinct([i \in DOMAIN all |-> all[i].id])
        /\ \A i \in DOMAIN all : all[i].condition # NONE =>
             \E j \in 1..(i - 1) : all[j].id = all[i].condition.tracker

TrackerNeeds(all) == UNION {all[i].capabilities \cup ScopeNeeds(all[i].scope) : i \in DOMAIN all}

--------------------------------------------------------------------------
(* Overlays.                                                                 *)

HexDigits == {"0", "1", "2", "3", "4", "5", "6", "7", "8", "9", "a", "b", "c", "d", "e", "f",
              "A", "B", "C", "D", "E", "F"}
ColourOk(c)  == Len(c) = 7 /\ SubSeq(c, 1, 1) = "#" /\ \A i \in 2..7 : SubSeq(c, i, i) \in HexDigits
OpacityOk(o) == o \in 0..1000

Visible(b, field) == CASE Word(b, field) = "true"  -> TRUE
                       [] Word(b, field) = "false" -> FALSE
                       [] OTHER                    -> NONE

Style(b) == IF b = NONE THEN NONE
            ELSE [fill |-> StringIn(b, "fill"), background |-> StringIn(b, "background"),
                  opacity |-> Number(b, "opacity"),
                  label |-> Or(Visible(b, "label_visible"), Visible(b, "visible"))]
StyleOk(style) == style # NONE => /\ style.fill # NONE => ColourOk(style.fill)
                                  /\ style.background # NONE => ColourOk(style.background)
                                  /\ style.opacity # NONE => OpacityOk(style.opacity)

Styles == {"ready", "activated", "active", "inactive"}

Rect(b)   == [x |-> Or(Number(b, "x"), 0), y |-> Or(Number(b, "y"), 0),
              w |-> Number(b, "w"), h |-> Number(b, "h")]
RectOk(b) == /\ Number(b, "w") # NONE /\ Number(b, "h") # NONE
             /\ Rect(b).x >= 0 /\ Rect(b).y >= 0 /\ Rect(b).w > 0 /\ Rect(b).h > 0

Visual(b) ==
  [id |-> StringIn(b, "id"), rect |-> Rect(TableAt(b, "rect")), opacity |-> Or(Number(b, "opacity"), 1000),
   tracker |-> StringIn(TableAt(b, "bind"), "tracker"), field |-> StringIn(TableAt(b, "bind"), "field"),
   fill |-> StringIn(b, "fill"), background |-> StringIn(b, "background"),
   label |-> IF TableAt(b, "label") = NONE THEN FALSE ELSE Or(Visible(TableAt(b, "label"), "visible"), FALSE),
   styles |-> [phase \in Styles |-> Style(TableAt(b, phase))]]
VisualOk(b) ==
  /\ \A field \in {"callback", "macro", "screen", "input", "compositor", "network"} : ~FieldAt(b, field)
  /\ StringIn(b, "kind") = "progress_bar"
  /\ TableAt(b, "bind") # NONE /\ TableAt(b, "rect") # NONE /\ RectOk(TableAt(b, "rect"))
  /\ StringIn(TableAt(b, "bind"), "field") \in {"progress_percent", "remaining_ms"}
  /\ NONE \notin {Visual(b).id, Visual(b).tracker, Visual(b).fill, Visual(b).background}
  /\ ColourOk(Visual(b).fill) /\ ColourOk(Visual(b).background) /\ OpacityOk(Visual(b).opacity)
  /\ \A phase \in Styles : StyleOk(Visual(b).styles[phase])

Toggle(b) == LET hotkey == TableAt(b, "hotkey")
             IN IF hotkey = NONE THEN NONE
                ELSE [trigger |-> StringIn(hotkey, "trigger"), mode |-> Mode(hotkey)]
ToggleOk(b) == LET hotkey == TableAt(b, "hotkey")
               IN hotkey # NONE => StringIn(hotkey, "trigger") # NONE /\ ModeOk(hotkey)

Overlay(b, source) ==
  LET bodies == Tables(TableAt(b, "visuals"))
  IN [id |-> StringIn(b, "id"), provider |-> StringIn(b, "provider"), scope |-> Scope(b, source),
      toggle |-> Toggle(b), visuals |-> [i \in DOMAIN bodies |-> Visual(bodies[i])]]
OverlayOk(b, source) ==
  /\ \A field \in {"callback", "macro", "screen", "screen_buffer", "input", "device", "compositor",
                    "portal", "permission", "filesystem", "network"} : ~FieldAt(b, field)
  /\ StringIn(b, "id") # NONE
  /\ StringIn(b, "provider") \in {"native", "webview", "tauri_window", "tool_window"}
  /\ Or(StringIn(b, "surface"), "overlay") = "overlay"
  /\ ToggleOk(b) /\ ScopeOk(b, source) /\ TableAt(b, "visuals") # NONE
  /\ \A visual \in Range(Tables(TableAt(b, "visuals"))) : VisualOk(visual)
  /\ Overlay(b, source).visuals # <<>>
  /\ Distinct([i \in DOMAIN Overlay(b, source).visuals |-> Overlay(b, source).visuals[i].id])

\* What a visual may show: a bar its percentage, a cooldown its remaining time.
BindingOk(visual, trackers) ==
  \E i \in DOMAIN trackers :
    /\ trackers[i].id = visual.tracker
    /\ <<trackers[i].detector.kind, visual.field>> \in
         {<<"HorizontalProgressBar", "progress_percent">>, <<"RadialCooldown", "remaining_ms">>}
    /\ \/ trackers[i].detector.kind = "RadialCooldown"
       \/ visual.styles["activated"] = NONE /\ visual.styles["active"] = NONE

Overlays(tables, source) == [i \in DOMAIN tables |-> Overlay(tables[i], source)]
OverlaysOk(tables, trackers, source) ==
  /\ \A i \in DOMAIN tables : OverlayOk(tables[i], source)
  /\ LET all == Overlays(tables, source)
     IN /\ Distinct([i \in DOMAIN all |-> all[i].id])
        /\ \A overlay \in Range(all) : \A visual \in Range(overlay.visuals) : BindingOk(visual, trackers)

OverlayNeeds(all) == UNION {ScopeNeeds(all[i].scope) : i \in DOMAIN all}

--------------------------------------------------------------------------
(* Options.                                                                  *)

ProviderMode == [observe |-> "Observe", grab |-> "Grab", consume |-> "Grab"]

InputProvider(options) ==
  LET b == TableIn(options, "input_provider")
  IN IF b = NONE THEN NONE
     ELSE [mode |-> ProviderMode[Or(StringIn(b, "mode"), "observe")],
           output |-> Or(StringIn(b, "output"), "portal"),
           devices |-> IF StringIn(b, "devices") \in {"interactive", "all"} THEN StringIn(b, "devices")
                       ELSE Strings(TableIn(b, "devices"))]
InputProviderOk(options) ==
  LET b == TableIn(options, "input_provider")
  IN b # NONE =>
       /\ StringIn(b, "backend") = "evdev"
       /\ Or(StringIn(b, "mode"), "observe") \in DOMAIN ProviderMode
       /\ Or(StringIn(b, "output"), "portal") \in {"portal", "uinput"}
       /\ CASE StringIn(b, "devices") = "interactive" -> TRUE
            [] StringIn(b, "devices") = "all" -> \/ InputProvider(options).mode = "Observe"
                                                \/ StringIn(b, "acknowledge_risk") = "GRAB_ALL_INPUTS"
            [] OTHER -> TableIn(b, "devices") # NONE /\ Strings(TableIn(b, "devices")) # <<>>

Leader(options) == StringIn(options, "leader")
============================================================================
