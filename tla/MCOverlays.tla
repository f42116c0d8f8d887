------------------------------ MODULE MCOverlays ------------------------------
(* One cooldown icon of 3x3 pixels with a progress bar of 3 pixels under it,    *)
(* painted in four ways and four pixel formats; an overlay over the game with   *)
(* a visual for each, and one over everything with the bar alone.               *)
EXTENDS Overlays

--------------------------------------------------------------------------
(* Painting a picture: which cells are lit, and the bytes of the frame.       *)

Gold == <<200, 150, 40>>
Dim  == <<60, 60, 40>>
Dark == <<10, 10, 10>>

Painting == [ready |-> [format |-> "BGRx", phase |-> "Ready",      fraction |-> 0,   bar |-> 3],
             runs  |-> [format |-> "RGB",  phase |-> "Active",     fraction |-> 100, bar |-> 1],
             back  |-> [format |-> "BGRA", phase |-> "Recovering", fraction |-> 25,  bar |-> 2],
             cut   |-> [format |-> "RGBA", phase |-> "Activated",  fraction |-> 100, bar |-> 0]]
MCPictures == DOMAIN Painting

Colour(p, x, y) ==
  LET phase == Painting[p].phase
  IN IF y = 3 THEN IF x < Painting[p].bar THEN Gold ELSE Dark
     ELSE CASE <<x, y>> = <<1, 0>> -> IF phase = "Ready" THEN Gold ELSE Dark
            [] <<x, y>> = <<2, 1>> -> CASE phase = "Active" -> Dim
                                        [] phase = "Recovering" -> Gold
                                        [] OTHER -> Dark
            [] <<x, y>> = <<1, 2>> -> IF phase = "Recovering" THEN Gold ELSE Dark
            [] OTHER -> Dark

\* Rows of three pixels and one byte of padding, after two bytes of offset.
Row(p, y) ==
  LET format  == Formats[ScreenPixelFormat[Painting[p].format]]
      Byte(i) == LET x == (i - 1) \div format.bytes
                     b == ((i - 1) % format.bytes) + 1
                     c == {k \in 1..3 : format.rgb[k] = b}
                 IN IF c = {} THEN 255 ELSE Colour(p, x, y)[CHOOSE k \in c : TRUE]
  IN [i \in 1..(3 * format.bytes + 1) |-> IF i = 3 * format.bytes + 1 THEN 77 ELSE Byte(i)]

MCFrame == [p \in MCPictures |->
  [kind |-> IF p = "cut" THEN "DmaBuf" ELSE "MemFd", readable |-> TRUE, mapped |-> TRUE,
   format |-> Painting[p].format, width |-> 3, height |-> 4, offset |-> 2,
   stride |-> 3 * Formats[ScreenPixelFormat[Painting[p].format]].bytes + 1,
   bytes |-> <<99, 99>> \o Row(p, 0) \o Row(p, 1) \o Row(p, 2) \o Row(p, 3)]]

--------------------------------------------------------------------------
(* The script.                                                               *)

Probe(angle) == [kind |-> "ClockProbe", angle |-> angle, radius |-> 1, w |-> 1, h |-> 1]
Rule(phase, region, fill) ==
  [phase |-> phase, region |-> region, fill |-> fill, metric |-> "Average", scale |-> NONE,
   minLuminance |-> NONE, maxLuminance |-> NONE, minSaturation |-> NONE, maxSaturation |-> NONE,
   maxFill |-> NONE]
Arc == [kind |-> "AnnulusArc", inner |-> 0, outer |-> 1, start |-> 20, end |-> 340]

Icon == [kind |-> "RadialCooldown", roi |-> [x |-> 0, y |-> 0, w |-> 3, h |-> 3], mask |-> 0,
         prediction |-> [duration |-> 4, stable |-> 0],
         order |-> << [Rule("Ready", Probe(352), "Full") EXCEPT !.minLuminance = 44, !.minSaturation = 85],
                      [Rule("Activated", Probe(82), "Empty") EXCEPT !.maxLuminance = 12, !.maxSaturation = 20],
                      [Rule("Active", Probe(82), "Empty") EXCEPT !.maxLuminance = 34, !.maxSaturation = 75],
                      [Rule("Recovering", Arc, "Fraction") EXCEPT
                         !.metric = "BrightRatio", !.scale = 1500, !.maxFill = 95,
                         !.minLuminance = 40, !.minSaturation = 80] >>]
Bar == [kind |-> "HorizontalProgressBar", roi |-> [x |-> 0, y |-> 3, w |-> 3, h |-> 1]]

MCTrackers == <<"cooldown", "stun">>
MCTracker == [cooldown |-> [poll |-> 2, scope |-> {"game"}, detector |-> Icon, condition |-> NONE],
              stun     |-> [poll |-> 4, scope |-> Global, detector |-> Bar,
                            condition |-> [tracker |-> "cooldown", phase |-> "Active"]]]

Style == [fill |-> "red", background |-> "black", opacity |-> 70]
MCOverlayIds == <<"hud", "desk">>
MCOverlay ==
  [hud  |-> [scope |-> {"game"}, toggle |-> TRUE,
             visuals |-> << [tracker |-> "cooldown", style |-> Style,
                             phases |-> [Inactive |-> [opacity |-> 30]]],
                            [tracker |-> "stun", style |-> Style, phases |-> Unstyled] >>],
   desk |-> [scope |-> Global, toggle |-> FALSE,
             visuals |-> << [tracker |-> "stun", style |-> Style, phases |-> Unstyled] >>]]

\* The game covers the screen; the browser covers a strip at its left edge.
MCWindows == {"game", "browser"}
MCSeat == [game    |-> [appId |-> "game", class |-> NONE, title |-> NONE, pid |-> 7,
                        rect |-> [x |-> 0, y |-> 0, w |-> 3, h |-> 4]],
           browser |-> [appId |-> NONE, class |-> "web", title |-> NONE, pid |-> 0,
                        rect |-> [x |-> 0, y |-> 0, w |-> 1, h |-> 4]]]

--------------------------------------------------------------------------

\* What a visual's state says of its source, when it says anything, is what was painted on the
\* frame that was looked at: through the format, the stride, the offset, the regions and the
\* rules, and whatever coordinate scale the runner had settled on by then.
BarsTellTheTruth ==
  \A o \in Shown : qml[o] # NoProcess => \A i \in DOMAIN qml[o].state :
    LET t        == Overlay[o].visuals[i].tracker
        visual   == qml[o].state[i]
        painting == Painting[looked[t]]
    IN visual.active =>
         IF t = "stun" THEN visual.fill = (painting.bar * 100) \div 3
         ELSE /\ visual.ready <=> painting.phase = "Ready"
              /\ painting.phase = "Ready" => visual.fill = 100
              /\ painting.phase = "Recovering" => visual.fill = 100 - painting.fraction
              /\ painting.phase = "Activated" => visual.fill = 0
==============================================================================
