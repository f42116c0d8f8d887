----------------------------- MODULE MCLiveLoop ------------------------------
(* A small script for the live loop: a hotkey, a press, a motion with a       *)
(* repeating loop and a motion with a one-shot loop.                         *)
EXTENDS LiveLoop, TLC

CONSTANTS key, button, wheel, click

FullMacros ==
  (<<key, "binding">> :> <<Generated>>)
    @@ (<<button, "press">> :> <<1, Generated>>)
    @@ (<<wheel, "loop_before">> :> <<Generated>>)
    @@ (<<wheel, "repeat">> :> <<Generated, Generated>>)
    @@ (<<wheel, "loop_after">> :> <<Generated>>)
    @@ (<<click, "motion">> :> <<Generated>>)
    @@ (<<click, "loop_once">> :> <<Generated, 1>>)

WheelOrder == <<wheel>>
WheelInterval == wheel :> 2
=============================================================================
