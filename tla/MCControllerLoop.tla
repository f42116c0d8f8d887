--------------------------- MODULE MCControllerLoop --------------------------
(* A small controller: a hotkey, a press, and a motion whose loop policy has  *)
(* all three callbacks.                                                       *)
EXTENDS ControllerLoop, TLC

CONSTANTS key, button, wheel

WheelCallbacks == wheel :> {"before", "after"}
WheelOrder == <<wheel>>
WheelInterval == wheel :> 2
=============================================================================
