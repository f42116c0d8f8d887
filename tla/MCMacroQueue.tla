---------------------------- MODULE MCMacroQueue -----------------------------
(* A macro with a delay in the middle, one with a delay first; gaps of 0, 1. *)
EXTENDS MacroQueue

CONSTANTS a, b

MCMacro == {<<Generated, 2, Generated>>, <<1, Generated, Generated, Generated>>}
MCGap == {0, 1}
=============================================================================
