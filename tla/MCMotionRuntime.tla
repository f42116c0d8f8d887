--------------------------- MODULE MCMotionRuntime ---------------------------
(* A small script for MotionRuntime: a guarded double click with a loop, a   *)
(* chord that shares its first token, a longer motion that the double click  *)
(* begins, and a guarded one-token wheel motion whose loop its own guard     *)
(* keeps running.                                                            *)
EXTENDS MotionRuntime, TLC

CONSTANTS leader, click, wheel, double, chord, triple, spin

MCTrigger ==
  (double :> <<click, click>>) @@ (chord :> <<click, leader, click>>) @@
             (triple :> <<click, click, wheel>>) @@ (spin :> <<wheel>>)
MCRequiresHeld == (double :> {leader}) @@ (chord :> {}) @@ (triple :> {}) @@ (spin :> {leader})
MCWithinMs == (double :> 2) @@ (chord :> 1) @@ (triple :> 2) @@ (spin :> 1)
MCWhileHeld == (double :> {click}) @@ (spin :> {leader})
=============================================================================
