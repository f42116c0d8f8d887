----------------------------- MODULE MotionLoops -----------------------------
(***************************************************************************)
(* What the live runner may rely on in the motion matcher: a call reports  *)
(* every loop it starts or ends, and no other.  MotionRuntime implements   *)
(* this module.                                                            *)
(***************************************************************************)
EXTENDS MotionReports

VARIABLES
  active_loops,  \* the motions whose loop runs
  reports        \* what the last call reported

vars == <<active_loops, reports>>

Returns(r) == reports' = r /\ active_loops' = LoopsAfter(active_loops, r)

Init == active_loops = {} /\ reports = Nothing

Next ==
  \/ \E r \in PressReports(active_loops) : Returns(r)
  \/ \E r \in ReleaseReports(active_loops) : Returns(r)
  \/ Returns(CancelReport(active_loops))

Spec == Init /\ [][Next]_vars
=============================================================================
