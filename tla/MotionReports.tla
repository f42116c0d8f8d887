---------------------------- MODULE MotionReports ----------------------------
(* What one call of the motion matcher may report of its loops, with tokens, *)
(* guards and timing hidden: the vocabulary that MotionRuntime implements    *)
(* (through MotionLoops) and that LiveLoop acts on.                          *)
EXTENDS Integers

CONSTANTS
  Motion,     \* the motions of the script
  Looping     \* those that have a loop

Report(triggered, starts_loop, ended) ==
  [triggered |-> triggered, starts_loop |-> starts_loop, ended |-> ended]

Nothing == Report({}, FALSE, {})

\* A press may trigger one motion.  A motion whose loop already runs starts it
\* again, because what keeps the loop running is still held.
MayTrigger(loops, m, starts_loop) ==
  /\ starts_loop => m \in Looping
  /\ m \in loops => starts_loop

PressReports(loops) ==
  {Nothing} \cup {r \in {Report({m}, b, {}) : m \in Motion, b \in BOOLEAN} :
                    \A m \in r.triggered : MayTrigger(loops, m, r.starts_loop)}

\* A release may end any of the running loops, and says which.
ReleaseReports(loops) == {Report({}, FALSE, ended) : ended \in SUBSET loops}

\* cancel_active_loops ends them all, and says which.
CancelReport(loops) == Report({}, FALSE, loops)

\* The loops that run after a call that reported r.
LoopsAfter(loops, r) ==
  (IF r.starts_loop THEN loops \cup r.triggered ELSE loops) \ r.ended
=============================================================================
