---------------------------- MODULE MacroPlayback ----------------------------
(***************************************************************************)
(* What the macro queue promises to the rest of the runner, with polling,  *)
(* delays and run ids hidden: a trigger plays one macro at a time, sends   *)
(* the macro's generated actions one by one in order and each once, sends  *)
(* nothing after it is stopped, and is free again only when its macro is   *)
(* played out or stopped.                                                  *)
(***************************************************************************)
EXTENDS Integers

CONSTANT Label

VARIABLES
  busy,      \* the triggers that are playing
  left,      \* busy trigger -> positions still to be sent
  stopped,   \* the busy triggers that were cancelled
  played     \* the <<trigger, position>> pairs sent by the last step

vars == <<busy, left, stopped, played>>

First(s) == CHOOSE i \in s : \A j \in s : i <= j

Init ==
  /\ busy = {}
  /\ left = [l \in {} |-> {}]
  /\ stopped = {}
  /\ played = {}

Start(l) ==
  /\ l \notin busy
  /\ busy' = busy \cup {l}
  /\ \A i \in left'[l] : i \in Nat
  /\ left' = [x \in busy' |-> IF x = l THEN left'[l] ELSE left[x]]
  /\ played' = {}
  /\ UNCHANGED stopped

Stop(S) ==
  /\ S \subseteq busy
  /\ stopped' = stopped \cup S
  /\ played' = {}
  /\ UNCHANGED <<busy, left>>

\* The triggers of P send their next action; some that have nothing to send,
\* or were stopped, end.
Plays(P) ==
  /\ P \subseteq busy \ stopped
  /\ \A l \in P : left[l] # {}
  /\ played' = {<<l, First(left[l])>> : l \in P}

Pass(P) ==
  /\ Plays(P)
  /\ busy' \subseteq busy
  /\ \A l \in busy \ busy' : l \notin P /\ (left[l] = {} \/ l \in stopped)
  /\ left' = [l \in busy' |-> IF l \in P THEN left[l] \ {First(left[l])} ELSE left[l]]
  /\ stopped' = stopped \cap busy'

\* An emission fails: everything ends after what was sent before it.
Abort(P) ==
  /\ Plays(P)
  /\ busy' = {}
  /\ left' = [l \in {} |-> {}]
  /\ stopped' = {}

Next ==
  \/ \E l \in Label : Start(l)
  \/ \E S \in SUBSET Label : Stop(S) \/ Pass(S) \/ Abort(S)

Spec == Init /\ [][Next]_vars
=============================================================================
