------------------------------ MODULE MCInputCache ------------------------------
(* Two startups of a script; a mouse with a stable link, another device and   *)
(* the runner's own, at two nodes.                                            *)
EXTENDS InputCache, TLC

CONSTANTS mouse, other, own, link, r1, r2, event0, event1

MouseLink == mouse :> link

Kind(interactive, reset, uses) == [interactive |-> interactive, reset |-> reset, uinput |-> uses]
Startups == {Kind(TRUE, FALSE, TRUE), Kind(FALSE, FALSE, TRUE), Kind(TRUE, TRUE, TRUE), Kind(TRUE, FALSE, FALSE)}

Symmetry == Permutations(Runs) \cup Permutations(Nodes)
=============================================================================
