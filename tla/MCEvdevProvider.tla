---------------------------- MODULE MCEvdevProvider ----------------------------
(* Two device nodes, one of them a pointer's, in every configuration.         *)
EXTENDS EvdevProvider

CONSTANTS mouse, keyboard

AnyGrabSetup == [all : BOOLEAN, monitor : BOOLEAN, canGrab : {TRUE}]
Monitored == [all : {FALSE}, monitor : {TRUE}, canGrab : {FALSE}]
SelectedToGrab == [all : {FALSE}, monitor : {TRUE}, canGrab : {TRUE}]

\* The keyboard comes or goes once; the mouse may be replaced.
Replugs == [p \in Paths |-> IF p = mouse THEN 2 ELSE 1]
=============================================================================
