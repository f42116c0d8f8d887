---------------------------- MODULE MCRunnerSession ----------------------------
(* Two runners whose scripts want the same key.                               *)
EXTENDS RunnerSession

CONSTANT key

Sample(plan, monitored, parses) ==
  [plan |-> plan, monitored |-> monitored, parses |-> parses, hotkeys |-> <<key>>]
Declarative == Sample(LiveDeclarative, FALSE, TRUE)
Unparsable == Sample(LiveController, TRUE, FALSE)
Plain == Sample(RealDeclarative, FALSE, TRUE)

\* A live script beside one of the start functions without a signal fd, and
\* beside a controller whose hotkey does not parse.
Pairs == {<<Declarative, Plain>>, <<Declarative, Unparsable>>}

\* The first runner may enter developer mode or ask for windows.
Limits == <<4, 1>>
=============================================================================
