--------------------------- MODULE MCInputPassthrough ---------------------------
(* A keyboard with the leader, and a mouse with a button and a leader of its *)
(* own; macros that type, press, chord, hold and click the user's button.    *)
EXTENDS InputPassthrough

MCDevices == {"keyboard", "mouse"}
MCPointers == {"mouse"}
MCKeysOf == [d \in MCDevices |-> IF d = "mouse" THEN {"left", "leader"} ELSE {"leader"}]
MCMacros ==
  {[kind |-> "text", keys |-> <<"A", "b">>], [kind |-> "press", keys |-> <<"b">>],
   [kind |-> "press", keys |-> <<"ctrl", "b">>], [kind |-> "down", keys |-> <<"b">>],
   [kind |-> "up", keys |-> <<"b">>], [kind |-> "click", keys |-> <<"left">>]}
=============================================================================
