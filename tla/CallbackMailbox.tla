--------------------------- MODULE CallbackMailbox ---------------------------
(***************************************************************************)
(* What the KWin bridge promises the runner's event loop: a bounded queue  *)
(* of callbacks in arrival order, and a wake flag that is up when there is *)
(* something in the queue the loop has not been woken for.  LiveLoop works *)
(* with this mailbox; KwinCallbacks shows that the bridge's two threads,   *)
(* their queue and their eventfd are one.                                  *)
(***************************************************************************)
EXTENDS Naturals, Sequences

CONSTANTS
  Message,   \* what a callback may be
  Capacity   \* CALLBACK_QUEUE_LIMIT

VARIABLES
  callbacks,  \* the callbacks not yet taken, oldest first
  wake        \* the loop's wait is to return

Init == callbacks = <<>> /\ wake = FALSE

\* A callback arrives; when the queue is full the new one is dropped.
Post ==
  /\ \E message \in Message :
       callbacks' = IF Len(callbacks) < Capacity THEN Append(callbacks, message)
                    ELSE callbacks
  /\ wake' = TRUE

Take ==
  /\ callbacks # <<>>
  /\ callbacks' = Tail(callbacks)
  /\ UNCHANGED wake

\* The loop acknowledges the wake; one that is just being given may survive.
Acknowledge ==
  /\ wake
  /\ wake' \in BOOLEAN
  /\ UNCHANGED callbacks

Next == Post \/ Take \/ Acknowledge

Spec == Init /\ [][Next]_<<callbacks, wake>>
=============================================================================
