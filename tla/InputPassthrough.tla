---------------------------- MODULE InputPassthrough ----------------------------
(***************************************************************************)
(* What reaches the compositor: the user's own presses and releases, on    *)
(* the real devices or, while the leader's grab is armed, passed through   *)
(* the virtual device; and the keys of macros, which share that virtual    *)
(* device with them (uinput) or go to a portal session.  The kernel queues *)
(* events per device, so that the runner reads them later and in another   *)
(* order than they happened; a write may fail between press and release.   *)
(***************************************************************************)
EXTENDS Integers, Sequences, FiniteSets, SequencesExt

CONSTANTS
  Devices,    \* the evdev devices of the provider
  Pointers,   \* those of them that are pointer_capable
  KeysOf,     \* the keys and buttons each device has
  Leader,     \* the key the provider decodes as MotionToken::Leader
  Macros,     \* the macro actions that may be due: [kind, keys]
  Shifted,    \* characters typed with shift held
  Shift,      \* KEY_LEFTSHIFT
  MaxBacklog  \* events a device's buffer holds before it is read

\* The keys, buttons and characters that macros name.
Named == UNION {{m.keys[i] : i \in DOMAIN m.keys} : m \in Macros}

ASSUME PassthroughAssumption ==
  /\ Pointers \subseteq Devices /\ MaxBacklog \in Nat \ {0}
  /\ \E d \in Devices : Leader \in KeysOf[d]
  /\ \A m \in Macros : /\ m.kind \in {"text", "press", "down", "up", "click"}
                        /\ m.keys \in Seq(Named) /\ (m.kind # "text" => m.keys # <<>>)

VARIABLES
  down,     \* per device, what the user's fingers hold
  plugged,  \* devices that are there
  queue,    \* per device, what the kernel holds for the provider to read
  armed,    \* EvdevObservationProvider.grabbed
  marked,   \* devices marked as grabbed, EvdevDevice.grabbed
  seat,     \* per device, what the compositor believes to be down on it
  output,   \* uinput, or the portal session once a macro has opened it
  virtual,  \* what is down on the virtual device, or in the portal session
  writes,   \* the writes the macro action under way has still to do
  session,  \* open, failed (the loop returns with an error), closed
  passed,   \* history: passed presses whose release was not passed yet
  held,     \* history: keys of KeyDown actions without their KeyUp
  seen      \* history: how the event read last reached the compositor

user == <<down, plugged>>
provider == <<queue, armed, marked>>
macros == <<output, writes, held>>
vars == <<user, provider, seat, macros, virtual, session, passed, seen>>

None == [steady |-> TRUE, consumed |-> FALSE, times |-> 1]
Outputs == {"uinput", "portal", "portal_open"}
Keys == UNION {KeysOf[d] : d \in Devices}
Event == [key : Keys, press : BOOLEAN, direct : BOOLEAN]

\* The devices under EVIOCGRAB: the grab of a device that is gone is gone too,
\* its mark is not.
grabbed == marked \intersect plugged

Init ==
  /\ down = [d \in Devices |-> {}] /\ plugged = Devices
  /\ queue = [d \in Devices |-> <<>>]
  /\ armed = FALSE /\ marked = {}
  /\ seat = down
  /\ output \in {"uinput", "portal"}
  /\ virtual = {} /\ writes = <<>> /\ session = "open"
  /\ passed = {} /\ held = {} /\ seen = None

\* A device ignores the press of what is down and the release of what is up.
Struck(keys, key, press) == IF press THEN keys \union {key} ELSE keys \ {key}

(***************************************************************************)
(* The user, the kernel and the compositor.                                *)
(***************************************************************************)
\* A finger goes down or up: the compositor sees it unless the device is
\* grabbed, and the provider's buffer gets it in any case.
Happen(d, key) ==
  LET press == key \notin down[d]
      direct == d \notin grabbed
  IN /\ d \in plugged /\ Len(queue[d]) < MaxBacklog
     /\ down' = [down EXCEPT ![d] = Struck(@, key, press)]
     /\ seat' = IF direct THEN [seat EXCEPT ![d] = Struck(@, key, press)] ELSE seat
     /\ queue' = IF session = "closed" THEN queue
                 ELSE [queue EXCEPT ![d] = Append(@, [key |-> key, press |-> press,
                                                      direct |-> direct])]
     /\ UNCHANGED <<plugged, armed, marked, macros, virtual, session, passed, seen>>

\* The buffer of an unplugged device answers ENODEV: what it held is lost.
Unplug(d) ==
  /\ d \in plugged
  /\ plugged' = plugged \ {d}
  /\ down' = [down EXCEPT ![d] = {}]
  /\ seat' = [seat EXCEPT ![d] = {}]
  /\ queue' = [queue EXCEPT ![d] = <<>>]
  /\ UNCHANGED <<armed, marked, macros, virtual, session, passed, seen>>

(***************************************************************************)
(* handle_observed_input and handle_live_controller_observed_input.        *)
(***************************************************************************)
\* arm_input_grab fails on the first pointer that is gone, unless it still has
\* its mark; without uinput it does nothing.
ArmFails == output = "uinput" /\ ~armed /\ ~(Pointers \subseteq plugged \union marked)
MarkedAfterArm == IF output = "uinput" /\ ~armed THEN Pointers ELSE marked
ArmedAfterArm == armed \/ (output = "uinput" /\ Pointers # {})

\* release_grab fails for a device that is gone, which keeps its mark.
MarkedAfterRelease == IF armed THEN marked \ plugged ELSE marked

\* Mutant of Ungrabbed: a consumed release of the leader returns before the grab ends.
UngrabbedUnlessConsumed(e, consumed) == e.key = Leader /\ ~e.press /\ ~consumed

Ungrabbed(e, consumed) == e.key = Leader /\ ~e.press

\* Mutant of Passes: the event of an ungrabbed device is passed through too.
PassesUngrabbed(d, consumed) == output = "uinput" /\ ~consumed

Passes(d, consumed) == d \in grabbed /\ ~consumed

\* One event is read and handled.  Whether a motion, a press binding or an
\* overlay toggle consumes it is theirs to say; the grab flag is the one the
\* device had when the event was read, before the leader arms the grab.
Read(d, consumed) ==
  LET e == Head(queue[d])
      passes == Passes(d, consumed)
  IN /\ session = "open" /\ writes = <<>> /\ queue[d] # <<>>
     /\ ~(e.key = Leader /\ e.press /\ ArmFails)
     /\ queue' = [queue EXCEPT ![d] = Tail(@)]
     /\ IF e.key = Leader /\ e.press
        THEN armed' = ArmedAfterArm /\ marked' = MarkedAfterArm
        ELSE IF Ungrabbed(e, consumed) THEN armed' = FALSE /\ marked' = MarkedAfterRelease
        ELSE UNCHANGED <<armed, marked>>
     /\ virtual' = IF passes THEN Struck(virtual, e.key, e.press) ELSE virtual
     /\ passed' = IF passes THEN Struck(passed, e.key, e.press) ELSE passed
     /\ seen' = [steady |-> e.direct = (d \notin grabbed), consumed |-> consumed,
                 times |-> (IF e.direct THEN 1 ELSE 0) + (IF passes THEN 1 ELSE 0)]
     /\ UNCHANGED <<user, seat, macros, session>>

\* Grabbing a device that is gone, after some others, or writing the passed
\* event, fails: the error ends the loop.
ReadFails(d) ==
  LET e == Head(queue[d])
  IN /\ session = "open" /\ writes = <<>> /\ queue[d] # <<>>
     /\ \/ /\ e.key = Leader /\ e.press /\ ArmFails
           /\ \E some \in SUBSET (Pointers \intersect plugged) : marked' = marked \union some
        \/ d \in grabbed /\ UNCHANGED marked
     /\ queue' = [queue EXCEPT ![d] = Tail(@)]
     /\ session' = "failed"
     /\ UNCHANGED <<user, armed, seat, macros, virtual, passed, seen>>

(***************************************************************************)
(* execute_input_request: a macro action as the writes it takes.  One      *)
(* write is a sequence of strokes that arrive together.                    *)
(***************************************************************************)
Stroke(key, press) == [key |-> key, press |-> press]

\* Mutant of Tapped: the release is not written.
TappedOnly(key) == <<Stroke(key, TRUE)>>

Tapped(key) == <<Stroke(key, TRUE), Stroke(key, FALSE)>>
Chord(keys) ==
  LET n == Len(keys)
  IN [i \in 1..n |-> Stroke(keys[i], TRUE)] \o [i \in 1..n |-> Stroke(keys[n + 1 - i], FALSE)]
Typed(keys) ==
  FlattenSeq([i \in DOMAIN keys |->
    IF keys[i] \in Shifted
    THEN <<Stroke(Shift, TRUE)>> \o Tapped(keys[i]) \o <<Stroke(Shift, FALSE)>>
    ELSE Tapped(keys[i])])
Apart(strokes) == [i \in DOMAIN strokes |-> <<strokes[i]>>]

UinputWrites(m) ==
  CASE m.kind = "text" -> <<Typed(m.keys)>>
    [] m.kind = "click" -> <<Tapped(m.keys[1])>>
    [] m.kind = "press" /\ Len(m.keys) > 1 -> <<Chord(m.keys)>>
    [] m.kind = "press" /\ Len(m.keys) = 1 -> Apart(Tapped(m.keys[1]))
    [] OTHER -> <<<<Stroke(m.keys[1], m.kind = "down")>>>>

\* The portal has one call per keysym or button and state; the keysym of a
\* character carries its own shift.
PortalWrites(m) ==
  CASE m.kind = "text" -> Apart(FlattenSeq([i \in DOMAIN m.keys |-> Tapped(m.keys[i])]))
    [] m.kind \in {"click", "press"} -> Apart(Tapped(m.keys[1]))
    [] OTHER -> <<<<Stroke(m.keys[1], m.kind = "down")>>>>

\* A chord has no keysym, and neither output takes one down or up.
Unsupported(m) == Len(m.keys) > 1 /\ m.kind # "text" /\ (m.kind # "press" \/ output # "uinput")

\* The due action of the macro queue is handed to the output; the first one
\* for the portal opens its session.
Execute(m) ==
  /\ session = "open" /\ writes = <<>> /\ ~Unsupported(m)
  /\ output' = IF output = "portal" THEN "portal_open" ELSE output
  /\ writes' = IF output = "uinput" THEN UinputWrites(m) ELSE PortalWrites(m)
  /\ held' = CASE m.kind = "down" -> held \union {m.keys[1]}
               [] m.kind = "up" -> held \ {m.keys[1]}
               [] OTHER -> held
  /\ UNCHANGED <<user, provider, seat, virtual, session, passed, seen>>

\* The key is not supported, or the user denies the portal session.
Refuse(m) ==
  /\ session = "open" /\ writes = <<>>
  /\ Unsupported(m) \/ output = "portal"
  /\ session' = "failed"
  /\ UNCHANGED <<user, provider, seat, macros, virtual, passed, seen>>

\* What is down once the strokes of one write have arrived.
Written(keys, strokes) ==
  FoldLeft(LAMBDA pressed, s : Struck(pressed, s.key, s.press), keys, strokes)

Write ==
  /\ session = "open" /\ writes # <<>>
  /\ virtual' = Written(virtual, Head(writes))
  /\ writes' = Tail(writes)
  /\ UNCHANGED <<user, provider, seat, output, held, session, passed, seen>>

WriteFails ==
  /\ session = "open" /\ writes # <<>>
  /\ session' = "failed" /\ writes' = <<>>
  /\ UNCHANGED <<user, provider, seat, output, held, virtual, passed, seen>>

\* cancel_pending: the grab and the provider first, then the portal session,
\* and the virtual device, whose destruction lifts what is down on it.
Lifted(keys) == {}

Close ==
  /\ session \in {"open", "failed"} /\ writes = <<>>
  /\ session' = "closed"
  /\ armed' = FALSE /\ marked' = {}
  /\ queue' = [d \in Devices |-> <<>>]
  /\ virtual' = Lifted(virtual)
  /\ passed' = {} /\ held' = {}
  /\ UNCHANGED <<user, seat, output, writes, seen>>

Next ==
  \/ \E d \in Devices : \E key \in KeysOf[d] : Happen(d, key)
  \/ \E d \in Devices : Unplug(d) \/ ReadFails(d) \/ \E c \in BOOLEAN : Read(d, c)
  \/ \E m \in Macros : Execute(m) \/ Refuse(m)
  \/ Write \/ WriteFails \/ Close

Spec == Init /\ [][Next]_vars

(***************************************************************************)
(* Properties.                                                             *)
(***************************************************************************)
TypeOK ==
  /\ down \in [Devices -> SUBSET Keys] /\ seat \in [Devices -> SUBSET Keys]
  /\ queue \in [Devices -> Seq(Event)]
  /\ \A d \in Devices : down[d] \subseteq KeysOf[d] /\ seat[d] \subseteq KeysOf[d]
  /\ plugged \subseteq Devices /\ marked \subseteq Pointers
  /\ \A d \in Devices : Len(queue[d]) <= MaxBacklog
  /\ armed \in BOOLEAN /\ output \in Outputs /\ session \in {"open", "failed", "closed"}

\* A device whose leader is up, with its release read.
Lifts(d) ==
  /\ d \in plugged /\ Leader \notin down[d]
  /\ \A i \in DOMAIN queue[d] : queue[d][i].key # Leader

\* The pointers are grabbed only as long as the leader is held: once every
\* leader is up and its release has been read, whatever consumed it and whichever
\* device it came from, no device is left grabbed (runner.rs
\* handle_observed_input, overlay toggles included).
GrabEndsWithLeader ==
  session = "open" /\ (\A d \in Devices : Leader \in KeysOf[d] => Lifts(d)) => grabbed = {}

\* An event that is read under the grab state it happened under reaches the
\* compositor once, on its own device or on the virtual one, unless it was
\* consumed; a consumed event of a grabbed device does not reach it at all.
SteadyEventsArriveOnce ==
  seen.steady => seen.times = 1 \/ (seen.consumed /\ seen.times = 0)

\* Between two macro actions, what is down on the virtual device is down for
\* the user's passed press or for a KeyDown that waits for its KeyUp: text,
\* presses, chords and clicks leave nothing behind (uinput.rs, portal.rs).
KeysComeUp == session = "open" /\ writes = <<>> => virtual \subseteq passed \union held

\* However the session ends, no device is grabbed and no virtual key is down
\* after it (adapter.rs cancel_pending, the Drop of both sessions).
NothingOutlivesTheSession ==
  session = "closed" => grabbed = {} /\ ~armed /\ virtual = {}

\* The shape of the state, and how a grab and a session end: for every set of
\* devices, keys and macros (PassthroughAndOverlaysProofs).
Inv == TypeOK /\ GrabEndsWithLeader /\ NothingOutlivesTheSession

=============================================================================
