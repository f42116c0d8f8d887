----------------------------- MODULE EvdevProvider -----------------------------
(***************************************************************************)
(* The evdev input provider: the devices it reads in turn, the wait that   *)
(* polls them with the udev monitor and the loop's own descriptors, the    *)
(* rescans that take up plugged devices, and the exclusive grab the leader *)
(* key arms.  Devices are plugged and unplugged at any moment; the single  *)
(* thread is modelled one blocking or system call at a time, and stage     *)
(* says which is next.  A pass over the devices is one step: what happens  *)
(* to one device commutes with the reading of another.                     *)
(***************************************************************************)
EXTENDS Integers, Sequences, FiniteSets

CONSTANTS
  Paths,     \* device nodes under /dev/input
  Pointers,  \* those of them that are pointer_capable
  Setups,    \* configurations the provider may be opened with
  MaxPlugs   \* how often a device is plugged at each path

ASSUME EvdevAssumption ==
  /\ IsFiniteSet(Paths)
  /\ Pointers \subseteq Paths
  /\ MaxPlugs \in [Paths -> Nat \ {0}]
  /\ Setups \subseteq [all : BOOLEAN, monitor : BOOLEAN, canGrab : BOOLEAN]

VARIABLES
  setup,    \* all_devices, whether there is a udev monitor, a Grab mode provider
  watched,  \* configured_paths; every path with devices = "all"
  readable, \* the paths this user may open, never the own virtual device
  taken,    \* the paths another client has grabbed: EVIOCGRAB is refused
  node,     \* which device is plugged at a path, 0 when there is none
  plugged,  \* how many devices the path has seen
  unsettled,\* plugs and unplugs udevd has not announced yet
  uevent,   \* the monitor's socket is readable
  devices,  \* the Vec of EvdevDevice, with the kernel's buffer behind each file
  next,     \* next_device_index
  grabbed,  \* the provider's own grabbed flag
  skipped,  \* skipped_paths
  due,      \* rescan_interval has passed since last_rescan
  found,    \* what the rescan under way has still to open
  scanned,  \* what it has discovered
  stage     \* what the thread does next

env == <<setup, watched, readable, taken>>
kernel == <<node, plugged, unsettled, uevent>>
scan == <<skipped, due, found, scanned>>
vars == <<env, kernel, devices, next, grabbed, scan, stage>>

Stages == {"wait", "poll", "discover", "reopen", "overdue", "retry", "handle",
           "scan_failed", "grab_failed"}
Running == stage \notin {"scan_failed", "grab_failed"}

Device == [path : Paths, file : Nat \ {0}, active : BOOLEAN,
           grabbed : BOOLEAN, unread : BOOLEAN]

\* Mutant of Opened: a device plugged while the grab is armed is not grabbed.
OpenedUngrabbed(path, grab) ==
  [path |-> path, file |-> node[path], active |-> TRUE, grabbed |-> FALSE, unread |-> FALSE]

\* EvdevDevice::open, and the grab an armed provider takes with it.
Opened(path, grab) ==
  [path |-> path, file |-> node[path], active |-> TRUE,
   grabbed |-> grab /\ path \in Pointers, unread |-> FALSE]

\* The device behind the open file is still plugged.
Live(device) == node[device.path] = device.file

\* A file that answers ENODEV: unplugged, or another device has its path now.
Gone(device) == device.active /\ ~Live(device)

Orders(S) == {o \in [1..Cardinality(S) -> S] : \A i, j \in DOMAIN o : o[i] = o[j] => i = j}

Openable == {p \in Paths : node[p] # 0 /\ p \in readable}

\* EvdevObservationProvider::open: selected paths must all open, broad
\* discovery skips those that do not, and one device has to be usable.
Init ==
  /\ setup \in Setups
  /\ readable \in SUBSET Paths /\ taken \in SUBSET Pointers
  /\ node \in [Paths -> {0, 1}]
  /\ plugged = node
  /\ unsettled = 0 /\ uevent = FALSE
  /\ IF setup.all THEN watched = Paths
     ELSE watched \in SUBSET Openable
  /\ Openable \cap watched # {}
  /\ \E order \in Orders(Openable \cap watched) :
       devices = [i \in DOMAIN order |-> Opened(order[i], FALSE)]
  /\ skipped = {p \in watched : node[p] # 0} \ readable
  /\ next = 0 /\ grabbed = FALSE /\ due = FALSE
  /\ found = {} /\ scanned = {}
  /\ stage = "wait"

(***************************************************************************)
(* The kernel, udevd and the clock.                                        *)
(***************************************************************************)
Plug(path) ==
  /\ node[path] = 0 /\ plugged[path] < MaxPlugs[path]
  /\ plugged' = [plugged EXCEPT ![path] = @ + 1]
  /\ node' = [node EXCEPT ![path] = plugged[path] + 1]
  /\ unsettled' = IF setup.monitor THEN unsettled + 1 ELSE unsettled
  /\ UNCHANGED <<env, uevent, devices, next, grabbed, scan, stage>>

Unplug(path) ==
  /\ node[path] # 0
  /\ node' = [node EXCEPT ![path] = 0]
  /\ unsettled' = IF setup.monitor THEN unsettled + 1 ELSE unsettled
  /\ UNCHANGED <<env, plugged, uevent, devices, next, grabbed, scan, stage>>

\* udevd sends its announcement once it has dealt with the device.
Announce ==
  /\ unsettled > 0
  /\ unsettled' = unsettled - 1
  /\ uevent' = TRUE
  /\ UNCHANGED <<env, node, plugged, devices, next, grabbed, scan, stage>>

\* The user moves or presses something: there is an event to read, or, at
\* once after one was read, another.
Input(i) ==
  /\ Live(devices[i])
  /\ devices' = [devices EXCEPT ![i].unread = TRUE]
  /\ UNCHANGED <<env, kernel, next, grabbed, scan, stage>>

\* With a monitor nobody asks whether the interval has passed.
IntervalPasses ==
  /\ ~due /\ ~setup.monitor
  /\ due' = TRUE
  /\ UNCHANGED <<env, kernel, devices, next, grabbed, skipped, found, scanned, stage>>

(***************************************************************************)
(* Reading.  A pass begins at next_device_index and ends with the first    *)
(* device that has an event; those it passes and finds gone are inactive.  *)
(***************************************************************************)
\* The position at which the pass comes to device i.
Turn(i) == (i - 1 - next + Len(devices)) % Len(devices)

Ready == {i \in DOMAIN devices : Live(devices[i]) /\ devices[i].active /\ devices[i].unread}

\* What is left of the devices when those in gone are found gone.
Noticed(gone) ==
  [i \in DOMAIN devices |->
     IF i \in gone THEN [devices[i] EXCEPT !.active = FALSE] ELSE devices[i]]

\* Mutant of GoneBefore: ENODEV is taken for nothing to read.
GoneUnnoticed(turn) == {}

GoneBefore(turn) == {i \in DOMAIN devices : Gone(devices[i]) /\ Turn(i) < turn}

\* Mutant of IndexAfter: the next pass begins with the device just read.
IndexOfRead(turn) == (next + turn) % Len(devices)

\* Where the next pass begins: behind the device that was read.
IndexAfter(turn) == (next + turn + 1) % Len(devices)

ReadEvent ==
  \E i \in Ready :
    /\ \A j \in Ready : Turn(i) <= Turn(j)
    /\ devices' = [Noticed(GoneBefore(Turn(i))) EXCEPT ![i].unread = FALSE]
    /\ next' = IndexAfter(Turn(i))
    /\ stage' = "handle"

ReadNothing ==
  /\ Ready = {}
  /\ devices' = Noticed(GoneBefore(Len(devices)))
  /\ next' = IndexAfter(0)

\* The pass with which every wait begins.
ReadFirst ==
  /\ stage = "wait"
  /\ ReadEvent \/ (ReadNothing /\ stage' = "poll")
  /\ UNCHANGED <<env, kernel, grabbed, scan>>

(***************************************************************************)
(* wait_for_readable_device.  poll returns for a device, for the monitor,  *)
(* for one of the loop's own descriptors or at its timeout, in any         *)
(* combination; a device that is gone wakes it with POLLHUP and no POLLIN, *)
(* which counts for nothing.  The monitor is drained before the loop's     *)
(* descriptors are looked at, and one of those ends the wait at once.      *)
(***************************************************************************)
DeviceReadable == \E i \in DOMAIN devices : devices[i].active /\ devices[i].unread

AfterPoll(runtime_fd) ==
  IF runtime_fd THEN "wait"
  ELSE IF uevent THEN "discover"
  ELSE IF DeviceReadable THEN "overdue"
  ELSE "wait"

Poll ==
  /\ stage = "poll"
  /\ \E runtime_fd \in BOOLEAN : stage' = AfterPoll(runtime_fd)
  /\ uevent' = FALSE
  /\ UNCHANGED <<env, node, plugged, unsettled, devices, next, grabbed, scan>>

(***************************************************************************)
(* Rescans.  A udev event reconciles: with devices = "all" what is no      *)
(* longer in /dev/input becomes inactive first.  Without a monitor a       *)
(* rescan is due once per interval and only adds and reopens.              *)
(***************************************************************************)
Present == {p \in Paths : node[p] # 0}

\* discover_event_devices fails when /dev/input is empty.
Begin(reconcile) ==
  /\ due' = FALSE
  /\ IF setup.all /\ Present = {}
     THEN /\ stage' = "scan_failed"
          /\ UNCHANGED <<devices, found, scanned>>
     ELSE /\ scanned' = IF setup.all THEN Present ELSE watched
          /\ found' = scanned'
          /\ stage' = "reopen"
          /\ devices' = IF reconcile /\ setup.all
                        THEN Noticed({i \in DOMAIN devices :
                               devices[i].active /\ devices[i].path \notin Present})
                        ELSE devices
  /\ UNCHANGED <<env, kernel, next, grabbed, skipped>>

Reconcile == stage = "discover" /\ Begin(TRUE)

ActiveAt(path) == \E i \in DOMAIN devices : devices[i].path = path /\ devices[i].active
InactiveAt(path) == {i \in DOMAIN devices : devices[i].path = path /\ ~devices[i].active}

\* add_or_reopen_device opens the path: no active device has it, the open
\* succeeds, and so does the grab when one is armed.
TakesUp(path) ==
  /\ ~ActiveAt(path)
  /\ node[path] # 0 /\ path \in readable
  /\ ~(grabbed /\ setup.canGrab /\ path \in Pointers /\ path \in taken)

\* A new device replaces the inactive one of its path or joins at the end.
Include(path) ==
  LET new == Opened(path, grabbed /\ setup.canGrab)
  IN  IF InactiveAt(path) = {} THEN devices' = Append(devices, new)
      ELSE \E i \in InactiveAt(path) :
             /\ \A j \in InactiveAt(path) : i <= j
             /\ devices' = [devices EXCEPT ![i] = new]

\* A refused grab returns before anything is recorded of the path.
AddOrReopen(path) ==
  /\ stage = "reopen" /\ path \in found
  /\ found' = found \ {path}
  /\ \/ /\ TakesUp(path)
        /\ Include(path)
        /\ skipped' = skipped \ {path}
     \/ /\ ~TakesUp(path)
        /\ skipped' = IF ActiveAt(path) THEN skipped \ {path}
                      ELSE IF node[path] = 0 \/ path \notin readable THEN skipped \cup {path}
                      ELSE skipped
        /\ UNCHANGED devices
  /\ UNCHANGED <<env, kernel, next, grabbed, due, scanned, stage>>

\* rescan_known_devices forgets the skipped paths that are gone or open.
EndRescan ==
  /\ stage = "reopen" /\ found = {}
  /\ skipped' = {p \in skipped : p \in scanned /\ ~ActiveAt(p)}
  /\ scanned' = {}
  /\ stage' = "retry"
  /\ UNCHANGED <<env, kernel, devices, next, grabbed, due, found>>

\* rescan_devices_if_due, which only a provider without a monitor calls.
RescanIfDue ==
  /\ stage = "overdue"
  /\ \/ ~setup.monitor /\ due /\ Begin(FALSE)
     \/ /\ setup.monitor \/ ~due
        /\ stage' = "retry"
        /\ UNCHANGED <<env, kernel, devices, next, grabbed, scan>>

\* The pass after the wait; with nothing to read the wait is over.
ReadAgain ==
  /\ stage = "retry"
  /\ ReadEvent \/ (ReadNothing /\ stage' = "wait")
  /\ UNCHANGED <<env, kernel, grabbed, scan>>

(***************************************************************************)
(* What the runner does with an event: the leader's press arms the grab    *)
(* and its release lifts it, any other event leaves the provider alone.    *)
(***************************************************************************)
Grabs(i) == devices[i].path \in Pointers
GrabRefused(i) ==
  Grabs(i) /\ ~devices[i].grabbed /\ (~Live(devices[i]) \/ devices[i].path \in taken)

\* grab_pointer_devices: the first refused grab is the runner's error, and
\* the devices before it stay grabbed.
ArmGrab ==
  /\ stage = "handle" /\ setup.canGrab /\ ~grabbed
  /\ \/ /\ \A i \in DOMAIN devices : ~GrabRefused(i)
        /\ devices' = [i \in DOMAIN devices |->
                         [devices[i] EXCEPT !.grabbed = @ \/ Grabs(i)]]
        /\ grabbed' = (\E i \in DOMAIN devices : Grabs(i))
        /\ stage' = "wait"
     \/ \E i \in DOMAIN devices :
          /\ GrabRefused(i)
          /\ \A j \in DOMAIN devices : GrabRefused(j) => i <= j
          /\ devices' = [j \in DOMAIN devices |->
                           [devices[j] EXCEPT !.grabbed = @ \/ (j < i /\ Grabs(j))]]
          /\ stage' = "grab_failed"
          /\ UNCHANGED grabbed
  /\ UNCHANGED <<env, kernel, next, scan>>

\* release_grab: a device that is gone cannot be released and keeps its flag.
ReleaseGrab ==
  /\ stage = "handle" /\ grabbed
  /\ devices' = [i \in DOMAIN devices |->
                   [devices[i] EXCEPT !.grabbed = @ /\ ~Live(devices[i])]]
  /\ grabbed' = FALSE
  /\ stage' = "wait"
  /\ UNCHANGED <<env, kernel, next, scan>>

OtherEvent ==
  /\ stage = "handle"
  /\ stage' = "wait"
  /\ UNCHANGED <<env, kernel, devices, next, grabbed, scan>>

(***************************************************************************)
Provider ==
  \/ ReadFirst \/ Poll \/ Reconcile \/ RescanIfDue \/ EndRescan \/ ReadAgain
  \/ \E path \in Paths : AddOrReopen(path)
  \/ ArmGrab \/ ReleaseGrab \/ OtherEvent

Environment ==
  \/ \E path \in Paths : Plug(path) \/ Unplug(path)
  \/ Announce \/ IntervalPasses
  \/ \E i \in DOMAIN devices : Input(i)

Next == Provider \/ Environment

Spec == Init /\ [][Next]_vars

\* The runner waits again after every event and poll has a timeout; udevd
\* answers and time passes.  Nobody has to plug, unplug or type anything.
FairSpec == Spec /\ WF_vars(Provider) /\ WF_vars(Announce) /\ WF_vars(IntervalPasses)

(***************************************************************************)
(* Properties.                                                             *)
(***************************************************************************)
TypeOK ==
  /\ setup \in Setups
  /\ watched \subseteq Paths /\ readable \subseteq Paths /\ taken \subseteq Paths
  /\ node \in [Paths -> Nat] /\ plugged \in [Paths -> Nat]
  /\ \A p \in Paths : plugged[p] \in 0..MaxPlugs[p] /\ node[p] \in 0..plugged[p]
  /\ unsettled \in Nat /\ uevent \in BOOLEAN
  /\ devices \in Seq(Device) /\ next \in Nat
  /\ grabbed \in BOOLEAN /\ due \in BOOLEAN
  /\ skipped \subseteq Paths /\ found \subseteq Paths /\ scanned \subseteq Paths
  /\ stage \in Stages

\* However often a device comes and goes, its path has one place in the list:
\* a rescan reopens in place (add_or_reopen_device), so an event is read once
\* and the list is no longer than there are paths.
OneDevicePerPath ==
  \A i, j \in DOMAIN devices : devices[i].path = devices[j].path => i = j

\* The exclusive grab and the provider's flag agree on every pointer that is
\* plugged: while it is armed none leaks events to the desktop, the one plugged
\* in the middle of it included, and when it is lifted all are the desktop's
\* again (arm_grab, release_grab, add_or_reopen_device).
GrabsFollowTheFlag ==
  Running =>
    \A i \in DOMAIN devices :
      Live(devices[i]) /\ devices[i].path \in Pointers => devices[i].grabbed = grabbed

\* What holds in every state, for every set of paths (EvdevProviderProofs).
Inv == TypeOK /\ OneDevicePerPath /\ GrabsFollowTheFlag

\* No device is starved by the others: one with an event to read is read, or
\* unplugged, however busy the rest and the loop's descriptors are
\* (next_device_index in next_observed_input_event).
NoDeviceStarves ==
  \A path \in Paths :
    (\E i \in Ready : devices[i].path = path)
      ~> (~Running \/ ~(\E i \in Ready : devices[i].path = path))

\* An unplugged device does not stay in the list as an active one, though
\* nothing but a read or a rescan tells the provider (next_raw_event,
\* reconcile_discovered_devices).
UnpluggedIsNoticed ==
  \A path \in Paths :
    (\E i \in DOMAIN devices : devices[i].path = path /\ Gone(devices[i]))
      ~> (~Running \/ ~(\E i \in DOMAIN devices : devices[i].path = path /\ Gone(devices[i])))

=============================================================================
