-------------------------- MODULE EvdevProviderProofs --------------------------
(***************************************************************************)
(* Theorems about EvdevProvider, for any number of paths and of plugs: its *)
(* type invariant, that a path has one place in the list of devices, and   *)
(* that the grabs agree with the provider's flag.                          *)
(***************************************************************************)
EXTENDS EvdevProvider, FiniteSetTheorems, TLAPS

\* Every open file is of a device its path has seen: a device plugged later
\* is never taken for it.
FilesWerePlugged ==
  \A i \in DOMAIN devices : devices[i].file \in 1..plugged[devices[i].path]

\* Only a provider in Grab mode is armed.
ArmedInGrabMode == grabbed => setup.canGrab

IInv ==
  /\ TypeOK /\ devices # <<>>
  /\ OneDevicePerPath /\ FilesWerePlugged /\ ArmedInGrabMode /\ GrabsFollowTheFlag

\* What changes devices in place: it gives each index a device.
LEMMA InPlace ==
  ASSUME NEW S, NEW s \in Seq(S), NEW t \in [DOMAIN s -> S]
  PROVE  t \in Seq(S) /\ DOMAIN t = DOMAIN s /\ Len(t) = Len(s)
<1>1. Len(s) \in Nat /\ DOMAIN s = 1..Len(s)
  OBVIOUS
<1> QED BY <1>1

\* What a list of any kind keeps when something joins at the end.
LEMMA Joined ==
  ASSUME NEW S, NEW s \in Seq(S), NEW e \in S
  PROVE  /\ Append(s, e) \in Seq(S)
         /\ DOMAIN Append(s, e) = DOMAIN s \cup {Len(s) + 1}
         /\ Len(s) + 1 \notin DOMAIN s
         /\ \A i \in DOMAIN s : Append(s, e)[i] = s[i]
         /\ Append(s, e)[Len(s) + 1] = e
<1>1. Len(s) \in Nat /\ DOMAIN s = 1..Len(s)
  OBVIOUS
<1>2. Append(s, e) \in Seq(S) /\ Len(Append(s, e)) = Len(s) + 1
  OBVIOUS
<1>3. DOMAIN Append(s, e) = 1..(Len(s) + 1)
  BY <1>1, <1>2
<1> QED BY <1>1, <1>2, <1>3

\* What is opened where a device is plugged is one of the devices.
LEMMA OpenedIsDevice ==
  ASSUME NEW path \in Paths, NEW grab \in BOOLEAN, node[path] \in Nat \ {0}
  PROVE  /\ Opened(path, grab) \in Device
         /\ Opened(path, grab).path = path
         /\ Opened(path, grab).file = node[path]
         /\ Opened(path, grab).grabbed = (grab /\ path \in Pointers)
BY DEF Opened, Device

\* Marking devices inactive keeps everything else of them.
LEMMA NoticedKeeps ==
  ASSUME TypeOK, NEW gone
  PROVE  /\ Noticed(gone) \in Seq(Device)
         /\ DOMAIN Noticed(gone) = DOMAIN devices
         /\ \A i \in DOMAIN devices :
              /\ Noticed(gone)[i].path = devices[i].path
              /\ Noticed(gone)[i].file = devices[i].file
              /\ Noticed(gone)[i].grabbed = devices[i].grabbed
<1>1. \A i \in DOMAIN devices : devices[i] \in Device
  BY DEF TypeOK
<1>2. \A i \in DOMAIN devices :
        /\ Noticed(gone)[i] \in Device
        /\ Noticed(gone)[i].path = devices[i].path
        /\ Noticed(gone)[i].file = devices[i].file
        /\ Noticed(gone)[i].grabbed = devices[i].grabbed
  BY <1>1 DEF Noticed, Device
<1>3. Noticed(gone) \in [DOMAIN devices -> Device]
  BY <1>2 DEF Noticed
<1>4. devices \in Seq(Device)
  BY DEF TypeOK
<1> QED BY <1>2, <1>3, <1>4, InPlace

\* A step in which every device keeps its place, its path and its file.
InPlaceStep ==
  /\ DOMAIN devices' = DOMAIN devices
  /\ \A i \in DOMAIN devices :
       devices'[i].path = devices[i].path /\ devices'[i].file = devices[i].file
GrabsKept == \A i \in DOMAIN devices : devices'[i].grabbed = devices[i].grabbed

\* A pass that reads an event changes nothing else of the devices.
LEMMA ReadEventStep ==
  ASSUME TypeOK, ReadEvent
  PROVE  devices' \in Seq(Device) /\ InPlaceStep /\ GrabsKept /\ next' \in Nat /\ stage' = "handle"
<1>1. PICK i \in Ready :
        /\ devices' = [Noticed(GoneBefore(Turn(i))) EXCEPT ![i].unread = FALSE]
        /\ next' = IndexAfter(Turn(i))
  BY DEF ReadEvent
<1> DEFINE passed == Noticed(GoneBefore(Turn(i)))
<1>2. i \in DOMAIN devices /\ devices \in Seq(Device) /\ next \in Nat
  BY DEF Ready, TypeOK
<1>3. /\ passed \in Seq(Device) /\ DOMAIN passed = DOMAIN devices
      /\ \A j \in DOMAIN devices :
           /\ passed[j].path = devices[j].path
           /\ passed[j].file = devices[j].file
           /\ passed[j].grabbed = devices[j].grabbed
  BY NoticedKeeps
<1> HIDE DEF passed
<1>4. devices' = [passed EXCEPT ![i].unread = FALSE]
  BY <1>1 DEF passed
<1>5. \A j \in DOMAIN devices : passed[j] \in Device
  BY <1>3
<1>6. \A j \in DOMAIN devices :
        /\ devices'[j] \in Device
        /\ devices'[j].path = passed[j].path
        /\ devices'[j].file = passed[j].file
        /\ devices'[j].grabbed = passed[j].grabbed
  BY <1>2, <1>3, <1>4, <1>5 DEF Device
<1>7. devices' \in [DOMAIN devices -> Device]
  BY <1>3, <1>4, <1>6
<1>8. devices' \in Seq(Device) /\ DOMAIN devices' = DOMAIN devices
  BY <1>2, <1>7, InPlace
<1>9. Len(devices) \in Nat \ {0} /\ i \in 1..Len(devices)
  BY <1>2
<1>10. Turn(i) \in Nat
  BY <1>2, <1>9 DEF Turn
<1>11. next' \in Nat
  BY <1>1, <1>2, <1>9, <1>10 DEF IndexAfter
<1>12. stage' = "handle"
  BY DEF ReadEvent
<1> QED BY <1>3, <1>6, <1>8, <1>11, <1>12 DEF InPlaceStep, GrabsKept

\* A pass that finds nothing only notices what is gone.
LEMMA ReadNothingStep ==
  ASSUME TypeOK, devices # <<>>, ReadNothing
  PROVE  devices' \in Seq(Device) /\ InPlaceStep /\ GrabsKept /\ next' \in Nat
<1>1. devices \in Seq(Device) /\ next \in Nat
  BY DEF TypeOK
<1>2. Len(devices) \in Nat \ {0}
  BY <1>1
<1>3. next' \in Nat
  BY <1>1, <1>2 DEF ReadNothing, IndexAfter
<1>4. devices' = Noticed(GoneBefore(Len(devices)))
  BY DEF ReadNothing
<1> QED BY <1>3, <1>4, NoticedKeeps DEF InPlaceStep, GrabsKept

\* A step in which the devices keep their places keeps what their paths and
\* files have to do with each other and with the plugs.
LEMMA PlacesKept ==
  ASSUME IInv, InPlaceStep, devices' \in Seq(Device),
         \A p \in Paths : plugged'[p] \in Nat /\ plugged[p] <= plugged'[p]
  PROVE  devices' # <<>> /\ OneDevicePerPath' /\ FilesWerePlugged'
<1>1. DOMAIN devices' = DOMAIN devices /\ DOMAIN devices # {}
  BY DEF IInv, TypeOK, InPlaceStep
<1>2. devices' # <<>>
  BY <1>1
<1>3. OneDevicePerPath'
  BY <1>1 DEF IInv, OneDevicePerPath, InPlaceStep
<1>4. \A i \in DOMAIN devices : devices[i].path \in Paths
  <2>1. \A i \in DOMAIN devices : devices[i] \in Device
    BY DEF IInv, TypeOK
  <2> QED BY <2>1 DEF Device
<1>5. \A p \in Paths : plugged[p] \in Nat
  BY DEF IInv, TypeOK
<1>6. FilesWerePlugged'
  BY <1>1, <1>4, <1>5 DEF IInv, FilesWerePlugged, InPlaceStep
<1> QED BY <1>2, <1>3, <1>6

\* Where neither the devices' grabs, nor what is plugged, nor the flag
\* change, the grabs still follow the flag.
LEMMA FlagKept ==
  ASSUME IInv, InPlaceStep, GrabsKept, node' = node, grabbed' = grabbed, Running' => Running
  PROVE  GrabsFollowTheFlag'
BY DEF IInv, GrabsFollowTheFlag, InPlaceStep, GrabsKept, Live

\* The invariant holds when the provider has opened its devices.
LEMMA Initially == Init => IInv
<1> SUFFICES ASSUME Init PROVE IInv
  OBVIOUS
<1> DEFINE opened == Openable \cap watched
<1>1. PICK order \in Orders(opened) :
        devices = [i \in DOMAIN order |-> Opened(order[i], FALSE)]
  BY DEF Init
<1>2. IsFiniteSet(opened) /\ opened # {} /\ opened \subseteq Paths
  BY FS_Subset, EvdevAssumption DEF Openable, Init
<1>3. Cardinality(opened) \in Nat \ {0}
  BY <1>2, FS_CardinalityType, FS_EmptySet
<1> DEFINE n == Cardinality(opened)
<1>4. /\ order \in [1..n -> opened]
      /\ \A i, j \in 1..n : order[i] = order[j] => i = j
  BY <1>1 DEF Orders
<1>5. \A i \in 1..n : order[i] \in Paths /\ node[order[i]] # 0
  BY <1>4 DEF Openable
<1>6. /\ watched \subseteq Paths /\ taken \subseteq Paths /\ skipped \subseteq Paths
      /\ node \in [Paths -> {0, 1}] /\ plugged = node
  BY EvdevAssumption DEF Init, Openable
<1> HIDE DEF n, opened
<1>7. \A i \in 1..n :
        /\ Opened(order[i], FALSE) \in Device
        /\ Opened(order[i], FALSE).path = order[i]
        /\ Opened(order[i], FALSE).file = node[order[i]]
        /\ Opened(order[i], FALSE).grabbed = FALSE
  <2> SUFFICES ASSUME NEW i \in 1..n
               PROVE  /\ Opened(order[i], FALSE) \in Device
                      /\ Opened(order[i], FALSE).path = order[i]
                      /\ Opened(order[i], FALSE).file = node[order[i]]
                      /\ Opened(order[i], FALSE).grabbed = FALSE
    OBVIOUS
  <2>1. order[i] \in Paths /\ node[order[i]] \in Nat \ {0}
    BY <1>5, <1>6
  <2> QED BY <2>1, OpenedIsDevice
<1>8. DOMAIN order = 1..n
  BY <1>4
<1>9. devices = [i \in 1..n |-> Opened(order[i], FALSE)]
  BY <1>1, <1>8
<1>10. n \in Nat \ {0}
  BY <1>3 DEF n
<1>11. devices \in Seq(Device) /\ DOMAIN devices = 1..n
  <2>1. devices \in [1..n -> Device]
    BY <1>7, <1>9
  <2>2. n \in Nat
    BY <1>10
  <2> QED BY <2>1, <2>2
<1>12. devices # <<>>
  BY <1>10, <1>11
<1>13. \A i \in 1..n :
         /\ devices[i].path = order[i]
         /\ devices[i].file = node[order[i]]
         /\ devices[i].grabbed = FALSE
  BY <1>7, <1>9
<1>14. TypeOK
  <2>1. \A p \in Paths : plugged[p] \in 0..MaxPlugs[p] /\ node[p] \in 0..plugged[p]
    BY <1>6, EvdevAssumption
  <2>2. node \in [Paths -> Nat] /\ plugged \in [Paths -> Nat]
    BY <1>6
  <2>3. setup \in Setups /\ readable \subseteq Paths /\ stage \in Stages
    BY DEF Init, Stages
  <2>4. /\ unsettled \in Nat /\ uevent \in BOOLEAN /\ next \in Nat
        /\ grabbed \in BOOLEAN /\ due \in BOOLEAN
        /\ found \subseteq Paths /\ scanned \subseteq Paths
    BY DEF Init
  <2> QED BY <1>6, <1>11, <2>1, <2>2, <2>3, <2>4 DEF TypeOK
<1>15. OneDevicePerPath
  BY <1>4, <1>13, <1>11 DEF OneDevicePerPath
<1>16. FilesWerePlugged
  <2>1. \A i \in 1..n : node[order[i]] \in {0, 1} /\ node[order[i]] # 0
    BY <1>5, <1>6
  <2> QED BY <1>6, <1>13, <1>11, <2>1 DEF FilesWerePlugged
<1>17. ArmedInGrabMode
  BY DEF ArmedInGrabMode, Init
<1>18. GrabsFollowTheFlag
  BY <1>11, <1>13 DEF GrabsFollowTheFlag, Init
<1> QED BY <1>12, <1>14, <1>15, <1>16, <1>17, <1>18 DEF IInv

\* Steps that leave the list as it is.
LEMMA Untouched ==
  ASSUME TypeOK, devices' = devices
  PROVE  devices' \in Seq(Device) /\ InPlaceStep /\ GrabsKept
BY DEF TypeOK, InPlaceStep, GrabsKept

\* Steps that neither plug nor open a device nor change a grab.
LEMMA QuietStep ==
  ASSUME IInv, Running' => Running, UNCHANGED <<env, node, plugged, grabbed>>,
         devices' \in Seq(Device), InPlaceStep, GrabsKept,
         unsettled' \in Nat, uevent' \in BOOLEAN, next' \in Nat, due' \in BOOLEAN,
         skipped' \subseteq Paths, found' \subseteq Paths, scanned' \subseteq Paths,
         stage' \in Stages
  PROVE  IInv'
<1>1. TypeOK'
  BY DEF IInv, TypeOK, env
<1>2. \A p \in Paths : plugged'[p] \in Nat /\ plugged[p] <= plugged'[p]
  BY DEF IInv, TypeOK
<1>3. devices' # <<>> /\ OneDevicePerPath' /\ FilesWerePlugged'
  BY <1>2, PlacesKept
<1>4. ArmedInGrabMode'
  BY DEF IInv, ArmedInGrabMode, env
<1>5. GrabsFollowTheFlag'
  BY FlagKept
<1> QED BY <1>1, <1>3, <1>4, <1>5 DEF IInv

\* A new device at a path gets a number no open file has.
LEMMA PlugStep == ASSUME IInv, NEW path \in Paths, Plug(path) PROVE IInv'
<1>1. /\ plugged' = [plugged EXCEPT ![path] = @ + 1]
      /\ node' = [node EXCEPT ![path] = plugged[path] + 1]
      /\ plugged[path] < MaxPlugs[path]
      /\ UNCHANGED <<env, uevent, devices, next, grabbed, scan, stage>>
      /\ unsettled' \in Nat
  BY DEF Plug, IInv, TypeOK
<1>2. /\ node \in [Paths -> Nat] /\ plugged \in [Paths -> Nat]
      /\ \A p \in Paths : plugged[p] \in 0..MaxPlugs[p] /\ node[p] \in 0..plugged[p]
      /\ \A p \in Paths : MaxPlugs[p] \in Nat
  BY EvdevAssumption DEF IInv, TypeOK
<1>3. /\ node' \in [Paths -> Nat] /\ plugged' \in [Paths -> Nat]
      /\ \A p \in Paths : plugged'[p] \in 0..MaxPlugs[p] /\ node'[p] \in 0..plugged'[p]
      /\ \A p \in Paths : plugged'[p] \in Nat /\ plugged[p] <= plugged'[p]
  BY <1>1, <1>2
<1>4. TypeOK'
  BY <1>1, <1>3 DEF IInv, TypeOK, env, scan
<1>5. devices' \in Seq(Device) /\ InPlaceStep
  BY <1>1, Untouched DEF IInv
<1>6. devices' # <<>> /\ OneDevicePerPath' /\ FilesWerePlugged'
  BY <1>3, <1>5, PlacesKept
<1>7. ArmedInGrabMode'
  BY <1>1 DEF IInv, ArmedInGrabMode, env
<1>8. GrabsFollowTheFlag'
  <2>1. \A i \in DOMAIN devices : Live(devices[i])' => Live(devices[i])
    <3> SUFFICES ASSUME NEW i \in DOMAIN devices, Live(devices[i])' PROVE Live(devices[i])
      OBVIOUS
    <3>1. devices[i].file \in 1..plugged[devices[i].path] /\ devices[i].path \in Paths
      <4>1. devices[i] \in Device
        BY DEF IInv, TypeOK
      <4> QED BY <4>1 DEF IInv, FilesWerePlugged, Device
    <3>2. devices[i].file # plugged[path] + 1 \/ devices[i].path # path
      BY <1>2, <3>1
    <3> QED BY <1>1, <1>2, <3>1, <3>2 DEF Live
  <2> QED BY <1>1, <2>1 DEF IInv, GrabsFollowTheFlag, Running
<1> QED BY <1>4, <1>6, <1>7, <1>8 DEF IInv

\* What is unplugged is nothing the grab has to follow.
LEMMA UnplugStep == ASSUME IInv, NEW path \in Paths, Unplug(path) PROVE IInv'
<1>1. /\ node' = [node EXCEPT ![path] = 0]
      /\ UNCHANGED <<env, plugged, uevent, devices, next, grabbed, scan, stage>>
      /\ unsettled' \in Nat
  BY DEF Unplug, IInv, TypeOK
<1>2. /\ node \in [Paths -> Nat] /\ plugged \in [Paths -> Nat]
      /\ \A p \in Paths : plugged[p] \in 0..MaxPlugs[p] /\ node[p] \in 0..plugged[p]
  BY DEF IInv, TypeOK
<1>3. /\ node' \in [Paths -> Nat]
      /\ \A p \in Paths : plugged[p] \in 0..MaxPlugs[p] /\ node'[p] \in 0..plugged[p]
      /\ \A p \in Paths : plugged'[p] \in Nat /\ plugged[p] <= plugged'[p]
  BY <1>1, <1>2
<1>4. TypeOK'
  BY <1>1, <1>2, <1>3 DEF IInv, TypeOK, env, scan
<1>5. devices' \in Seq(Device) /\ InPlaceStep
  BY <1>1, Untouched DEF IInv
<1>6. devices' # <<>> /\ OneDevicePerPath' /\ FilesWerePlugged'
  BY <1>3, <1>5, PlacesKept
<1>7. ArmedInGrabMode'
  BY <1>1 DEF IInv, ArmedInGrabMode, env
<1>8. GrabsFollowTheFlag'
  <2>1. \A i \in DOMAIN devices : Live(devices[i])' => Live(devices[i])
    <3> SUFFICES ASSUME NEW i \in DOMAIN devices, Live(devices[i])' PROVE Live(devices[i])
      OBVIOUS
    <3>1. devices[i] \in Device
      BY DEF IInv, TypeOK
    <3>2. devices[i].file \in Nat \ {0} /\ devices[i].path \in Paths
      BY <3>1 DEF Device
    <3> QED BY <1>1, <1>2, <3>2 DEF Live
  <2> QED BY <1>1, <2>1 DEF IInv, GrabsFollowTheFlag, Running
<1> QED BY <1>4, <1>6, <1>7, <1>8 DEF IInv

LEMMA InputStep == ASSUME IInv, NEW i \in DOMAIN devices, Input(i) PROVE IInv'
<1>1. /\ devices' = [devices EXCEPT ![i].unread = TRUE]
      /\ UNCHANGED <<env, kernel, next, grabbed, scan, stage>>
  BY DEF Input
<1>2. devices \in Seq(Device) /\ \A j \in DOMAIN devices : devices[j] \in Device
  BY DEF IInv, TypeOK
<1>3. \A j \in DOMAIN devices :
        /\ devices'[j] \in Device
        /\ devices'[j].path = devices[j].path
        /\ devices'[j].file = devices[j].file
        /\ devices'[j].grabbed = devices[j].grabbed
  BY <1>1, <1>2 DEF Device
<1>4. devices' \in [DOMAIN devices -> Device]
  BY <1>1, <1>3
<1>5. devices' \in Seq(Device) /\ DOMAIN devices' = DOMAIN devices
  BY <1>2, <1>4, InPlace
<1>6. InPlaceStep /\ GrabsKept
  BY <1>3, <1>5 DEF InPlaceStep, GrabsKept
<1> QED BY <1>1, <1>5, <1>6, QuietStep DEF IInv, TypeOK, kernel, scan, Running

\* A pass over the devices, whatever it finds.
LEMMA ReadStep ==
  ASSUME IInv, NEW after \in Stages, Running, UNCHANGED <<env, kernel, grabbed, scan>>,
         ReadEvent \/ (ReadNothing /\ stage' = after)
  PROVE  IInv'
<1>1. /\ devices' \in Seq(Device) /\ InPlaceStep /\ GrabsKept /\ next' \in Nat
      /\ stage' \in Stages
  <2>1. CASE ReadEvent
    BY <2>1, ReadEventStep DEF IInv, Stages
  <2>2. CASE ReadNothing /\ stage' = after
    BY <2>2, ReadNothingStep DEF IInv
  <2> QED BY <2>1, <2>2
<1> QED BY <1>1, QuietStep DEF IInv, TypeOK, kernel, scan

LEMMA BeginStep ==
  ASSUME IInv, NEW reconcile \in BOOLEAN, Running, Begin(reconcile)
  PROVE  IInv'
<1>1. UNCHANGED <<env, kernel, next, grabbed, skipped>> /\ due' = FALSE
  BY DEF Begin
<1>2. /\ devices' \in Seq(Device) /\ InPlaceStep /\ GrabsKept
      /\ found' \subseteq Paths /\ scanned' \subseteq Paths /\ stage' \in Stages
  <2>1. CASE setup.all /\ Present = {}
    <3>1. UNCHANGED <<devices, found, scanned>> /\ stage' = "scan_failed"
      BY <2>1 DEF Begin
    <3> QED BY <3>1, Untouched DEF IInv, TypeOK, Stages
  <2>2. CASE ~(setup.all /\ Present = {})
    <3> DEFINE gone == {i \in DOMAIN devices :
                          devices[i].active /\ devices[i].path \notin Present}
    <3>1. /\ scanned' = (IF setup.all THEN Present ELSE watched)
          /\ found' = scanned' /\ stage' = "reopen"
          /\ devices' = Noticed(gone) \/ devices' = devices
      BY <2>2 DEF Begin
    <3>2. scanned' \subseteq Paths
      BY <3>1 DEF Present, IInv, TypeOK
    <3> HIDE DEF gone
    <3>3. devices' \in Seq(Device) /\ InPlaceStep /\ GrabsKept
      <4>1. CASE devices' = devices
        BY <4>1, Untouched DEF IInv
      <4>2. CASE devices' = Noticed(gone)
        BY <4>2, NoticedKeeps DEF IInv, InPlaceStep, GrabsKept
      <4> QED BY <3>1, <4>1, <4>2
    <3> QED BY <3>1, <3>2, <3>3 DEF Stages
  <2> QED BY <2>1, <2>2
<1> QED BY <1>1, <1>2, QuietStep DEF IInv, TypeOK, kernel

\* A device joins the list, or takes its place again, only where no other has
\* its path, and is grabbed from the first if the others are.
LEMMA IncludeStep ==
  ASSUME IInv, NEW path \in Paths, TakesUp(path), Include(path), Running,
         UNCHANGED <<node, plugged, grabbed>>
  PROVE  /\ devices' \in Seq(Device) /\ devices' # <<>>
         /\ OneDevicePerPath' /\ FilesWerePlugged' /\ GrabsFollowTheFlag'
<1> DEFINE new == Opened(path, grabbed /\ setup.canGrab)
<1>1. /\ devices \in Seq(Device) /\ \A j \in DOMAIN devices : devices[j] \in Device
      /\ grabbed \in BOOLEAN /\ node[path] \in Nat \ {0} /\ node[path] \in 1..plugged[path]
      /\ (grabbed /\ setup.canGrab) = grabbed
  <2>1. node[path] \in 0..plugged[path] /\ plugged[path] \in Nat /\ node[path] # 0
    BY DEF TakesUp, IInv, TypeOK
  <2>2. setup.canGrab \in BOOLEAN
    BY EvdevAssumption DEF IInv, TypeOK
  <2> QED BY <2>1, <2>2 DEF IInv, TypeOK, ArmedInGrabMode
<1>2. /\ new \in Device /\ new.path = path /\ new.file = node[path]
      /\ new.grabbed = (grabbed /\ path \in Pointers)
  BY <1>1, OpenedIsDevice
<1> HIDE DEF new
<1>3. PICK k \in DOMAIN devices' :
        /\ devices' \in Seq(Device)
        /\ DOMAIN devices' = DOMAIN devices \cup {k}
        /\ devices'[k] = new
        /\ \A j \in DOMAIN devices : j # k => devices'[j] = devices[j] /\ devices[j].path # path
  <2>1. CASE InactiveAt(path) = {}
    <3>1. devices' = Append(devices, new)
      BY <2>1 DEF Include, new
    <3>2. \A j \in DOMAIN devices : devices[j].path # path
      BY <2>1 DEF InactiveAt, TakesUp, ActiveAt
    <3>3. Len(devices) + 1 \in DOMAIN devices'
      BY <1>1, <1>2, <3>1, Joined
    <3> QED BY <1>1, <1>2, <3>1, <3>2, <3>3, Joined
  <2>2. CASE InactiveAt(path) # {}
    <3>1. PICK i \in InactiveAt(path) : devices' = [devices EXCEPT ![i] = new]
      BY <2>2 DEF Include, new
    <3>2. i \in DOMAIN devices /\ devices[i].path = path
      BY DEF InactiveAt
    <3>3. devices' \in [DOMAIN devices -> Device]
      BY <1>1, <1>2, <3>1
    <3>4. devices' \in Seq(Device) /\ DOMAIN devices' = DOMAIN devices
      BY <1>1, <3>3, InPlace
    <3>5. \A j \in DOMAIN devices : j # i => devices[j].path # path
      BY <3>2 DEF IInv, OneDevicePerPath
    <3>6. /\ DOMAIN devices' = DOMAIN devices \cup {i} /\ devices'[i] = new
          /\ \A j \in DOMAIN devices : j # i => devices'[j] = devices[j]
      BY <3>1, <3>2, <3>4
    <3> QED BY <3>2, <3>4, <3>5, <3>6
  <2> QED BY <2>1, <2>2
<1>4. devices' # <<>>
  BY <1>3
<1>5. OneDevicePerPath'
  BY <1>2, <1>3 DEF IInv, OneDevicePerPath
<1>6. FilesWerePlugged'
  BY <1>1, <1>2, <1>3 DEF IInv, FilesWerePlugged
<1>7. GrabsFollowTheFlag'
  BY <1>1, <1>2, <1>3 DEF IInv, GrabsFollowTheFlag, Live
<1> QED BY <1>3, <1>4, <1>5, <1>6, <1>7

LEMMA AddOrReopenStep ==
  ASSUME IInv, NEW path \in Paths, AddOrReopen(path)
  PROVE  IInv'
<1>1. /\ stage = "reopen" /\ found' = found \ {path} /\ Running
      /\ UNCHANGED <<env, kernel, next, grabbed, due, scanned, stage>>
  BY DEF AddOrReopen, Running
<1>2. CASE TakesUp(path)
  <2>1. Include(path) /\ skipped' = skipped \ {path}
    BY <1>2 DEF AddOrReopen
  <2>2. UNCHANGED <<node, plugged, grabbed>>
    BY <1>1 DEF kernel
  <2>3. /\ devices' \in Seq(Device) /\ devices' # <<>>
        /\ OneDevicePerPath' /\ FilesWerePlugged' /\ GrabsFollowTheFlag'
    BY <1>1, <1>2, <2>1, <2>2, IncludeStep
  <2>4. TypeOK'
    BY <1>1, <2>1, <2>3 DEF IInv, TypeOK, env, kernel
  <2>5. ArmedInGrabMode'
    BY <1>1 DEF IInv, ArmedInGrabMode, env
  <2> QED BY <2>3, <2>4, <2>5 DEF IInv
<1>3. CASE ~TakesUp(path)
  <2>1. devices' = devices /\ skipped' \subseteq skipped \cup {path}
    BY <1>3 DEF AddOrReopen
  <2>2. devices' \in Seq(Device) /\ InPlaceStep /\ GrabsKept
    BY <2>1, Untouched DEF IInv
  <2> QED BY <1>1, <2>1, <2>2, QuietStep DEF IInv, TypeOK, kernel, Running
<1> QED BY <1>2, <1>3

\* Steps that change nothing of the devices but their grabs.
LEMMA Regrabbed ==
  ASSUME IInv, UNCHANGED <<env, kernel, next, scan>>, grabbed' \in BOOLEAN, stage' \in Stages,
         NEW flags \in [DOMAIN devices -> BOOLEAN],
         devices' = [i \in DOMAIN devices |-> [devices[i] EXCEPT !.grabbed = flags[i]]],
         grabbed' => setup.canGrab,
         Running' => \A i \in DOMAIN devices :
           Live(devices[i]) /\ devices[i].path \in Pointers => flags[i] = grabbed'
  PROVE  IInv'
<1>1. devices \in Seq(Device) /\ \A i \in DOMAIN devices : devices[i] \in Device
  BY DEF IInv, TypeOK
<1>2. \A i \in DOMAIN devices :
        /\ devices'[i] \in Device
        /\ devices'[i].path = devices[i].path
        /\ devices'[i].file = devices[i].file
        /\ devices'[i].grabbed = flags[i]
  BY <1>1 DEF Device
<1>3. devices' \in [DOMAIN devices -> Device]
  BY <1>2
<1>4. devices' \in Seq(Device) /\ InPlaceStep
  BY <1>1, <1>2, <1>3, InPlace DEF InPlaceStep
<1>5. TypeOK'
  BY <1>4 DEF IInv, TypeOK, env, kernel, scan
<1>6. \A p \in Paths : plugged'[p] \in Nat /\ plugged[p] <= plugged'[p]
  BY DEF IInv, TypeOK, kernel
<1>7. devices' # <<>> /\ OneDevicePerPath' /\ FilesWerePlugged'
  BY <1>4, <1>6, PlacesKept
<1>8. ArmedInGrabMode'
  BY DEF ArmedInGrabMode, env
<1>9. GrabsFollowTheFlag'
  BY <1>2, <1>4 DEF GrabsFollowTheFlag, InPlaceStep, Live, kernel
<1> QED BY <1>5, <1>7, <1>8, <1>9 DEF IInv

\* An arming that succeeds has grabbed every pointer; one that fails ends the
\* runner.
LEMMA ArmStep == ASSUME IInv, ArmGrab PROVE IInv'
<1>1. setup.canGrab /\ UNCHANGED <<env, kernel, next, scan>>
  BY DEF ArmGrab
<1>2. \A i \in DOMAIN devices : devices[i].grabbed \in BOOLEAN
  <2>1. \A i \in DOMAIN devices : devices[i] \in Device
    BY DEF IInv, TypeOK
  <2> QED BY <2>1 DEF Device
<1>3. CASE \A i \in DOMAIN devices : ~GrabRefused(i)
  <2> DEFINE flags == [i \in DOMAIN devices |-> devices[i].grabbed \/ Grabs(i)]
  <2>1. /\ devices' = [i \in DOMAIN devices |-> [devices[i] EXCEPT !.grabbed = flags[i]]]
        /\ grabbed' = (\E i \in DOMAIN devices : Grabs(i))
        /\ stage' = "wait"
    BY <1>3 DEF ArmGrab
  <2>2. flags \in [DOMAIN devices -> BOOLEAN] /\ grabbed' \in BOOLEAN
    BY <1>2, <2>1 DEF Grabs
  <2>3. \A i \in DOMAIN devices : devices[i].path \in Pointers => flags[i] = grabbed'
    BY <2>1 DEF Grabs
  <2> HIDE DEF flags
  <2> QED BY <1>1, <2>1, <2>2, <2>3, Regrabbed DEF Stages
<1>4. CASE \E i \in DOMAIN devices : GrabRefused(i)
  <2>1. PICK i \in DOMAIN devices :
          /\ devices' = [j \in DOMAIN devices |->
                            [devices[j] EXCEPT !.grabbed = @ \/ (j < i /\ Grabs(j))]]
          /\ stage' = "grab_failed" /\ grabbed' = grabbed
    BY <1>4 DEF ArmGrab
  <2> DEFINE flags == [j \in DOMAIN devices |-> devices[j].grabbed \/ (j < i /\ Grabs(j))]
  <2>2. devices' = [j \in DOMAIN devices |-> [devices[j] EXCEPT !.grabbed = flags[j]]]
    BY <2>1
  <2>3. flags \in [DOMAIN devices -> BOOLEAN]
    BY <1>2 DEF Grabs
  <2>4. ~Running' /\ stage' \in Stages /\ grabbed' \in BOOLEAN
    BY <2>1 DEF Running, Stages, IInv, TypeOK
  <2> HIDE DEF flags
  <2> QED BY <1>1, <2>2, <2>3, <2>4, Regrabbed
<1> QED BY <1>3, <1>4

LEMMA ReleaseStep == ASSUME IInv, ReleaseGrab PROVE IInv'
<1> DEFINE flags == [i \in DOMAIN devices |-> devices[i].grabbed /\ ~Live(devices[i])]
<1>1. /\ devices' = [i \in DOMAIN devices |-> [devices[i] EXCEPT !.grabbed = flags[i]]]
      /\ grabbed' = FALSE /\ stage' = "wait"
      /\ UNCHANGED <<env, kernel, next, scan>>
  BY DEF ReleaseGrab
<1>2. flags \in [DOMAIN devices -> BOOLEAN]
  BY DEF Live
<1>3. \A i \in DOMAIN devices : Live(devices[i]) => flags[i] = FALSE
  OBVIOUS
<1> HIDE DEF flags
<1> QED BY <1>1, <1>2, <1>3, Regrabbed DEF Stages

\* Every step keeps the invariant.
LEMMA Inductive == IInv /\ [Next]_vars => IInv'
<1> SUFFICES ASSUME IInv, [Next]_vars PROVE IInv'
  OBVIOUS
<1>1. CASE ReadFirst
  BY <1>1, ReadStep DEF ReadFirst, Stages, Running
<1>2. CASE ReadAgain
  BY <1>2, ReadStep DEF ReadAgain, Stages, Running
<1>3. CASE Poll
  <2>1. /\ UNCHANGED <<env, node, plugged, unsettled, devices, next, grabbed, scan>>
        /\ uevent' = FALSE /\ stage' \in Stages /\ Running
    BY <1>3 DEF Poll, AfterPoll, Stages, Running
  <2> QED BY <2>1, Untouched, QuietStep DEF IInv, TypeOK, scan
<1>4. CASE Reconcile
  BY <1>4, BeginStep DEF Reconcile, Running
<1>5. CASE RescanIfDue
  <2>1. CASE Begin(FALSE)
    BY <1>5, <2>1, BeginStep DEF RescanIfDue, Running
  <2>2. CASE stage' = "retry" /\ UNCHANGED <<env, kernel, devices, next, grabbed, scan>>
    BY <1>5, <2>2, Untouched, QuietStep DEF RescanIfDue, IInv, TypeOK, kernel, scan, Running, Stages
  <2> QED BY <1>5, <2>1, <2>2 DEF RescanIfDue
<1>6. CASE EndRescan
  BY <1>6, Untouched, QuietStep DEF EndRescan, IInv, TypeOK, kernel, Running, Stages
<1>7. CASE \E path \in Paths : AddOrReopen(path)
  BY <1>7, AddOrReopenStep
<1>8. CASE ArmGrab
  BY <1>8, ArmStep
<1>9. CASE ReleaseGrab
  BY <1>9, ReleaseStep
<1>10. CASE OtherEvent
  BY <1>10, Untouched, QuietStep DEF OtherEvent, IInv, TypeOK, kernel, scan, Running, Stages
<1>11. CASE \E path \in Paths : Plug(path) \/ Unplug(path)
  BY <1>11, PlugStep, UnplugStep
<1>12. CASE Announce
  BY <1>12, Untouched, QuietStep DEF Announce, IInv, TypeOK, scan, Running
<1>13. CASE IntervalPasses
  BY <1>13, Untouched, QuietStep DEF IntervalPasses, IInv, TypeOK, kernel, Running
<1>14. CASE \E i \in DOMAIN devices : Input(i)
  BY <1>14, InputStep
<1>15. CASE UNCHANGED vars
  BY <1>15, Untouched, QuietStep DEF vars, IInv, TypeOK, kernel, scan, Running
<1> QED BY <1>1, <1>2, <1>3, <1>4, <1>5, <1>6, <1>7, <1>8, <1>9, <1>10, <1>11, <1>12,
           <1>13, <1>14, <1>15 DEF Next, Provider, Environment

LEMMA Invariant == Spec => []IInv
BY Initially, Inductive, PTL DEF Spec

\* However the devices come and go, a path has one place in the list that
\* add_or_reopen_device keeps; and while the runner runs, the pointers that are
\* plugged are grabbed exactly when the provider is armed, those plugged meanwhile
\* included.  For every number of paths and plugs.
THEOREM ProviderIsSound == Spec => []Inv
<1>1. IInv => Inv
  BY DEF IInv, Inv
<1> QED BY <1>1, Invariant, PTL
=============================================================================
