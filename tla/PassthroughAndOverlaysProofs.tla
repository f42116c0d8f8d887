--------------------- MODULE PassthroughAndOverlaysProofs ---------------------
(* The two ends of the runner's desktop.  How a grab and a session end, how  *)
(* often an event arrives, and what macros leave down, for every set of      *)
(* devices, keys and macros and every backlog; and what the overlays show,   *)
(* for every script, window, screen and bound of the times.                  *)
EXTENDS InputPassthrough, Overlays, FiniteSetTheorems, SequenceTheorems, WellFoundedInduction, TLAPS

\* What the kernel holds of a device is the device's own, and an unplugged
\* device has nothing to read.
QueuesOwned ==
  \A d \in Devices :
    /\ \A i \in DOMAIN queue[d] : queue[d][i].key \in KeysOf[d]
    /\ d \notin plugged => queue[d] = <<>>

LastLeader(d, i) ==
  /\ i \in DOMAIN queue[d] /\ queue[d][i].key = Leader
  /\ \A j \in DOMAIN queue[d] : j > i => queue[d][j].key # Leader

\* The last leader event of a device that is still to be read says whether its
\* leader is down now: the reason why a press that arms the grab is followed by
\* the release that lifts it.
LastLeaderTells ==
  session # "closed" =>
    \A d \in Devices : \A i \in DOMAIN queue[d] :
      LastLeader(d, i) => (queue[d][i].press <=> Leader \in down[d])

\* Only an armed provider grabs.
UnarmedGrabsNothing == session = "open" /\ ~armed => grabbed = {}

IInv ==
  /\ TypeOK /\ QueuesOwned /\ LastLeaderTells /\ UnarmedGrabsNothing
  /\ GrabEndsWithLeader /\ NothingOutlivesTheSession

-----------------------------------------------------------------------------
LEMMA Initially == Init => IInv
  <1> SUFFICES ASSUME Init PROVE IInv
    OBVIOUS
  <1>1. \A d \in Devices : queue[d] = <<>> /\ down[d] = {} /\ seat[d] = {}
    BY DEF Init
  <1>2. TypeOK
    <2>1. <<>> \in Seq(Event) /\ Len(<<>>) <= MaxBacklog
      BY PassthroughAssumption
    <2>2. down \in [Devices -> SUBSET Keys] /\ seat \in [Devices -> SUBSET Keys]
          /\ queue \in [Devices -> Seq(Event)]
      BY <2>1 DEF Init
    <2>3. \A d \in Devices : down[d] \subseteq KeysOf[d] /\ seat[d] \subseteq KeysOf[d]
                           /\ Len(queue[d]) <= MaxBacklog
      BY <1>1, <2>1
    <2> QED
      BY <2>2, <2>3 DEF Init, TypeOK, Outputs
  <1>3. QueuesOwned /\ LastLeaderTells
    BY <1>1 DEF QueuesOwned, LastLeaderTells
  <1> QED
    BY <1>2, <1>3 DEF Init, IInv, UnarmedGrabsNothing, GrabEndsWithLeader, grabbed,
                      NothingOutlivesTheSession

\* Steps that leave the devices, the grab and the session alone.
LEMMA MacroSteps ==
  ASSUME IInv, \/ \E m \in Macros : Execute(m)
               \/ Write
               \/ UNCHANGED vars
  PROVE  IInv'
  <1>1. UNCHANGED <<user, provider, seat, session>> /\ output' \in Outputs
    BY DEF Execute, Write, vars, macros, IInv, TypeOK, Outputs
  <1>2. session = "closed" => virtual' = virtual
    BY DEF Execute, Write, vars
  <1>3. TypeOK' /\ QueuesOwned' /\ LastLeaderTells' /\ GrabEndsWithLeader' /\ UnarmedGrabsNothing'
    BY <1>1 DEF user, provider, IInv, TypeOK, QueuesOwned, LastLeaderTells, LastLeader,
                GrabEndsWithLeader, UnarmedGrabsNothing, grabbed, Lifts
  <1> QED
    BY <1>1, <1>2, <1>3 DEF user, provider, IInv, NothingOutlivesTheSession, grabbed

\* The loop ends with an error: nothing is promised of the grab until Close.
LEMMA Failures ==
  ASSUME IInv, (\E m \in Macros : Refuse(m)) \/ WriteFails
  PROVE  IInv'
  <1>1. UNCHANGED <<user, provider, seat, output>> /\ session' = "failed" /\ session # "closed"
    BY DEF Refuse, WriteFails, macros
  <1> QED
    BY <1>1 DEF user, provider, IInv, TypeOK, QueuesOwned, LastLeaderTells, LastLeader,
                UnarmedGrabsNothing, GrabEndsWithLeader, NothingOutlivesTheSession

LEMMA CloseStep ==
  ASSUME IInv, Close
  PROVE  IInv'
  <1>1. \A d \in Devices : queue'[d] = <<>>
    BY DEF Close
  <1>2. queue' \in [Devices -> Seq(Event)] /\ \A d \in Devices : Len(queue'[d]) <= MaxBacklog
    BY <1>1, PassthroughAssumption DEF Close
  <1>3. TypeOK'
    BY <1>2 DEF Close, IInv, TypeOK, user
  <1>4. QueuesOwned'
    BY <1>1 DEF QueuesOwned
  <1>5. LastLeaderTells' /\ UnarmedGrabsNothing' /\ GrabEndsWithLeader' /\ NothingOutlivesTheSession'
    BY DEF Close, Lifted, LastLeaderTells, UnarmedGrabsNothing, GrabEndsWithLeader, grabbed,
           NothingOutlivesTheSession
  <1> QED
    BY <1>3, <1>4, <1>5 DEF IInv

-----------------------------------------------------------------------------
\* What a finger does, the kernel appends to its device's buffer.
LEMMA HappenStep ==
  ASSUME IInv, NEW d \in Devices, NEW key \in KeysOf[d], Happen(d, key)
  PROVE  IInv'
  <1>  DEFINE press == key \notin down[d]
              e == [key |-> key, press |-> press, direct |-> d \notin grabbed]
  <1>1. /\ UNCHANGED <<plugged, armed, marked, session, virtual, output>> /\ d \in plugged
        /\ grabbed' = grabbed
    BY DEF Happen, macros, grabbed
  <1>2. key \in Keys /\ e \in Event /\ e.key = key /\ e.press = press
    BY DEF Keys, Event
  <1>3. down' = [down EXCEPT ![d] = Struck(@, key, press)]
        /\ seat' \in {seat, [seat EXCEPT ![d] = Struck(@, key, press)]}
    BY DEF Happen
  <1>4. queue' = IF session = "closed" THEN queue ELSE [queue EXCEPT ![d] = Append(queue[d], e)]
    BY DEF Happen
  <1>4a. Len(queue[d]) < MaxBacklog
    BY DEF Happen
  <1> HIDE DEF e
  <1>5. down' \in [Devices -> SUBSET Keys] /\ seat' \in [Devices -> SUBSET Keys]
        /\ \A x \in Devices : down'[x] \subseteq KeysOf[x] /\ seat'[x] \subseteq KeysOf[x]
    <2>1. \A keys \in SUBSET Keys : Struck(keys, key, press) \in SUBSET Keys
      BY <1>2 DEF Struck
    <2>2. \A keys \in SUBSET KeysOf[d] : Struck(keys, key, press) \in SUBSET KeysOf[d]
      BY DEF Struck
    <2>3. down[d] \in SUBSET KeysOf[d] /\ seat[d] \in SUBSET KeysOf[d]
          /\ down[d] \in SUBSET Keys /\ seat[d] \in SUBSET Keys
      BY DEF IInv, TypeOK
    <2> HIDE DEF press
    <2> QED
      BY <1>3, <2>1, <2>2, <2>3 DEF IInv, TypeOK
  <1>6. queue[d] \in Seq(Event) /\ Len(queue[d]) \in Nat /\ MaxBacklog \in Nat
    BY PassthroughAssumption DEF IInv, TypeOK
  <1>7. queue' \in [Devices -> Seq(Event)] /\ \A x \in Devices : Len(queue'[x]) <= MaxBacklog
    <2>1. Append(queue[d], e) \in Seq(Event) /\ Len(Append(queue[d], e)) <= MaxBacklog
      BY <1>2, <1>4a, <1>6
    <2>2. CASE session = "closed"
      BY <1>4, <2>2 DEF IInv, TypeOK
    <2>3. CASE session # "closed"
      <3>1. queue' = [queue EXCEPT ![d] = Append(queue[d], e)]
        BY <1>4, <2>3
      <3> QED
        BY <2>1, <3>1 DEF IInv, TypeOK
    <2> QED
      BY <2>2, <2>3
  <1>8. TypeOK'
    BY <1>1, <1>5, <1>7 DEF IInv, TypeOK
  <1>9. session # "closed" =>
          /\ queue'[d] = Append(queue[d], e)
          /\ \A x \in Devices \ {d} : queue'[x] = queue[x] /\ down'[x] = down[x]
          /\ DOMAIN queue'[d] = DOMAIN queue[d] \cup {Len(queue[d]) + 1}
          /\ \A i \in DOMAIN queue[d] : queue'[d][i] = queue[d][i] /\ i < Len(queue[d]) + 1
          /\ queue'[d][Len(queue[d]) + 1] = e
    <2> SUFFICES ASSUME session # "closed"
                 PROVE  /\ queue'[d] = Append(queue[d], e)
                        /\ \A x \in Devices \ {d} : queue'[x] = queue[x] /\ down'[x] = down[x]
                        /\ DOMAIN Append(queue[d], e) = DOMAIN queue[d] \cup {Len(queue[d]) + 1}
                        /\ \A i \in DOMAIN queue[d] :
                             Append(queue[d], e)[i] = queue[d][i] /\ i < Len(queue[d]) + 1
                        /\ Append(queue[d], e)[Len(queue[d]) + 1] = e
      OBVIOUS
    <2>1. queue' = [queue EXCEPT ![d] = Append(queue[d], e)]
      BY <1>4
    <2>2. queue'[d] = Append(queue[d], e) /\ \A x \in Devices \ {d} : queue'[x] = queue[x]
      BY <2>1 DEF IInv, TypeOK
    <2>3. \A x \in Devices \ {d} : down'[x] = down[x]
      BY <1>3 DEF IInv, TypeOK
    <2>4. /\ DOMAIN Append(queue[d], e) = 1..(Len(queue[d]) + 1)
          /\ DOMAIN queue[d] = 1..Len(queue[d])
          /\ 1..(Len(queue[d]) + 1) = 1..Len(queue[d]) \cup {Len(queue[d]) + 1}
      BY <1>2, <1>6
    <2>5. /\ \A i \in DOMAIN queue[d] :
               Append(queue[d], e)[i] = queue[d][i] /\ i < Len(queue[d]) + 1
          /\ Append(queue[d], e)[Len(queue[d]) + 1] = e
      BY <1>2, <1>6
    <2> QED
      BY <2>2, <2>3, <2>4, <2>5
  <1>10. QueuesOwned'
    <2>1. CASE session = "closed"
      BY <1>1, <1>4, <2>1 DEF IInv, QueuesOwned
    <2>2. CASE session # "closed"
      BY <1>1, <1>2, <1>9, <2>2 DEF IInv, QueuesOwned
    <2> QED
      BY <2>1, <2>2
  <1>11. Leader \in down'[d] <=> IF key = Leader THEN press ELSE Leader \in down[d]
    BY <1>3 DEF Struck, IInv, TypeOK
  <1>12. LastLeaderTells'
    <2> SUFFICES ASSUME session' # "closed", NEW x \in Devices, NEW i \in DOMAIN queue'[x],
                        LastLeader(x, i)'
                 PROVE  queue'[x][i].press <=> Leader \in down'[x]
      BY DEF LastLeaderTells
    <2>1. CASE x # d
      BY <1>1, <1>9, <2>1 DEF IInv, LastLeaderTells, LastLeader
    <2>2. CASE x = d /\ key = Leader
      <3>1. i = Len(queue[d]) + 1
        BY <1>1, <1>2, <1>6, <1>9, <2>2 DEF LastLeader
      <3> QED
        BY <1>1, <1>2, <1>9, <1>11, <2>2, <3>1
    <2>3. CASE x = d /\ key # Leader
      <3>1. i \in DOMAIN queue[d]
        BY <1>1, <1>2, <1>9, <2>3 DEF LastLeader
      <3>2. LastLeader(d, i)
        BY <1>1, <1>9, <2>3, <3>1 DEF LastLeader
      <3> QED
        BY <1>1, <1>9, <1>11, <2>3, <3>1, <3>2 DEF IInv, LastLeaderTells
    <2> QED
      BY <2>1, <2>2, <2>3
  <1>13. GrabEndsWithLeader'
    <2> SUFFICES ASSUME session' = "open", grabbed' # {}
                 PROVE  \E x \in Devices : Leader \in KeysOf[x] /\ ~Lifts(x)'
      BY DEF GrabEndsWithLeader
    <2>1. PICK x \in Devices : Leader \in KeysOf[x] /\ ~Lifts(x)
      BY <1>1 DEF IInv, GrabEndsWithLeader
    <2>2. CASE x # d
      BY <1>1, <1>9, <2>1, <2>2 DEF Lifts
    <2>3. CASE x = d /\ key = Leader
      BY <1>1, <1>2, <1>9, <2>1, <2>3 DEF Lifts
    <2>4. CASE x = d /\ key # Leader
      <3>1. ~(x \in plugged /\ Leader \notin down[x]
              /\ \A i \in DOMAIN queue[x] : queue[x][i].key # Leader)
        BY <2>1 DEF Lifts
      <3> QED
        BY <1>1, <1>9, <1>11, <2>1, <2>4, <3>1 DEF Lifts
    <2> QED
      BY <2>2, <2>3, <2>4
  <1>14. UnarmedGrabsNothing' /\ NothingOutlivesTheSession'
    BY <1>1 DEF IInv, UnarmedGrabsNothing, NothingOutlivesTheSession
  <1> QED
    BY <1>8, <1>10, <1>12, <1>13, <1>14 DEF IInv

\* An unplugged device loses what was to be read of it, and its grab.
LEMMA UnplugStep ==
  ASSUME IInv, NEW d \in Devices, Unplug(d)
  PROVE  IInv'
  <1>1. /\ plugged' = plugged \ {d} /\ grabbed' = grabbed \ {d}
        /\ down' = [down EXCEPT ![d] = {}] /\ seat' = [seat EXCEPT ![d] = {}]
        /\ queue' = [queue EXCEPT ![d] = <<>>]
        /\ UNCHANGED <<armed, marked, output, virtual, session>>
    BY DEF Unplug, macros, grabbed
  <1>2. \A x \in Devices : queue'[x] = (IF x = d THEN <<>> ELSE queue[x])
                        /\ down'[x] = (IF x = d THEN {} ELSE down[x])
    BY <1>1 DEF IInv, TypeOK
  <1>3. <<>> \in Seq(Event) /\ Len(<<>>) <= MaxBacklog /\ DOMAIN <<>> = {}
    BY PassthroughAssumption
  <1>4. TypeOK'
    BY <1>1, <1>2, <1>3 DEF IInv, TypeOK
  <1>5. QueuesOwned' /\ LastLeaderTells'
    BY <1>1, <1>2, <1>3 DEF IInv, QueuesOwned, LastLeaderTells, LastLeader
  <1>6. GrabEndsWithLeader'
    BY <1>1, <1>2 DEF IInv, GrabEndsWithLeader, Lifts
  <1>7. UnarmedGrabsNothing' /\ NothingOutlivesTheSession'
    BY <1>1 DEF IInv, UnarmedGrabsNothing, NothingOutlivesTheSession
  <1> QED
    BY <1>4, <1>5, <1>6, <1>7 DEF IInv

-----------------------------------------------------------------------------
\* Reading takes the head of one buffer and moves the rest up by one place.
LEMMA Shifts ==
  ASSUME IInv, NEW d \in Devices, queue[d] # <<>>, queue' = [queue EXCEPT ![d] = Tail(@)],
         session # "closed", session' # "closed", UNCHANGED user
  PROVE  /\ queue' \in [Devices -> Seq(Event)]
         /\ \A x \in Devices : Len(queue'[x]) <= MaxBacklog
         /\ QueuesOwned' /\ LastLeaderTells'
         /\ \A x \in Devices \ {d} : Lifts(x)' = Lifts(x)
         /\ \A i \in DOMAIN queue[d] : i # 1 =>
              i - 1 \in DOMAIN queue'[d] /\ queue'[d][i - 1] = queue[d][i]
         /\ Head(queue[d]) = queue[d][1] /\ 1 \in DOMAIN queue[d]
  <1>1. queue[d] \in Seq(Event) /\ Len(queue[d]) \in Nat \ {0} /\ MaxBacklog \in Nat
    BY PassthroughAssumption DEF IInv, TypeOK
  <1>2. /\ Tail(queue[d]) \in Seq(Event) /\ Len(Tail(queue[d])) = Len(queue[d]) - 1
        /\ \A i \in 1..(Len(queue[d]) - 1) : Tail(queue[d])[i] = queue[d][i + 1]
        /\ Head(queue[d]) = queue[d][1]
    BY <1>1
  <1>3. queue'[d] = Tail(queue[d]) /\ \A x \in Devices \ {d} : queue'[x] = queue[x]
    BY DEF IInv, TypeOK
  <1>4. DOMAIN queue[d] = 1..Len(queue[d]) /\ DOMAIN queue'[d] = 1..(Len(queue[d]) - 1)
    <2>1. queue'[d] \in Seq(Event) /\ Len(queue'[d]) = Len(queue[d]) - 1
      BY <1>2, <1>3
    <2> QED
      BY <1>1, <2>1
  <1>5. /\ queue' \in [Devices -> Seq(Event)]
        /\ \A x \in Devices : Len(queue'[x]) <= MaxBacklog
    BY <1>1, <1>2, <1>3 DEF IInv, TypeOK
  <1>6. \A i \in DOMAIN queue'[d] : i + 1 \in DOMAIN queue[d] /\ queue'[d][i] = queue[d][i + 1]
    BY <1>1, <1>2, <1>3, <1>4
  <1>7. \A i \in DOMAIN queue[d] : i # 1 =>
          i - 1 \in DOMAIN queue'[d] /\ queue'[d][i - 1] = queue[d][i]
    BY <1>1, <1>2, <1>3, <1>4
  <1>8. QueuesOwned'
    BY <1>1, <1>3, <1>6 DEF user, IInv, QueuesOwned
  <1>9. LastLeaderTells'
    <2> SUFFICES ASSUME session' # "closed", NEW x \in Devices, NEW i \in DOMAIN queue'[x],
                        LastLeader(x, i)'
                 PROVE  queue'[x][i].press <=> Leader \in down'[x]
      BY DEF LastLeaderTells
    <2>1. CASE x # d
      BY <1>3, <2>1 DEF user, IInv, LastLeaderTells, LastLeader
    <2>2. CASE x = d
      <3>1. i + 1 \in DOMAIN queue[d] /\ queue'[d][i] = queue[d][i + 1] /\ i \in Nat \ {0}
        BY <1>4, <1>6, <2>2
      <3>2. \A j \in DOMAIN queue[d] : j > i + 1 => queue[d][j].key # Leader
        <4> SUFFICES ASSUME NEW j \in DOMAIN queue[d], j > i + 1
                     PROVE  queue[d][j].key # Leader
          OBVIOUS
        <4>1. j \in Nat /\ j # 1 /\ j - 1 > i
          BY <1>1, <1>4, <3>1
        <4>2. \A k \in DOMAIN queue'[d] : k > i => queue'[d][k].key # Leader
          BY <2>2 DEF LastLeader
        <4>3. j - 1 \in DOMAIN queue'[d] /\ queue'[d][j - 1] = queue[d][j]
          BY <1>7, <4>1
        <4> QED
          BY <4>1, <4>2, <4>3
      <3>3. LastLeader(d, i + 1)
        BY <2>2, <3>1, <3>2 DEF LastLeader
      <3> QED
        BY <2>2, <3>1, <3>3 DEF user, IInv, LastLeaderTells
    <2> QED
      BY <2>1, <2>2
  <1>10. \A x \in Devices \ {d} : Lifts(x)' = Lifts(x)
    BY <1>3 DEF user, Lifts
  <1> QED
    BY <1>1, <1>2, <1>4, <1>5, <1>7, <1>8, <1>9, <1>10

\* The error ends the loop with the event read and nothing done about it.
LEMMA ReadFailsStep ==
  ASSUME IInv, NEW d \in Devices, ReadFails(d)
  PROVE  IInv'
  <1>1. /\ queue[d] # <<>> /\ queue' = [queue EXCEPT ![d] = Tail(@)]
        /\ session = "open" /\ session' = "failed"
        /\ UNCHANGED user /\ UNCHANGED <<armed, seat, output, virtual>>
    BY DEF ReadFails, macros
  <1>2. /\ queue' \in [Devices -> Seq(Event)]
        /\ \A x \in Devices : Len(queue'[x]) <= MaxBacklog
        /\ QueuesOwned' /\ LastLeaderTells'
    BY <1>1, Shifts
  <1>3. marked' \subseteq Pointers
    BY DEF ReadFails, IInv, TypeOK
  <1>4. TypeOK'
    BY <1>1, <1>2, <1>3 DEF user, IInv, TypeOK
  <1> QED
    BY <1>1, <1>2, <1>4 DEF IInv, UnarmedGrabsNothing, GrabEndsWithLeader, NothingOutlivesTheSession

\* A leader's press arms the grab and a leader's release, consumed or not, lifts
\* it; no other event touches it.
LEMMA ReadStep ==
  ASSUME IInv, NEW d \in Devices, NEW consumed \in BOOLEAN, Read(d, consumed)
  PROVE  IInv'
  <1>  DEFINE e == Head(queue[d])
  <1>1. /\ session = "open" /\ queue[d] # <<>> /\ queue' = [queue EXCEPT ![d] = Tail(@)]
        /\ UNCHANGED user /\ UNCHANGED <<seat, output, session>>
    BY DEF Read, macros
  <1>2. /\ queue' \in [Devices -> Seq(Event)]
        /\ \A x \in Devices : Len(queue'[x]) <= MaxBacklog
        /\ QueuesOwned' /\ LastLeaderTells'
        /\ \A x \in Devices \ {d} : Lifts(x)' = Lifts(x)
        /\ \A i \in DOMAIN queue[d] : i # 1 =>
             i - 1 \in DOMAIN queue'[d] /\ queue'[d][i - 1] = queue[d][i]
        /\ e = queue[d][1] /\ 1 \in DOMAIN queue[d]
    BY <1>1, Shifts
  <1>3. e.key \in KeysOf[d]
    BY <1>2 DEF IInv, QueuesOwned
  <1>4. /\ e.key = Leader /\ e.press =>
             armed' = ArmedAfterArm /\ marked' = MarkedAfterArm
        /\ e.key = Leader /\ ~e.press => armed' = FALSE /\ marked' = MarkedAfterRelease
        /\ e.key # Leader => armed' = armed /\ marked' = marked
    BY DEF Read, Ungrabbed
  <1> HIDE DEF e
  <1>5. marked' \subseteq Pointers /\ armed' \in BOOLEAN
    BY <1>4 DEF ArmedAfterArm, MarkedAfterArm, MarkedAfterRelease, IInv, TypeOK
  <1>5a. UNCHANGED plugged /\ (~armed => grabbed = {})
    BY <1>1 DEF user, IInv, UnarmedGrabsNothing
  <1>5b. /\ e.key = Leader /\ ~e.press => grabbed' = {}
         /\ e.key # Leader => grabbed' = grabbed
    BY <1>4, <1>5a DEF grabbed, MarkedAfterRelease
  <1>5c. UnarmedGrabsNothing'
    <2>1. e.key = Leader /\ e.press /\ ~armed' => grabbed' = {}
      BY <1>4, <1>5a DEF grabbed, ArmedAfterArm, MarkedAfterArm
    <2> QED
      BY <1>4, <1>5a, <1>5b, <2>1 DEF UnarmedGrabsNothing
  <1>6. TypeOK'
    BY <1>1, <1>2, <1>5 DEF user, IInv, TypeOK
  <1>7. GrabEndsWithLeader'
    <2> SUFFICES ASSUME grabbed' # {}
                 PROVE  \E x \in Devices : Leader \in KeysOf[x] /\ ~Lifts(x)'
      BY DEF GrabEndsWithLeader
    <2>1. CASE e.key = Leader /\ ~e.press
      BY <1>5b, <2>1
    <2>2. CASE e.key = Leader /\ e.press
      <3>1. CASE \E i \in DOMAIN queue[d] : i # 1 /\ queue[d][i].key = Leader
        BY <1>2, <1>3, <2>2, <3>1 DEF Lifts
      <3>2. CASE \A i \in DOMAIN queue[d] : i # 1 => queue[d][i].key # Leader
        <4>1. LastLeader(d, 1)
          BY <1>2, <2>2, <3>2 DEF LastLeader
        <4>2. Leader \in down[d]
          BY <1>1, <1>2, <2>2, <4>1 DEF IInv, LastLeaderTells
        <4> QED
          BY <1>1, <1>3, <2>2, <4>2 DEF user, Lifts
      <3> QED
        BY <3>1, <3>2
    <2>3. CASE e.key # Leader
      <3>1. PICK x \in Devices : Leader \in KeysOf[x] /\ ~Lifts(x)
        BY <1>1, <1>5b, <2>3 DEF IInv, GrabEndsWithLeader
      <3>2. CASE x # d
        BY <1>2, <3>1, <3>2
      <3>3. CASE x = d
        <4>1. CASE d \notin plugged \/ Leader \in down[d]
          BY <1>1, <3>1, <3>3, <4>1 DEF user, Lifts
        <4>2. CASE \E i \in DOMAIN queue[d] : queue[d][i].key = Leader
          <5>1. PICK i \in DOMAIN queue[d] : queue[d][i].key = Leader
            BY <4>2
          <5>2. i # 1
            BY <1>2, <2>3, <5>1
          <5> QED
            BY <1>2, <3>1, <3>3, <5>1, <5>2 DEF Lifts
        <4> QED
          BY <3>1, <3>3, <4>1, <4>2 DEF Lifts
      <3> QED
        BY <3>2, <3>3
    <2> QED
      BY <2>1, <2>2, <2>3
  <1>8. NothingOutlivesTheSession'
    BY <1>1 DEF NothingOutlivesTheSession
  <1> QED
    BY <1>2, <1>5c, <1>6, <1>7, <1>8 DEF IInv

LEMMA Inductive == IInv /\ [Next]_vars => IInv'
  <1> SUFFICES ASSUME IInv, [Next]_vars PROVE IInv'
    OBVIOUS
  <1>1. ASSUME NEW d \in Devices, NEW key \in KeysOf[d], Happen(d, key) PROVE IInv'
    BY <1>1, HappenStep
  <1>2. ASSUME NEW d \in Devices, Unplug(d) PROVE IInv'
    BY <1>2, UnplugStep
  <1>3. ASSUME NEW d \in Devices, ReadFails(d) PROVE IInv'
    BY <1>3, ReadFailsStep
  <1>4. ASSUME NEW d \in Devices, NEW c \in BOOLEAN, Read(d, c) PROVE IInv'
    BY <1>4, ReadStep
  <1> QED
    BY <1>1, <1>2, <1>3, <1>4, MacroSteps, Failures, CloseStep DEF Next

-----------------------------------------------------------------------------
\* Once every leader is up and its release read, no device is grabbed, however
\* many devices have a leader, whatever consumes its events and in whatever order
\* the buffers are read; and a closed session leaves no grab and no key behind.
THEOREM GrabsAndSessionsEnd == Spec => []Inv
  <1>1. IInv => Inv
    BY DEF IInv, Inv
  <1> QED
    BY <1>1, Initially, Inductive, PTL DEF Spec

\* An event that is read under the grab state it happened under reaches the
\* compositor once, or is consumed: no device's grab is left out of the decision.
THEOREM SteadyEventsOnce == Spec => []SteadyEventsArriveOnce
  <1>1. Init => SteadyEventsArriveOnce
    BY DEF Init, None, SteadyEventsArriveOnce
  <1>2. IInv /\ SteadyEventsArriveOnce /\ [Next]_vars => SteadyEventsArriveOnce'
    <2> SUFFICES ASSUME IInv, SteadyEventsArriveOnce, [Next]_vars
                 PROVE  SteadyEventsArriveOnce'
      OBVIOUS
    <2>1. ASSUME NEW d \in Devices, NEW c \in BOOLEAN, Read(d, c)
          PROVE  SteadyEventsArriveOnce'
      <3>1. Head(queue[d]).direct \in BOOLEAN
        <4>1. queue[d] \in Seq(Event) /\ queue[d] # <<>>
          BY <2>1 DEF Read, IInv, TypeOK
        <4>2. Head(queue[d]) \in Event
          BY <4>1
        <4> QED
          BY <4>2 DEF Event
      <3> QED
        BY <2>1, <3>1 DEF Read, Passes, SteadyEventsArriveOnce
    <2>2. ASSUME seen' = seen PROVE SteadyEventsArriveOnce'
      BY <2>2 DEF SteadyEventsArriveOnce
    <2> QED
      BY <2>1, <2>2 DEF Next, Happen, Unplug, ReadFails, Execute, Refuse, Write, WriteFails,
                        Close, vars
  <1> QED
    BY <1>1, <1>2, Initially, Inductive, PTL DEF Spec

-----------------------------------------------------------------------------
(* What is down on the virtual device.  A write folds Struck over strokes    *)
(* and a text flattens those of its characters: first what the two compute.  *)

\* A key or a character goes down or comes up.
Strokes == [key : Named \union {Shift}, press : BOOLEAN]

\* Induction, for a set of numbers: the least number that is not in S would be
\* the successor of one that is.
LEMMA EveryNumber ==
  ASSUME NEW S \in SUBSET Nat, 0 \in S,
         \A m \in Nat : m # 0 /\ m - 1 \in S => m \in S
  PROVE  S = Nat
  <1> DEFINE T == Nat \ S
  <1>1. IsWellFoundedOn(OpToRel(<, Nat), Nat)
    BY NatLessThanWellFounded
  <1>2. SUFFICES ASSUME T # {} PROVE FALSE
    OBVIOUS
  <1>3. T \in SUBSET Nat
    OBVIOUS
  <1>4. PICK k \in T : \A j \in T : ~(<<j, k>> \in OpToRel(<, Nat))
    <2> HIDE DEF T
    <2> QED
      BY <1>1, <1>2, <1>3, WFMin
  <1>5. \A j \in T : ~(j < k)
    BY <1>3, <1>4 DEF OpToRel
  <1>6. k \in Nat /\ k \notin S /\ k # 0
    BY <1>4
  <1>7. k - 1 \in Nat /\ k - 1 < k
    BY <1>6
  <1>8. k - 1 \in S
    BY <1>5, <1>7
  <1> QED
    BY <1>6, <1>8

\* One stroke more, in the order of the fold: by the greatest position of s.
OneMore(iter, keys, strokes, s) ==
  IF s = {} THEN keys
  ELSE Struck(iter[s \ {Max(s)}], strokes[Max(s)].key, strokes[Max(s)].press)

\* The fold as a function of the set of positions that it has covered.
IsFold(iter, keys, strokes, S) ==
  iter = [s \in SUBSET S |-> OneMore(iter, keys, strokes, s)]

\* What a write leaves down is the fold over all of its positions.
LEMMA WrittenIs ==
  ASSUME NEW keys, NEW strokes
  PROVE  Written(keys, strokes) =
           (CHOOSE iter : IsFold(iter, keys, strokes, DOMAIN strokes))[DOMAIN strokes]
  BY DEF Written, FoldLeft, MapThenFoldSet, IsFold, OneMore

\* The greatest position of a set is the one above the others.
LEMMA MaxIs ==
  ASSUME NEW m \in Nat, NEW s \in SUBSET (1..m), m \in s
  PROVE  Max(s) = m
  <1>1. \A y \in s : m >= y
    OBVIOUS
  <1>2. \A x \in s : (\A y \in s : x >= y) => x = m
    OBVIOUS
  <1> QED
    BY <1>1, <1>2 DEF Max

\* A fold over the first m positions exists, for every m.
LEMMA FoldExists ==
  ASSUME NEW keys, NEW strokes, NEW n \in Nat
  PROVE  \E iter : IsFold(iter, keys, strokes, 1..n)
  <1> DEFINE Good(m) == \E f : IsFold(f, keys, strokes, 1..m)
             S == {m \in Nat : Good(m)}
  <1>1. Good(0)
    <2>  DEFINE f == [s \in SUBSET (1..0) |-> keys]
    <2>1. SUBSET (1..0) = {{}}
      OBVIOUS
    <2>2. \A s \in SUBSET (1..0) : OneMore(f, keys, strokes, s) = keys
      BY <2>1 DEF OneMore
    <2>3. IsFold(f, keys, strokes, 1..0)
      BY <2>2 DEF IsFold
    <2> QED
      BY <2>3
  <1>2. ASSUME NEW m \in Nat, m # 0, Good(m - 1)
        PROVE  Good(m)
    <2>1. PICK f : IsFold(f, keys, strokes, 1..(m - 1))
      BY <1>2
    <2>  DEFINE g == [s \in SUBSET (1..m) |->
                       IF m \in s THEN Struck(f[s \ {m}], strokes[m].key, strokes[m].press)
                       ELSE f[s]]
    <2>2. \A s \in SUBSET (1..m) : m \notin s => s \in SUBSET (1..(m - 1)) /\ g[s] = f[s]
      <3>1. \A i \in 1..m : i # m => i \in 1..(m - 1)
        BY <1>2
      <3> QED
        BY <3>1
    <2>3. \A s \in SUBSET (1..m) : g[s] = OneMore(g, keys, strokes, s)
      <3> SUFFICES ASSUME NEW s \in SUBSET (1..m)
                   PROVE  g[s] = OneMore(g, keys, strokes, s)
        OBVIOUS
      <3>1. CASE m \in s
        <4>1. Max(s) = m /\ s # {}
          BY <3>1, MaxIs
        <4>2. s \ {m} \in SUBSET (1..m) /\ m \notin s \ {m}
          OBVIOUS
        <4>3. g[s \ {m}] = f[s \ {m}]
          BY <4>2, <2>2
        <4>4. g[s] = Struck(f[s \ {m}], strokes[m].key, strokes[m].press)
          BY <3>1
        <4> HIDE DEF g
        <4> QED
          BY <4>1, <4>3, <4>4 DEF OneMore
      <3>2. CASE m \notin s
        <4>1. s \in SUBSET (1..(m - 1)) /\ g[s] = f[s]
          BY <3>2, <2>2
        <4>2. f[s] = OneMore(f, keys, strokes, s)
          BY <4>1, <2>1 DEF IsFold
        <4>3. s \ {Max(s)} \in SUBSET (1..m) /\ m \notin s \ {Max(s)}
          BY <3>2
        <4>4. g[s \ {Max(s)}] = f[s \ {Max(s)}]
          BY <4>3, <2>2
        <4> HIDE DEF g
        <4> QED
          BY <4>1, <4>2, <4>4 DEF OneMore
      <3> QED
        BY <3>1, <3>2
    <2>4. DOMAIN g = SUBSET (1..m) /\ g = [s \in SUBSET (1..m) |-> g[s]]
      OBVIOUS
    <2> HIDE DEF g
    <2>5. IsFold(g, keys, strokes, 1..m)
      BY <2>3, <2>4 DEF IsFold
    <2> QED
      BY <2>5
  <1> HIDE DEF Good
  <1>3. S = Nat
    <2>1. S \in SUBSET Nat /\ 0 \in S
      BY <1>1
    <2>2. \A m \in Nat : m # 0 /\ m - 1 \in S => m \in S
      BY <1>2
    <2> HIDE DEF S
    <2> QED
      BY <2>1, <2>2, EveryNumber
  <1> QED
    BY <1>3 DEF Good

\* A key without a stroke, and one whose last stroke is a press.
Untouched(k, strokes) == \A j \in DOMAIN strokes : strokes[j].key # k
PressedLast(k, strokes) ==
  \E j \in DOMAIN strokes : /\ strokes[j].key = k /\ strokes[j].press
                            /\ \A i \in DOMAIN strokes : i > j => strokes[i].key # k

\* A key that is down after a write was down and has no stroke in it, or its
\* last stroke pressed it.
LEMMA WrittenKeys ==
  ASSUME NEW keys, NEW strokes \in Seq(Strokes), NEW k, k \in Written(keys, strokes)
  PROVE  (k \in keys /\ Untouched(k, strokes)) \/ PressedLast(k, strokes)
  <1> DEFINE n == Len(strokes)
  <1>0. n \in Nat /\ DOMAIN strokes = 1..n
    OBVIOUS
  <1> HIDE DEF n
  <1> DEFINE iter == CHOOSE f : IsFold(f, keys, strokes, 1..n)
  <1>1. Written(keys, strokes) = iter[1..n]
    BY <1>0, WrittenIs
  <1>2. IsFold(iter, keys, strokes, 1..n)
    BY <1>0, FoldExists
  <1> HIDE DEF iter
  <1>3. iter[1..0] = keys
    <2>1. 1..0 = {} /\ {} \in SUBSET (1..n)
      OBVIOUS
    <2> QED
      BY <1>2, <2>1 DEF IsFold, OneMore
  <1>4. ASSUME NEW m \in 1..n
        PROVE  iter[1..m] = Struck(iter[1..(m - 1)], strokes[m].key, strokes[m].press)
    <2>1. m \in Nat /\ 1..m \in SUBSET (1..n) /\ m \in 1..m
      BY <1>0
    <2>2. (1..m) \ {m} = 1..(m - 1)
      <3>1. \A i : i \in 1..m /\ i # m <=> i \in 1..(m - 1)
        BY <2>1
      <3> QED
        BY <3>1
    <2>3. Max(1..m) = m
      BY <2>1, MaxIs
    <2>4. 1..m # {}
      BY <2>1
    <2> QED
      BY <1>2, <2>1, <2>2, <2>3, <2>4 DEF IsFold, OneMore
  <1>  DEFINE Tells(m) == k \in iter[1..m] =>
                \/ k \in keys /\ \A j \in 1..m : strokes[j].key # k
                \/ \E j \in 1..m : /\ strokes[j].key = k /\ strokes[j].press
                                   /\ \A i \in 1..m : i > j => strokes[i].key # k
              S == {m \in Nat : m <= n => Tells(m)}
  <1>5. Tells(0)
    BY <1>3
  <1>6. ASSUME NEW m \in 1..n, Tells(m - 1)
        PROVE  Tells(m)
    <2>1. \A j \in 1..m : j # m => j \in 1..(m - 1)
      BY <1>0
    <2>2. m \in 1..m /\ \A j \in 1..(m - 1) : j \in 1..m /\ j < m
      BY <1>0
    <2>3. CASE strokes[m].key = k
      <3>1. \A i \in 1..m : ~(i > m)
        BY <1>0
      <3>2. k \in iter[1..m] => strokes[m].press
        BY <1>4, <2>3 DEF Struck
      <3> QED
        BY <2>2, <2>3, <3>1, <3>2
    <2>4. CASE strokes[m].key # k
      <3>1. k \in iter[1..m] => k \in iter[1..(m - 1)]
        BY <1>4, <2>4 DEF Struck
      <3> QED
        BY <1>6, <2>1, <2>2, <2>4, <3>1
    <2> QED
      BY <2>3, <2>4
  <1> HIDE DEF Tells
  <1>7. S = Nat
    <2>1. S \in SUBSET Nat /\ 0 \in S
      BY <1>5
    <2>2. \A m \in Nat : m # 0 /\ m - 1 \in S => m \in S
      <3> SUFFICES ASSUME NEW m \in Nat, m # 0, m - 1 \in S, m <= n
                   PROVE  Tells(m)
        OBVIOUS
      <3>1. m \in 1..n /\ m - 1 <= n
        BY <1>0
      <3> QED
        BY <3>1, <1>6
    <2> HIDE DEF S
    <2> QED
      BY <2>1, <2>2, EveryNumber
  <1>8. Tells(n)
    <2>1. n \in S /\ n <= n
      BY <1>0, <1>7
    <2> QED
      BY <2>1
  <1> QED
    BY <1>0, <1>1, <1>8 DEF Tells, Untouched, PressedLast

-----------------------------------------------------------------------------
\* A sequence of strokes that releases every key after it has pressed it.
AllReleased(strokes) ==
  \A i \in DOMAIN strokes : strokes[i].press =>
    \E j \in DOMAIN strokes : j > i /\ strokes[j].key = strokes[i].key

\* The elements of a concatenation, by place.
LEMMA ConcatAt ==
  ASSUME NEW S, NEW a \in Seq(S), NEW b \in Seq(S)
  PROVE  /\ a \o b \in Seq(S) /\ Len(a \o b) = Len(a) + Len(b)
         /\ DOMAIN (a \o b) = 1..(Len(a) + Len(b))
         /\ \A i \in 1..Len(a) : (a \o b)[i] = a[i]
         /\ \A i \in 1..Len(b) : (a \o b)[Len(a) + i] = b[i]
  OBVIOUS

\* A closed sequence after another one.
LEMMA ClosedConcat ==
  ASSUME NEW a \in Seq(Strokes), NEW b \in Seq(Strokes), AllReleased(a), AllReleased(b)
  PROVE  a \o b \in Seq(Strokes) /\ AllReleased(a \o b)
  <1>1. Len(a) \in Nat /\ Len(b) \in Nat /\ DOMAIN a = 1..Len(a) /\ DOMAIN b = 1..Len(b)
        /\ DOMAIN (a \o b) = 1..(Len(a) + Len(b)) /\ a \o b \in Seq(Strokes)
    BY ConcatAt
  <1>2. /\ \A i \in 1..Len(a) : (a \o b)[i] = a[i]
        /\ \A i \in 1..Len(b) : (a \o b)[Len(a) + i] = b[i]
    BY ConcatAt
  <1> DEFINE c == a \o b
  <1> HIDE DEF c
  <1>3. ASSUME NEW i \in DOMAIN c, c[i].press
        PROVE  \E j \in DOMAIN c : j > i /\ c[j].key = c[i].key
    <2>1. CASE i \in 1..Len(a)
      <3>1. PICK j \in 1..Len(a) : j > i /\ a[j].key = a[i].key
        BY <1>1, <1>2, <1>3, <2>1 DEF AllReleased, c
      <3>2. j \in DOMAIN c
        BY <1>1 DEF c
      <3> QED
        BY <1>2, <2>1, <3>1, <3>2 DEF c
    <2>2. CASE i \notin 1..Len(a)
      <3>  DEFINE x == i - Len(a)
      <3>1. x \in 1..Len(b) /\ i = Len(a) + x
        BY <1>1, <2>2 DEF c
      <3> HIDE DEF x
      <3>2. b[x].press
        BY <1>2, <1>3, <3>1 DEF c
      <3>3. PICK y \in 1..Len(b) : y > x /\ b[y].key = b[x].key
        BY <1>1, <3>1, <3>2 DEF AllReleased
      <3>4. Len(a) + y \in DOMAIN c /\ Len(a) + y > i
        BY <1>1, <3>1, <3>3 DEF c
      <3>5. c[Len(a) + y].key = c[i].key
        BY <1>2, <3>1, <3>3 DEF c
      <3> QED
        BY <3>4, <3>5
    <2> QED
      BY <2>1, <2>2
  <1> QED
    BY <1>1, <1>3 DEF AllReleased, c

\* The first n sequences of ss, one after the other.
IsFlat(f, ss, n) == f = [i \in 1..n |-> IF i = 1 THEN ss[i] ELSE f[i - 1] \o ss[i]]

\* The flattening of the first n sequences exists, for every n.
LEMMA FlatExists ==
  ASSUME NEW ss, NEW n \in Nat
  PROVE  \E f : IsFlat(f, ss, n)
  <1> DEFINE S == {m \in Nat : \E f : IsFlat(f, ss, m)}
  <1>1. S \in SUBSET Nat /\ 0 \in S
    <2>  DEFINE f == [i \in 1..0 |-> ss]
    <2>1. 1..0 = {}
      OBVIOUS
    <2>2. IsFlat(f, ss, 0)
      BY <2>1 DEF IsFlat
    <2> QED
      BY <2>2
  <1>2. ASSUME NEW m \in Nat, m # 0, m - 1 \in S
        PROVE  m \in S
    <2>1. PICK f : IsFlat(f, ss, m - 1)
      BY <1>2
    <2>  DEFINE w == IF m = 1 THEN ss[m] ELSE f[m - 1] \o ss[m]
                g == [i \in 1..m |-> IF i = m THEN w ELSE f[i]]
    <2> HIDE DEF w
    <2>2. \A i \in 1..m : /\ i # m => i \in 1..(m - 1)
                          /\ i # 1 => i - 1 \in 1..m /\ i - 1 # m
      BY <1>2
    <2>3. \A i \in 1..m : i # m => f[i] = IF i = 1 THEN ss[i] ELSE f[i - 1] \o ss[i]
      BY <2>1, <2>2 DEF IsFlat
    <2>4. \A i \in 1..m : i # 1 => g[i - 1] = f[i - 1]
      BY <2>2
    <2>5. \A i \in 1..m : g[i] = IF i = 1 THEN ss[i] ELSE g[i - 1] \o ss[i]
      <3>1. ASSUME NEW i \in 1..m, i # m
            PROVE  g[i] = IF i = 1 THEN ss[i] ELSE g[i - 1] \o ss[i]
        <4>1. g[i] = f[i]
          BY <3>1
        <4> HIDE DEF g
        <4> QED
          BY <3>1, <4>1, <2>3, <2>4
      <3>2. m \in 1..m /\ g[m] = w
        BY <1>2
      <3> HIDE DEF g
      <3>3. g[m] = IF m = 1 THEN ss[m] ELSE g[m - 1] \o ss[m]
        BY <3>2, <2>4 DEF w
      <3> QED
        BY <3>1, <3>3
    <2>6. g = [i \in 1..m |-> g[i]]
      OBVIOUS
    <2> HIDE DEF g
    <2>7. IsFlat(g, ss, m)
      BY <2>5, <2>6 DEF IsFlat
    <2> QED
      BY <2>7
  <1>3. \A m \in Nat : m # 0 /\ m - 1 \in S => m \in S
    BY <1>2
  <1>4. S = Nat
    <2> HIDE DEF S
    <2> QED
      BY <1>1, <1>3, EveryNumber
  <1> QED
    BY <1>4

\* Writing closed sequences one after the other is closed.
LEMMA FlattenClosed ==
  ASSUME NEW ss \in Seq(Seq(Strokes)), \A i \in DOMAIN ss : AllReleased(ss[i])
  PROVE  FlattenSeq(ss) \in Seq(Strokes) /\ AllReleased(FlattenSeq(ss))
  <1>1. Len(ss) \in Nat /\ DOMAIN ss = 1..Len(ss)
        /\ \A i \in 1..Len(ss) : ss[i] \in Seq(Strokes) /\ AllReleased(ss[i])
    OBVIOUS
  <1>2. CASE Len(ss) = 0
    <2>1. FlattenSeq(ss) = ss
      BY <1>2 DEF FlattenSeq
    <2>2. ss = <<>> /\ <<>> \in Seq(Strokes) /\ AllReleased(<<>>)
      BY <1>2 DEF AllReleased
    <2> QED
      BY <2>1, <2>2
  <1>3. CASE Len(ss) # 0
    <2>  DEFINE f == CHOOSE f : IsFlat(f, ss, Len(ss))
    <2>1. FlattenSeq(ss) = f[Len(ss)]
      BY <1>3 DEF FlattenSeq, IsFlat
    <2>2. IsFlat(f, ss, Len(ss))
      BY <1>1, FlatExists
    <2> HIDE DEF f
    <2>  DEFINE S == {m \in Nat : m \in 1..Len(ss) => f[m] \in Seq(Strokes) /\ AllReleased(f[m])}
    <2>3. S \in SUBSET Nat /\ 0 \in S
      OBVIOUS
    <2>4. \A m \in Nat : m # 0 /\ m - 1 \in S => m \in S
      <3> SUFFICES ASSUME NEW m \in Nat, m # 0, m - 1 \in S, m \in 1..Len(ss)
                   PROVE  f[m] \in Seq(Strokes) /\ AllReleased(f[m])
        OBVIOUS
      <3>1. f[m] = IF m = 1 THEN ss[m] ELSE f[m - 1] \o ss[m]
        BY <2>2 DEF IsFlat
      <3>2. m # 1 => m - 1 \in 1..Len(ss)
        BY <1>1
      <3> QED
        BY <1>1, <3>1, <3>2, ClosedConcat
    <2>5. S = Nat
      <3> HIDE DEF S
      <3> QED
        BY <2>3, <2>4, EveryNumber
    <2>6. Len(ss) \in S /\ Len(ss) \in 1..Len(ss)
      BY <1>1, <1>3, <2>5
    <2> QED
      BY <2>1, <2>6
  <1> QED
    BY <1>2, <1>3

-----------------------------------------------------------------------------
\* A stroke of a write comes after another one, of that write or of an earlier.
After(i, j, x, y) == x > i \/ (x = i /\ y > j)

\* The stroke ws[i][j] is the last one of its key.
LastStroke(ws, i, j) ==
  \A x \in DOMAIN ws : \A y \in DOMAIN ws[x] :
    After(i, j, x, y) => ws[x][y].key # ws[i][j].key

\* Once the writes ws are done, what is down is owed to the user or to a
\* KeyDown: what is down now is owed, or has a stroke to come; and a press that
\* no stroke follows is owed.
Settles(ws, keys, owed) ==
  /\ \A k \in keys : k \in owed \/ \E i \in DOMAIN ws : \E j \in DOMAIN ws[i] : ws[i][j].key = k
  /\ \A i \in DOMAIN ws : \A j \in DOMAIN ws[i] :
       ws[i][j].press /\ LastStroke(ws, i, j) => ws[i][j].key \in owed

\* A write that is done leaves the rest of the writes to settle what it left down.
LEMMA SettlesStep ==
  ASSUME NEW ws \in Seq(Seq(Strokes)), ws # <<>>, NEW keys, NEW owed, Settles(ws, keys, owed)
  PROVE  Tail(ws) \in Seq(Seq(Strokes)) /\ Settles(Tail(ws), Written(keys, Head(ws)), owed)
  <1> DEFINE n == Len(ws)
             t == Tail(ws)
             h == Head(ws)
             w == Written(keys, h)
  <1>1. /\ n \in Nat \ {0} /\ DOMAIN ws = 1..n
        /\ t \in Seq(Seq(Strokes)) /\ DOMAIN t = 1..(n - 1)
        /\ \A i \in 1..(n - 1) : t[i] = ws[i + 1]
        /\ h = ws[1] /\ h \in Seq(Strokes)
    OBVIOUS
  <1> HIDE DEF n, t, h
  <1>3. \A i \in 1..(n - 1) : i + 1 \in 1..n
    BY <1>1
  <1>4. \A i \in 2..n : i - 1 \in 1..(n - 1) /\ (i - 1) + 1 = i
    BY <1>1
  <1>5. 1 \in 1..n
    BY <1>1
  <1>6. ASSUME NEW k \in w, \A i \in DOMAIN t : \A j \in DOMAIN t[i] : t[i][j].key # k
        PROVE  k \in owed
    <2>1. \A i \in 2..n : \A j \in DOMAIN ws[i] : ws[i][j].key # k
      <3> SUFFICES ASSUME NEW i \in 2..n, NEW j \in DOMAIN ws[i]
                   PROVE  ws[i][j].key # k
        OBVIOUS
      <3>1. i - 1 \in DOMAIN t /\ t[i - 1] = ws[i]
        BY <1>1, <1>4
      <3> QED
        BY <1>6, <3>1
    <2>2. \A i \in 1..n : i # 1 => i \in 2..n
      BY <1>1
    <2>3. CASE k \in keys /\ Untouched(k, h)
      BY <1>1, <2>1, <2>2, <2>3 DEF Settles, Untouched
    <2>4. CASE PressedLast(k, h)
      <3>1. PICK j \in DOMAIN h : /\ h[j].key = k /\ h[j].press
                                  /\ \A i \in DOMAIN h : i > j => h[i].key # k
        BY <2>4 DEF PressedLast
      <3>2. LastStroke(ws, 1, j)
        <4>1. ws[1][j].key = k
          BY <1>1, <3>1
        <4>2. ASSUME NEW x \in DOMAIN ws, NEW y \in DOMAIN ws[x], After(1, j, x, y)
              PROVE  ws[x][y].key # k
          <5>1. CASE x = 1
            <6>1. y > j
              BY <4>2, <5>1 DEF After
            <6>2. y \in DOMAIN h /\ ws[x][y] = h[y]
              BY <1>1, <5>1
            <6> QED
              BY <3>1, <6>1, <6>2
          <5>2. CASE x # 1
            BY <1>1, <2>1, <2>2, <5>2
          <5> QED
            BY <5>1, <5>2
        <4> QED
          BY <4>1, <4>2 DEF LastStroke
      <3> QED
        BY <1>1, <1>5, <3>1, <3>2 DEF Settles
    <2>5. k \in Written(keys, h)
      BY <1>6
    <2> HIDE DEF w
    <2> QED
      BY <1>1, <2>3, <2>4, <2>5, WrittenKeys
  <1>7. ASSUME NEW i \in DOMAIN t, NEW j \in DOMAIN t[i], t[i][j].press, LastStroke(t, i, j)
        PROVE  t[i][j].key \in owed
    <2>1. i \in 1..(n - 1) /\ i + 1 \in 1..n /\ t[i] = ws[i + 1]
      BY <1>1, <1>3
    <2>2. ASSUME NEW x \in DOMAIN ws, NEW y \in DOMAIN ws[x], After(i + 1, j, x, y)
          PROVE  ws[x][y].key # ws[i + 1][j].key
      <3>1. x \in 2..n
        <4>1. x \in 1..n /\ (x > i + 1 \/ x = i + 1)
          BY <1>1, <2>2 DEF After
        <4> QED
          BY <1>1, <2>1, <4>1
      <3>2. x - 1 \in DOMAIN t /\ t[x - 1] = ws[x]
        BY <1>1, <1>4, <3>1
      <3>3. After(i, j, x - 1, y)
        BY <2>1, <2>2, <3>1 DEF After
      <3> QED
        BY <1>7, <2>1, <3>2, <3>3 DEF LastStroke
    <2>3. LastStroke(ws, i + 1, j)
      BY <2>2 DEF LastStroke
    <2> QED
      BY <1>1, <1>7, <2>1, <2>3 DEF Settles
  <1> QED
    BY <1>1, <1>6, <1>7 DEF Settles, t, w, h

\* Writes of closed strokes leave nothing of their own down.
LEMMA ClosedSettles ==
  ASSUME NEW strokes \in Seq(Strokes), AllReleased(strokes), NEW keys, NEW owed, keys \subseteq owed
  PROVE  /\ <<strokes>> \in Seq(Seq(Strokes)) /\ Settles(<<strokes>>, keys, owed)
         /\ Apart(strokes) \in Seq(Seq(Strokes)) /\ Settles(Apart(strokes), keys, owed)
  <1>1. Len(strokes) \in Nat /\ DOMAIN strokes = 1..Len(strokes)
        /\ \A i \in 1..Len(strokes) : strokes[i] \in Strokes
    OBVIOUS
  <1> DEFINE one == <<strokes>>
             ws == Apart(strokes)
  <1>2. DOMAIN one = {1} /\ one[1] = strokes /\ one \in Seq(Seq(Strokes))
    OBVIOUS
  <1>3. /\ ws \in Seq(Seq(Strokes)) /\ DOMAIN ws = DOMAIN strokes
        /\ \A i \in DOMAIN strokes : DOMAIN ws[i] = {1} /\ ws[i][1] = strokes[i]
    <2>1. \A x \in Strokes : <<x>> \in Seq(Strokes) /\ DOMAIN <<x>> = {1} /\ <<x>>[1] = x
      OBVIOUS
    <2>2. ws = [i \in 1..Len(strokes) |-> <<strokes[i]>>]
      BY <1>1 DEF Apart
    <2>3. \A i \in 1..Len(strokes) : ws[i] = <<strokes[i]>>
      BY <2>2
    <2>4. ws \in Seq(Seq(Strokes))
      BY <1>1, <2>1, <2>2
    <2> HIDE DEF ws
    <2>5. DOMAIN ws = DOMAIN strokes
      BY <1>1, <2>2
    <2>6. \A i \in DOMAIN strokes : DOMAIN ws[i] = {1} /\ ws[i][1] = strokes[i]
      BY <1>1, <2>1, <2>3
    <2> QED
      BY <2>4, <2>5, <2>6
  <1> HIDE DEF one, ws
  <1>4. \A i \in DOMAIN strokes : strokes[i].press =>
          \E j \in DOMAIN strokes : j > i /\ strokes[j].key = strokes[i].key
    BY DEF AllReleased
  <1>5. Settles(one, keys, owed)
    <2>1. \A j \in DOMAIN strokes : strokes[j].press => ~LastStroke(one, 1, j)
      BY <1>2, <1>4 DEF LastStroke, After
    <2> QED
      BY <1>2, <2>1 DEF Settles
  <1>6. Settles(ws, keys, owed)
    <2>1. ASSUME NEW i \in DOMAIN strokes, strokes[i].press, LastStroke(ws, i, 1)
          PROVE  FALSE
      <3>1. PICK j \in DOMAIN strokes : j > i /\ strokes[j].key = strokes[i].key
        BY <1>4, <2>1
      <3>2. After(i, 1, j, 1) /\ j \in DOMAIN ws /\ 1 \in DOMAIN ws[j]
        BY <1>3, <3>1 DEF After
      <3>3. ws[j][1].key # ws[i][1].key
        BY <2>1, <3>2 DEF LastStroke
      <3> QED
        BY <1>3, <3>1, <3>3
    <2> QED
      BY <1>3, <2>1 DEF Settles
  <1> QED
    BY <1>2, <1>3, <1>5, <1>6 DEF one, ws

\* A stroke's fields.
LEMMA StrokeIs ==
  ASSUME NEW k \in Named \union {Shift}, NEW p \in BOOLEAN
  PROVE  Stroke(k, p) \in Strokes /\ Stroke(k, p).key = k /\ Stroke(k, p).press = p
  BY DEF Stroke, Strokes

\* A press and its release.
LEMMA TappedClosed ==
  ASSUME NEW k \in Named \union {Shift}
  PROVE  Tapped(k) \in Seq(Strokes) /\ AllReleased(Tapped(k))
  <1> DEFINE a == Stroke(k, TRUE)
             b == Stroke(k, FALSE)
  <1>1. a \in Strokes /\ b \in Strokes /\ a.key = k /\ b.key = k /\ ~b.press
    BY StrokeIs
  <1>2. Tapped(k) = <<a, b>>
    BY DEF Tapped
  <1> HIDE DEF a, b
  <1>3. /\ <<a, b>> \in Seq(Strokes) /\ DOMAIN <<a, b>> = {1, 2}
        /\ <<a, b>>[1] = a /\ <<a, b>>[2] = b
    BY <1>1
  <1> QED
    BY <1>1, <1>2, <1>3 DEF AllReleased

\* Shift, the key, and both up again.
LEMMA ShiftedClosed ==
  ASSUME NEW k \in Named
  PROVE  LET s == <<Stroke(Shift, TRUE)>> \o Tapped(k) \o <<Stroke(Shift, FALSE)>>
         IN  s \in Seq(Strokes) /\ AllReleased(s)
  <1> DEFINE a == Stroke(Shift, TRUE)
             b == Stroke(k, TRUE)
             c == Stroke(k, FALSE)
             d == Stroke(Shift, FALSE)
             s == <<a>> \o <<b, c>> \o <<d>>
  <1>1. /\ a \in Strokes /\ b \in Strokes /\ c \in Strokes /\ d \in Strokes
        /\ a.key = Shift /\ b.key = k /\ c.key = k /\ d.key = Shift
        /\ ~c.press /\ ~d.press
    BY StrokeIs
  <1>2. Tapped(k) = <<b, c>>
    BY DEF Tapped
  <1> HIDE DEF a, b, c, d
  <1>3. /\ <<a>> \in Seq(Strokes) /\ <<b, c>> \in Seq(Strokes) /\ <<d>> \in Seq(Strokes)
        /\ Len(<<a>>) = 1 /\ Len(<<b, c>>) = 2 /\ Len(<<d>>) = 1
        /\ <<a>>[1] = a /\ <<b, c>>[1] = b /\ <<b, c>>[2] = c /\ <<d>>[1] = d
    BY <1>1
  <1>  DEFINE t == <<a>> \o <<b, c>>
  <1>4. t \in Seq(Strokes) /\ Len(t) = 3 /\ t[1] = a /\ t[2] = b /\ t[3] = c
    <2>1. t \in Seq(Strokes) /\ Len(t) = 1 + 2 /\ t[1] = <<a>>[1]
          /\ t[1 + 1] = <<b, c>>[1] /\ t[1 + 2] = <<b, c>>[2]
      BY <1>3, ConcatAt
    <2> QED
      BY <1>3, <2>1
  <1> HIDE DEF t
  <1>5. /\ t \o <<d>> \in Seq(Strokes) /\ DOMAIN (t \o <<d>>) = 1..(3 + 1)
        /\ \A i \in 1..3 : (t \o <<d>>)[i] = t[i]
        /\ (t \o <<d>>)[3 + 1] = d
    <2>1. t \in Seq(Strokes) /\ <<d>> \in Seq(Strokes)
      BY <1>3, <1>4
    <2>2. /\ t \o <<d>> \in Seq(Strokes)
          /\ DOMAIN (t \o <<d>>) = 1..(Len(t) + Len(<<d>>))
          /\ \A i \in 1..Len(t) : (t \o <<d>>)[i] = t[i]
          /\ \A i \in 1..Len(<<d>>) : (t \o <<d>>)[Len(t) + i] = <<d>>[i]
      BY <2>1, ConcatAt
    <2> QED
      BY <1>3, <1>4, <2>2
  <1>6. /\ s \in Seq(Strokes) /\ DOMAIN s = 1..4
        /\ s[1] = a /\ s[2] = b /\ s[3] = c /\ s[4] = d
    BY <1>4, <1>5 DEF t
  <1>7. s \in Seq(Strokes) /\ AllReleased(s)
    <2> HIDE DEF s
    <2>1. \A i \in 1..4 : i = 1 \/ i = 2 \/ i = 3 \/ i = 4
      OBVIOUS
    <2> QED
      BY <1>1, <1>6, <2>1 DEF AllReleased
  <1> QED
    BY <1>2, <1>7 DEF a, b, c, d

\* Every key of a chord goes down in order and comes up in the reverse one.
LEMMA ChordClosed ==
  ASSUME NEW keys \in Seq(Named)
  PROVE  Chord(keys) \in Seq(Strokes) /\ AllReleased(Chord(keys))
  <1> DEFINE n == Len(keys)
             a == [i \in 1..n |-> Stroke(keys[i], TRUE)]
             b == [i \in 1..n |-> Stroke(keys[n + 1 - i], FALSE)]
             c == Chord(keys)
  <1>1. n \in Nat /\ \A i \in 1..n : keys[i] \in Named \union {Shift}
    OBVIOUS
  <1>2. \A i \in 1..n : n + 1 - i \in 1..n
    BY <1>1
  <1>3. \A i \in 1..n : /\ a[i] \in Strokes /\ a[i].key = keys[i]
                        /\ b[i] \in Strokes /\ b[i].key = keys[n + 1 - i] /\ ~b[i].press
    BY <1>1, <1>2, StrokeIs
  <1>4. a \in Seq(Strokes) /\ b \in Seq(Strokes) /\ Len(a) = n /\ Len(b) = n
    <2> HIDE DEF n
    <2>1. \A i \in 1..n : Stroke(keys[i], TRUE) \in Strokes
                        /\ Stroke(keys[n + 1 - i], FALSE) \in Strokes
      BY <1>1, <1>2, StrokeIs
    <2>2. a \in [1..n -> Strokes] /\ b \in [1..n -> Strokes]
      BY <2>1
    <2> HIDE DEF a, b
    <2>3. n \in Nat
      BY <1>1
    <2>4. a \in Seq(Strokes) /\ Len(a) = n
      BY <2>2, <2>3
    <2>5. b \in Seq(Strokes) /\ Len(b) = n
      BY <2>2, <2>3
    <2> QED
      BY <2>4, <2>5
  <1>5. c = a \o b
    BY DEF Chord
  <1> HIDE DEF n, a, b, c
  <1>7. /\ c \in Seq(Strokes) /\ DOMAIN c = 1..(n + n)
        /\ \A i \in 1..n : c[i] = a[i] /\ c[n + i] = b[i]
    BY <1>4, <1>5, ConcatAt
  <1>8. ASSUME NEW i \in DOMAIN c, c[i].press
        PROVE  \E j \in DOMAIN c : j > i /\ c[j].key = c[i].key
    <2>1. CASE i \in 1..n
      <3>1. n + 1 - i \in 1..n /\ n + 1 - (n + 1 - i) = i
        BY <1>1, <2>1
      <3>2. n + (n + 1 - i) \in DOMAIN c /\ n + (n + 1 - i) > i
        BY <1>1, <1>7, <2>1
      <3>3. c[n + (n + 1 - i)].key = keys[i]
        BY <1>3, <1>7, <3>1
      <3> QED
        BY <1>3, <1>7, <2>1, <3>2, <3>3
    <2>2. CASE i \notin 1..n
      <3>1. i - n \in 1..n /\ n + (i - n) = i
        BY <1>1, <1>7, <2>2
      <3>2. ~c[i].press
        BY <1>3, <1>7, <3>1
      <3> QED
        BY <1>8, <3>2
    <2> QED
      BY <2>1, <2>2
  <1> QED
    BY <1>7, <1>8 DEF AllReleased, c

\* The text of a macro: each of its characters, shifted or not.
LEMMA TextClosed ==
  ASSUME NEW keys \in Seq(Named)
  PROVE  /\ Typed(keys) \in Seq(Strokes) /\ AllReleased(Typed(keys))
         /\ LET s == FlattenSeq([i \in DOMAIN keys |-> Tapped(keys[i])])
            IN  s \in Seq(Strokes) /\ AllReleased(s)
  <1> DEFINE Shifting(k) == <<Stroke(Shift, TRUE)>> \o Tapped(k) \o <<Stroke(Shift, FALSE)>>
             ss == [i \in DOMAIN keys |->
                      IF keys[i] \in Shifted THEN Shifting(keys[i]) ELSE Tapped(keys[i])]
             ts == [i \in DOMAIN keys |-> Tapped(keys[i])]
  <1>1. Typed(keys) = FlattenSeq(ss)
    BY DEF Typed
  <1>2. Len(keys) \in Nat /\ DOMAIN keys = 1..Len(keys) /\ \A i \in DOMAIN keys : keys[i] \in Named
    OBVIOUS
  <1>3. \A k \in Named : /\ Tapped(k) \in Seq(Strokes) /\ AllReleased(Tapped(k))
                         /\ Shifting(k) \in Seq(Strokes) /\ AllReleased(Shifting(k))
    BY TappedClosed, ShiftedClosed
  <1> HIDE DEF Shifting
  <1>4. /\ ss \in Seq(Seq(Strokes)) /\ DOMAIN ss = DOMAIN keys
        /\ \A i \in DOMAIN ss : AllReleased(ss[i])
    BY <1>2, <1>3
  <1>5. /\ ts \in Seq(Seq(Strokes)) /\ DOMAIN ts = DOMAIN keys
        /\ \A i \in DOMAIN ts : AllReleased(ts[i])
    BY <1>2, <1>3
  <1> HIDE DEF ss, ts
  <1>6. FlattenSeq(ss) \in Seq(Strokes) /\ AllReleased(FlattenSeq(ss))
    BY <1>4, FlattenClosed
  <1>7. FlattenSeq(ts) \in Seq(Strokes) /\ AllReleased(FlattenSeq(ts))
    BY <1>5, FlattenClosed
  <1> QED
    BY <1>1, <1>6, <1>7 DEF ts

\* Whatever its output, an action's writes release what they press, other than
\* the key of a KeyDown.
LEMMA ActionSettles ==
  ASSUME NEW m \in Macros, NEW keys, NEW owed,
         m.kind = "down" => m.keys[1] \in owed,
         \A x \in keys : x \in owed \/ (m.kind = "up" /\ x = m.keys[1])
  PROVE  /\ UinputWrites(m) \in Seq(Seq(Strokes)) /\ Settles(UinputWrites(m), keys, owed)
         /\ PortalWrites(m) \in Seq(Seq(Strokes)) /\ Settles(PortalWrites(m), keys, owed)
  <1>1. /\ m.kind \in {"text", "press", "down", "up", "click"}
        /\ m.keys \in Seq(Named) /\ (m.kind # "text" => m.keys # <<>>)
    BY PassthroughAssumption
  <1>2. /\ Len(m.keys) \in Nat
        /\ m.kind # "text" => m.keys[1] \in Named \union {Shift} /\ Len(m.keys) >= 1
    BY <1>1
  <1>3. CASE m.kind = "text"
    <2>1. keys \subseteq owed
      BY <1>3
    <2>2. /\ UinputWrites(m) = <<Typed(m.keys)>>
          /\ PortalWrites(m) = Apart(FlattenSeq([i \in DOMAIN m.keys |-> Tapped(m.keys[i])]))
      BY <1>3 DEF UinputWrites, PortalWrites
    <2> QED
      BY <1>1, <2>1, <2>2, TextClosed, ClosedSettles
  <1>4. CASE m.kind \in {"press", "click"}
    <2>1. keys \subseteq owed
      BY <1>4
    <2>2. Tapped(m.keys[1]) \in Seq(Strokes) /\ AllReleased(Tapped(m.keys[1]))
      BY <1>2, <1>4, TappedClosed
    <2>3. Chord(m.keys) \in Seq(Strokes) /\ AllReleased(Chord(m.keys))
      BY <1>1, ChordClosed
    <2>4. UinputWrites(m) \in {<<Tapped(m.keys[1])>>, Apart(Tapped(m.keys[1])), <<Chord(m.keys)>>}
      <3>1. CASE m.kind = "click"
        BY <3>1 DEF UinputWrites
      <3>2. CASE m.kind = "press" /\ Len(m.keys) > 1
        BY <3>2 DEF UinputWrites
      <3>3. CASE m.kind = "press" /\ Len(m.keys) = 1
        BY <3>3 DEF UinputWrites
      <3>4. m.kind # "text"
        BY <1>4
      <3>5. Len(m.keys) \in Nat /\ Len(m.keys) >= 1
        BY <1>2, <3>4
      <3>6. \A n \in Nat : n >= 1 => n > 1 \/ n = 1
        OBVIOUS
      <3>7. Len(m.keys) > 1 \/ Len(m.keys) = 1
        BY <3>5, <3>6, Zenon
      <3> QED
        BY <1>4, <3>1, <3>2, <3>3, <3>7
    <2>5. PortalWrites(m) = Apart(Tapped(m.keys[1]))
      BY <1>4 DEF PortalWrites
    <2> QED
      BY <2>1, <2>2, <2>3, <2>4, <2>5, ClosedSettles
  <1>5. CASE m.kind \in {"down", "up"}
    <2>  DEFINE s == Stroke(m.keys[1], m.kind = "down")
                ws == <<<<s>>>>
    <2>1. s \in Strokes /\ s.key = m.keys[1] /\ s.press = (m.kind = "down")
      <3>1. (m.kind = "down") \in BOOLEAN /\ m.keys[1] \in Named \union {Shift}
        BY <1>2, <1>5
      <3> QED
        BY <3>1, StrokeIs
    <2>2. UinputWrites(m) = ws /\ PortalWrites(m) = ws
      BY <1>5 DEF UinputWrites, PortalWrites
    <2> HIDE DEF s
    <2>3. ws \in Seq(Seq(Strokes)) /\ DOMAIN ws = {1} /\ DOMAIN ws[1] = {1} /\ ws[1][1] = s
      BY <2>1
    <2> HIDE DEF ws
    <2>4. Settles(ws, keys, owed)
      BY <1>5, <2>1, <2>3 DEF Settles
    <2> QED
      BY <2>2, <2>3, <2>4
  <1> QED
    BY <1>1, <1>3, <1>4, <1>5

-----------------------------------------------------------------------------
\* What is still to be written leaves nothing down that nobody answers for.
KeysSettle ==
  /\ writes \in Seq(Seq(Strokes))
  /\ session = "open" => Settles(writes, virtual, passed \union held)

\* With nothing left to write, what is down is owed.
LEMMA SettledNow ==
  ASSUME NEW keys, NEW owed
  PROVE  Settles(<<>>, keys, owed) <=> keys \subseteq owed
  BY DEF Settles

\* An action that is taken up settles what was down before it.
LEMMA ExecuteKeepsKeys ==
  ASSUME KeysSettle, NEW m \in Macros, Execute(m)
  PROVE  KeysSettle'
  <1>1. /\ session = "open" /\ writes = <<>>
        /\ writes' = (IF output = "uinput" THEN UinputWrites(m) ELSE PortalWrites(m))
        /\ held' = CASE m.kind = "down" -> held \union {m.keys[1]}
                     [] m.kind = "up" -> held \ {m.keys[1]}
                     [] OTHER -> held
        /\ UNCHANGED <<virtual, session, passed>>
    BY DEF Execute
  <1>2. virtual \subseteq passed \union held
    BY <1>1, SettledNow DEF KeysSettle
  <1>3. /\ m.kind = "down" => held' = held \union {m.keys[1]}
        /\ m.kind = "up" => held' = held \ {m.keys[1]}
        /\ m.kind \notin {"down", "up"} => held' = held
    BY <1>1
  <1>  DEFINE owed == passed' \union held'
  <1>4. m.kind = "down" => m.keys[1] \in owed
    BY <1>3
  <1>5. \A x \in virtual' : x \in owed \/ (m.kind = "up" /\ x = m.keys[1])
    BY <1>1, <1>2, <1>3
  <1>6. \E o, v : o = owed /\ v = virtual'
    OBVIOUS
  <1> HIDE DEF owed
  <1>7. PICK o, v : o = owed /\ v = virtual'
    BY <1>6
  <1>8. /\ UinputWrites(m) \in Seq(Seq(Strokes)) /\ Settles(UinputWrites(m), v, o)
        /\ PortalWrites(m) \in Seq(Seq(Strokes)) /\ Settles(PortalWrites(m), v, o)
    BY <1>4, <1>5, <1>7, ActionSettles
  <1>9. writes' \in Seq(Seq(Strokes)) /\ Settles(writes', virtual', owed)
    BY <1>1, <1>7, <1>8
  <1> QED
    BY <1>9 DEF KeysSettle, owed

\* A write brings the action under way one step nearer to its end.
LEMMA WriteKeepsKeys ==
  ASSUME KeysSettle, Write
  PROVE  KeysSettle'
  <1>1. /\ session = "open" /\ writes # <<>> /\ writes \in Seq(Seq(Strokes))
        /\ virtual' = Written(virtual, Head(writes)) /\ writes' = Tail(writes)
        /\ UNCHANGED <<held, session, passed>>
        /\ Settles(writes, virtual, passed \union held)
    BY DEF Write, KeysSettle
  <1>2. PICK ws, v, o : ws = writes /\ v = virtual /\ o = passed \union held
    OBVIOUS
  <1>3. Tail(ws) \in Seq(Seq(Strokes)) /\ Settles(Tail(ws), Written(v, Head(ws)), o)
    BY <1>1, <1>2, SettlesStep
  <1>4. passed' \union held' = o
    BY <1>1, <1>2
  <1>5. writes' \in Seq(Seq(Strokes)) /\ Settles(writes', virtual', passed' \union held')
    BY <1>1, <1>2, <1>3, <1>4
  <1> QED
    BY <1>5 DEF KeysSettle

\* A passed press or release strikes the virtual device and the history alike.
LEMMA ReadKeepsKeys ==
  ASSUME KeysSettle, NEW d \in Devices, NEW consumed \in BOOLEAN, Read(d, consumed)
  PROVE  KeysSettle'
  <1>  DEFINE e == Head(queue[d])
  <1>1. /\ session = "open" /\ writes = <<>> /\ UNCHANGED <<writes, held, session>>
        /\ \/ virtual' = virtual /\ passed' = passed
           \/ virtual' = Struck(virtual, e.key, e.press) /\ passed' = Struck(passed, e.key, e.press)
    BY DEF Read, macros
  <1>2. virtual \subseteq passed \union held
    BY <1>1, SettledNow DEF KeysSettle
  <1>3. virtual' \subseteq passed' \union held'
    BY <1>1, <1>2 DEF Struck
  <1>4. writes' = <<>> /\ Settles(<<>>, virtual', passed' \union held')
    BY <1>1, <1>3 DEF Settles
  <1> QED
    BY <1>1, <1>4 DEF KeysSettle

\* Every step keeps the keys settling.
LEMMA KeysSettleNext == KeysSettle /\ [Next]_vars => KeysSettle'
  <1> SUFFICES ASSUME KeysSettle, [Next]_vars PROVE KeysSettle'
    OBVIOUS
  <1>1. <<>> \in Seq(Seq(Strokes))
    OBVIOUS
  <1>2. ASSUME UNCHANGED <<writes, virtual, passed, held, session>>
        PROVE  KeysSettle'
    BY <1>2 DEF KeysSettle
  <1>3. ASSUME writes' \in {writes, <<>>}, session' # "open"
        PROVE  KeysSettle'
    BY <1>1, <1>3 DEF KeysSettle
  <1>4. CASE \E d \in Devices : Unplug(d) \/ \E key \in KeysOf[d] : Happen(d, key)
    BY <1>2, <1>4 DEF Unplug, Happen, macros
  <1>5. CASE \/ \E d \in Devices : ReadFails(d)
             \/ \E m \in Macros : Refuse(m)
             \/ WriteFails
             \/ Close
    BY <1>3, <1>5 DEF ReadFails, Refuse, WriteFails, Close, macros
  <1>6. CASE UNCHANGED vars
    BY <1>2, <1>6 DEF vars, macros
  <1> QED
    BY <1>4, <1>5, <1>6, ExecuteKeepsKeys, WriteKeepsKeys, ReadKeepsKeys DEF Next

\* Between two macro actions every key that is down on the virtual device is
\* answered for, whatever macros type, chord, tap or hold and whatever the user
\* passes through between them.
THEOREM VirtualKeysComeUp == Spec => []KeysComeUp
  <1>1. Init => KeysSettle
    <2>1. <<>> \in Seq(Seq(Strokes))
      OBVIOUS
    <2> QED
      BY <2>1 DEF Init, KeysSettle, Settles
  <1>2. KeysSettle => KeysComeUp
    BY DEF KeysSettle, KeysComeUp, Settles
  <1> QED
    BY <1>1, <1>2, KeysSettleNext, PTL DEF Spec

-----------------------------------------------------------------------------
(* The poller and the overlays.                                              *)

\* A cooldown's history and the poller's value, with functions over the
\* trackers: what the detectors saw is any value.
Observations(q) == (\E S : q \in Seq(S)) /\ \A i \in DOMAIN q : q[i].at \in Nat
IsHistory(h) ==
  /\ h = [observations |-> h.observations, total |-> h.total, phase |-> h.phase,
          activeSince |-> h.activeSince]
  /\ Observations(h.observations) /\ h.activeSince \in Nat \cup {NONE}
IsPoller(p) ==
  /\ p = [last |-> p.last, latest |-> p.latest, history |-> p.history]
  /\ p.last \in [Ids -> Nat \cup {NONE}]
  /\ p.latest = [t \in Ids |-> p.latest[t]]
  /\ p.history = [t \in Ids |-> p.history[t]]
  /\ \A t \in Ids : IsHistory(p.history[t])

\* A state that counts down says how long it has been since the history began to.
CountsFrom(t, state, h) ==
  Counting(state) =>
    /\ h.phase = "Active" /\ h.activeSince \in Nat /\ h.observations # <<>>
    /\ Tracker[t].detector.prediction.duration \in Nat
    /\ state.predicted = Tracker[t].detector.prediction.duration
                           - (Last(h.observations).at - h.activeSince)

\* The trackers' assumption, one tracker at a time.
LEMMA TrackerFacts ==
  ASSUME NEW t \in Ids
  PROVE  /\ Tracker[t].poll \in Nat \ {0}
         /\ Tracker[t].detector.kind \in {"RadialCooldown", "HorizontalProgressBar"}
         /\ Tracker[t].detector.kind = "RadialCooldown" /\ Tracker[t].detector.prediction # NONE
              => Tracker[t].detector.prediction.duration \in Nat
  <1>1. PICK i \in DOMAIN Trackers : Trackers[i] = t
    BY DEF Ids, Range
  <1>2. Tracker[t].poll \in Nat \ {0} /\ ValidDetector(Tracker[t].detector)
    BY <1>1, TrackersAssumption
  <1> QED
    BY <1>2 DEF ValidDetector

\* What is pushed is the last observation, however few are kept.
LEMMA PushIsLast ==
  ASSUME NEW h, NEW at \in Nat, NEW fraction, IsHistory(h)
  PROVE  LET p == Push(h, at, fraction)
         IN /\ p = [h EXCEPT !.observations = p.observations]
            /\ Observations(p.observations) /\ p.observations # <<>>
            /\ Last(p.observations).at = at
  <1> DEFINE e == [at |-> at, fraction |-> fraction]
             q == h.observations
             longer == Append(q, e)
             kept == IF Len(longer) > HistoryWindow THEN Tail(longer) ELSE longer
  <1>1. PICK S : q \in Seq(S)
    BY DEF IsHistory, Observations
  <1>2. q \in Seq(S \cup {e})
    BY <1>1
  <1>3. /\ longer \in Seq(S \cup {e}) /\ Len(longer) = Len(q) + 1 /\ Len(q) \in Nat
        /\ longer[Len(longer)] = e /\ \A i \in 1..Len(q) : longer[i] = q[i]
    BY <1>2
  <1>4. \A i \in DOMAIN longer : longer[i].at \in Nat
    <2>1. \A i \in 1..Len(q) : q[i].at \in Nat
      BY <1>1 DEF IsHistory, Observations
    <2>2. e.at \in Nat
      OBVIOUS
    <2>3. DOMAIN longer = 1..(Len(q) + 1)
      BY <1>3
    <2> HIDE DEF e, longer, q
    <2> QED
      BY <1>3, <2>1, <2>2, <2>3
  <1>5. /\ kept \in Seq(S \cup {e}) /\ kept # <<>> /\ kept[Len(kept)] = e
        /\ \A i \in DOMAIN kept : kept[i].at \in Nat
    <2> HIDE DEF e, longer, q
    <2>1. CASE Len(longer) > HistoryWindow
      <3>1. Len(longer) \in Nat /\ Len(longer) > 1 /\ kept = Tail(longer)
        BY <1>3, <2>1, TrackersAssumption
      <3>2. /\ Tail(longer) \in Seq(S \cup {e}) /\ Len(Tail(longer)) = Len(longer) - 1
            /\ \A i \in 1..(Len(longer) - 1) : Tail(longer)[i] = longer[i + 1]
        BY <1>3, <3>1
      <3>3. Tail(longer)[Len(longer) - 1] = e /\ Tail(longer) # <<>>
        BY <1>3, <3>1, <3>2
      <3>4. \A i \in 1..(Len(longer) - 1) : i + 1 \in DOMAIN longer
        BY <1>3, <3>1
      <3> HIDE DEF kept
      <3> QED
        BY <1>4, <3>1, <3>2, <3>3, <3>4
    <2>2. CASE ~(Len(longer) > HistoryWindow)
      BY <1>3, <1>4, <2>2
    <2> QED
      BY <2>1, <2>2
  <1>6. Push(h, at, fraction) = [h EXCEPT !.observations = kept]
    BY DEF Push
  <1>7. [h EXCEPT !.observations = kept].observations = kept
    BY DEF IsHistory
  <1>8. Last(kept).at = at
    <2> HIDE DEF kept
    <2>1. Last(kept) = e
      BY <1>5 DEF Last
    <2> QED
      BY <2>1
  <1>9. Observations(kept) /\ kept # <<>>
    <2> HIDE DEF kept, e
    <2> QED
      BY <1>5 DEF Observations
  <1> HIDE DEF kept
  <1> QED
    BY <1>6, <1>7, <1>8, <1>9

\* A phase that is observed: since when it is active is kept while it is.
LEMMA PhasedIs ==
  ASSUME NEW h, IsHistory(h), NEW at \in Nat, NEW phase
  PROVE  /\ IsHistory(ObservePhase(h, at, phase)) /\ ObservePhase(h, at, phase).phase = phase
         /\ ObservePhase(h, at, phase).activeSince =
              IF phase # "Active" THEN NONE
              ELSE IF h.phase # "Active" THEN at ELSE h.activeSince
  <1> DEFINE phased == ObservePhase(h, at, phase)
             since == IF phase # "Active" THEN NONE
                      ELSE IF h.phase # "Active" THEN at ELSE h.activeSince
  <1>1. phased = [h EXCEPT !.phase = phase, !.activeSince = since]
    BY DEF ObservePhase
  <1>2. since \in Nat \cup {NONE}
    BY DEF IsHistory
  <1> HIDE DEF since, phased
  <1>3. phased = [observations |-> h.observations, total |-> h.total,
                  phase |-> phase, activeSince |-> since]
    BY <1>1 DEF IsHistory
  <1>4. IsHistory(phased) /\ phased.phase = phase /\ phased.activeSince = since
    BY <1>2, <1>3 DEF IsHistory
  <1> QED
    BY <1>4 DEF since, phased

\* One frame of a cooldown that counts down: it was active, and since when is kept.
Detected(t, d, before, at) ==
  /\ IsHistory(d[2])
  /\ CountsFrom(t, d[1], d[2])
  /\ Counting(d[1]) => /\ Last(d[2].observations).at = at
                       /\ before.phase = "Active" => d[2].activeSince = before.activeSince

LEMMA DetectRadialCounts ==
  ASSUME NEW t \in Ids, NEW observed, NEW at \in Nat, NEW before, IsHistory(before),
         Tracker[t].detector.kind = "RadialCooldown"
  PROVE  Detected(t, DetectRadial(observed, at, Tracker[t].detector.prediction, before), before, at)
  <1> DEFINE prediction == Tracker[t].detector.prediction
             d == DetectRadial(observed, at, prediction, before)
  <1>1. CASE observed = NONE
    <2>1. d[1] = Inactive("NoReadableSample") /\ d[2] = before
      BY <1>1 DEF DetectRadial
    <2>2. ~Counting(d[1])
      BY <2>1 DEF Counting, Inactive
    <2> QED
      BY <2>1, <2>2 DEF CountsFrom, Detected
  <1>2. CASE observed # NONE
    <2> DEFINE phased == ObservePhase(before, at, observed.phase)
               pushed == Push(phased, at, observed.fraction)
               predicted == IF observed.phase = "Active"
                            THEN PredictedRemaining(pushed, at, prediction) ELSE NONE
    <2>1. /\ IsHistory(phased) /\ phased.phase = observed.phase
          /\ phased.activeSince = IF observed.phase # "Active" THEN NONE
                                  ELSE IF before.phase # "Active" THEN at ELSE before.activeSince
      BY PhasedIs
    <2> HIDE DEF phased
    <2>2. /\ pushed = [phased EXCEPT !.observations = pushed.observations]
          /\ Observations(pushed.observations) /\ pushed.observations # <<>>
          /\ Last(pushed.observations).at = at
      BY <2>1, PushIsLast
    <2> HIDE DEF pushed
    <2>3. /\ IsHistory(pushed) /\ pushed.phase = observed.phase
          /\ pushed.activeSince = phased.activeSince
      BY <2>1, <2>2 DEF IsHistory
    <2> HIDE DEF predicted
    <2>4. d[1].predicted = predicted /\ d[2] = [pushed EXCEPT !.total = EstimateTotal(pushed)[2]]
      BY <1>2 DEF DetectRadial, phased, pushed, predicted
    <2>5. /\ IsHistory(d[2]) /\ d[2].phase = observed.phase
          /\ d[2].activeSince = phased.activeSince /\ d[2].observations = pushed.observations
      <3> HIDE DEF d
      <3> QED
        BY <2>3, <2>4 DEF IsHistory
    <2>6. ASSUME Counting(d[1])
          PROVE  /\ observed.phase = "Active" /\ prediction # NONE /\ pushed.activeSince # NONE
                 /\ predicted = prediction.duration - (at - pushed.activeSince)
      <3>1. predicted # NONE
        BY <2>4, <2>6 DEF Counting
      <3> HIDE DEF prediction
      <3>2. observed.phase = "Active" /\ PredictedRemaining(pushed, at, prediction) = predicted
        BY <3>1 DEF predicted
      <3> QED
        BY <3>1, <3>2 DEF PredictedRemaining
    <2>7. prediction # NONE => prediction.duration \in Nat
      BY TrackerFacts
    <2> HIDE DEF d, prediction
    <2>8. Counting(d[1]) => /\ d[2].phase = "Active" /\ d[2].activeSince \in Nat
                            /\ d[2].observations # <<>> /\ prediction.duration \in Nat
                            /\ d[1].predicted = prediction.duration - (at - d[2].activeSince)
                            /\ Last(d[2].observations).at = at
      BY <2>2, <2>3, <2>4, <2>5, <2>6, <2>7 DEF IsHistory
    <2>9. CountsFrom(t, d[1], d[2])
      BY <2>8 DEF CountsFrom, prediction
    <2>10. Counting(d[1]) /\ before.phase = "Active" => d[2].activeSince = before.activeSince
      BY <2>1, <2>5, <2>6
    <2> QED
      BY <2>5, <2>8, <2>9, <2>10 DEF d, prediction, Detected
  <1> QED
    BY <1>1, <1>2

\* What a mark does to every tracker.
LEMMA MarkInactiveIs ==
  ASSUME NEW p, IsPoller(p), NEW at \in Nat, NEW which \in SUBSET Ids, NEW reason
  PROVE  LET q == MarkInactive(p, at, which, reason)
         IN /\ IsPoller(q) /\ q.history = p.history
            /\ \A t \in Ids : /\ q.last[t] = IF t \in which THEN at ELSE p.last[t]
                              /\ q.latest[t] = IF t \in which THEN Inactive(reason) ELSE p.latest[t]
  <1> DEFINE q == MarkInactive(p, at, which, reason)
             last == [t \in Ids |-> IF t \in which THEN at ELSE p.last[t]]
             latest == [t \in Ids |-> IF t \in which THEN Inactive(reason) ELSE p.latest[t]]
  <1>1. q = [p EXCEPT !.last = last, !.latest = latest]
    BY DEF MarkInactive
  <1> HIDE DEF q
  <1>2. q = [last |-> last, latest |-> latest, history |-> p.history]
    BY <1>1 DEF IsPoller
  <1>3. last \in [Ids -> Nat \cup {NONE}]
    BY DEF IsPoller
  <1>4. IsPoller(q)
    BY <1>2, <1>3 DEF IsPoller
  <1> QED
    BY <1>2, <1>4 DEF q

\* What the poll of one tracker does to it.
Obeys(t, latest) ==
  Tracker[t].condition # NONE =>
    latest[t].kind = "Inactive" \/ ConditionMatches(Tracker[t].condition, latest)
Observed(t, state, before, after, at) ==
  \/ after = before /\ ~Counting(state)
  \/ CountsFrom(t, state, after) /\ IsHistory(after)
     /\ (Counting(state) => /\ Last(after.observations).at = at
                            /\ before.phase = "Active" => after.activeSince = before.activeSince)

OnePolled(t, p, q, began, at) ==
  /\ IsPoller(q)
  /\ q.last = [p.last EXCEPT ![t] = began]
  /\ \A s \in Ids \ {t} : q.latest[s] = p.latest[s] /\ q.history[s] = p.history[s]
  /\ Tracker[t].condition # NONE =>
       q.latest[t].kind = "Inactive" \/ ConditionMatches(Tracker[t].condition, p.latest)
  /\ Observed(t, q.latest[t], p.history[t], q.history[t], at)

LEMMA PollOneIs ==
  ASSUME NEW p, IsPoller(p), NEW began \in Nat, NEW t \in Ids, NEW observed, NEW at \in Nat
  PROVE  OnePolled(t, p, PollOne(p, began, t, observed, at), began, at)
  <1> DEFINE q == PollOne(p, began, t, observed, at)
             d == DetectRadial(observed, at, Tracker[t].detector.prediction, p.history[t])
             polled == [p EXCEPT !.last[t] = began]
  <1>1. /\ polled = [last |-> [p.last EXCEPT ![t] = began], latest |-> p.latest, history |-> p.history]
        /\ [p.last EXCEPT ![t] = began] \in [Ids -> Nat \cup {NONE}]
    BY DEF IsPoller
  <1> HIDE DEF polled
  <1>2. CASE Tracker[t].condition # NONE /\ ~ConditionMatches(Tracker[t].condition, p.latest)
    <2>1. q = [polled EXCEPT !.latest[t] = Inactive("ConditionInactive")]
      BY <1>2 DEF PollOne, polled
    <2>2. q = [last |-> [p.last EXCEPT ![t] = began],
               latest |-> [p.latest EXCEPT ![t] = Inactive("ConditionInactive")],
               history |-> p.history]
      BY <1>1, <2>1
    <2> HIDE DEF q
    <2>3. IsPoller(q) /\ q.latest[t] = Inactive("ConditionInactive")
      BY <1>1, <2>2 DEF IsPoller
    <2>4. Observed(t, q.latest[t], p.history[t], q.history[t], at) /\ q.latest[t].kind = "Inactive"
      BY <2>2, <2>3 DEF Observed, Counting, Inactive
    <2> QED
      BY <2>2, <2>3, <2>4 DEF q, OnePolled
  <1>3. CASE /\ ~(Tracker[t].condition # NONE /\ ~ConditionMatches(Tracker[t].condition, p.latest))
             /\ Tracker[t].detector.kind = "HorizontalProgressBar"
    <2>1. q = [polled EXCEPT !.latest[t] = DetectBar(observed)]
      BY <1>3 DEF PollOne, polled
    <2>2. q = [last |-> [p.last EXCEPT ![t] = began],
               latest |-> [p.latest EXCEPT ![t] = DetectBar(observed)],
               history |-> p.history]
      BY <1>1, <2>1
    <2> HIDE DEF q
    <2>3. IsPoller(q) /\ q.latest[t] = DetectBar(observed)
      BY <1>1, <2>2 DEF IsPoller
    <2>4. Observed(t, q.latest[t], p.history[t], q.history[t], at)
      BY <2>2, <2>3 DEF Observed, Counting, DetectBar
    <2> QED
      BY <1>3, <2>2, <2>3, <2>4 DEF q, OnePolled
  <1>4. CASE /\ ~(Tracker[t].condition # NONE /\ ~ConditionMatches(Tracker[t].condition, p.latest))
             /\ Tracker[t].detector.kind # "HorizontalProgressBar"
    <2>1. q = [polled EXCEPT !.latest[t] = d[1], !.history[t] = d[2]]
      BY <1>4 DEF PollOne, polled
    <2>2. /\ IsHistory(d[2]) /\ CountsFrom(t, d[1], d[2])
          /\ Counting(d[1]) => /\ Last(d[2].observations).at = at
                               /\ p.history[t].phase = "Active" => d[2].activeSince = p.history[t].activeSince
      <3>1. IsHistory(p.history[t]) /\ Tracker[t].detector.kind = "RadialCooldown"
        BY <1>4, TrackerFacts DEF IsPoller
      <3>2. Detected(t, d, p.history[t], at)
        BY <3>1, DetectRadialCounts
      <3> HIDE DEF d
      <3> QED
        BY <3>2 DEF Detected
    <2> HIDE DEF d
    <2>3. q = [last |-> [p.last EXCEPT ![t] = began],
               latest |-> [p.latest EXCEPT ![t] = d[1]],
               history |-> [p.history EXCEPT ![t] = d[2]]]
      BY <1>1, <2>1
    <2> HIDE DEF q
    <2>4. IsPoller(q) /\ q.latest[t] = d[1] /\ q.history[t] = d[2]
      BY <1>1, <2>2, <2>3 DEF IsPoller
    <2>5. Observed(t, q.latest[t], p.history[t], q.history[t], at)
      BY <2>2, <2>4 DEF Observed
    <2>6. \A s \in Ids \ {t} : q.latest[s] = p.latest[s] /\ q.history[s] = p.history[s]
      BY <2>3 DEF IsPoller
    <2> QED
      BY <1>4, <2>3, <2>4, <2>5, <2>6 DEF q, OnePolled
  <1> QED
    BY <1>2, <1>3, <1>4

-----------------------------------------------------------------------------
(* The fold over the trackers.                                               *)

PollAt(p, began, active, view, at, i) ==
  IF Trackers[i] \in active THEN PollOne(p, began, Trackers[i], view[Trackers[i]], at) ELSE p

\* One tracker more, in the order of the fold: by the greatest position of s.
OnePoll(iter, p, began, active, view, at, s) ==
  IF s = {} THEN p ELSE PollAt(iter[s \ {Max(s)}], began, active, view, at, Max(s))

\* The fold as a function of the set of positions that it has covered.
IsPolls(iter, p, began, active, view, at, S) ==
  iter = [s \in SUBSET S |-> OnePoll(iter, p, began, active, view, at, s)]

LEMMA PollAllIs ==
  ASSUME NEW p, NEW began, NEW active, NEW view, NEW at
  PROVE  PollAll(p, began, active, view, at) =
           (CHOOSE iter : IsPolls(iter, p, began, active, view, at, DOMAIN Trackers))[DOMAIN Trackers]
  BY DEF PollAll, FoldLeft, MapThenFoldSet, IsPolls, OnePoll, PollAt

LEMMA PollsExist ==
  ASSUME NEW p, NEW began, NEW active, NEW view, NEW at, NEW n \in Nat
  PROVE  \E iter : IsPolls(iter, p, began, active, view, at, 1..n)
  <1> DEFINE One(f, s) == OnePoll(f, p, began, active, view, at, s)
             Good(m) == \E f : IsPolls(f, p, began, active, view, at, 1..m)
             S == {m \in Nat : Good(m)}
  <1>1. Good(0)
    <2>  DEFINE f == [s \in SUBSET (1..0) |-> p]
    <2>1. SUBSET (1..0) = {{}}
      OBVIOUS
    <2>2. \A s \in SUBSET (1..0) : One(f, s) = p
      BY <2>1 DEF OnePoll
    <2>3. IsPolls(f, p, began, active, view, at, 1..0)
      BY <2>2 DEF IsPolls
    <2> QED
      BY <2>3
  <1>2. ASSUME NEW m \in Nat, m # 0, Good(m - 1)
        PROVE  Good(m)
    <2>1. PICK f : IsPolls(f, p, began, active, view, at, 1..(m - 1))
      BY <1>2
    <2>  DEFINE g == [s \in SUBSET (1..m) |->
                       IF m \in s THEN PollAt(f[s \ {m}], began, active, view, at, m) ELSE f[s]]
    <2>2. \A s \in SUBSET (1..m) : m \notin s => s \in SUBSET (1..(m - 1)) /\ g[s] = f[s]
      <3>1. \A i \in 1..m : i # m => i \in 1..(m - 1)
        BY <1>2
      <3> QED
        BY <3>1
    <2>3. \A s \in SUBSET (1..m) : g[s] = One(g, s)
      <3> SUFFICES ASSUME NEW s \in SUBSET (1..m)
                   PROVE  g[s] = One(g, s)
        OBVIOUS
      <3>1. CASE m \in s
        <4>1. Max(s) = m /\ s # {}
          BY <3>1, MaxIs
        <4>2. s \ {m} \in SUBSET (1..m) /\ m \notin s \ {m}
          OBVIOUS
        <4>3. g[s \ {m}] = f[s \ {m}]
          BY <4>2, <2>2
        <4>4. g[s] = PollAt(f[s \ {m}], began, active, view, at, m)
          BY <3>1
        <4> HIDE DEF g
        <4> QED
          BY <4>1, <4>3, <4>4 DEF OnePoll
      <3>2. CASE m \notin s
        <4>1. s \in SUBSET (1..(m - 1)) /\ g[s] = f[s]
          BY <3>2, <2>2
        <4>2. f[s] = One(f, s)
          BY <4>1, <2>1 DEF IsPolls
        <4>3. s \ {Max(s)} \in SUBSET (1..m) /\ m \notin s \ {Max(s)}
          BY <3>2
        <4>4. g[s \ {Max(s)}] = f[s \ {Max(s)}]
          BY <4>3, <2>2
        <4> HIDE DEF g
        <4> QED
          BY <4>1, <4>2, <4>4 DEF OnePoll
      <3> QED
        BY <3>1, <3>2
    <2>4. DOMAIN g = SUBSET (1..m) /\ g = [s \in SUBSET (1..m) |-> g[s]]
      OBVIOUS
    <2> HIDE DEF g
    <2>5. IsPolls(g, p, began, active, view, at, 1..m)
      BY <2>3, <2>4 DEF IsPolls
    <2> QED
      BY <2>5
  <1> HIDE DEF Good
  <1>3. S = Nat
    <2>1. S \in SUBSET Nat /\ 0 \in S
      BY <1>1
    <2>2. \A m \in Nat : m # 0 /\ m - 1 \in S => m \in S
      BY <1>2
    <2> HIDE DEF S
    <2> QED
      BY <2>1, <2>2, EveryNumber
  <1> QED
    BY <1>3 DEF Good

\* What the first m trackers' polls leave.
Polled(p, q, began, active, at, m) ==
  /\ IsPoller(q)
  /\ \A i \in DOMAIN Trackers :
       LET t == Trackers[i]
       IN IF i <= m /\ t \in active
          THEN /\ q.last[t] = began
               /\ Observed(t, q.latest[t], p.history[t], q.history[t], at)
               /\ Obeys(t, q.latest)
          ELSE q.last[t] = p.last[t] /\ q.latest[t] = p.latest[t] /\ q.history[t] = p.history[t]

LEMMA PolledMore ==
  ASSUME NEW p, NEW q, NEW began \in Nat, NEW active, NEW view, NEW at \in Nat,
         NEW m \in DOMAIN Trackers, Polled(p, q, began, active, at, m - 1)
  PROVE  Polled(p, PollAt(q, began, active, view, at, m), began, active, at, m)
  <1> DEFINE t == Trackers[m]
             r == PollAt(q, began, active, view, at, m)
             Fine(x, i, k) ==
               IF i <= k /\ Trackers[i] \in active
               THEN /\ x.last[Trackers[i]] = began
                    /\ Observed(Trackers[i], x.latest[Trackers[i]], p.history[Trackers[i]],
                                x.history[Trackers[i]], at)
                    /\ Obeys(Trackers[i], x.latest)
               ELSE /\ x.last[Trackers[i]] = p.last[Trackers[i]]
                    /\ x.latest[Trackers[i]] = p.latest[Trackers[i]]
                    /\ x.history[Trackers[i]] = p.history[Trackers[i]]
  <1>1. IsPoller(q) /\ \A i \in DOMAIN Trackers : Fine(q, i, m - 1)
    BY DEF Polled
  <1>2. DOMAIN Trackers \subseteq Nat /\ \A i \in DOMAIN Trackers : Trackers[i] \in Ids
    BY TrackersAssumption
  <1>3. SUFFICES IsPoller(r) /\ \A i \in DOMAIN Trackers : Fine(r, i, m)
    BY DEF Polled
  <1>4. CASE t \notin active
    <2>1. r = q
      BY <1>4 DEF PollAt
    <2>2. \A i \in DOMAIN Trackers : i <= m /\ i # m <=> i <= m - 1
      BY <1>2
    <2> QED
      BY <1>1, <1>4, <2>1, <2>2
  <1>5. CASE t \in active
    <2>1. r = PollOne(q, began, t, view[t], at)
      BY <1>5 DEF PollAt
    <2> HIDE DEF r
    <2>2. /\ IsPoller(r) /\ r.last = [q.last EXCEPT ![t] = began]
          /\ \A s \in Ids \ {t} : r.latest[s] = q.latest[s] /\ r.history[s] = q.history[s]
          /\ Tracker[t].condition # NONE =>
               r.latest[t].kind = "Inactive" \/ ConditionMatches(Tracker[t].condition, q.latest)
          /\ Observed(t, r.latest[t], q.history[t], r.history[t], at)
      <3>1. OnePolled(t, q, r, began, at)
        BY <1>1, <1>2, <2>1, PollOneIs
      <3> QED
        BY <3>1 DEF OnePolled
    <2>3. r.last[t] = began /\ \A s \in Ids \ {t} : r.last[s] = q.last[s]
      BY <1>1, <1>2, <2>2 DEF IsPoller
    <2>4. Fine(r, m, m)
      <3>1. q.history[t] = p.history[t]
        <4>1. ~(m <= m - 1)
          BY <1>2
        <4> QED
          BY <1>1, <4>1
      <3>2. Obeys(t, r.latest)
        <4> SUFFICES ASSUME Tracker[t].condition # NONE, r.latest[t].kind # "Inactive"
                     PROVE  ConditionMatches(Tracker[t].condition, r.latest)
          BY DEF Obeys
        <4>1. PICK j \in 1..(m - 1) : Trackers[j] = Tracker[t].condition.tracker
          BY TrackersAssumption
        <4>2. j \in DOMAIN Trackers /\ j # m
          BY <1>2, TrackersAssumption
        <4>3. Trackers[j] \in Ids \ {t}
          BY <1>2, <4>2, TrackersAssumption
        <4> QED
          BY <2>2, <4>1, <4>3 DEF ConditionMatches
      <3>3. m <= m
        BY <1>2
      <3> HIDE DEF t
      <3> QED
        BY <1>5, <2>2, <2>3, <3>1, <3>2, <3>3 DEF t
    <2>5. ASSUME NEW i \in DOMAIN Trackers, i # m
          PROVE  Fine(r, i, m)
      <3>1. Trackers[i] \in Ids \ {t}
        BY <1>2, <2>5, TrackersAssumption
      <3>2. i <= m <=> i <= m - 1
        BY <1>2, <2>5
      <3>3. /\ r.last[Trackers[i]] = q.last[Trackers[i]]
            /\ r.latest[Trackers[i]] = q.latest[Trackers[i]]
            /\ r.history[Trackers[i]] = q.history[Trackers[i]]
        BY <2>2, <2>3, <3>1
      <3>4. ASSUME i <= m - 1, Trackers[i] \in active
            PROVE  Obeys(Trackers[i], r.latest)
        <4> DEFINE u == Trackers[i]
        <4> SUFFICES ASSUME Tracker[u].condition # NONE, r.latest[u].kind # "Inactive"
                     PROVE  ConditionMatches(Tracker[u].condition, r.latest)
          BY DEF Obeys
        <4>1. PICK j \in 1..(i - 1) : Trackers[j] = Tracker[u].condition.tracker
          BY TrackersAssumption
        <4>2. j \in DOMAIN Trackers /\ j # m
          BY <1>2, <3>4, TrackersAssumption
        <4>3. Trackers[j] \in Ids \ {t}
          BY <1>2, <4>2, TrackersAssumption
        <4>4. Obeys(u, q.latest)
          BY <1>1, <3>4
        <4>5. ConditionMatches(Tracker[u].condition, q.latest)
          BY <3>3, <4>4 DEF Obeys
        <4> QED
          BY <2>2, <4>1, <4>3, <4>5 DEF ConditionMatches
      <3>5. Fine(q, i, m - 1)
        BY <1>1
      <3> QED
        BY <3>2, <3>3, <3>4, <3>5
    <2> QED
      BY <2>2, <2>4, <2>5
  <1> QED
    BY <1>4, <1>5

\* The poll of every active tracker, after it.
AllPolled(p, q, began, active, at) ==
  /\ IsPoller(q)
  /\ \A t \in Ids :
       IF t \in active
       THEN /\ q.last[t] = began
            /\ Observed(t, q.latest[t], p.history[t], q.history[t], at)
            /\ Obeys(t, q.latest)
       ELSE q.last[t] = p.last[t] /\ q.latest[t] = p.latest[t] /\ q.history[t] = p.history[t]

\* The poll of all is the last of the polls of the first m trackers, m from none to all.
InOrder(iter, p, began, active, view, at) ==
  /\ iter[1..0] = p
  /\ \A m \in 1..Len(Trackers) : iter[1..m] = PollAt(iter[1..(m - 1)], began, active, view, at, m)
  /\ PollAll(p, began, active, view, at) = iter[1..Len(Trackers)]

LEMMA PollsInOrder ==
  ASSUME NEW p, NEW began, NEW active, NEW view, NEW at
  PROVE  \E iter : InOrder(iter, p, began, active, view, at)
  <1> DEFINE n == Len(Trackers)
  <1>0. n \in Nat /\ DOMAIN Trackers = 1..n
    BY TrackersAssumption
  <1> HIDE DEF n
  <1> DEFINE iter == CHOOSE f : IsPolls(f, p, began, active, view, at, 1..n)
  <1>1. PollAll(p, began, active, view, at) = iter[1..n]
    BY <1>0, PollAllIs
  <1>2. IsPolls(iter, p, began, active, view, at, 1..n)
    BY <1>0, PollsExist
  <1> HIDE DEF iter
  <1>3. iter[1..0] = p
    <2>1. 1..0 = {} /\ {} \in SUBSET (1..n)
      OBVIOUS
    <2> QED
      BY <1>2, <2>1 DEF IsPolls, OnePoll
  <1>4. ASSUME NEW m \in 1..n
        PROVE  iter[1..m] = PollAt(iter[1..(m - 1)], began, active, view, at, m)
    <2>1. m \in Nat /\ 1..m \in SUBSET (1..n) /\ m \in 1..m
      BY <1>0
    <2>2. (1..m) \ {m} = 1..(m - 1)
      <3>1. \A i : i \in 1..m /\ i # m <=> i \in 1..(m - 1)
        BY <2>1
      <3> QED
        BY <3>1
    <2>3. Max(1..m) = m
      BY <2>1, MaxIs
    <2>4. 1..m # {}
      BY <2>1
    <2> QED
      BY <1>2, <2>1, <2>2, <2>3, <2>4 DEF IsPolls, OnePoll
  <1> QED
    BY <1>1, <1>3, <1>4 DEF n, InOrder

LEMMA PollAllPolls ==
  ASSUME NEW p, IsPoller(p), NEW began \in Nat, NEW active, NEW view, NEW at \in Nat
  PROVE  AllPolled(p, PollAll(p, began, active, view, at), began, active, at)
  <1> DEFINE n == Len(Trackers)
  <1>0. n \in Nat /\ DOMAIN Trackers = 1..n
    BY TrackersAssumption
  <1>2. PICK iter : InOrder(iter, p, began, active, view, at)
    BY PollsInOrder
  <1>1. /\ iter[1..0] = p
        /\ \A m \in 1..n : iter[1..m] = PollAt(iter[1..(m - 1)], began, active, view, at, m)
        /\ PollAll(p, began, active, view, at) = iter[1..n]
    BY <1>2 DEF InOrder
  <1> HIDE DEF n
  <1>  DEFINE Good(m) == Polled(p, iter[1..m], began, active, at, m)
              S == {m \in Nat : m <= n => Good(m)}
  <1>5. Good(0)
    <2>1. \A i \in DOMAIN Trackers : ~(i <= 0)
      BY <1>0
    <2> QED
      BY <1>1, <2>1 DEF Polled
  <1>6. ASSUME NEW m \in 1..n, Good(m - 1)
        PROVE  Good(m)
    <2>1. m \in DOMAIN Trackers
      BY <1>0
    <2> QED
      BY <1>1, <1>6, <2>1, PolledMore
  <1> HIDE DEF Good
  <1>7. S = Nat
    <2>1. S \in SUBSET Nat /\ 0 \in S
      BY <1>5
    <2>2. \A m \in Nat : m # 0 /\ m - 1 \in S => m \in S
      <3> SUFFICES ASSUME NEW m \in Nat, m # 0, m - 1 \in S, m <= n
                   PROVE  Good(m)
        OBVIOUS
      <3>1. m \in 1..n /\ m - 1 <= n
        BY <1>0
      <3> QED
        BY <3>1, <1>6
    <2> HIDE DEF S
    <2> QED
      BY <2>1, <2>2, EveryNumber
  <1>8. Good(n)
    <2>1. n \in S /\ n <= n
      BY <1>0, <1>7
    <2> QED
      BY <2>1
  <1> DEFINE q == PollAll(p, began, active, view, at)
  <1>9. Polled(p, q, began, active, at, n)
    BY <1>1, <1>8 DEF Good
  <1> HIDE DEF q
  <1>10. \A i \in DOMAIN Trackers : i <= n
    BY <1>0
  <1>11. \A t \in Ids : \E i \in DOMAIN Trackers : Trackers[i] = t
    BY DEF Ids, Range
  <1>12. AllPolled(p, q, began, active, at)
    BY <1>9, <1>10, <1>11 DEF Polled, AllPolled
  <1> QED
    BY <1>12 DEF q

-----------------------------------------------------------------------------
(* The overlays.                                                             *)

Waits == turn # NoTurn

\* The types, and how the times of the loop are ordered.
ScreenTyped ==
  /\ now \in Nat /\ away \in [Shown -> Nat] /\ hidden \in SUBSET Shown
  /\ IsPoller(poller)
  /\ qml = [o \in Shown |-> qml[o]]
  /\ \A o \in Shown : qml[o] = NoProcess \/ qml[o] = [child |-> qml[o].child, state |-> qml[o].state]
  /\ context.at \in 0..now
  /\ \A o \in Shown : away[o] <= now
  /\ \A t \in Ids : poller.last[t] # NONE => poller.last[t] <= now
TurnTyped ==
  Waits => /\ turn.now \in 0..now /\ now <= turn.now + CaptureWait /\ status = "running"
           /\ turn.active \in SUBSET Ids /\ turn.active # {} /\ turn.context.at \in 0..turn.now
           /\ \A t \in Ids : poller.last[t] # NONE => poller.last[t] <= turn.now

\* What a rendering does to the children.
Rendering(report, at) ==
  /\ turn' = NoTurn
  /\ qml' = [o \in Shown |-> qml'[o]]
  /\ \A o \in Shown :
       qml'[o] = NoProcess \/ qml'[o] = [child |-> qml'[o].child, state |-> qml'[o].state]
  /\ \A o \in hidden : qml[o] = NoProcess => qml'[o] = NoProcess
  /\ status' = "running" =>
       \A o \in Visible' : o \notin hidden => Decide(Overlay[o].scope, report, at) = "Allowed"

LEMMA RenderIs ==
  ASSUME ScreenTyped, NEW report, NEW latest, NEW at, Render(report, latest, at)
  PROVE  Rendering(report, at)
  <1> DEFINE drawn(o) == OverlaySnapshot(o, report, latest, at)
  <1>1. CASE Leave
    BY <1>1 DEF Leave, Rendering, Stopped, ScreenTyped
  <1>2. CASE /\ qml' = [o \in Shown |-> IF o \in hidden THEN qml[o] ELSE Rendered(qml[o], drawn(o))]
             /\ turn' = NoTurn /\ UNCHANGED <<status, cast>>
    <2>1. \A o \in Shown : qml'[o] = IF o \in hidden THEN qml[o] ELSE Rendered(qml[o], drawn(o))
      BY <1>2
    <2>2. ASSUME NEW o \in Shown
          PROVE  qml'[o] = NoProcess \/ qml'[o] = [child |-> qml'[o].child, state |-> qml'[o].state]
      <3>1. CASE o \in hidden
        BY <2>1, <3>1 DEF ScreenTyped
      <3>2. CASE qml'[o] = Rendered(qml[o], drawn(o))
        <4> DEFINE c == IF drawn(o) # Closed /\ qml[o].child = "exited" THEN "none" ELSE qml[o].child
        <4>1. \/ qml'[o] = NoProcess
              \/ qml'[o] = [child |-> "running", state |-> drawn(o)]
              \/ qml'[o] = [child |-> c, state |-> drawn(o)]
          BY <3>2 DEF Rendered
        <4> HIDE DEF drawn, c
        <4>2. \A k, d : qml'[o] = [child |-> k, state |-> d]
                => qml'[o] = [child |-> qml'[o].child, state |-> qml'[o].state]
          OBVIOUS
        <4> QED
          BY <4>1, <4>2
      <3> QED
        BY <2>1, <3>1, <3>2
    <2>3. ASSUME NEW o \in Shown \ hidden, o \in Visible'
          PROVE  Decide(Overlay[o].scope, report, at) = "Allowed"
      <3>1. qml'[o] # NoProcess /\ qml'[o].state # Closed /\ qml'[o] = Rendered(qml[o], drawn(o))
        BY <2>1, <2>3 DEF Visible
      <3>2. drawn(o) # Closed
        BY <3>1 DEF Rendered
      <3> QED
        BY <3>2 DEF OverlaySnapshot
    <2>4. Visible' \subseteq Shown
      BY DEF Visible
    <2> QED
      BY <1>2, <2>1, <2>2, <2>3, <2>4 DEF Rendering, ScreenTyped
  <1> QED
    BY <1>1, <1>2 DEF Render

\* A tracker is due before its first poll and when its interval is over.
LEMMA DueIs ==
  ASSUME ScreenTyped, NEW t \in Ids
  PROVE  t \in Due(poller, now) <=>
           poller.last[t] = NONE \/ poller.last[t] + Tracker[t].poll <= now
  <1>1. Tracker[t].poll \in Nat /\ now \in Nat /\ (poller.last[t] # NONE => poller.last[t] \in Nat)
    BY TrackerFacts DEF ScreenTyped, IsPoller
  <1>2. t \in Due(poller, now) <=> DueIn(poller, t, now) = 0
    BY DEF Due
  <1> QED
    BY <1>1, <1>2 DEF DueIn, Most

\* What a poll does to the trackers: without a frame, with one, or until one comes.
Marked(p, q, at, which) ==
  /\ IsPoller(q) /\ q.history = p.history
  /\ \A t \in Ids : IF t \in which THEN q.last[t] = at /\ q.latest[t].kind = "Inactive"
                    ELSE q.last[t] = p.last[t] /\ q.latest[t] = p.latest[t]

LEMMA Marks ==
  ASSUME NEW p, IsPoller(p), NEW at \in Nat, NEW which \in SUBSET Ids, NEW reason
  PROVE  Marked(p, MarkInactive(p, at, which, reason), at, which)
  <1> DEFINE q == MarkInactive(p, at, which, reason)
  <1>1. /\ IsPoller(q) /\ q.history = p.history
        /\ \A t \in Ids : /\ q.last[t] = IF t \in which THEN at ELSE p.last[t]
                          /\ q.latest[t] = IF t \in which THEN Inactive(reason) ELSE p.latest[t]
    BY MarkInactiveIs
  <1>2. Inactive(reason).kind = "Inactive"
    BY DEF Inactive
  <1> HIDE DEF q
  <1>3. Marked(p, q, at, which)
    BY <1>1, <1>2 DEF Marked
  <1> QED
    BY <1>3 DEF q

\* A poll without a frame, one that begins, and the two ends of one.
OutOfScope ==
  /\ status = "running" /\ ~Waits /\ Marked(poller, poller', now, Due(poller, now))
  /\ Rendering(context, now)
  /\ UNCHANGED <<now, focus, context, hidden, away>>
Begins ==
  /\ status = "running" /\ ~Waits
  /\ Waits' /\ turn'.active \in SUBSET Due(poller, now) /\ turn'.active # {}
  /\ turn'.now = now /\ turn'.context = context
  /\ Marked(poller, poller', now, Due(poller, now) \ turn'.active)
  /\ UNCHANGED <<now, focus, context, hidden, qml, status, away>>
Ends ==
  /\ Waits
  /\ \/ AllPolled(poller, poller', turn.now, turn.active, now)
     \/ Marked(poller, poller', turn.now, turn.active)
  /\ Rendering(turn.context, now)
  /\ UNCHANGED <<now, focus, context, hidden, away>>

LEMMA PollSteps ==
  ASSUME ScreenTyped, TurnTyped
  PROVE  /\ PollOutOfScope => OutOfScope
         /\ PollBegins => Begins
         /\ PollFails => Ends
         /\ \A picture \in Pictures : PollEnds(picture) => Ends
  <1>1. IsPoller(poller) /\ now \in Nat
    BY DEF ScreenTyped
  <1>2. Due(poller, now) \in SUBSET Ids
    BY DEF Due
  <1>3. PollOutOfScope => OutOfScope
    <2> SUFFICES ASSUME PollOutOfScope PROVE OutOfScope
      OBVIOUS
    <2>1. /\ poller' = MarkInactive(poller, now, Due(poller, now), "FocusInactive")
          /\ Render(context, poller'.latest, now)
      BY DEF PollOutOfScope
    <2>2. Marked(poller, poller', now, Due(poller, now))
      BY <1>1, <1>2, <2>1, Marks
    <2>3. Rendering(context, now)
      BY <2>1, RenderIs
    <2> QED
      BY <2>2, <2>3 DEF PollOutOfScope, OutOfScope, Waits
  <1>4. PollBegins => Begins
    <2> SUFFICES ASSUME PollBegins PROVE Begins
      OBVIOUS
    <2> DEFINE active == InScope(Due(poller, now), context, now)
    <2>1. /\ poller' = MarkInactive(poller, now, Due(poller, now) \ active, "FocusInactive")
          /\ turn' = [now |-> now, active |-> active, context |-> context] /\ active # {}
      BY DEF PollBegins
    <2>2. active \in SUBSET Due(poller, now)
      BY DEF InScope
    <2> HIDE DEF active
    <2>3. Marked(poller, poller', now, Due(poller, now) \ active)
      BY <1>1, <1>2, <2>1, Marks
    <2>4. Waits' /\ turn'.active = active /\ turn'.now = now /\ turn'.context = context
      BY <2>1 DEF Waits, NoTurn
    <2> QED
      BY <2>1, <2>2, <2>3, <2>4 DEF PollBegins, Begins, Waits
  <1>5. PollFails => Ends
    <2> SUFFICES ASSUME PollFails PROVE Ends
      OBVIOUS
    <2>1. /\ poller' = MarkInactive(poller, turn.now, turn.active, "NoReadableSample")
          /\ Render(turn.context, poller'.latest, now) /\ Waits
      BY DEF PollFails, Waits
    <2>2. turn.now \in Nat /\ turn.active \in SUBSET Ids
      BY <2>1 DEF TurnTyped
    <2>3. Marked(poller, poller', turn.now, turn.active)
      BY <1>1, <2>1, <2>2, Marks
    <2>4. Rendering(turn.context, now)
      BY <2>1, RenderIs
    <2> QED
      BY <2>1, <2>3, <2>4 DEF PollFails, Ends
  <1>6. ASSUME NEW picture \in Pictures, PollEnds(picture) PROVE Ends
    <2>1. PICK s \in ScalesFor(picture) :
            poller' = PollAll(poller, turn.now, turn.active, Sees[s][picture], now)
      BY <1>6 DEF PollEnds
    <2>2. Waits /\ Render(turn.context, poller'.latest, now)
      BY <1>6 DEF PollEnds, Waits
    <2>3. turn.now \in Nat
      BY <2>2 DEF TurnTyped
    <2>4. AllPolled(poller, poller', turn.now, turn.active, now)
      BY <1>1, <2>1, <2>3, PollAllPolls
    <2>5. Rendering(turn.context, now)
      BY <2>2, RenderIs
    <2> QED
      BY <1>6, <2>2, <2>4, <2>5 DEF PollEnds, Ends
  <1> QED
    BY <1>3, <1>4, <1>5, <1>6

\* The steps that poll nothing.
OtherStep ==
  \/ Tick \/ MoveFocus \/ Report \/ Stop \/ Kill \/ UNCHANGED overlay_vars
  \/ \E o \in Shown : QmlExits(o) \/ Toggle(o)

LEMMA OverlaySteps ==
  ASSUME ScreenTyped, TurnTyped, [OverlayNext]_overlay_vars
  PROVE  OutOfScope \/ Begins \/ Ends \/ OtherStep
  BY PollSteps DEF OverlayNext, OtherStep

LEMMA ScreenTypedStep ==
  ASSUME ScreenTyped, TurnTyped, [OverlayNext]_overlay_vars
  PROVE  ScreenTyped' /\ TurnTyped'
  <1>1. CASE OutOfScope
    <2>1. ~Waits'
      BY <1>1 DEF OutOfScope, Rendering, Waits
    <2>2. IsPoller(poller') /\ \A t \in Ids : poller'.last[t] # NONE => poller'.last[t] <= now
      BY <1>1 DEF OutOfScope, Marked, ScreenTyped
    <2> QED
      BY <1>1, <2>1, <2>2 DEF OutOfScope, Rendering, ScreenTyped, TurnTyped
  <1>2. CASE Begins
    <2>1. IsPoller(poller') /\ \A t \in Ids : poller'.last[t] # NONE => poller'.last[t] <= now
      BY <1>2 DEF Begins, Marked, ScreenTyped
    <2>2. ScreenTyped'
      BY <1>2, <2>1 DEF Begins, ScreenTyped
    <2>3. now <= now + CaptureWait /\ now \in 0..now
      BY OverlaysAssumption DEF ScreenTyped
    <2>4. Due(poller, now) \in SUBSET Ids
      BY DEF Due
    <2> QED
      BY <1>2, <2>1, <2>2, <2>3, <2>4 DEF Begins, ScreenTyped, TurnTyped
  <1>3. CASE Ends
    <2>1. ~Waits'
      BY <1>3 DEF Ends, Rendering, Waits
    <2>2. turn.now <= now /\ turn.now \in Nat
      BY <1>3 DEF Ends, ScreenTyped, TurnTyped
    <2>3. IsPoller(poller') /\ \A t \in Ids : poller'.last[t] \in {poller.last[t], turn.now}
      BY <1>3 DEF Ends, Marked, AllPolled
    <2>4. \A t \in Ids : poller'.last[t] # NONE => poller'.last[t] <= now
      BY <2>2, <2>3 DEF ScreenTyped
    <2> QED
      BY <1>3, <2>1, <2>3, <2>4 DEF Ends, Rendering, ScreenTyped, TurnTyped
  <1>4. CASE Tick
    <2>1. now' = now + 1 /\ now \in Nat /\ (Waits => now + 1 <= turn.now + CaptureWait)
      BY <1>4, OverlaysAssumption DEF Tick, ScreenTyped, Waits, TurnTyped
    <2>2. away' \in [Shown -> Nat] /\ \A o \in Shown : away'[o] <= now + 1
      BY <1>4 DEF Tick, ScreenTyped
    <2>3. UNCHANGED <<scale, focus, context, poller, turn, cast, hidden, qml, status, looked>>
      BY <1>4 DEF Tick
    <2>4. ScreenTyped'
      <3>1. context.at \in 0..(now + 1) /\ \A t \in Ids : poller.last[t] # NONE => poller.last[t] <= now + 1
        BY <2>1 DEF ScreenTyped, IsPoller
      <3> QED
        BY <2>1, <2>2, <2>3, <3>1 DEF ScreenTyped
    <2>5. TurnTyped'
      <3>1. Waits' = Waits
        BY <2>3 DEF Waits
      <3>2. Waits => turn.now \in 0..(now + 1)
        BY <2>1 DEF TurnTyped
      <3> QED
        BY <2>1, <2>3, <3>1, <3>2 DEF TurnTyped
    <2> QED
      BY <2>4, <2>5
  <1>5. CASE MoveFocus
    BY <1>5 DEF MoveFocus, ScreenTyped, TurnTyped, Waits
  <1>6. CASE Report
    <2>1. context'.at = now /\ now \in 0..now
      BY <1>6 DEF Report, ContextOf, ScreenTyped
    <2> QED
      BY <1>6, <2>1 DEF Report, ScreenTyped, TurnTyped, Waits
  <1>7. CASE Stop \/ Kill
    <2>1. ~Waits' /\ UNCHANGED <<now, scale, focus, context, poller, hidden, away, looked>>
      BY <1>7 DEF Stop, Leave, Kill, Waits
    <2>2. /\ qml' = [o \in Shown |-> qml'[o]]
          /\ \A o \in Shown :
               qml'[o] = NoProcess \/ qml'[o] = [child |-> qml'[o].child, state |-> qml'[o].state]
      BY <1>7 DEF Stop, Leave, Kill, Stopped, NoProcess, ScreenTyped
    <2> QED
      BY <2>1, <2>2 DEF ScreenTyped, TurnTyped
  <1>8. ASSUME NEW o \in Shown, QmlExits(o) \/ Toggle(o)
        PROVE  ScreenTyped' /\ TurnTyped'
    <2>1. UNCHANGED <<now, scale, focus, context, poller, turn, cast, status, away, looked>>
      BY <1>8 DEF QmlExits, Toggle
    <2>2. hidden' \in SUBSET Shown
      BY <1>8 DEF QmlExits, Toggle, ScreenTyped
    <2>3. /\ qml' = [i \in Shown |-> qml'[i]]
          /\ \A i \in Shown :
               qml'[i] = NoProcess \/ qml'[i] = [child |-> qml'[i].child, state |-> qml'[i].state]
      BY <1>8 DEF QmlExits, Toggle, ScreenTyped
    <2> QED
      BY <2>1, <2>2, <2>3 DEF ScreenTyped, TurnTyped, Waits
  <1>9. CASE UNCHANGED overlay_vars
    BY <1>9 DEF overlay_vars, ScreenTyped, TurnTyped, Waits
  <1> QED
    BY <1>1, <1>2, <1>3, <1>4, <1>5, <1>6, <1>7, <1>8, <1>9, OverlaySteps DEF OtherStep

\* When a tracker is or will have been polled last, once the poll that waits has ended.
Met(t) == IF Waits /\ t \in turn.active THEN turn.now ELSE poller.last[t]

\* A tracker that has been polled was not before another one that was due by then.
PollsOrdered ==
  status = "running" =>
    \A t, s \in Ids : Met(t) # NONE => Met(s) # NONE /\ Met(s) + Tracker[s].poll > Met(t)
Skipped ==
  Waits => \A t \in Ids \ turn.active :
             poller.last[t] = turn.now => poller.latest[t].kind = "Inactive"
CountsDown == \A t \in Ids : CountsFrom(t, poller.latest[t], poller.history[t])

ReadInv ==
  /\ ScreenTyped /\ TurnTyped
  /\ HiddenStaysHidden /\ PollsOrdered /\ Skipped /\ ConditionsHold /\ CountsDown

\* A poll at a time when trackers were polled has nothing to do.
LEMMA NothingDue ==
  ASSUME ScreenTyped, PollsOrdered, status = "running", ~Waits,
         NEW t \in Ids, poller.last[t] = now
  PROVE  Due(poller, now) = {}
  <1> SUFFICES ASSUME NEW s \in Due(poller, now) PROVE FALSE
    OBVIOUS
  <1>1. s \in Ids
    BY DEF Due
  <1>2. poller.last[s] = NONE \/ poller.last[s] + Tracker[s].poll <= now
    BY <1>1, DueIs
  <1>3. now # NONE /\ now \in Nat
    BY TrackersAssumption DEF ScreenTyped
  <1>4. poller.last[s] # NONE /\ poller.last[s] + Tracker[s].poll > now
    BY <1>1, <1>3 DEF PollsOrdered, Met
  <1>5. poller.last[s] \in Nat /\ Tracker[s].poll \in Nat
    BY <1>1, <1>4, TrackerFacts DEF ScreenTyped, IsPoller
  <1> QED
    BY <1>2, <1>3, <1>4, <1>5

LEMMA PollsOrderedStep ==
  ASSUME ReadInv, [OverlayNext]_overlay_vars
  PROVE  PollsOrdered'
  <1> USE DEF ReadInv
  <1>1. ASSUME \A t \in Ids : Met(t)' = IF t \in Due(poller, now) THEN now ELSE poller.last[t]
        PROVE  PollsOrdered'
    <2>1. ASSUME NEW t \in Ids, NEW s \in Ids, Met(t)' # NONE
          PROVE  Met(s)' # NONE /\ Met(s)' + Tracker[s].poll > Met(t)'
      <3>1. now \in Nat /\ now # NONE /\ Tracker[s].poll \in Nat \ {0}
        BY TrackersAssumption, TrackerFacts DEF ScreenTyped
      <3>2. Met(t)' \in Nat /\ Met(t)' <= now
        BY <1>1, <2>1, <3>1 DEF ScreenTyped, IsPoller
      <3>3. CASE s \in Due(poller, now)
        <4>1. Met(s)' = now
          BY <1>1, <3>3
        <4> QED
          BY <3>1, <3>2, <4>1
      <3>4. CASE s \notin Due(poller, now)
        <4>1. Met(s)' = poller.last[s]
          BY <1>1, <3>4
        <4>2. poller.last[s] # NONE /\ ~(poller.last[s] + Tracker[s].poll <= now)
          BY <3>4, DueIs
        <4>3. poller.last[s] \in Nat
          BY <4>2 DEF ScreenTyped, IsPoller
        <4> QED
          BY <3>1, <3>2, <4>1, <4>2, <4>3
      <3> QED
        BY <3>3, <3>4
    <2> QED
      BY <2>1 DEF PollsOrdered
  <1>2. CASE OutOfScope
    <2>1. \A t \in Ids : Met(t)' = IF t \in Due(poller, now) THEN now ELSE poller.last[t]
      BY <1>2 DEF OutOfScope, Rendering, Marked, Met, Waits
    <2> QED
      BY <1>1, <2>1
  <1>3. CASE Begins
    <2>1. \A t \in Ids : Met(t)' = IF t \in Due(poller, now) THEN now ELSE poller.last[t]
      BY <1>3 DEF Begins, Marked, Met
    <2> QED
      BY <1>1, <2>1
  <1>4. CASE Ends
    <2>1. \A t \in Ids : Met(t)' = Met(t)
      BY <1>4 DEF Ends, Rendering, Marked, AllPolled, Met, Waits
    <2>2. status = "running"
      BY <1>4 DEF Ends, TurnTyped
    <2> QED
      BY <2>1, <2>2 DEF PollsOrdered
  <1>5. CASE OtherStep
    <2>1. UNCHANGED <<poller, turn, status>> \/ status' # "running"
      BY <1>5 DEF OtherStep, Tick, MoveFocus, Report, Stop, Leave, Kill, QmlExits, Toggle, overlay_vars
    <2> QED
      BY <2>1 DEF PollsOrdered, Met, Waits
  <1> QED
    BY <1>2, <1>3, <1>4, <1>5, OverlaySteps

\* The steps that poll nothing, for what is known of the poller.
LEMMA OthersKeep ==
  ASSUME OtherStep
  PROVE  poller' = poller /\ (Waits' => UNCHANGED turn)
  BY DEF OtherStep, Tick, MoveFocus, Report, Stop, Leave, Kill, QmlExits, Toggle, overlay_vars, Waits

LEMMA SkippedStep ==
  ASSUME ReadInv, [OverlayNext]_overlay_vars
  PROVE  Skipped'
  <1> USE DEF ReadInv
  <1>1. CASE OutOfScope \/ Ends
    <2>1. ~Waits'
      BY <1>1 DEF OutOfScope, Ends, Rendering, Waits
    <2> QED
      BY <2>1 DEF Skipped
  <1>2. CASE Begins
    <2> SUFFICES ASSUME NEW t \in Ids \ turn'.active, poller'.last[t] = turn'.now
                 PROVE  poller'.latest[t].kind = "Inactive"
      BY DEF Skipped
    <2>1. CASE t \in Due(poller, now)
      BY <1>2, <2>1 DEF Begins, Marked
    <2>2. CASE t \notin Due(poller, now)
      <3>1. poller.last[t] = now
        BY <1>2, <2>2 DEF Begins, Marked
      <3>2. Due(poller, now) = {}
        BY <1>2, <3>1, NothingDue DEF Begins
      <3> QED
        BY <1>2, <3>2 DEF Begins
    <2> QED
      BY <2>1, <2>2
  <1>3. CASE OtherStep
    BY <1>3, OthersKeep DEF Skipped, Waits
  <1> QED
    BY <1>1, <1>2, <1>3, OverlaySteps

LEMMA ConditionTracked ==
  ASSUME NEW t \in Ids, Tracker[t].condition # NONE
  PROVE  Tracker[t].condition.tracker \in Ids
  <1>1. PICK i \in DOMAIN Trackers : Trackers[i] = t
    BY DEF Ids, Range
  <1>2. PICK j \in 1..(i - 1) : Trackers[j] = Tracker[t].condition.tracker
    BY <1>1, TrackersAssumption
  <1>3. j \in DOMAIN Trackers
    BY <1>1, <1>2, TrackersAssumption
  <1> QED
    BY <1>2, <1>3, TrackersAssumption

LEMMA ConditionsHoldStep ==
  ASSUME ReadInv, [OverlayNext]_overlay_vars
  PROVE  ConditionsHold'
  <1> USE DEF ReadInv
  <1> DEFINE c(t) == Tracker[t].condition
  <1>1. SUFFICES ASSUME NEW t \in Ids, c(t) # NONE, poller'.last[t] # NONE,
                        poller'.last[c(t).tracker] = poller'.last[t],
                        poller'.latest[t].kind # "Inactive"
                 PROVE  ConditionMatches(c(t), poller'.latest)
    BY DEF ConditionsHold
  <1>2. c(t).tracker \in Ids
    BY <1>1, ConditionTracked
  <1> HIDE DEF c
  <1>3. ASSUME UNCHANGED <<poller.last[t], poller.latest[t], poller.last[c(t).tracker],
                           poller.latest[c(t).tracker]>>
        PROVE  ConditionMatches(c(t), poller'.latest)
    <2>1. ConditionMatches(c(t), poller.latest)
      BY <1>1, <1>3 DEF ConditionsHold, c
    <2> QED
      BY <1>3, <2>1 DEF ConditionMatches
  <1>4. ASSUME NEW which \in SUBSET Due(poller, now), Marked(poller, poller', now, which),
               ~Waits, status = "running"
        PROVE  ConditionMatches(c(t), poller'.latest)
    <2>1. t \notin which /\ poller'.last[t] = poller.last[t] /\ poller'.latest[t] = poller.latest[t]
      BY <1>1, <1>4 DEF Marked
    <2>2. c(t).tracker \notin which
      <3> SUFFICES ASSUME c(t).tracker \in which PROVE FALSE
        OBVIOUS
      <3>1. poller.last[t] = now
        BY <1>1, <1>2, <1>4, <2>1 DEF Marked
      <3>2. Due(poller, now) = {}
        BY <1>4, <3>1, NothingDue
      <3> QED
        BY <3>2
    <2> QED
      BY <1>2, <1>3, <1>4, <2>1, <2>2 DEF Marked
  <1>5. CASE OutOfScope
    BY <1>4, <1>5 DEF OutOfScope
  <1>6. CASE Begins
    <2>1. Due(poller, now) \ turn'.active \in SUBSET Due(poller, now)
      OBVIOUS
    <2> QED
      BY <1>4, <1>6, <2>1 DEF Begins
  <1>7. CASE Ends
    <2>1. CASE t \notin turn.active
      <3>1. poller'.last[t] = poller.last[t] /\ poller'.latest[t] = poller.latest[t]
        BY <1>7, <2>1 DEF Ends, Marked, AllPolled
      <3>2. c(t).tracker \notin turn.active
        <4> SUFFICES ASSUME c(t).tracker \in turn.active PROVE FALSE
          OBVIOUS
        <4>1. poller.last[t] = turn.now
          BY <1>1, <1>2, <1>7, <3>1 DEF Ends, Marked, AllPolled
        <4> QED
          BY <1>1, <1>7, <2>1, <3>1, <4>1 DEF Skipped, Ends
      <3> QED
        BY <1>2, <1>3, <1>7, <3>1, <3>2 DEF Ends, Marked, AllPolled
    <2>2. CASE t \in turn.active
      <3>1. Obeys(t, poller'.latest)
        BY <1>1, <1>7, <2>2 DEF Ends, Marked, AllPolled
      <3> QED
        BY <1>1, <3>1 DEF Obeys, c
    <2> QED
      BY <2>1, <2>2
  <1>8. CASE OtherStep
    BY <1>3, <1>8, OthersKeep
  <1> QED
    BY <1>5, <1>6, <1>7, <1>8, OverlaySteps

LEMMA CountsDownStep ==
  ASSUME ReadInv, [OverlayNext]_overlay_vars
  PROVE  CountsDown'
  <1> USE DEF ReadInv
  <1>1. ASSUME NEW at, NEW which, Marked(poller, poller', at, which)
        PROVE  CountsDown'
    <2>1. \A t \in which : ~(poller'.latest[t].kind = "Inactive" /\ Counting(poller'.latest[t]))
      BY DEF Counting
    <2> QED
      BY <1>1, <2>1 DEF Marked, CountsDown, CountsFrom
  <1>2. CASE OutOfScope \/ Begins
    BY <1>1, <1>2 DEF OutOfScope, Begins
  <1>3. CASE Ends
    <2>1. CASE AllPolled(poller, poller', turn.now, turn.active, now)
      <3> SUFFICES ASSUME NEW t \in Ids
                   PROVE  CountsFrom(t, poller'.latest[t], poller'.history[t])
        BY DEF CountsDown
      <3>1. CASE t \in turn.active
        BY <2>1, <3>1 DEF AllPolled, Observed, CountsFrom
      <3>2. CASE t \notin turn.active
        BY <2>1, <3>2 DEF AllPolled, CountsDown
      <3> QED
        BY <3>1, <3>2
    <2> QED
      BY <1>1, <1>3, <2>1 DEF Ends
  <1>4. CASE OtherStep
    BY <1>4, OthersKeep DEF CountsDown
  <1> QED
    BY <1>2, <1>3, <1>4, OverlaySteps

LEMMA HiddenStep ==
  ASSUME ReadInv, [OverlayNext]_overlay_vars
  PROVE  HiddenStaysHidden'
  <1> USE DEF ReadInv
  <1>1. CASE OutOfScope \/ Ends
    BY <1>1 DEF OutOfScope, Ends, Rendering, HiddenStaysHidden
  <1>2. CASE Begins
    BY <1>2 DEF Begins, HiddenStaysHidden
  <1>3. CASE OtherStep
    <2>1. CASE Stop \/ Kill
      BY <2>1 DEF Stop, Leave, Kill, Stopped, HiddenStaysHidden, ScreenTyped
    <2>2. CASE Tick \/ MoveFocus \/ Report \/ UNCHANGED overlay_vars
      BY <2>2 DEF Tick, MoveFocus, Report, overlay_vars, HiddenStaysHidden
    <2>3. ASSUME NEW o \in Shown, QmlExits(o) \/ Toggle(o) PROVE HiddenStaysHidden'
      BY <2>3 DEF QmlExits, Toggle, HiddenStaysHidden, ScreenTyped
    <2> QED
      BY <1>3, <2>1, <2>2, <2>3 DEF OtherStep
  <1> QED
    BY <1>1, <1>2, <1>3, OverlaySteps

LEMMA ReadInvInit == OverlayInit => ReadInv
  <1> SUFFICES ASSUME OverlayInit PROVE ReadInv
    OBVIOUS
  <1>1. IsPoller(poller)
    <2>1. IsHistory(NoHistory)
      <3>1. <<>> \in Seq({})
        OBVIOUS
      <3>2. Observations(<<>>)
        BY <3>1 DEF Observations
      <3> QED
        BY <3>2 DEF IsHistory, NoHistory
    <2> QED
      BY <2>1 DEF OverlayInit, IsPoller, NewPoller
  <1>2. \A t \in Ids : poller.last[t] = NONE /\ poller.latest[t] = NONE
    BY DEF OverlayInit, NewPoller
  <1>3. ~Waits
    BY DEF OverlayInit, Waits
  <1>4. ScreenTyped
    <2>1. 0 \in 0..0 /\ context.at = 0 /\ now = 0
      BY DEF OverlayInit
    <2>2. qml = [o \in Shown |-> NoProcess]
      BY DEF OverlayInit, Stopped
    <2>3. away \in [Shown -> Nat] /\ hidden \in SUBSET Shown /\ \A o \in Shown : away[o] = 0
      BY DEF OverlayInit
    <2> QED
      BY <1>1, <1>2, <2>1, <2>2, <2>3 DEF ScreenTyped
  <1>5. CountsDown
    BY <1>2 DEF CountsDown, CountsFrom, Counting
  <1>6. PollsOrdered /\ Skipped /\ TurnTyped
    BY <1>2, <1>3 DEF PollsOrdered, Met, Skipped, TurnTyped
  <1> QED
    BY <1>2, <1>4, <1>5, <1>6 DEF OverlayInit, ReadInv, HiddenStaysHidden, ConditionsHold

LEMMA ReadInvStep ==
  ASSUME ReadInv, [OverlayNext]_overlay_vars
  PROVE  ReadInv'
  <1>1. ScreenTyped' /\ TurnTyped'
    BY ScreenTypedStep DEF ReadInv
  <1> QED
    BY <1>1, HiddenStep, PollsOrderedStep, SkippedStep, ConditionsHoldStep, CountsDownStep DEF ReadInv

\* A tracker with a condition is active only on what the same poll made of its source,
\* whatever is due, in scope, late or killed meanwhile.
THEOREM SourcesGateTrackers == OverlaySpec => []ConditionsHold
  <1>1. ReadInv => ConditionsHold
    BY DEF ReadInv
  <1> QED
    BY ReadInvInit, ReadInvStep, <1>1, PTL DEF OverlaySpec

\* An overlay the user has hidden has no process, whatever poll, failure or exit comes
\* before the user shows it again.
THEOREM HidingLasts == OverlaySpec => []HiddenStaysHidden
  <1>1. ReadInv => HiddenStaysHidden
    BY DEF ReadInv
  <1> QED
    BY ReadInvInit, ReadInvStep, <1>1, PTL DEF OverlaySpec

LEMMA CountdownStep ==
  ASSUME ReadInv, [OverlayNext]_overlay_vars
  PROVE  RunsDown
  <1> USE DEF ReadInv
  <1> SUFFICES ASSUME NEW t \in Ids,
                      poller.history[t].observations # poller'.history[t].observations,
                      Counting(poller.latest[t]), Counting(poller'.latest[t])
               PROVE  poller.latest[t].predicted - poller'.latest[t].predicted
                        = Last(poller'.history[t].observations).at
                            - Last(poller.history[t].observations).at
    BY DEF RunsDown
  <1> DEFINE h == poller.history[t]
             k == poller'.history[t]
             duration == Tracker[t].detector.prediction.duration
  <1>1. Ends
    <2>1. ~(OutOfScope \/ Begins)
      BY DEF OutOfScope, Begins, Marked
    <2>2. ~OtherStep
      BY OthersKeep
    <2> QED
      BY <2>1, <2>2, OverlaySteps
  <1>2. AllPolled(poller, poller', turn.now, turn.active, now) /\ t \in turn.active
    BY <1>1 DEF Ends, Marked, AllPolled
  <1>3. Observed(t, poller'.latest[t], h, k, now)
    BY <1>2 DEF AllPolled
  <1>4. /\ h.phase = "Active" /\ h.activeSince \in Nat /\ h.observations # <<>> /\ duration \in Nat
        /\ poller.latest[t].predicted = duration - (Last(h.observations).at - h.activeSince)
    BY DEF CountsDown, CountsFrom
  <1>5. /\ k.activeSince = h.activeSince /\ Last(k.observations).at = now
        /\ poller'.latest[t].predicted = duration - (Last(k.observations).at - k.activeSince)
    BY <1>3, <1>4 DEF Observed, CountsFrom
  <1>6. Last(h.observations).at \in Nat
    <2>1. Observations(h.observations)
      BY DEF ScreenTyped, IsPoller, IsHistory
    <2>2. PICK S : h.observations \in Seq(S)
      BY <2>1 DEF Observations
    <2>3. Len(h.observations) \in DOMAIN h.observations
      BY <1>4, <2>2
    <2> QED
      BY <2>1, <2>3 DEF Observations, Last
  <1>7. now \in Nat
    BY DEF ScreenTyped
  <1> HIDE DEF h, k, duration
  <1> DEFINE a == Last(h.observations).at
             b == h.activeSince
             old == poller.latest[t].predicted
             new == poller'.latest[t].predicted
  <1>8. old = duration - (a - b) /\ new = duration - (now - b) /\ a \in Nat /\ b \in Nat /\ duration \in Nat
    BY <1>4, <1>5, <1>6
  <1> HIDE DEF a, b, old, new
  <1>9. old - new = now - a
    BY <1>7, <1>8
  <1> QED
    BY <1>5, <1>9 DEF a, old, new, h, k

\* From one frame of an active skill to the next the countdown goes down by the time
\* between them, whatever other trackers do and however few observations are kept.
THEOREM CountdownIsEven == OverlaySpec => CountdownRunsDown
  BY ReadInvInit, ReadInvStep, CountdownStep, PTL DEF OverlaySpec, CountdownRunsDown

-----------------------------------------------------------------------------
(* How long an overlay outlives the focus.                                   *)

Shortest == Min({Tracker[t].poll : t \in Ids})

\* What is known of the focus was so then: an overlay it is in the scope of cannot have been
\* outside for longer.
KnownSince(report) ==
  \A o \in Shown : Decide(Overlay[o].scope, report, report.at) = "Allowed" => report.at + away[o] <= now

\* A visible overlay has been outside for no longer than a report is believed, the shortest
\* interval, the loop's lag and what the poll that waits has waited; between two polls, for
\* no longer than a report is believed and the time since every tracker's last poll.
AwayInv ==
  /\ \A o \in Shown : InsideScope(o, focus) => away[o] = 0
  /\ KnownSince(context) /\ (Waits => KnownSince(turn.context))
VisibleInv ==
  status = "running" =>
    \A o \in Visible :
      /\ ~Waits => \A t \in Ids : poller.last[t] # NONE =>
                     away[o] + poller.last[t] <= FocusStaleAfter + now
      /\ away[o] <= FocusStaleAfter + Shortest + Lag + (IF Waits THEN now - turn.now ELSE 0)

\* The least of some numbers.
LEMMA FirstIs ==
  ASSUME NEW S \in SUBSET Nat, S # {}
  PROVE  Min(S) \in S
  <1>1. PICK k \in S : \A j \in S : ~(<<j, k>> \in OpToRel(<, Nat))
    BY NatLessThanWellFounded, WFMin
  <1>2. \A j \in S : k <= j
    <2>1. \A j \in S : ~(j < k)
      BY <1>1 DEF OpToRel
    <2>2. k \in Nat /\ \A j \in S : j \in Nat
      BY <1>1
    <2> QED
      BY <2>1, <2>2
  <1> QED
    BY <1>1, <1>2 DEF Min

LEMMA ShortestIs ==
  ASSUME NEW o \in Shown
  PROVE  Shortest \in Nat /\ \E t \in Ids : Tracker[t].poll = Shortest
  <1> DEFINE S == {Tracker[t].poll : t \in Ids}
  <1>1. S \in SUBSET Nat
    BY TrackerFacts
  <1>2. S # {}
    <2>1. PICK i : i \in DOMAIN Overlay[o].visuals
      BY OverlaysAssumption
    <2>2. Overlay[o].visuals[i] \in Range(Overlay[o].visuals)
      BY <2>1 DEF Range
    <2>3. Overlay[o].visuals[i].tracker \in Ids
      BY <2>2, OverlaysAssumption
    <2> QED
      BY <2>3
  <1>3. S = {Tracker[t].poll : t \in Ids}
    OBVIOUS
  <1> HIDE DEF S
  <1>4. Min(S) \in S
    BY <1>1, <1>2, FirstIs
  <1> QED
    BY <1>1, <1>3, <1>4 DEF Shortest

\* The age of a context aside, its decision is the same whenever it was made.
LEMMA DecideNow ==
  ASSUME NEW window, NEW at \in Nat, NEW o \in Shown,
         Decide(Overlay[o].scope, ContextOf(Seat[window], at), at) = "Allowed"
  PROVE  InsideScope(o, window)
  <1>1. 0 \in Nat /\ ~(at > at) /\ ~(0 > 0) /\ ~(at - at > FocusStaleAfter) /\ ~(0 - 0 > FocusStaleAfter)
    BY TrackersAssumption
  <1>2. /\ ContextOf(Seat[window], at).confidence = ContextOf(Seat[window], 0).confidence
        /\ ContextOf(Seat[window], at).name = ContextOf(Seat[window], 0).name
        /\ ContextOf(Seat[window], at).at = at /\ ContextOf(Seat[window], 0).at = 0
    BY DEF ContextOf
  <1> QED
    BY <1>1, <1>2 DEF Decide, InsideScope

\* An overlay that a poll draws has not been outside for longer than a report is believed.
LEMMA AllowedIsNear ==
  ASSUME ScreenTyped, AwayInv, NEW o \in Shown, NEW report, report.at \in 0..now, KnownSince(report),
         Decide(Overlay[o].scope, report, now) = "Allowed"
  PROVE  away[o] <= FocusStaleAfter
  <1>0. now \in Nat /\ away[o] \in Nat /\ FocusStaleAfter \in Nat /\ report.at \in Nat /\ report.at <= now
    BY TrackersAssumption DEF ScreenTyped
  <1>1. CASE Overlay[o].scope = Global
    <2>1. InsideScope(o, focus)
      BY <1>1 DEF InsideScope, Decide
    <2> QED
      BY <1>0, <2>1 DEF AwayInv
  <1>2. CASE Overlay[o].scope # Global
    <2>1. /\ ~(now - report.at > FocusStaleAfter)
          /\ ~(report.at > report.at) /\ ~(report.at - report.at > FocusStaleAfter)
      BY <1>0, <1>2 DEF Decide
    <2>2. Decide(Overlay[o].scope, report, report.at) = "Allowed"
      BY <1>2, <2>1 DEF Decide
    <2>3. report.at + away[o] <= now
      BY <2>2 DEF KnownSince
    <2> QED
      BY <1>0, <2>1, <2>3
  <1> QED
    BY <1>1, <1>2

LEMMA KnownLater ==
  ASSUME NEW report, KnownSince(report), now \in Nat, now' \in Nat, report.at \in Nat,
         \A o \in Shown : /\ away[o] \in Nat /\ away'[o] \in Nat
                          /\ away'[o] <= away[o] + (now' - now)
  PROVE  \A o \in Shown :
           Decide(Overlay[o].scope, report, report.at) = "Allowed" => report.at + away'[o] <= now'
  BY DEF KnownSince

\* Which contexts there are after a step, and what became of the time outside.
LEMMA AwayStep ==
  ASSUME ScreenTyped, TurnTyped, AwayInv, [OverlayNext]_overlay_vars
  PROVE  AwayInv'
  <1>0. now \in Nat /\ context.at \in Nat /\ (Waits => turn.context.at \in Nat)
        /\ \A o \in Shown : away[o] \in Nat
    BY DEF ScreenTyped, TurnTyped
  <1>1. ASSUME UNCHANGED <<now, focus, away>>, context' = context,
               Waits' => turn'.context = context \/ (Waits /\ turn' = turn)
        PROVE  AwayInv'
    BY <1>1 DEF AwayInv, KnownSince, InsideScope
  <1>2. CASE OutOfScope \/ Begins \/ Ends
    BY <1>1, <1>2 DEF OutOfScope, Begins, Ends, Rendering, Waits
  <1>3. CASE Stop \/ Kill \/ UNCHANGED overlay_vars
    BY <1>1, <1>3 DEF Stop, Leave, Kill, overlay_vars, Waits
  <1>4. ASSUME NEW o \in Shown, QmlExits(o) \/ Toggle(o) PROVE AwayInv'
    BY <1>1, <1>4 DEF QmlExits, Toggle, Waits
  <1>5. CASE Tick \/ MoveFocus
    <2>1. UNCHANGED <<context, turn>> /\ now' \in Nat
      BY <1>0, <1>5 DEF Tick, MoveFocus
    <2>2. \A o \in Shown : /\ away'[o] \in Nat /\ away'[o] <= away[o] + (now' - now)
                           /\ InsideScope(o, focus') => away'[o] = 0
      BY <1>0, <1>5 DEF Tick, MoveFocus
    <2>3. KnownSince(context)'
      BY <1>0, <2>1, <2>2, KnownLater DEF AwayInv, KnownSince
    <2>4. Waits' => KnownSince(turn.context)'
      <3> SUFFICES ASSUME Waits PROVE KnownSince(turn.context)'
        BY <2>1 DEF Waits
      <3>1. \A o \in Shown :
              Decide(Overlay[o].scope, turn.context, turn.context.at) = "Allowed"
                => turn.context.at + away'[o] <= now'
        BY <1>0, <2>1, <2>2, KnownLater DEF AwayInv
      <3> QED
        BY <2>1, <3>1 DEF KnownSince
    <2>5. \A o \in Shown : InsideScope(o, focus)' => away'[o] = 0
      BY <2>2 DEF InsideScope
    <2> QED
      BY <2>3, <2>4, <2>5 DEF AwayInv
  <1>6. CASE Report
    <2>1. UNCHANGED <<now, focus, turn, away>> /\ context' = ContextOf(Seat[focus], now)
      BY <1>6 DEF Report
    <2>2. context'.at = now
      BY <2>1 DEF ContextOf
    <2>3. ASSUME NEW o \in Shown, Decide(Overlay[o].scope, context', context'.at) = "Allowed"
          PROVE  context'.at + away[o] <= now
      <3>1. away[o] = 0
        BY <1>0, <2>1, <2>2, <2>3, DecideNow DEF AwayInv
      <3> QED
        BY <1>0, <2>2, <3>1
    <2>4. KnownSince(context)'
      BY <2>1, <2>3 DEF KnownSince
    <2> QED
      BY <2>1, <2>4 DEF AwayInv, KnownSince, InsideScope, Waits
  <1> QED
    BY <1>2, <1>3, <1>4, <1>5, <1>6, OverlaySteps DEF OtherStep

LEMMA VisibleStep ==
  ASSUME ReadInv, AwayInv, VisibleInv, [OverlayNext]_overlay_vars
  PROVE  VisibleInv'
  <1> USE DEF ReadInv
  <1> DEFINE S == FocusStaleAfter
  <1>0. /\ now \in Nat /\ S \in Nat /\ Lag \in Nat
        /\ \A o \in Shown : away[o] \in Nat /\ Shortest \in Nat
        /\ Visible \subseteq Shown /\ Visible' \subseteq Shown
    BY TrackersAssumption, OverlaysAssumption, ShortestIs DEF ScreenTyped, Visible
  <1>1. ScreenTyped' /\ TurnTyped' /\ HiddenStaysHidden'
    BY ReadInvStep
  <1>2. ASSUME NEW report, Rendering(report, now), report.at \in 0..now, KnownSince(report),
               UNCHANGED <<now, away, hidden>>
        PROVE  VisibleInv'
    <2> SUFFICES ASSUME status' = "running", NEW o \in Visible'
                 PROVE  /\ \A t \in Ids : poller'.last[t] # NONE =>
                                            away[o] + poller'.last[t] <= S + now
                        /\ away[o] <= S + Shortest + Lag
      <3>1. ~Waits'
        BY <1>2 DEF Rendering, Waits
      <3>2. \A o \in Visible' : /\ away[o] \in Nat /\ Shortest \in Nat
        BY <1>0
      <3> QED
        BY <1>0, <1>2, <3>1, <3>2 DEF VisibleInv
    <2>1. o \in Shown /\ o \notin hidden
      BY <1>0, <1>1, <1>2 DEF HiddenStaysHidden, Visible
    <2>2. away[o] <= S
      BY <1>2, <2>1, AllowedIsNear DEF Rendering
    <2>3. \A t \in Ids : poller'.last[t] # NONE => poller'.last[t] <= now /\ poller'.last[t] \in Nat
      BY <1>1, <1>2 DEF ScreenTyped, IsPoller
    <2>4. away[o] \in Nat /\ Shortest \in Nat
      BY <1>0, <2>1
    <2> QED
      BY <1>0, <2>2, <2>3, <2>4
  <1>3. CASE OutOfScope
    BY <1>2, <1>3 DEF OutOfScope, AwayInv, ScreenTyped
  <1>4. CASE Ends
    <2>1. turn.context.at \in 0..now
      BY <1>0, <1>4 DEF Ends, TurnTyped
    <2> QED
      BY <1>2, <1>4, <2>1 DEF Ends, AwayInv
  <1>5. CASE Begins
    <2>1. /\ Visible' = Visible /\ Waits' /\ ~Waits /\ turn'.now = now /\ status = "running"
          /\ UNCHANGED <<now, away, status>>
      BY <1>5 DEF Begins, Visible
    <2>2. \A o \in Visible : away[o] <= S + Shortest + Lag + 0
      BY <2>1 DEF VisibleInv
    <2>3. now - now = 0
      BY <1>0
    <2> QED
      BY <2>1, <2>2, <2>3 DEF VisibleInv
  <1>6. ASSUME Visible' \subseteq Visible, UNCHANGED <<now, poller, turn, status>>,
               \A o \in Shown : away'[o] \in Nat /\ away'[o] <= away[o]
        PROVE  VisibleInv'
    <2> SUFFICES ASSUME status = "running", NEW o \in Visible'
                 PROVE  /\ ~Waits => \A t \in Ids : poller.last[t] # NONE =>
                                       away'[o] + poller.last[t] <= S + now
                        /\ away'[o] <= S + Shortest + Lag + (IF Waits THEN now - turn.now ELSE 0)
      BY <1>6 DEF VisibleInv, Waits
    <2> DEFINE waited == IF Waits THEN now - turn.now ELSE 0
    <2>1. /\ o \in Shown /\ away[o] \in Nat /\ away'[o] \in Nat /\ away'[o] <= away[o]
          /\ Shortest \in Nat
      BY <1>0, <1>6
    <2>2. waited \in Int /\ \A t \in Ids : poller.last[t] # NONE => poller.last[t] \in Nat
      BY <1>0 DEF TurnTyped, ScreenTyped, IsPoller
    <2>3. away[o] <= S + Shortest + Lag + waited
      BY <1>6 DEF VisibleInv
    <2>4. ~Waits => \A t \in Ids : poller.last[t] # NONE => away[o] + poller.last[t] <= S + now
      BY <1>6 DEF VisibleInv
    <2>5. away'[o] <= S + Shortest + Lag + waited
      <3> HIDE DEF waited
      <3> QED
        BY <1>0, <2>1, <2>2, <2>3
    <2>6. ~Waits => \A t \in Ids : poller.last[t] # NONE => away'[o] + poller.last[t] <= S + now
      BY <1>0, <2>1, <2>2, <2>4
    <2> QED
      BY <2>5, <2>6
  <1>7. CASE MoveFocus \/ Report \/ UNCHANGED overlay_vars
    <2>1. Visible' \subseteq Visible /\ UNCHANGED <<now, poller, turn, status>>
      BY <1>7 DEF MoveFocus, Report, overlay_vars, Visible
    <2>2. \A o \in Shown : away'[o] \in Nat /\ away'[o] <= away[o]
      BY <1>0, <1>7 DEF MoveFocus, Report, overlay_vars
    <2> QED
      BY <1>6, <2>1, <2>2
  <1>8. ASSUME NEW o \in Shown, QmlExits(o) \/ Toggle(o) PROVE VisibleInv'
    <2>1. Visible' \subseteq Visible
      BY <1>8 DEF QmlExits, Toggle, Visible, ScreenTyped
    <2>2. UNCHANGED <<now, poller, turn, status, away>>
      BY <1>8 DEF QmlExits, Toggle
    <2>3. \A i \in Shown : away'[i] \in Nat /\ away'[i] <= away[i]
      BY <1>0, <2>2
    <2> QED
      BY <1>6, <2>1, <2>2, <2>3
  <1>9. CASE Stop \/ Kill
    BY <1>9 DEF Stop, Leave, Kill, VisibleInv
  <1>10. CASE Tick
    <2> SUFFICES ASSUME status = "running", NEW o \in Visible
                 PROVE  /\ ~Waits => \A t \in Ids : poller.last[t] # NONE =>
                                       away'[o] + poller.last[t] <= S + (now + 1)
                        /\ away'[o] <= S + Shortest + Lag + (IF Waits THEN (now + 1) - turn.now ELSE 0)
      BY <1>10 DEF Tick, VisibleInv, Waits, Visible
    <2>1. /\ o \in Shown /\ away[o] \in Nat /\ away'[o] \in Nat /\ away'[o] <= away[o] + 1
          /\ Shortest \in Nat
      BY <1>0, <1>10 DEF Tick
    <2>2. \A t \in Ids : poller.last[t] # NONE => poller.last[t] \in Nat
      BY DEF ScreenTyped, IsPoller
    <2>3. CASE Waits
      <3>1. turn.now \in Nat /\ away[o] <= S + Shortest + Lag + (now - turn.now)
        BY <2>3 DEF VisibleInv, TurnTyped
      <3>2. away'[o] <= S + Shortest + Lag + ((now + 1) - turn.now)
        BY <1>0, <2>1, <3>1
      <3> QED
        BY <2>3, <3>2
    <2>4. CASE ~Waits
      <3>1. \A t \in Ids : poller.last[t] # NONE => away[o] + poller.last[t] <= S + now
        BY <2>4 DEF VisibleInv
      <3>2. \A t \in Ids : poller.last[t] # NONE => away'[o] + poller.last[t] <= S + (now + 1)
        BY <1>0, <2>1, <2>2, <3>1
      <3>3. PICK t \in Ids : Tracker[t].poll = Shortest
        BY <2>1, ShortestIs
      <3>4. now < (IF poller.last[t] = NONE THEN 0 ELSE poller.last[t] + Shortest) + Lag
        BY <1>10, <2>4, <3>3 DEF Tick, Waits
      <3>5. away'[o] <= S + Shortest + Lag
        <4>1. CASE poller.last[t] = NONE
          <5>1. away[o] <= now /\ now < Lag
            BY <1>0, <2>1, <3>4, <4>1 DEF ScreenTyped
          <5> QED
            BY <1>0, <2>1, <5>1
        <4>2. CASE poller.last[t] # NONE
          <5>1. /\ poller.last[t] \in Nat /\ away'[o] + poller.last[t] <= S + (now + 1)
                /\ now < poller.last[t] + Shortest + Lag
            BY <2>2, <3>2, <3>4, <4>2
          <5> QED
            BY <1>0, <2>1, <5>1
        <4> QED
          BY <4>1, <4>2
      <3> QED
        BY <1>0, <2>1, <2>4, <3>2, <3>5
    <2> QED
      BY <2>3, <2>4
  <1> QED
    BY <1>3, <1>4, <1>5, <1>7, <1>8, <1>9, <1>10, OverlaySteps DEF OtherStep

ClosingInv == ReadInv /\ AwayInv /\ VisibleInv

LEMMA ClosingInit == OverlayInit => ClosingInv
  <1> SUFFICES ASSUME OverlayInit PROVE ClosingInv
    OBVIOUS
  <1>1. ReadInv
    BY ReadInvInit
  <1>2. Visible = {} /\ ~Waits /\ \A o \in Shown : away[o] = 0
    BY DEF OverlayInit, Visible, Stopped, Waits
  <1>3. ASSUME NEW o \in Shown, Decide(Overlay[o].scope, context, context.at) = "Allowed"
        PROVE  context.at + away[o] <= now
    <2>1. context.at = 0 /\ now = 0
      BY DEF OverlayInit
    <2> QED
      BY <1>2, <1>3, <2>1
  <1> QED
    BY <1>1, <1>2, <1>3 DEF ClosingInv, AwayInv, VisibleInv, KnownSince

LEMMA ClosesInTime ==
  ASSUME ClosingInv
  PROVE  OverlaysCloseWithFocus
  <1> USE DEF ClosingInv, ReadInv
  <1> SUFFICES ASSUME NEW o \in Visible, status = "running"
               PROVE  ~(away[o] > FocusStaleAfter + Shortest + Lag + CaptureWait)
    BY DEF OverlaysCloseWithFocus, Shortest
  <1> DEFINE waited == IF Waits THEN now - turn.now ELSE 0
  <1>1. /\ o \in Shown /\ FocusStaleAfter \in Nat /\ Lag \in Nat /\ CaptureWait \in Nat
        /\ away[o] \in Nat /\ Shortest \in Nat
    BY TrackersAssumption, OverlaysAssumption, ShortestIs DEF Visible, ScreenTyped
  <1>2. waited \in Int /\ waited <= CaptureWait
    BY <1>1 DEF ScreenTyped, TurnTyped
  <1>3. away[o] <= FocusStaleAfter + Shortest + Lag + waited
    BY DEF VisibleInv
  <1> HIDE DEF waited
  <1> QED
    BY <1>1, <1>2, <1>3

\* However KWin reports, captures fail and children exit, an overlay whose window lost
\* the focus is off the screen in the time that the report, the poll and the frame take.
THEOREM FocusClosesOverlays == OverlaySpec => []OverlaysCloseWithFocus
  <1>1. ClosingInv /\ [OverlayNext]_overlay_vars => ClosingInv'
    BY ReadInvStep, AwayStep, VisibleStep DEF ClosingInv, ReadInv
  <1> QED
    BY ClosingInit, <1>1, ClosesInTime, PTL DEF OverlaySpec

-----------------------------------------------------------------------------
(* Percentages.  What a detector makes of a frame is a share of the pixels   *)
(* of a region or a mean over them: first the arithmetic.                    *)

\* A quotient is not above k when the dividend is not above k divisors.
LEMMA QuotientBound ==
  ASSUME NEW a \in Nat, NEW b \in Nat, b # 0, NEW k \in Nat, a <= k * b
  PROVE  a \div b \in 0..k
  <1> DEFINE q == a \div b
  <1>1. q \in Int /\ b * q <= a /\ a < b * q + b
    OBVIOUS
  <1> HIDE DEF q
  <1>2. q >= 0
    <2>1. q < 0 => b * q + b <= 0
      <3>1. q < 0 => b * (q + 1) <= 0
        BY <1>1
      <3>2. b * (q + 1) = b * q + b
        BY <1>1
      <3> QED
        BY <3>1, <3>2
    <2> QED
      BY <1>1, <2>1
  <1>3. q <= k
    <2>1. q > k => b * (q - k) >= b
      BY <1>1
    <2>2. b * (q - k) = b * q - k * b
      BY <1>1
    <2> QED
      BY <1>1, <2>1, <2>2
  <1> QED
    BY <1>1, <1>2, <1>3 DEF q

LEMMA ProductIsNat ==
  ASSUME NEW a \in Nat, NEW b \in Nat
  PROVE  a * b \in Nat
  OBVIOUS

\* The share of a part, and the cells of a region, which are finitely many.
LEMMA RatioIsPercent ==
  ASSUME NEW whole, IsFiniteSet(whole), whole # {}, NEW part \in SUBSET whole
  PROVE  Ratio(part, whole) \in 0..100
  <1> DEFINE p == Cardinality(part)
             w == Cardinality(whole)
  <1>1. p \in Nat /\ w \in Nat /\ p <= w /\ w # 0
    BY FS_Subset, FS_CardinalityType, FS_EmptySet
  <1> HIDE DEF p, w
  <1>2. p * 100 \in Nat /\ p * 100 <= 100 * w
    BY <1>1
  <1>3. (p * 100) \div w \in 0..100
    BY <1>1, <1>2, QuotientBound
  <1> QED
    BY <1>3 DEF Ratio, p, w

LEMMA CellsAreFinite ==
  ASSUME NEW roi \in RoiType
  PROVE  /\ IsFiniteSet(Cells(roi))
         /\ \A at \in Cells(roi) : at[1] \in Nat /\ at[2] \in Nat
  <1> DEFINE X == roi.x..(roi.x + roi.w - 1)
             Y == roi.y..(roi.y + roi.h - 1)
  <1>1. roi.x \in Nat /\ roi.y \in Nat /\ roi.w \in Nat /\ roi.h \in Nat
    BY DEF RoiType
  <1>2. IsFiniteSet(X) /\ IsFiniteSet(Y)
    <2>1. roi.x + roi.w - 1 \in Int /\ roi.y + roi.h - 1 \in Int
      BY <1>1
    <2>2. \A a, b \in Int : IsFiniteSet(a..b)
      BY FS_Interval
    <2> QED
      BY <1>1, <2>1, <2>2
  <1>3. X \subseteq Nat /\ Y \subseteq Nat
    BY <1>1
  <1> HIDE DEF X, Y
  <1>4. Cells(roi) = X \X Y
    BY DEF Cells, X, Y
  <1>5. IsFiniteSet(X \X Y)
    BY <1>2, FS_Product
  <1> QED
    BY <1>3, <1>4, <1>5

-----------------------------------------------------------------------------
(* The mean: a sum over a finite set, one element at a time.                 *)

OneOf(s) == CHOOSE x \in s : TRUE
OneAdded(iter, values, s) == IF s = {} THEN 0 ELSE values[OneOf(s)] + iter[s \ {OneOf(s)}]
IsSums(iter, values, sets) == iter = [s \in sets |-> OneAdded(iter, values, s)]

\* The mean with its fold by name.
LEMMA MeanIs ==
  ASSUME NEW values
  PROVE  Mean(values) =
           (CHOOSE iter : IsSums(iter, values, SUBSET DOMAIN values))[DOMAIN values]
             \div Cardinality(DOMAIN values)
  BY DEF Mean, MapThenSumSet, MapThenFoldSet, IsSums, OneAdded, OneOf

\* The sets of at most n elements.
Small(S, n) == {s \in SUBSET S : Cardinality(s) <= n}

\* Every set is small enough for its own size, and one element less is one size less.
LEMMA SmallOnes ==
  ASSUME NEW S, IsFiniteSet(S)
  PROVE  /\ Cardinality(S) \in Nat /\ Small(S, Cardinality(S)) = SUBSET S
         /\ Small(S, 0) = {{}}
         /\ \A n \in Nat : \A s \in Small(S, n) : s # {} =>
              /\ n # 0 /\ OneOf(s) \in s
              /\ s \ {OneOf(s)} \in Small(S, n - 1)
              /\ Cardinality(s) \in Nat /\ Cardinality(s \ {OneOf(s)}) = Cardinality(s) - 1
         /\ \A n \in Nat : n # 0 => Small(S, n - 1) \subseteq Small(S, n)
  <1>1. \A s \in SUBSET S : /\ IsFiniteSet(s) /\ Cardinality(s) \in Nat
                            /\ Cardinality(s) <= Cardinality(S)
                            /\ Cardinality(s) = 0 <=> s = {}
    BY FS_Subset, FS_CardinalityType, FS_EmptySet
  <1>2. Cardinality(S) \in Nat /\ Small(S, Cardinality(S)) = SUBSET S
    BY <1>1 DEF Small
  <1>3. Small(S, 0) = {{}}
    BY <1>1 DEF Small
  <1>4. ASSUME NEW n \in Nat, NEW s \in Small(S, n), s # {}
        PROVE  /\ n # 0 /\ OneOf(s) \in s
               /\ s \ {OneOf(s)} \in Small(S, n - 1)
               /\ Cardinality(s) \in Nat /\ Cardinality(s \ {OneOf(s)}) = Cardinality(s) - 1
    <2>1. s \in SUBSET S /\ Cardinality(s) <= n
      BY DEF Small
    <2>2. OneOf(s) \in s
      BY <1>4 DEF OneOf
    <2>3. Cardinality(s \ {OneOf(s)}) = Cardinality(s) - 1
      BY <1>1, <2>1, <2>2, FS_RemoveElement
    <2>4. Cardinality(s) \in Nat /\ Cardinality(s) # 0
      BY <1>1, <1>4, <2>1
    <2>5. s \ {OneOf(s)} \in SUBSET S
      BY <2>1
    <2> QED
      BY <2>1, <2>2, <2>3, <2>4, <2>5 DEF Small
  <1>5. ASSUME NEW n \in Nat, n # 0
        PROVE  Small(S, n - 1) \subseteq Small(S, n)
    BY <1>1 DEF Small
  <1> QED
    BY <1>2, <1>3, <1>4, <1>5

\* The sum over every set of at most n elements exists, for every n.
LEMMA SumsExist ==
  ASSUME NEW S, IsFiniteSet(S), NEW values
  PROVE  \E iter : IsSums(iter, values, SUBSET S)
  <1> DEFINE Good(n) == \E f : IsSums(f, values, Small(S, n))
             N == {n \in Nat : Good(n)}
  <1>1. Good(0)
    <2>  DEFINE f == [s \in Small(S, 0) |-> 0]
    <2>1. \A s \in Small(S, 0) : OneAdded(f, values, s) = 0
      BY SmallOnes DEF OneAdded
    <2>2. IsSums(f, values, Small(S, 0))
      BY <2>1 DEF IsSums
    <2> QED
      BY <2>2
  <1>2. ASSUME NEW n \in Nat, n # 0, Good(n - 1)
        PROVE  Good(n)
    <2>1. PICK f : IsSums(f, values, Small(S, n - 1))
      BY <1>2
    <2>  DEFINE g == [s \in Small(S, n) |-> OneAdded(f, values, s)]
    <2>2. n - 1 \in Nat /\ Small(S, n - 1) \subseteq Small(S, n)
      BY <1>2, SmallOnes
    <2>3. \A s \in Small(S, n - 1) : f[s] = OneAdded(f, values, s)
      BY <2>1 DEF IsSums
    <2>4. \A s \in Small(S, n - 1) : g[s] = f[s]
      BY <2>2, <2>3
    <2>5. \A s \in Small(S, n) : OneAdded(f, values, s) = OneAdded(g, values, s)
      <3> SUFFICES ASSUME NEW s \in Small(S, n)
                   PROVE  OneAdded(f, values, s) = OneAdded(g, values, s)
        OBVIOUS
      <3> HIDE DEF g
      <3>1. CASE s = {}
        BY <3>1 DEF OneAdded
      <3>2. CASE s # {}
        <4>1. s \ {OneOf(s)} \in Small(S, n - 1)
          BY <3>2, SmallOnes
        <4>2. g[s \ {OneOf(s)}] = f[s \ {OneOf(s)}]
          BY <4>1, <2>4
        <4> QED
          BY <3>2, <4>2 DEF OneAdded
      <3> QED
        BY <3>1, <3>2
    <2>6. g = [s \in Small(S, n) |-> OneAdded(g, values, s)]
      BY <2>5
    <2> HIDE DEF g
    <2>7. IsSums(g, values, Small(S, n))
      BY <2>6 DEF IsSums
    <2> QED
      BY <2>7
  <1> HIDE DEF Good
  <1>3. N = Nat
    <2>1. N \in SUBSET Nat /\ 0 \in N
      BY <1>1
    <2>2. \A n \in Nat : n # 0 /\ n - 1 \in N => n \in N
      BY <1>2
    <2> HIDE DEF N
    <2> QED
      BY <2>1, <2>2, EveryNumber
  <1>4. Cardinality(S) \in Nat /\ Small(S, Cardinality(S)) = SUBSET S
    BY SmallOnes
  <1>5. Good(Cardinality(S))
    BY <1>3, <1>4
  <1>6. \E f : IsSums(f, values, Small(S, Cardinality(S)))
    BY <1>5 DEF Good
  <1> QED
    BY <1>4, <1>6

\* The mean of percentages is one.
LEMMA MeanIsPercent ==
  ASSUME NEW S, IsFiniteSet(S), S # {}, NEW values \in [S -> 0..100]
  PROVE  Mean(values) \in 0..100
  <1> DEFINE iter == CHOOSE f : IsSums(f, values, SUBSET S)
             Good(n) == \A s \in Small(S, n) : iter[s] \in Nat /\ iter[s] <= 100 * Cardinality(s)
             N == {n \in Nat : n <= Cardinality(S) => Good(n)}
  <1>1. DOMAIN values = S /\ Mean(values) = iter[S] \div Cardinality(S)
    BY MeanIs
  <1>2. IsSums(iter, values, SUBSET S)
    BY SumsExist
  <1> HIDE DEF iter
  <1>3. \A s \in SUBSET S : iter[s] = OneAdded(iter, values, s)
    BY <1>2 DEF IsSums
  <1>4. Good(0)
    <2>1. iter[{}] = 0 /\ Cardinality({}) = 0
      BY <1>3, FS_EmptySet DEF OneAdded
    <2>2. \A s \in Small(S, 0) : s = {}
      BY SmallOnes
    <2> SUFFICES ASSUME NEW s \in Small(S, 0)
                 PROVE  iter[s] \in Nat /\ iter[s] <= 100 * Cardinality(s)
      OBVIOUS
    <2>3. iter[s] = 0 /\ Cardinality(s) = 0
      BY <2>1, <2>2
    <2> QED
      BY <2>3
  <1>5. ASSUME NEW n \in Nat, n # 0, Good(n - 1)
        PROVE  Good(n)
    <2> SUFFICES ASSUME NEW s \in Small(S, n)
                 PROVE  iter[s] \in Nat /\ iter[s] <= 100 * Cardinality(s)
      OBVIOUS
    <2>1. CASE s = {}
      <3>1. s \in Small(S, 0)
        BY <2>1, SmallOnes
      <3> QED
        BY <1>4, <3>1
    <2>2. CASE s # {}
      <3> DEFINE x == OneOf(s)
                 r == s \ {x}
      <3>1. /\ x \in s /\ r \in Small(S, n - 1) /\ Cardinality(s) \in Nat
            /\ Cardinality(r) = Cardinality(s) - 1
        BY <2>2, SmallOnes
      <3>2. s \in SUBSET S
        BY DEF Small
      <3>3. iter[s] = values[x] + iter[r]
        BY <1>3, <2>2, <3>2 DEF OneAdded
      <3> HIDE DEF x, r
      <3>4. values[x] \in 0..100
        BY <3>1, <3>2
      <3>5. iter[r] \in Nat /\ iter[r] <= 100 * Cardinality(r)
        BY <1>5, <3>1
      <3> QED
        BY <3>1, <3>3, <3>4, <3>5
    <2> QED
      BY <2>1, <2>2
  <1> HIDE DEF Good
  <1>6. N = Nat
    <2>1. N \in SUBSET Nat /\ 0 \in N
      BY <1>4
    <2>2. \A n \in Nat : n # 0 /\ n - 1 \in N => n \in N
      <3>1. Cardinality(S) \in Nat
        BY SmallOnes
      <3> QED
        BY <1>5, <3>1
    <2> HIDE DEF N
    <2> QED
      BY <2>1, <2>2, EveryNumber
  <1>7. iter[S] \in Nat /\ iter[S] <= 100 * Cardinality(S)
    <2>1. Cardinality(S) \in Nat /\ S \in Small(S, Cardinality(S))
      BY SmallOnes
    <2>2. Good(Cardinality(S))
      BY <1>6, <2>1
    <2> QED
      BY <2>1, <2>2 DEF Good
  <1>8. Cardinality(S) \in Nat /\ Cardinality(S) # 0
    BY FS_CardinalityType, FS_EmptySet
  <1>  DEFINE total == iter[S]
              size == Cardinality(S)
  <1>9. Mean(values) = total \div size
    BY <1>1
  <1>10. total \in Nat /\ total <= 100 * size /\ size \in Nat /\ size # 0
    BY <1>7, <1>8
  <1> HIDE DEF total, size
  <1> QED
    BY <1>9, <1>10, QuotientBound

-----------------------------------------------------------------------------
(* The pixels that are read are bytes of the frame.                          *)

IsSample(s) ==
  /\ s.pixels \in Seq(0..255) /\ s.stride \in Nat
  /\ s.width \in Nat /\ s.height \in Nat
  /\ s.format \in DOMAIN Formats

\* A sequence, element by element.
LEMMA ElementsIn ==
  ASSUME NEW S, NEW q \in Seq(S)
  PROVE  \A i \in 1..Len(q) : q[i] \in S
  OBVIOUS

\* A format has one to four bytes per pixel, and its channels are among them.
LEMMA FormatFacts ==
  ASSUME NEW f \in DOMAIN Formats
  PROVE  /\ Formats[f].bytes \in 1..4
         /\ \A c \in 1..3 : Formats[f].rgb[c] \in 1..Formats[f].bytes
  <1>1. f \in {"Luma8", "Rgb888", "Bgr888", "Rgba8888", "Bgra8888", "Rgbx8888", "Bgrx8888"}
    BY DEF Formats
  <1>2. \A c \in 1..3 : c = 1 \/ c = 2 \/ c = 3
    OBVIOUS
  <1>3. CASE f = "Luma8"
    BY <1>2, <1>3 DEF Formats
  <1>4. CASE f = "Rgb888" \/ f = "Bgr888"
    BY <1>2, <1>4 DEF Formats
  <1>5. CASE f = "Rgba8888" \/ f = "Bgra8888"
    BY <1>2, <1>5 DEF Formats
  <1>6. CASE f = "Rgbx8888" \/ f = "Bgrx8888"
    BY <1>2, <1>6 DEF Formats
  <1> QED
    BY <1>1, <1>3, <1>4, <1>5, <1>6

\* What is copied out of a buffer is a sample.
LEMMA CopiedIsSample ==
  ASSUME NEW p \in Readables
  PROVE  IsSample(Sample[p])
  <1> DEFINE b == Frame[p]
             first == b.offset + 1
             last == b.offset + b.height * b.stride
  <1>1. p \in Pictures /\ Sample[p] = CopyFrame(b) /\ CopyFrame(b) # NONE
    BY DEF Readables, Sample
  <1>2. /\ b.bytes \in Seq(0..255) /\ b.stride \in Int /\ b.width \in Nat /\ b.height \in Nat
        /\ b.offset \in Nat
    BY <1>1, ScreenAssumption
  <1>3. /\ b.format \in DOMAIN ScreenPixelFormat /\ b.stride > 0 /\ b.height > 0
        /\ last <= Len(b.bytes)
    BY <1>1 DEF CopyFrame
  <1>4. CopyFrame(b) = [width |-> b.width, height |-> b.height, stride |-> b.stride,
                        format |-> ScreenPixelFormat[b.format],
                        pixels |-> SubSeq(b.bytes, first, last)]
    BY <1>1 DEF CopyFrame
  <1> HIDE DEF b
  <1>5. ScreenPixelFormat[b.format] \in DOMAIN Formats
    <2>1. b.format \in {"GRAY8", "RGB", "BGR", "RGBA", "BGRA", "RGBx", "BGRx"}
      BY <1>3 DEF ScreenPixelFormat
    <2> QED
      BY <2>1 DEF ScreenPixelFormat, Formats
  <1>6. SubSeq(b.bytes, first, last) \in Seq(0..255)
    <2>1. b.height * b.stride \in Nat
      BY <1>2, <1>3
    <2>2. first \in Int /\ first >= 1 /\ last \in Int
      BY <1>2, <2>1
    <2> HIDE DEF first, last
    <2>3. \A i \in first..last : b.bytes[i] \in 0..255
      <3>1. \A i \in first..last : i \in 1..Len(b.bytes)
        BY <1>2, <1>3, <2>2
      <3>2. \A i \in 1..Len(b.bytes) : b.bytes[i] \in 0..255
        BY <1>2, ElementsIn
      <3> QED
        BY <3>1, <3>2
    <2> QED
      BY <2>2, <2>3, SubSeqProperties
  <1> HIDE DEF first, last
  <1>7. IsSample(CopyFrame(b))
    BY <1>2, <1>3, <1>4, <1>5, <1>6 DEF IsSample
  <1> QED
    BY <1>1, <1>7

\* The weights of the channels add up to one.
LEMMA LuminanceBound ==
  ASSUME NEW rgb, rgb[1] \in 0..255, rgb[2] \in 0..255, rgb[3] \in 0..255
  PROVE  RgbLuminance(rgb) \in 0..255
  <1> DEFINE r == rgb[1]
             g == rgb[2]
             b == rgb[3]
             sum == r * 299 + g * 587 + b * 114
  <1>1. RgbLuminance(rgb) = sum \div 1000
    BY DEF RgbLuminance
  <1>2. sum \in Nat /\ sum <= 255 * 1000
    <2>1. r \in 0..255 /\ g \in 0..255 /\ b \in 0..255
      OBVIOUS
    <2> HIDE DEF r, g, b
    <2> QED
      BY <2>1
  <1> HIDE DEF sum
  <1> QED
    BY <1>1, <1>2, QuotientBound

\* The three channels of a pixel of a readable region.
LEMMA ChannelsAreBytes ==
  ASSUME NEW sample, IsSample(sample), NEW roi \in RoiType, Readable(sample, roi),
         NEW at \in Cells(roi), NEW c \in 1..3
  PROVE  Channels(sample, at)[c] \in 0..255
  <1> DEFINE bytes == Formats[sample.format].bytes
             rgb == Formats[sample.format].rgb
             start == at[2] * sample.stride + at[1] * bytes
  <1>1. bytes \in 1..4 /\ rgb[c] \in 1..bytes
    BY FormatFacts DEF IsSample
  <1>2. at[1] \in Nat /\ at[2] \in Nat /\ sample.stride \in Nat
    BY CellsAreFinite DEF IsSample
  <1>3. at[2] * sample.stride + (at[1] + 1) * bytes <= Len(sample.pixels)
    BY DEF Readable
  <1>4. Channels(sample, at)[c] = sample.pixels[start + rgb[c]]
    BY DEF Channels
  <1>5. sample.pixels \in Seq(0..255)
    BY DEF IsSample
  <1> HIDE DEF bytes, rgb
  <1>6. start \in Nat /\ start + bytes <= Len(sample.pixels)
    <2> DEFINE rows == at[2] * sample.stride
               columns == at[1] * bytes
    <2>1. rows \in Nat /\ columns \in Nat
      BY <1>1, <1>2, ProductIsNat
    <2>2. (at[1] + 1) * bytes = columns + bytes
      BY <1>1, <1>2
    <2>3. rows + (at[1] + 1) * bytes <= Len(sample.pixels)
      BY <1>3
    <2> HIDE DEF rows, columns
    <2>4. rows + columns \in Nat /\ (rows + columns) + bytes <= Len(sample.pixels)
      BY <1>1, <2>1, <2>2, <2>3
    <2> QED
      BY <2>4 DEF rows, columns
  <1> HIDE DEF start
  <1>7. Len(sample.pixels) \in Nat
    BY <1>5
  <1>  DEFINE i == start + rgb[c]
  <1>8. i \in 1..Len(sample.pixels)
    BY <1>1, <1>6, <1>7
  <1>9. Channels(sample, at)[c] = sample.pixels[i]
    BY <1>4
  <1> HIDE DEF i
  <1>10. \A k \in 1..Len(sample.pixels) : sample.pixels[k] \in 0..255
    BY <1>5, ElementsIn
  <1> QED
    BY <1>8, <1>9, <1>10

\* How light a pixel of a readable region is.
LEMMA LuminanceIsPercent ==
  ASSUME NEW sample, IsSample(sample), NEW roi \in RoiType, Readable(sample, roi),
         NEW at \in Cells(roi)
  PROVE  LuminancePercent(sample, at) \in 0..100
  <1> DEFINE rgb == Channels(sample, at)
             l == RgbLuminance(rgb)
             p == IF sample.format = "Luma8" THEN l ELSE (l * 100) \div 255
  <1>1. rgb[1] \in 0..255 /\ rgb[2] \in 0..255 /\ rgb[3] \in 0..255
    BY ChannelsAreBytes
  <1> HIDE DEF rgb
  <1>2. l \in 0..255
    BY <1>1, LuminanceBound
  <1> HIDE DEF l
  <1>3. p \in Nat
    BY <1>2
  <1>4. LuminancePercent(sample, at) = Least(100, p)
    BY DEF LuminancePercent, l, rgb
  <1> HIDE DEF p
  <1> QED
    BY <1>3, <1>4 DEF Least

\* observed_percent gives a percentage or nothing.
LEMMA ObservedIsPercent ==
  ASSUME NEW sample, IsSample(sample), NEW roi \in RoiType, NEW cells \in SUBSET Cells(roi)
  PROVE  ObservedPercent(sample, roi, cells) \in 0..100 \cup {NONE}
  <1>1. IsFiniteSet(cells)
    BY CellsAreFinite, FS_Subset
  <1>2. CASE ~Readable(sample, roi) \/ cells = {}
    BY <1>2 DEF ObservedPercent
  <1>3. CASE Readable(sample, roi) /\ cells # {} /\ sample.format = "Luma8"
    <2> DEFINE values == [at \in cells |-> LuminancePercent(sample, at)]
    <2>1. \A at \in cells : LuminancePercent(sample, at) \in 0..100
      BY <1>3, LuminanceIsPercent
    <2>2. values \in [cells -> 0..100]
      BY <2>1
    <2>3. ObservedPercent(sample, roi, cells) = Mean(values)
      BY <1>3 DEF ObservedPercent
    <2> HIDE DEF values
    <2>4. Mean(values) \in 0..100
      BY <1>1, <1>3, <2>2, MeanIsPercent
    <2> QED
      BY <2>3, <2>4
  <1>4. CASE Readable(sample, roi) /\ cells # {} /\ sample.format # "Luma8"
    <2> DEFINE part == {at \in cells : HorizontalProgressPixelFilled(sample, at)}
    <2>1. ObservedPercent(sample, roi, cells) = Ratio(part, cells)
      BY <1>4 DEF ObservedPercent
    <2>2. part \in SUBSET cells
      OBVIOUS
    <2> HIDE DEF part
    <2>3. Ratio(part, cells) \in 0..100
      BY <1>1, <1>4, <2>2, RatioIsPercent
    <2> QED
      BY <2>1, <2>3
  <1> QED
    BY <1>2, <1>3, <1>4

-----------------------------------------------------------------------------
(* The detectors, as the script writes them and as they are scaled.          *)

IsRule(r) == r.scale \in Nat \cup {NONE} /\ r.maxFill \in Int \cup {NONE}
IsDetector(d) ==
  /\ d.roi \in RoiType
  /\ d.kind # "HorizontalProgressBar" =>
       \E n \in Nat : DOMAIN d.order = 1..n /\ \A i \in 1..n : IsRule(d.order[i])
IsScale(s) == s.x \in Nat /\ s.y \in Nat

\* A scaled length, and a scaled region.
LEMMA TimesIsNat ==
  ASSUME NEW a \in Nat, NEW b \in Nat
  PROVE  Times(a, b) \in Nat
  <1> DEFINE n == a * b + 500
  <1>1. n \in Nat
    BY ProductIsNat
  <1> HIDE DEF n
  <1>2. n \div 1000 \in Nat
    BY <1>1
  <1> QED
    BY <1>2 DEF Times, n

LEMMA ScaledRoiIsRoi ==
  ASSUME NEW roi \in RoiType, NEW s, IsScale(s)
  PROVE  ScaledRoi(roi, s) \in RoiType
  <1>1. roi.x \in Nat /\ roi.y \in Nat /\ roi.w \in Nat /\ roi.h \in Nat
    BY DEF RoiType
  <1>2. /\ Times(roi.x, s.x) \in Nat /\ Times(roi.y, s.y) \in Nat
        /\ Times(roi.w, s.x) \in Nat /\ Times(roi.h, s.y) \in Nat
    BY <1>1, TimesIsNat DEF IsScale
  <1>3. \A n \in Nat : AtLeastOne(n) \in Nat
    BY DEF AtLeastOne, Most
  <1> QED
    BY <1>2, <1>3 DEF ScaledRoi, RoiType

\* A rule keeps its fill when it is scaled.
LEMMA RuleFacts ==
  ASSUME NEW r \in RuleType
  PROVE  /\ r.scale \in Int \cup {NONE} /\ r.maxFill \in Int \cup {NONE}
         /\ \A s : ScaledRule(r, s).scale = r.scale /\ ScaledRule(r, s).maxFill = r.maxFill
  <1>1. r.scale \in Int \cup {NONE}
    BY DEF RuleType
  <1>2. r.maxFill \in Int \cup {NONE}
    BY DEF RuleType
  <1>3. DOMAIN r = {"phase", "region", "minLuminance", "maxLuminance", "minSaturation",
                    "maxSaturation", "metric", "fill", "scale", "maxFill"}
    BY DEF RuleType
  <1>4. \A x : [r EXCEPT !.region = x].scale = r.scale /\ [r EXCEPT !.region = x].maxFill = r.maxFill
    BY <1>3
  <1> QED
    BY <1>1, <1>2, <1>4 DEF ScaledRule

\* A detector is one at every scale.
LEMMA ScaledIsDetector ==
  ASSUME NEW d \in DetectorType, ValidDetector(d), NEW s, IsScale(s)
  PROVE  IsDetector(ScaledForSample(d, s)) /\ ScaledForSample(d, s).kind = d.kind
  <1> DEFINE roi == ScaledRoi(d.roi, s)
             e == ScaledForSample(d, s)
  <1>1. d.roi \in RoiType /\ d.kind \in {"HorizontalProgressBar", "RadialCooldown"}
    BY DEF DetectorType
  <1>2. roi \in RoiType
    BY <1>1, ScaledRoiIsRoi
  <1>3. CASE d.kind = "HorizontalProgressBar"
    <2>1. e = d \/ e = [d EXCEPT !.roi = roi]
      BY <1>3 DEF ScaledForSample
    <2>2. d \in [kind : {"HorizontalProgressBar"}, roi : RoiType]
      BY <1>3 DEF DetectorType
    <2> HIDE DEF e, roi
    <2>3. e.roi \in RoiType /\ e.kind = "HorizontalProgressBar"
      BY <1>2, <2>1, <2>2
    <2>4. IsDetector(e) /\ e.kind = d.kind
      BY <1>3, <2>3 DEF IsDetector
    <2> QED
      BY <2>4 DEF e
  <1>4. CASE d.kind = "RadialCooldown"
    <2> DEFINE mask == IF d.mask = NONE THEN NONE ELSE Times(d.mask, Uniform(s))
               order == [i \in DOMAIN d.order |-> ScaledRule(d.order[i], s)]
               n == Len(d.order)
    <2>1. /\ d \in [kind : {"RadialCooldown"}, roi : RoiType, mask : Nat \cup {NONE},
                    prediction : [duration : Nat, stable : Nat] \cup {NONE}, order : Seq(RuleType)]
          /\ d.order \in Seq(RuleType)
      BY <1>4 DEF DetectorType
    <2>2. n \in Nat /\ DOMAIN d.order = 1..n /\ \A i \in 1..n : d.order[i] \in RuleType
      BY <2>1, ElementsIn
    <2>3. \A i \in 1..n : IsRule(d.order[i])
      <3> SUFFICES ASSUME NEW i \in 1..n PROVE IsRule(d.order[i])
        OBVIOUS
      <3> DEFINE r == d.order[i]
      <3>1. r \in RuleType
        BY <2>2
      <3>2. r.scale = NONE \/ r.scale > 0
        BY <1>4, <2>2 DEF ValidDetector, ValidForRoi
      <3> HIDE DEF r
      <3>3. IsRule(r)
        BY <3>1, <3>2, RuleFacts DEF IsRule
      <3> QED
        BY <3>3 DEF r
    <2>4. \A i \in 1..n : order[i].scale = d.order[i].scale /\ order[i].maxFill = d.order[i].maxFill
      BY <2>2, RuleFacts
    <2>5. DOMAIN order = 1..n /\ \A i \in 1..n : IsRule(order[i])
      BY <2>2, <2>3, <2>4 DEF IsRule
    <2>6. e = d \/ e = [d EXCEPT !.roi = roi, !.mask = mask, !.order = order]
      BY <1>4 DEF ScaledForSample
    <2> HIDE DEF e, roi, mask, order, n
    <2>7. /\ e.kind = d.kind
          /\ \/ e.roi = d.roi /\ e.order = d.order
             \/ e.roi = roi /\ e.order = order
      BY <2>1, <2>6
    <2>8. IsDetector(e)
      BY <1>1, <1>2, <2>2, <2>3, <2>5, <2>7 DEF IsDetector
    <2> QED
      BY <2>7, <2>8 DEF e
  <1> QED
    BY <1>1, <1>3, <1>4

-----------------------------------------------------------------------------
(* What a detector sees: nothing, or a fraction that is a percentage.        *)

IsSeen(v) == v = NONE \/ v.fraction \in 0..100

\* What a rule makes of its cells, and of all rules the first that matches.
LEMMA FractionIsPercent ==
  ASSUME NEW sample, NEW rule, IsRule(rule), NEW cells, IsFiniteSet(cells), cells # {}
  PROVE  CooldownFraction(sample, rule, cells) \in 0..100
  <1> DEFINE bright == IF rule.metric = "BrightRatio"
                       THEN Ratio(BrightCells(sample, rule, cells), cells) ELSE 0
             factor == IF rule.scale = NONE THEN 1000 ELSE rule.scale
             scaled == Least(100, Times(bright, factor))
             fill == IF rule.maxFill = NONE THEN scaled ELSE Least(scaled, Most(0, rule.maxFill))
  <1>1. bright \in 0..100
    <2>1. BrightCells(sample, rule, cells) \in SUBSET cells
      BY DEF BrightCells
    <2>2. Ratio(BrightCells(sample, rule, cells), cells) \in 0..100
      BY <2>1, RatioIsPercent
    <2> QED
      BY <2>2
  <1>2. factor \in Nat
    BY DEF IsRule
  <1>3. \/ CooldownFraction(sample, rule, cells) = 100
        \/ CooldownFraction(sample, rule, cells) = 0
        \/ CooldownFraction(sample, rule, cells) = 100 - fill
    BY DEF CooldownFraction
  <1> HIDE DEF bright, factor
  <1>4. scaled \in 0..100
    <2>1. bright \in Nat
      BY <1>1
    <2>2. Times(bright, factor) \in Nat
      BY <1>2, <2>1, TimesIsNat
    <2> QED
      BY <2>2 DEF Least
  <1> HIDE DEF scaled
  <1>5. fill \in 0..100
    <2>1. rule.maxFill = NONE \/ rule.maxFill \in Int
      BY DEF IsRule
    <2> QED
      BY <1>4, <2>1 DEF Least, Most
  <1> HIDE DEF fill
  <1> QED
    BY <1>3, <1>5

LEMMA RadialIsSeen ==
  ASSUME NEW sample, IsSample(sample), NEW d, IsDetector(d), d.kind # "HorizontalProgressBar"
  PROVE  IsSeen(ObserveRadial(sample, d))
  <1>1. d.roi \in RoiType /\ IsFiniteSet(Cells(d.roi))
    BY CellsAreFinite DEF IsDetector
  <1>2. IsSeen(ObserveOnePixel(sample, d))
    <2> DEFINE masked == {at \in Cells(d.roi) : InCircularMask(d.mask, d.roi, at)}
               percent == ObservedPercent(sample, d.roi, masked)
    <2>1. masked \in SUBSET Cells(d.roi)
      OBVIOUS
    <2> HIDE DEF masked
    <2>2. percent \in 0..100 \cup {NONE}
      BY <1>1, <2>1, ObservedIsPercent
    <2> HIDE DEF percent
    <2>3. \/ ObserveOnePixel(sample, d) = NONE
          \/ percent # NONE /\ ObserveOnePixel(sample, d).fraction = percent
      BY DEF ObserveOnePixel, percent, masked
    <2> QED
      BY <2>2, <2>3 DEF IsSeen
  <1> DEFINE cells(i) == RuleCells(d, d.order[i])
             matches(i) == cells(i) # {} /\ RadialRuleMatches(sample, d.order[i], cells(i))
             stops == {i \in DOMAIN d.order : cells(i) = {} \/ matches(i)}
             first == Min(stops)
             fraction == CooldownFraction(sample, d.order[first], cells(first))
  <1>3. \/ ObserveRadial(sample, d) = ObserveOnePixel(sample, d)
        \/ ObserveRadial(sample, d) = NONE
        \/ ObserveRadial(sample, d).fraction = 100
        \/ /\ stops # {} /\ matches(first)
           /\ ObserveRadial(sample, d).fraction = fraction
    BY DEF ObserveRadial
  <1>4. stops # {} /\ matches(first) => fraction \in 0..100
    <2> SUFFICES ASSUME stops # {}, matches(first) PROVE fraction \in 0..100
      OBVIOUS
    <2>1. PICK n \in Nat : DOMAIN d.order = 1..n /\ \A i \in 1..n : IsRule(d.order[i])
      BY DEF IsDetector
    <2>2. stops \in SUBSET Nat /\ stops \subseteq 1..n
      BY <2>1
    <2>3. cells(first) # {}
      OBVIOUS
    <2> HIDE DEF stops
    <2>4. first \in 1..n
      BY <2>2, FirstIs
    <2> HIDE DEF first
    <2>5. cells(first) \in SUBSET Cells(d.roi)
      BY DEF RuleCells
    <2>6. IsFiniteSet(cells(first)) /\ IsRule(d.order[first])
      BY <1>1, <2>1, <2>4, <2>5, FS_Subset
    <2> HIDE DEF cells
    <2> QED
      BY <2>3, <2>6, FractionIsPercent
  <1> HIDE DEF stops, first, matches, fraction
  <1>5. IsSeen(ObserveRadial(sample, d))
    BY <1>2, <1>3, <1>4 DEF IsSeen
  <1> QED
    BY <1>5

\* The windows that cover the screen, and the scale that the first of them gives.
Covering(windows) == {i \in DOMAIN windows : /\ windows[i].x = 0 /\ windows[i].y = 0
                                             /\ windows[i].w > 0 /\ windows[i].h > 0}

LEMMA CoordinateScaleIs ==
  ASSUME NEW sample, NEW windows
  PROVE  CoordinateScale(sample, windows) =
           IF Covering(windows) = {} THEN [x |-> 1000, y |-> 1000]
           ELSE [x |-> (sample.width * 1000) \div windows[Min(Covering(windows))].w,
                 y |-> (sample.height * 1000) \div windows[Min(Covering(windows))].h]
  BY DEF CoordinateScale, Covering

\* Every scale is a pair of numbers: a window that is as wide as nothing gives none.
LEMMA ScalesAre ==
  ASSUME NEW s \in Scales
  PROVE  IsScale(s)
  <1>1. IsScale([x |-> 1000, y |-> 1000])
    BY DEF IsScale
  <1>2. ASSUME NEW p \in Readables, NEW w \in Windows,
               s = CoordinateScale(Sample[p], <<Seat[w].rect>>)
        PROVE  IsScale(s)
    <2> DEFINE rect == Seat[w].rect
               first == Min(Covering(<<rect>>))
               x == (Sample[p].width * 1000) \div rect.w
               y == (Sample[p].height * 1000) \div rect.h
    <2>1. CASE Covering(<<rect>>) = {}
      BY <1>1, <1>2, <2>1, CoordinateScaleIs
    <2>2. CASE Covering(<<rect>>) # {}
      <3>1. \A i \in Covering(<<rect>>) : i = 1 /\ rect.w > 0 /\ rect.h > 0
        BY DEF Covering
      <3>2. Covering(<<rect>>) \in SUBSET Nat
        BY <3>1
      <3>3. first = 1 /\ rect.w > 0 /\ rect.h > 0
        BY <2>2, <3>1, <3>2, FirstIs
      <3>4. /\ rect.w \in Nat /\ rect.w # 0 /\ rect.h \in Nat /\ rect.h # 0
        BY <3>3, ScreenAssumption
      <3>5. Sample[p].width \in Nat /\ Sample[p].height \in Nat
        <4>1. IsSample(Sample[p])
          BY CopiedIsSample
        <4> QED
          BY <4>1 DEF IsSample
      <3>6. \A a, b \in Nat : b # 0 => (a * 1000) \div b \in Nat
        OBVIOUS
      <3>7. x \in Nat /\ y \in Nat
        BY <3>4, <3>5, <3>6
      <3>8. <<rect>>[first] = rect
        BY <3>3
      <3>9. s = [x |-> (Sample[p].width * 1000) \div <<rect>>[first].w,
                 y |-> (Sample[p].height * 1000) \div <<rect>>[first].h]
        BY <1>2, <2>2, CoordinateScaleIs
      <3>10. s = [x |-> x, y |-> y]
        BY <3>8, <3>9
      <3> HIDE DEF x, y
      <3> QED
        BY <3>7, <3>10 DEF IsScale
    <2> QED
      BY <2>1, <2>2
  <1>3. \/ s = [x |-> 1000, y |-> 1000]
        \/ \E p \in Readables, w \in Windows : s = CoordinateScale(Sample[p], <<Seat[w].rect>>)
    BY DEF Scales, Identity
  <1>4. CASE s = [x |-> 1000, y |-> 1000]
    BY <1>1, <1>4
  <1>5. CASE \E p \in Readables, w \in Windows : s = CoordinateScale(Sample[p], <<Seat[w].rect>>)
    BY <1>2, <1>5
  <1> QED
    BY <1>3, <1>4, <1>5

\* The view of one tracker is what its kind of detector gives.
Seen(t, v) ==
  IF Tracker[t].detector.kind = "HorizontalProgressBar" THEN v \in 0..100 \cup {NONE} ELSE IsSeen(v)

\* What the detector of a tracker sees of a picture at a scale.
LEMMA SeesPercents ==
  ASSUME NEW s \in Scales, NEW p \in Readables, NEW t \in Ids
  PROVE  Seen(t, Sees[s][p][t])
  <1> DEFINE d == Tracker[t].detector
             e == ScaledForSample(d, s)
  <1>1. PICK i \in DOMAIN Trackers : Trackers[i] = t
    BY DEF Ids, Range
  <1>2. d \in DetectorType /\ ValidDetector(d)
    BY <1>1, TrackersAssumption
  <1>3. IsDetector(e) /\ e.kind = d.kind
    BY <1>2, ScalesAre, ScaledIsDetector
  <1>4. Sees[s][p][t] = Observe(Sample[p], e) /\ IsSample(Sample[p])
    BY CopiedIsSample DEF Sees
  <1> HIDE DEF e
  <1>5. CASE d.kind = "HorizontalProgressBar"
    <2>1. Observe(Sample[p], e) = ObservedPercent(Sample[p], e.roi, Cells(e.roi))
      BY <1>3, <1>5 DEF Observe, ObserveBar
    <2>2. Observe(Sample[p], e) \in 0..100 \cup {NONE}
      BY <1>3, <1>4, <2>1, ObservedIsPercent DEF IsDetector
    <2> QED
      BY <1>4, <1>5, <2>2 DEF Seen
  <1>6. CASE d.kind # "HorizontalProgressBar"
    <2>1. Observe(Sample[p], e) = ObserveRadial(Sample[p], e)
      BY <1>3, <1>6 DEF Observe
    <2>2. IsSeen(Observe(Sample[p], e))
      BY <1>3, <1>4, <1>6, <2>1, RadialIsSeen
    <2> QED
      BY <1>4, <1>6, <2>2 DEF Seen
  <1> QED
    BY <1>5, <1>6

-----------------------------------------------------------------------------
(* What the trackers make of it, over a poll.                                *)

\* A state whose numbers are percentages, and a countdown within its duration.
SoundState(v) ==
  \/ v.kind = "Inactive"
  \/ v.kind = "HorizontalProgressBar" /\ v.progress \in 0..100
  \/ /\ v.kind = "RadialCooldown" /\ v.fraction \in 0..100
     /\ v.predicted # NONE => /\ v.duration \in Nat /\ v.duration # 0
                              /\ v.predicted \in 0..v.duration
Sound(latest) == \A t \in Ids : latest[t] = NONE \/ SoundState(latest[t])

\* A tracker's prediction, which is checked when the script is loaded.
LEMMA PredictionFacts ==
  ASSUME NEW t \in Ids, Tracker[t].detector.kind = "RadialCooldown",
         Tracker[t].detector.prediction # NONE
  PROVE  /\ Tracker[t].detector.prediction.duration \in Nat \ {0}
         /\ Tracker[t].detector.prediction.stable \in Nat
  <1> DEFINE d == Tracker[t].detector
  <1>1. PICK i \in DOMAIN Trackers : Trackers[i] = t
    BY DEF Ids, Range
  <1>2. d \in DetectorType /\ ValidDetector(d)
    BY <1>1, TrackersAssumption
  <1>3. d.prediction \in [duration : Nat, stable : Nat]
    BY <1>2 DEF DetectorType
  <1>4. d.prediction.duration \in Nat \ {0}
    BY <1>2 DEF ValidDetector
  <1> QED
    BY <1>3, <1>4

\* What is made of an observation: a countdown that is over or not stable is not shown.
LEMMA RadialIsSound ==
  ASSUME NEW t \in Ids, NEW observed, IsSeen(observed), NEW at \in Nat, NEW before,
         IsHistory(before), Tracker[t].detector.kind = "RadialCooldown"
  PROVE  SoundState(DetectRadial(observed, at, Tracker[t].detector.prediction, before)[1])
  <1> DEFINE prediction == Tracker[t].detector.prediction
             v == DetectRadial(observed, at, prediction, before)[1]
  <1>1. CASE observed = NONE
    BY <1>1 DEF DetectRadial, Inactive, SoundState
  <1>2. CASE observed # NONE
    <2> DEFINE pushed == Push(ObservePhase(before, at, observed.phase), at, observed.fraction)
               predicted == IF observed.phase = "Active"
                            THEN PredictedRemaining(pushed, at, prediction) ELSE NONE
               fraction == IF observed.phase = "Ready" THEN 0 ELSE observed.fraction
               duration == IF predicted = NONE THEN NONE ELSE prediction.duration
    <2>1. IsHistory(pushed)
      <3>1. IsHistory(ObservePhase(before, at, observed.phase))
        BY PhasedIs
      <3> QED
        BY <3>1, PushIsLast DEF IsHistory
    <2>2. /\ v.kind = "RadialCooldown" /\ v.fraction = fraction
          /\ v.predicted = predicted /\ v.duration = duration
      BY <1>2 DEF DetectRadial
    <2> HIDE DEF v
    <2>3. fraction \in 0..100
      BY <1>2 DEF IsSeen
    <2> HIDE DEF pushed, fraction
    <2>4. predicted # NONE => /\ prediction # NONE /\ pushed.activeSince # NONE
                              /\ ~(at - pushed.activeSince < prediction.stable)
                              /\ ~(at - pushed.activeSince > prediction.duration)
                              /\ predicted = prediction.duration - (at - pushed.activeSince)
      <3> HIDE DEF prediction
      <3> QED
        BY DEF PredictedRemaining
    <2> HIDE DEF predicted
    <2>5. predicted # NONE => /\ duration \in Nat /\ duration # 0 /\ predicted \in 0..duration
      <3> SUFFICES ASSUME predicted # NONE
                   PROVE  duration \in Nat /\ duration # 0 /\ predicted \in 0..duration
        OBVIOUS
      <3>1. duration = prediction.duration
        OBVIOUS
      <3>2. prediction.duration \in Nat \ {0} /\ prediction.stable \in Nat
        BY <2>4, PredictionFacts
      <3>3. pushed.activeSince \in Nat
        BY <2>1, <2>4 DEF IsHistory
      <3> HIDE DEF duration, prediction
      <3> QED
        BY <2>4, <3>1, <3>2, <3>3
    <2> HIDE DEF duration
    <2>6. SoundState(v)
      BY <2>2, <2>3, <2>5 DEF SoundState
    <2> QED
      BY <2>6 DEF v
  <1> QED
    BY <1>1, <1>2

\* One tracker's poll, and by induction that of all.
LEMMA PollOneSound ==
  ASSUME NEW p, IsPoller(p), Sound(p.latest), NEW began, NEW t \in Ids,
         NEW observed, Seen(t, observed), NEW at \in Nat
  PROVE  Sound(PollOne(p, began, t, observed, at).latest)
  <1> DEFINE q == PollOne(p, began, t, observed, at)
             d == DetectRadial(observed, at, Tracker[t].detector.prediction, p.history[t])
             polled == [p EXCEPT !.last[t] = began]
  <1>1. polled = [last |-> [p.last EXCEPT ![t] = began], latest |-> p.latest, history |-> p.history]
    BY DEF IsPoller
  <1> HIDE DEF polled
  <1>2. \/ q = [polled EXCEPT !.latest[t] = Inactive("ConditionInactive")]
        \/ /\ Tracker[t].detector.kind = "HorizontalProgressBar"
           /\ q = [polled EXCEPT !.latest[t] = DetectBar(observed)]
        \/ /\ Tracker[t].detector.kind # "HorizontalProgressBar"
           /\ q = [polled EXCEPT !.latest[t] = d[1], !.history[t] = d[2]]
    BY DEF PollOne, polled
  <1>3. SoundState(Inactive("ConditionInactive"))
    BY DEF Inactive, SoundState
  <1>4. Tracker[t].detector.kind = "HorizontalProgressBar" => SoundState(DetectBar(observed))
    <2> SUFFICES ASSUME Tracker[t].detector.kind = "HorizontalProgressBar"
                 PROVE  SoundState(DetectBar(observed))
      OBVIOUS
    <2>1. observed \in 0..100 \cup {NONE}
      BY DEF Seen
    <2>2. DetectBar(observed).progress \in 0..100 /\ DetectBar(observed).kind = "HorizontalProgressBar"
      BY <2>1 DEF DetectBar
    <2> QED
      BY <2>2 DEF SoundState
  <1>5. Tracker[t].detector.kind # "HorizontalProgressBar" => SoundState(d[1])
    <2> SUFFICES ASSUME Tracker[t].detector.kind # "HorizontalProgressBar"
                 PROVE  SoundState(d[1])
      OBVIOUS
    <2>1. IsSeen(observed) /\ IsHistory(p.history[t]) /\ Tracker[t].detector.kind = "RadialCooldown"
      BY TrackerFacts DEF Seen, IsPoller
    <2> QED
      BY <2>1, RadialIsSound
  <1> HIDE DEF q, d
  <1>6. PICK v : SoundState(v) /\ q.latest = [p.latest EXCEPT ![t] = v]
    <2>1. CASE q = [polled EXCEPT !.latest[t] = Inactive("ConditionInactive")]
      BY <1>1, <1>3, <2>1
    <2>2. CASE /\ Tracker[t].detector.kind = "HorizontalProgressBar"
               /\ q = [polled EXCEPT !.latest[t] = DetectBar(observed)]
      BY <1>1, <1>4, <2>2
    <2>3. CASE /\ Tracker[t].detector.kind # "HorizontalProgressBar"
               /\ q = [polled EXCEPT !.latest[t] = d[1], !.history[t] = d[2]]
      BY <1>1, <1>5, <2>3
    <2> QED
      BY <1>2, <2>1, <2>2, <2>3
  <1>7. p.latest = [s \in Ids |-> p.latest[s]]
    BY DEF IsPoller
  <1>8. \A s \in Ids : q.latest[s] = v \/ q.latest[s] = p.latest[s]
    BY <1>6, <1>7
  <1>9. Sound(q.latest)
    BY <1>6, <1>8 DEF Sound
  <1> QED
    BY <1>9 DEF q

LEMMA PollAllSound ==
  ASSUME NEW p, IsPoller(p), Sound(p.latest), NEW began \in Nat, NEW active, NEW view,
         \A t \in Ids : Seen(t, view[t]), NEW at \in Nat
  PROVE  Sound(PollAll(p, began, active, view, at).latest)
  <1> DEFINE n == Len(Trackers)
  <1>0. n \in Nat /\ DOMAIN Trackers = 1..n /\ \A i \in 1..n : Trackers[i] \in Ids
    BY TrackersAssumption
  <1>6. PICK iter : InOrder(iter, p, began, active, view, at)
    BY PollsInOrder
  <1>1. /\ iter[1..0] = p
        /\ \A m \in 1..n : iter[1..m] = PollAt(iter[1..(m - 1)], began, active, view, at, m)
        /\ PollAll(p, began, active, view, at) = iter[1..n]
    BY <1>6 DEF InOrder
  <1> HIDE DEF n
  <1> DEFINE Good(m) == IsPoller(iter[1..m]) /\ Sound(iter[1..m].latest)
             S == {m \in Nat : m <= n => Good(m)}
  <1>2. Good(0)
    BY <1>1
  <1>3. ASSUME NEW m \in 1..n, Good(m - 1)
        PROVE  Good(m)
    <2> DEFINE q == iter[1..(m - 1)]
               t == Trackers[m]
    <2>1. IsPoller(q) /\ Sound(q.latest) /\ t \in Ids /\ Seen(t, view[t])
      BY <1>0, <1>3
    <2>2. iter[1..m] = q \/ iter[1..m] = PollOne(q, began, t, view[t], at)
      BY <1>1 DEF PollAt
    <2> HIDE DEF q, t
    <2>3. IsPoller(PollOne(q, began, t, view[t], at))
      BY <2>1, PollOneIs DEF OnePolled
    <2>4. Sound(PollOne(q, began, t, view[t], at).latest)
      BY <2>1, PollOneSound
    <2> QED
      BY <2>1, <2>2, <2>3, <2>4
  <1> HIDE DEF Good
  <1>4. S = Nat
    <2>1. S \in SUBSET Nat /\ 0 \in S
      BY <1>2
    <2>2. \A m \in Nat : m # 0 /\ m - 1 \in S => m \in S
      <3> SUFFICES ASSUME NEW m \in Nat, m # 0, m - 1 \in S, m <= n
                   PROVE  Good(m)
        OBVIOUS
      <3>1. m \in 1..n /\ m - 1 <= n
        BY <1>0
      <3> QED
        BY <3>1, <1>3
    <2> HIDE DEF S
    <2> QED
      BY <2>1, <2>2, EveryNumber
  <1>5. Good(n)
    <2>1. n \in S /\ n <= n
      BY <1>0, <1>4
    <2> QED
      BY <2>1
  <1> QED
    BY <1>1, <1>5 DEF Good

-----------------------------------------------------------------------------
(* What is drawn of it.                                                      *)

Drawn(v) == v.fill \in 0..100 /\ (v.ready => v.active /\ v.fill = 100)

\* The fill of a radial visual, and of any.
LEMMA RadialFillIs ==
  ASSUME NEW v, v.kind = "RadialCooldown", SoundState(v)
  PROVE  RadialFill(v) \in 0..100 /\ (v.phase = "Ready" => RadialFill(v) = 100)
  <1>1. /\ v.fraction \in 0..100
        /\ v.predicted # NONE => v.duration \in Nat /\ v.duration # 0 /\ v.predicted \in 0..v.duration
    BY DEF SoundState
  <1> DEFINE left == (v.predicted * 100) \div v.duration
  <1>2. v.predicted # NONE => left \in 0..100
    <2> SUFFICES ASSUME v.predicted # NONE PROVE left \in 0..100
      OBVIOUS
    <2>1. v.predicted * 100 \in Nat /\ v.predicted * 100 <= 100 * v.duration
      BY <1>1
    <2> QED
      BY <1>1, <2>1, QuotientBound
  <1>3. /\ v.phase = "Ready" => RadialFill(v) = 100
        /\ \/ RadialFill(v) = 100 \/ RadialFill(v) = 100 - v.fraction \/ RadialFill(v) = 0
           \/ v.predicted # NONE /\ RadialFill(v) = left
    BY DEF RadialFill
  <1> HIDE DEF left
  <1> QED
    BY <1>1, <1>2, <1>3

LEMMA VisualIsDrawn ==
  ASSUME NEW visual, NEW v, SoundState(v)
  PROVE  Drawn(VisualSnapshot(visual, v))
  <1> DEFINE s == VisualSnapshot(visual, v)
  <1>1. CASE v.kind = "Inactive"
    <2>1. s.fill = 0 /\ s.ready = FALSE
      BY <1>1 DEF VisualSnapshot
    <2> HIDE DEF s
    <2>2. Drawn(s)
      BY <2>1 DEF Drawn
    <2> QED
      BY <2>2 DEF s
  <1>2. CASE v.kind = "HorizontalProgressBar"
    <2>1. s.fill = v.progress /\ s.ready = FALSE
      BY <1>2 DEF VisualSnapshot
    <2>2. v.progress \in 0..100
      BY <1>2 DEF SoundState
    <2> HIDE DEF s
    <2>3. Drawn(s)
      BY <2>1, <2>2 DEF Drawn
    <2> QED
      BY <2>3 DEF s
  <1>3. CASE v.kind = "RadialCooldown"
    <2>1. s.fill = RadialFill(v) /\ s.active = (v.phase # "Unknown") /\ s.ready = (v.phase = "Ready")
      BY <1>3 DEF VisualSnapshot
    <2>2. RadialFill(v) \in 0..100 /\ (v.phase = "Ready" => RadialFill(v) = 100)
      BY <1>3, RadialFillIs
    <2> HIDE DEF s
    <2>3. Drawn(s)
      BY <2>1, <2>2 DEF Drawn
    <2> QED
      BY <2>3 DEF s
  <1>4. v.kind \in {"Inactive", "HorizontalProgressBar", "RadialCooldown"}
    BY DEF SoundState
  <1> QED
    BY <1>1, <1>2, <1>3, <1>4

IsDrawn(snapshot) == \A i \in DOMAIN snapshot : Drawn(snapshot[i])

\* An overlay's snapshot, closed or with a visual for each of its trackers.
LEMMA SnapshotIsDrawn ==
  ASSUME NEW o \in Shown, NEW report, NEW latest, Sound(latest), NEW at
  PROVE  IsDrawn(OverlaySnapshot(o, report, latest, at))
  <1> DEFINE visuals == Overlay[o].visuals
             s == OverlaySnapshot(o, report, latest, at)
             drawn == [i \in DOMAIN visuals |-> VisualSnapshot(visuals[i], latest[visuals[i].tracker])]
  <1>1. IsDrawn(Closed)
    <2>1. DOMAIN Closed = {}
      BY DEF Closed
    <2> QED
      BY <2>1 DEF IsDrawn
  <1>2. \/ s = Closed
        \/ s = drawn /\ \A visual \in Range(visuals) : latest[visual.tracker] # NONE
    BY DEF OverlaySnapshot
  <1>3. ASSUME NEW i \in DOMAIN visuals,
               \A visual \in Range(visuals) : latest[visual.tracker] # NONE
        PROVE  Drawn(drawn[i])
    <2>1. visuals[i] \in Range(visuals)
      BY DEF Range
    <2>2. visuals[i].tracker \in Ids /\ latest[visuals[i].tracker] # NONE
      BY <1>3, <2>1, OverlaysAssumption
    <2>3. SoundState(latest[visuals[i].tracker])
      BY <2>2 DEF Sound
    <2>4. Drawn(VisualSnapshot(visuals[i], latest[visuals[i].tracker]))
      BY <2>3, VisualIsDrawn
    <2> QED
      BY <2>4
  <1>4. DOMAIN drawn = DOMAIN visuals
    OBVIOUS
  <1> HIDE DEF drawn, s
  <1>5. IsDrawn(s)
    BY <1>1, <1>2, <1>3, <1>4 DEF IsDrawn
  <1> QED
    BY <1>5 DEF s

\* An overlay's process and all of them.
Shows(process) == process # NoProcess => IsDrawn(process.state)

LEMMA BarsAre == BarsArePercentages <=> \A o \in Shown : Shows(qml[o])
  BY DEF BarsArePercentages, Shows, IsDrawn, Drawn

\* A process that is given a snapshot, and all after a rendering.
LEMMA RenderedShows ==
  ASSUME NEW process, Shows(process), NEW snapshot, IsDrawn(snapshot)
  PROVE  Shows(Rendered(process, snapshot))
  <1> DEFINE child == IF snapshot # Closed /\ process.child = "exited" THEN "none" ELSE process.child
  <1>1. \/ Rendered(process, snapshot) = NoProcess
        \/ Rendered(process, snapshot) = [child |-> "running", state |-> snapshot]
        \/ Rendered(process, snapshot) = [child |-> child, state |-> snapshot]
    BY DEF Rendered
  <1> HIDE DEF child
  <1>2. \/ Rendered(process, snapshot) = NoProcess
        \/ Rendered(process, snapshot).state = snapshot
    BY <1>1
  <1> QED
    BY <1>2 DEF Shows

LEMMA RenderShows ==
  ASSUME \A o \in Shown : Shows(qml[o]), NEW report, NEW latest, Sound(latest), NEW at,
         Render(report, latest, at)
  PROVE  \A o \in Shown : Shows(qml'[o])
  <1>1. Shows(NoProcess)
    BY DEF Shows
  <1>2. CASE Leave
    BY <1>1, <1>2 DEF Leave, Stopped
  <1>3. CASE qml' = [o \in Shown |-> IF o \in hidden THEN qml[o]
                                     ELSE Rendered(qml[o], OverlaySnapshot(o, report, latest, at))]
    <2>1. \A o \in Shown : Shows(Rendered(qml[o], OverlaySnapshot(o, report, latest, at)))
      BY SnapshotIsDrawn, RenderedShows
    <2>2. \A o \in Shown : \/ qml'[o] = qml[o]
                           \/ qml'[o] = Rendered(qml[o], OverlaySnapshot(o, report, latest, at))
      BY <1>3
    <2> QED
      BY <2>1, <2>2
  <1> QED
    BY <1>2, <1>3 DEF Render

\* The scale once found is one that a frame and a window give.
BarsInv ==
  /\ ReadInv /\ focus \in Windows /\ (scale # NONE => scale \in Scales)
  /\ Sound(poller.latest) /\ \A o \in Shown : Shows(qml[o])

\* What a poll without a frame, or one that waits, makes of the trackers is sound.
LEMMA MarkIsSound ==
  ASSUME NEW p, IsPoller(p), Sound(p.latest), NEW at \in Nat, NEW which \in SUBSET Ids, NEW reason
  PROVE  Sound(MarkInactive(p, at, which, reason).latest)
  <1> DEFINE q == MarkInactive(p, at, which, reason)
  <1>1. \A t \in Ids : q.latest[t] = Inactive(reason) \/ q.latest[t] = p.latest[t]
    BY MarkInactiveIs
  <1>2. SoundState(Inactive(reason))
    BY DEF Inactive, SoundState
  <1> HIDE DEF q
  <1>3. Sound(q.latest)
    BY <1>1, <1>2 DEF Sound
  <1> QED
    BY <1>3 DEF q

\* A poll with a frame, the ones without, and the steps that poll nothing.
LEMMA BarsPolled ==
  ASSUME BarsInv, NEW picture \in Pictures, PollEnds(picture)
  PROVE  /\ Sound(poller'.latest) /\ (scale' # NONE => scale' \in Scales)
         /\ \A o \in Shown : Shows(qml'[o])
  <1>1. picture \in Readables /\ Waits
    BY DEF PollEnds, Waits
  <1>2. PICK s \in ScalesFor(picture) :
          /\ poller' = PollAll(poller, turn.now, turn.active, Sees[s][picture], now)
          /\ scale' = IF s = Identity THEN scale ELSE s
    BY DEF PollEnds
  <1>3. s \in Scales
    <2>1. Identity \in Scales /\ CoordinateScale(Sample[picture], <<Seat[focus].rect>>) \in Scales
      BY <1>1 DEF Scales, BarsInv
    <2> QED
      BY <1>2, <2>1 DEF ScalesFor, BarsInv
  <1>4. \A t \in Ids : Seen(t, Sees[s][picture][t])
    BY <1>1, <1>3, SeesPercents
  <1>5. IsPoller(poller) /\ Sound(poller.latest) /\ turn.now \in Nat /\ now \in Nat
    BY <1>1 DEF BarsInv, ReadInv, ScreenTyped, TurnTyped
  <1>6. Sound(poller'.latest)
    BY <1>2, <1>4, <1>5, PollAllSound
  <1>7. Render(turn.context, poller'.latest, now)
    BY DEF PollEnds
  <1>8. \A o \in Shown : Shows(qml'[o])
    BY <1>6, <1>7, RenderShows DEF BarsInv
  <1> QED
    BY <1>2, <1>3, <1>6, <1>8 DEF BarsInv

LEMMA BarsMarked ==
  ASSUME BarsInv, PollOutOfScope \/ PollBegins \/ PollFails
  PROVE  Sound(poller'.latest) /\ \A o \in Shown : Shows(qml'[o])
  <1>1. IsPoller(poller) /\ Sound(poller.latest) /\ now \in Nat /\ Due(poller, now) \in SUBSET Ids
    BY DEF BarsInv, ReadInv, ScreenTyped, Due
  <1>2. CASE PollOutOfScope
    <2>1. /\ poller' = MarkInactive(poller, now, Due(poller, now), "FocusInactive")
          /\ Render(context, poller'.latest, now)
      BY <1>2 DEF PollOutOfScope
    <2>2. Sound(poller'.latest)
      BY <1>1, <2>1, MarkIsSound
    <2> QED
      BY <2>1, <2>2, RenderShows DEF BarsInv
  <1>3. CASE PollBegins
    <2> DEFINE idle == Due(poller, now) \ InScope(Due(poller, now), context, now)
    <2>1. poller' = MarkInactive(poller, now, idle, "FocusInactive") /\ qml' = qml
      BY <1>3 DEF PollBegins
    <2>2. idle \in SUBSET Ids
      BY <1>1
    <2> HIDE DEF idle
    <2>3. Sound(poller'.latest)
      BY <1>1, <2>1, <2>2, MarkIsSound
    <2> QED
      BY <2>1, <2>3 DEF BarsInv
  <1>4. CASE PollFails
    <2>1. /\ poller' = MarkInactive(poller, turn.now, turn.active, "NoReadableSample")
          /\ Render(turn.context, poller'.latest, now) /\ Waits
      BY <1>4 DEF PollFails, Waits
    <2>2. turn.now \in Nat /\ turn.active \in SUBSET Ids
      BY <2>1 DEF BarsInv, ReadInv, ScreenTyped, TurnTyped
    <2>3. Sound(poller'.latest)
      BY <1>1, <2>1, <2>2, MarkIsSound
    <2> QED
      BY <2>1, <2>3, RenderShows DEF BarsInv
  <1> QED
    BY <1>2, <1>3, <1>4

LEMMA BarsOther ==
  ASSUME BarsInv, OtherStep
  PROVE  poller' = poller /\ scale' = scale /\ focus' \in Windows /\ \A o \in Shown : Shows(qml'[o])
  <1>1. /\ qml = [o \in Shown |-> qml[o]]
        /\ \A o \in Shown : qml[o] = NoProcess \/ qml[o] = [child |-> qml[o].child, state |-> qml[o].state]
    BY DEF BarsInv, ReadInv, ScreenTyped
  <1>2. Shows(NoProcess) /\ focus \in Windows /\ \A o \in Shown : Shows(qml[o])
    BY DEF Shows, BarsInv
  <1>3. CASE Tick \/ MoveFocus \/ Report \/ UNCHANGED overlay_vars
    BY <1>2, <1>3 DEF Tick, MoveFocus, Report, overlay_vars
  <1>4. CASE Stop
    BY <1>2, <1>4 DEF Stop, Leave, Stopped
  <1>5. \A o \in Shown : qml[o] # NoProcess => Shows([qml[o] EXCEPT !.child = "exited"])
    <2> SUFFICES ASSUME NEW o \in Shown, qml[o] # NoProcess
                 PROVE  Shows([qml[o] EXCEPT !.child = "exited"])
      OBVIOUS
    <2>1. [qml[o] EXCEPT !.child = "exited"].state = qml[o].state
      BY <1>1
    <2> QED
      BY <1>2, <2>1 DEF Shows
  <1>6. CASE Kill
    <2>1. \A o \in Shown : qml'[o] = IF qml[o] = NoProcess THEN NoProcess
                                     ELSE [qml[o] EXCEPT !.child = "exited"]
      BY <1>6 DEF Kill
    <2> QED
      BY <1>2, <1>5, <1>6, <2>1 DEF Kill
  <1>7. ASSUME NEW x \in Shown, QmlExits(x) \/ Toggle(x)
        PROVE  /\ poller' = poller /\ scale' = scale /\ focus' = focus
               /\ \A o \in Shown : Shows(qml'[o])
    <2>1. CASE QmlExits(x)
      <3>1. qml' = [qml EXCEPT ![x] = [qml[x] EXCEPT !.child = "exited"]] /\ qml[x] # NoProcess
        BY <2>1 DEF QmlExits
      <3>2. \A o \in Shown : qml'[o] = qml[o] \/ (o = x /\ qml'[o] = [qml[o] EXCEPT !.child = "exited"])
        BY <1>1, <3>1
      <3> QED
        BY <1>2, <1>5, <2>1, <3>1, <3>2 DEF QmlExits
    <2>2. CASE Toggle(x)
      <3>1. qml' = qml \/ qml' = [qml EXCEPT ![x] = NoProcess]
        BY <2>2 DEF Toggle
      <3>2. \A o \in Shown : qml'[o] = qml[o] \/ qml'[o] = NoProcess
        BY <1>1, <3>1
      <3> QED
        BY <1>2, <2>2, <3>2 DEF Toggle
    <2> QED
      BY <1>7, <2>1, <2>2
  <1> QED
    BY <1>2, <1>3, <1>4, <1>6, <1>7 DEF OtherStep

LEMMA BarsStep ==
  ASSUME BarsInv, [OverlayNext]_overlay_vars
  PROVE  BarsInv'
  <1>1. ReadInv'
    BY ReadInvStep DEF BarsInv
  <1>2. CASE PollOutOfScope \/ PollBegins \/ PollFails
    <2>1. scale' = scale /\ focus' = focus
      BY <1>2 DEF PollOutOfScope, PollBegins, PollFails
    <2> QED
      BY <1>1, <1>2, <2>1, BarsMarked DEF BarsInv
  <1>3. ASSUME NEW picture \in Pictures, PollEnds(picture) PROVE BarsInv'
    <2>1. focus' = focus
      BY <1>3 DEF PollEnds
    <2> QED
      BY <1>1, <1>3, <2>1, BarsPolled DEF BarsInv
  <1>4. CASE OtherStep
    BY <1>1, <1>4, BarsOther DEF BarsInv
  <1> QED
    BY <1>2, <1>3, <1>4 DEF OverlayNext, OtherStep

\* Whatever the script's regions and rules, the frames, the scale and the polls, what an
\* overlay draws is a percentage, and it is full and active when its skill is ready.
THEOREM DrawsPercentages == OverlaySpec => []BarsArePercentages
  <1>1. OverlayInit => BarsInv
    <2> SUFFICES ASSUME OverlayInit PROVE BarsInv
      OBVIOUS
    <2>1. Sound(poller.latest)
      BY DEF OverlayInit, NewPoller, Sound
    <2>2. \A o \in Shown : Shows(qml[o])
      BY DEF OverlayInit, Stopped, Shows
    <2>3. focus \in Windows /\ scale = NONE
      BY DEF OverlayInit
    <2> QED
      BY <2>1, <2>2, <2>3, ReadInvInit DEF BarsInv
  <1>2. BarsInv => BarsArePercentages
    BY BarsAre DEF BarsInv
  <1> QED
    BY <1>1, <1>2, BarsStep, PTL DEF OverlaySpec

-----------------------------------------------------------------------------
(* Whose picture it is of.                                                   *)

\* A tracker's state that is not inactive tells what was seen.
Told(t, v, view) ==
  \/ v.kind = "Inactive"
  \/ Tracker[t].detector.kind = "HorizontalProgressBar" /\ v = DetectBar(view)
  \/ /\ Tracker[t].detector.kind # "HorizontalProgressBar" /\ v.kind = "RadialCooldown" /\ view # NONE
     /\ v.phase = view.phase /\ (v.phase # "Ready" => v.fraction = view.fraction)

LEMMA RadialIsTold ==
  ASSUME NEW t \in Ids, Tracker[t].detector.kind # "HorizontalProgressBar",
         NEW view, NEW at, NEW prediction, NEW history
  PROVE  Told(t, DetectRadial(view, at, prediction, history)[1], view)
  <1> DEFINE v == DetectRadial(view, at, prediction, history)[1]
  <1>1. CASE view = NONE
    <2>1. v = Inactive("NoReadableSample")
      BY <1>1 DEF DetectRadial
    <2> HIDE DEF v
    <2>2. Told(t, v, view)
      BY <2>1 DEF Told, Inactive
    <2> QED
      BY <2>2 DEF v
  <1>2. CASE view # NONE
    <2>1. /\ v.kind = "RadialCooldown" /\ v.phase = view.phase
          /\ v.fraction = IF view.phase = "Ready" THEN 0 ELSE view.fraction
      BY <1>2 DEF DetectRadial
    <2> HIDE DEF v
    <2>2. Told(t, v, view)
      BY <1>2, <2>1 DEF Told
    <2> QED
      BY <2>2 DEF v
  <1> QED
    BY <1>1, <1>2

\* One tracker's poll leaves the others' states.
LEMMA PollOneTells ==
  ASSUME NEW p, IsPoller(p), NEW began, NEW t \in Ids, NEW view, NEW at
  PROVE  /\ Told(t, PollOne(p, began, t, view, at).latest[t], view)
         /\ \A s \in Ids \ {t} : PollOne(p, began, t, view, at).latest[s] = p.latest[s]
  <1> DEFINE q == PollOne(p, began, t, view, at)
             d == DetectRadial(view, at, Tracker[t].detector.prediction, p.history[t])
             polled == [p EXCEPT !.last[t] = began]
  <1>1. polled = [last |-> [p.last EXCEPT ![t] = began], latest |-> p.latest, history |-> p.history]
    BY DEF IsPoller
  <1> HIDE DEF polled
  <1>2. \/ q = [polled EXCEPT !.latest[t] = Inactive("ConditionInactive")]
        \/ /\ Tracker[t].detector.kind = "HorizontalProgressBar"
           /\ q = [polled EXCEPT !.latest[t] = DetectBar(view)]
        \/ /\ Tracker[t].detector.kind # "HorizontalProgressBar"
           /\ q = [polled EXCEPT !.latest[t] = d[1], !.history[t] = d[2]]
    BY DEF PollOne, polled
  <1>3. Told(t, Inactive("ConditionInactive"), view)
    BY DEF Inactive, Told
  <1>4. Tracker[t].detector.kind = "HorizontalProgressBar" => Told(t, DetectBar(view), view)
    BY DEF Told
  <1>5. Tracker[t].detector.kind # "HorizontalProgressBar" => Told(t, d[1], view)
    BY RadialIsTold
  <1> HIDE DEF q, d
  <1>6. PICK v : Told(t, v, view) /\ q.latest = [p.latest EXCEPT ![t] = v]
    <2>1. CASE q = [polled EXCEPT !.latest[t] = Inactive("ConditionInactive")]
      BY <1>1, <1>3, <2>1
    <2>2. CASE /\ Tracker[t].detector.kind = "HorizontalProgressBar"
               /\ q = [polled EXCEPT !.latest[t] = DetectBar(view)]
      BY <1>1, <1>4, <2>2
    <2>3. CASE /\ Tracker[t].detector.kind # "HorizontalProgressBar"
               /\ q = [polled EXCEPT !.latest[t] = d[1], !.history[t] = d[2]]
      BY <1>1, <1>5, <2>3
    <2> QED
      BY <1>2, <2>1, <2>2, <2>3
  <1>7. p.latest = [s \in Ids |-> p.latest[s]]
    BY DEF IsPoller
  <1>8. q.latest[t] = v /\ \A s \in Ids \ {t} : q.latest[s] = p.latest[s]
    BY <1>6, <1>7
  <1> QED
    BY <1>6, <1>8 DEF q

LEMMA PollAllTells ==
  ASSUME NEW p, IsPoller(p), NEW began \in Nat, NEW active, NEW view, NEW at \in Nat
  PROVE  \A t \in Ids : t \in active => Told(t, PollAll(p, began, active, view, at).latest[t], view[t])
  <1> DEFINE n == Len(Trackers)
  <1>0. n \in Nat /\ DOMAIN Trackers = 1..n /\ \A i \in 1..n : Trackers[i] \in Ids
    BY TrackersAssumption
  <1>6. PICK iter : InOrder(iter, p, began, active, view, at)
    BY PollsInOrder
  <1>1. /\ iter[1..0] = p
        /\ \A m \in 1..n : iter[1..m] = PollAt(iter[1..(m - 1)], began, active, view, at, m)
        /\ PollAll(p, began, active, view, at) = iter[1..n]
    BY <1>6 DEF InOrder
  <1> HIDE DEF n
  <1> DEFINE Good(m) == /\ IsPoller(iter[1..m])
                        /\ \A i \in 1..m : Trackers[i] \in active =>
                             Told(Trackers[i], iter[1..m].latest[Trackers[i]], view[Trackers[i]])
             S == {m \in Nat : m <= n => Good(m)}
  <1>2. Good(0)
    <2>1. \A i \in 1..0 : FALSE
      OBVIOUS
    <2> QED
      BY <1>1, <2>1
  <1>3. ASSUME NEW m \in 1..n, Good(m - 1)
        PROVE  Good(m)
    <2> DEFINE q == iter[1..(m - 1)]
               r == iter[1..m]
               t == Trackers[m]
    <2>1. IsPoller(q) /\ t \in Ids /\ m \in Nat
      BY <1>0, <1>3
    <2>2. r = IF t \in active THEN PollOne(q, began, t, view[t], at) ELSE q
      BY <1>1 DEF PollAt
    <2>3. \A i \in 1..(m - 1) : Trackers[i] \in active =>
            Told(Trackers[i], q.latest[Trackers[i]], view[Trackers[i]])
      BY <1>3
    <2>4. \A i \in 1..(m - 1) : Trackers[i] \in Ids \ {t}
      <3> SUFFICES ASSUME NEW i \in 1..(m - 1) PROVE Trackers[i] \in Ids \ {t}
        OBVIOUS
      <3>1. i \in 1..n /\ m \in 1..n /\ i # m
        BY <1>0
      <3> QED
        BY <1>0, <3>1, TrackersAssumption
    <2> HIDE DEF q, r, t
    <2>5. IsPoller(PollOne(q, began, t, view[t], at))
      BY <2>1, PollOneIs DEF OnePolled
    <2>6. IsPoller(r) /\ \A s \in Ids \ {t} : r.latest[s] = q.latest[s]
      BY <2>1, <2>2, <2>5, PollOneTells
    <2>7. t \in active => Told(t, r.latest[t], view[t])
      BY <2>1, <2>2, PollOneTells
    <2>8. ASSUME NEW i \in 1..m, Trackers[i] \in active
          PROVE  Told(Trackers[i], r.latest[Trackers[i]], view[Trackers[i]])
      <3>1. CASE i = m
        BY <2>7, <2>8, <3>1 DEF t
      <3>2. CASE i # m
        <4>1. i \in 1..(m - 1)
          BY <2>1, <3>2
        <4>2. r.latest[Trackers[i]] = q.latest[Trackers[i]]
          BY <2>4, <2>6, <4>1
        <4> QED
          BY <2>3, <2>8, <4>1, <4>2
      <3> QED
        BY <3>1, <3>2
    <2> QED
      BY <2>6, <2>8 DEF r
  <1> HIDE DEF Good
  <1>4. S = Nat
    <2>1. S \in SUBSET Nat /\ 0 \in S
      BY <1>2
    <2>2. \A m \in Nat : m # 0 /\ m - 1 \in S => m \in S
      <3> SUFFICES ASSUME NEW m \in Nat, m # 0, m - 1 \in S, m <= n
                   PROVE  Good(m)
        OBVIOUS
      <3>1. m \in 1..n /\ m - 1 <= n
        BY <1>0
      <3> QED
        BY <3>1, <1>3
    <2> HIDE DEF S
    <2> QED
      BY <2>1, <2>2, EveryNumber
  <1>5. Good(n)
    <2>1. n \in S /\ n <= n
      BY <1>0, <1>4
    <2> QED
      BY <2>1
  <1>7. \A t \in Ids : \E i \in 1..n : Trackers[i] = t
    BY <1>0 DEF Ids, Range
  <1> QED
    BY <1>1, <1>5, <1>7 DEF Good

\* A state that is not inactive is of the picture last looked at.
Pictured(t, v, p) ==
  \/ v.kind = "Inactive"
  \/ p \in Readables /\ \E s \in Scales : Told(t, v, Sees[s][p][t])
AllPictured(latest, pictures) ==
  \A t \in Ids : latest[t] = NONE \/ Pictured(t, latest[t], pictures[t])

\* What a visual says of its tracker's picture, and an overlay's visuals of theirs.
TellsOfPicture(visual, t, p) ==
  visual.active =>
    p \in Readables /\ \E s \in Scales : Depicts(visual, Sees[s][p][t], Tracker[t].detector.kind)
TellsOfPictures(o, snapshot, pictures) ==
  \A i \in DOMAIN snapshot :
    TellsOfPicture(snapshot[i], Overlay[o].visuals[i].tracker, pictures[Overlay[o].visuals[i].tracker])

LEMMA VisualTells ==
  ASSUME NEW t \in Ids, NEW visual, NEW v, NEW p, Pictured(t, v, p)
  PROVE  TellsOfPicture(VisualSnapshot(visual, v), t, p)
  <1> DEFINE x == VisualSnapshot(visual, v)
             kind == Tracker[t].detector.kind
  <1>1. CASE v.kind = "Inactive"
    <2>1. x.active = FALSE
      BY <1>1 DEF VisualSnapshot
    <2> HIDE DEF x
    <2>2. TellsOfPicture(x, t, p)
      BY <2>1 DEF TellsOfPicture
    <2> QED
      BY <2>2 DEF x
  <1>2. ASSUME NEW view, Told(t, v, view), v.kind # "Inactive", x.active
        PROVE  Depicts(x, view, kind)
    <2>1. CASE kind = "HorizontalProgressBar"
      <3>1. v = DetectBar(view)
        BY <1>2, <2>1 DEF Told
      <3>2. v.kind = "HorizontalProgressBar" /\ v.visible = (view # NONE) /\ (view # NONE => v.progress = view)
        BY <3>1 DEF DetectBar
      <3>3. x.fill = v.progress /\ x.active = v.visible
        BY <3>2 DEF VisualSnapshot
      <3> HIDE DEF x, kind
      <3> QED
        BY <1>2, <2>1, <3>2, <3>3 DEF Depicts
    <2>2. CASE kind # "HorizontalProgressBar"
      <3>1. /\ v.kind = "RadialCooldown" /\ view # NONE
            /\ v.phase = view.phase /\ (v.phase # "Ready" => v.fraction = view.fraction)
        BY <1>2, <2>2 DEF Told
      <3>2. x.fill = RadialFill(v) /\ x.active = (v.phase # "Unknown") /\ x.ready = (v.phase = "Ready")
        BY <3>1 DEF VisualSnapshot
      <3>3. /\ v.phase = "Recovering" => RadialFill(v) = 100 - v.fraction
            /\ v.phase = "Activated" => RadialFill(v) = 0
        BY DEF RadialFill
      <3> HIDE DEF x, kind
      <3> QED
        BY <1>2, <2>2, <3>1, <3>2, <3>3 DEF Depicts
    <2> QED
      BY <2>1, <2>2
  <1>3. CASE v.kind # "Inactive"
    <2>1. p \in Readables /\ \E s \in Scales : Told(t, v, Sees[s][p][t])
      BY <1>3 DEF Pictured
    <2> HIDE DEF x, kind
    <2>2. x.active => \E s \in Scales : Depicts(x, Sees[s][p][t], kind)
      BY <1>2, <1>3, <2>1
    <2>3. TellsOfPicture(x, t, p)
      BY <2>1, <2>2 DEF TellsOfPicture, kind
    <2> QED
      BY <2>3 DEF x
  <1> QED
    BY <1>1, <1>3

LEMMA SnapshotTells ==
  ASSUME NEW o \in Shown, NEW report, NEW latest, NEW pictures, AllPictured(latest, pictures), NEW at
  PROVE  TellsOfPictures(o, OverlaySnapshot(o, report, latest, at), pictures)
  <1> DEFINE visuals == Overlay[o].visuals
             s == OverlaySnapshot(o, report, latest, at)
             drawn == [i \in DOMAIN visuals |-> VisualSnapshot(visuals[i], latest[visuals[i].tracker])]
  <1>1. TellsOfPictures(o, Closed, pictures)
    <2>1. DOMAIN Closed = {}
      BY DEF Closed
    <2> QED
      BY <2>1 DEF TellsOfPictures
  <1>2. \/ s = Closed
        \/ s = drawn /\ \A visual \in Range(visuals) : latest[visual.tracker] # NONE
    BY DEF OverlaySnapshot
  <1>3. ASSUME NEW i \in DOMAIN visuals,
               \A visual \in Range(visuals) : latest[visual.tracker] # NONE
        PROVE  TellsOfPicture(drawn[i], visuals[i].tracker, pictures[visuals[i].tracker])
    <2>1. visuals[i] \in Range(visuals)
      BY DEF Range
    <2>2. visuals[i].tracker \in Ids /\ latest[visuals[i].tracker] # NONE
      BY <1>3, <2>1, OverlaysAssumption
    <2>3. Pictured(visuals[i].tracker, latest[visuals[i].tracker], pictures[visuals[i].tracker])
      BY <2>2 DEF AllPictured
    <2>4. drawn[i] = VisualSnapshot(visuals[i], latest[visuals[i].tracker])
      OBVIOUS
    <2> QED
      BY <2>2, <2>3, <2>4, VisualTells
  <1>4. DOMAIN drawn = DOMAIN visuals
    OBVIOUS
  <1> HIDE DEF drawn, s
  <1>5. TellsOfPictures(o, s, pictures)
    BY <1>1, <1>2, <1>3, <1>4 DEF TellsOfPictures
  <1> QED
    BY <1>5 DEF s

\* An overlay's process, and all of them after a rendering.
Truthful(o, process, pictures) == process # NoProcess => TellsOfPictures(o, process.state, pictures)

LEMMA TruthfulIs ==
  BarsShowTheLastPicture <=> \A o \in Shown : Truthful(o, qml[o], looked)
  BY DEF BarsShowTheLastPicture, Truthful, TellsOfPictures, TellsOfPicture

LEMMA RenderTells ==
  ASSUME HiddenStaysHidden, NEW report, NEW latest, NEW pictures, AllPictured(latest, pictures), NEW at,
         Render(report, latest, at)
  PROVE  \A o \in Shown : Truthful(o, qml'[o], pictures)
  <1>1. \A o \in Shown : Truthful(o, NoProcess, pictures)
    BY DEF Truthful
  <1>2. CASE Leave
    BY <1>1, <1>2 DEF Leave, Stopped
  <1>3. CASE qml' = [o \in Shown |-> IF o \in hidden THEN qml[o]
                                     ELSE Rendered(qml[o], OverlaySnapshot(o, report, latest, at))]
    <2>1. ASSUME NEW o \in Shown, NEW process, NEW snapshot, TellsOfPictures(o, snapshot, pictures)
          PROVE  Truthful(o, Rendered(process, snapshot), pictures)
      <3> DEFINE child == IF snapshot # Closed /\ process.child = "exited" THEN "none" ELSE process.child
      <3>1. \/ Rendered(process, snapshot) = NoProcess
            \/ Rendered(process, snapshot) = [child |-> "running", state |-> snapshot]
            \/ Rendered(process, snapshot) = [child |-> child, state |-> snapshot]
        BY DEF Rendered
      <3> HIDE DEF child
      <3>2. \/ Rendered(process, snapshot) = NoProcess
            \/ Rendered(process, snapshot).state = snapshot
        BY <3>1
      <3> QED
        BY <2>1, <3>2 DEF Truthful
    <2>2. \A o \in Shown : \/ qml'[o] = NoProcess
                           \/ qml'[o] = Rendered(qml[o], OverlaySnapshot(o, report, latest, at))
      BY <1>3 DEF HiddenStaysHidden
    <2> QED
      BY <1>1, <2>1, <2>2, SnapshotTells
  <1> QED
    BY <1>2, <1>3 DEF Render

PicturesInv ==
  /\ ReadInv /\ focus \in Windows /\ (scale # NONE => scale \in Scales)
  /\ AllPictured(poller.latest, looked) /\ \A o \in Shown : Truthful(o, qml[o], looked)

\* A poll without a frame, or one that waits, leaves the others' states and everyone's picture.
LEMMA MarkIsPictured ==
  ASSUME NEW p, IsPoller(p), NEW pictures, AllPictured(p.latest, pictures),
         NEW at \in Nat, NEW which \in SUBSET Ids, NEW reason
  PROVE  AllPictured(MarkInactive(p, at, which, reason).latest, pictures)
  <1> DEFINE q == MarkInactive(p, at, which, reason)
  <1>1. \A t \in Ids : q.latest[t] = Inactive(reason) \/ q.latest[t] = p.latest[t]
    BY MarkInactiveIs
  <1>2. Inactive(reason).kind = "Inactive"
    BY DEF Inactive
  <1> HIDE DEF q
  <1>3. AllPictured(q.latest, pictures)
    BY <1>1, <1>2 DEF AllPictured, Pictured
  <1> QED
    BY <1>3 DEF q

LEMMA PicturesPolled ==
  ASSUME PicturesInv, NEW picture \in Pictures, PollEnds(picture)
  PROVE  /\ AllPictured(poller'.latest, looked') /\ (scale' # NONE => scale' \in Scales)
         /\ \A o \in Shown : Truthful(o, qml'[o], looked')
  <1>1. picture \in Readables /\ Waits
    BY DEF PollEnds, Waits
  <1>2. PICK s \in ScalesFor(picture) :
          /\ poller' = PollAll(poller, turn.now, turn.active, Sees[s][picture], now)
          /\ scale' = IF s = Identity THEN scale ELSE s
    BY DEF PollEnds
  <1>3. s \in Scales
    <2>1. Identity \in Scales /\ CoordinateScale(Sample[picture], <<Seat[focus].rect>>) \in Scales
      BY <1>1 DEF Scales, PicturesInv
    <2> QED
      BY <1>2, <2>1 DEF ScalesFor, PicturesInv
  <1>4. IsPoller(poller) /\ turn.now \in Nat /\ now \in Nat
    BY <1>1 DEF PicturesInv, ReadInv, ScreenTyped, TurnTyped
  <1>5. \A t \in Ids : looked'[t] = IF /\ t \in turn.active
                                       /\ poller'.latest[t] # Inactive("ConditionInactive")
                                    THEN picture ELSE looked[t]
    BY DEF PollEnds
  <1>6. ASSUME NEW t \in Ids
        PROVE  poller'.latest[t] = NONE \/ Pictured(t, poller'.latest[t], looked'[t])
    <2>1. CASE t \in turn.active
      <3>1. Told(t, poller'.latest[t], Sees[s][picture][t])
        BY <1>2, <1>4, <2>1, PollAllTells
      <3>2. CASE poller'.latest[t] = Inactive("ConditionInactive")
        <4>1. Inactive("ConditionInactive").kind = "Inactive"
          BY DEF Inactive
        <4> QED
          BY <3>2, <4>1 DEF Pictured
      <3>3. CASE poller'.latest[t] # Inactive("ConditionInactive")
        <4>1. looked'[t] = picture
          BY <1>5, <2>1, <3>3
        <4> QED
          BY <1>1, <1>3, <3>1, <4>1 DEF Pictured
      <3> QED
        BY <3>2, <3>3
    <2>2. CASE t \notin turn.active
      <3>1. AllPolled(poller, poller', turn.now, turn.active, now)
        BY <1>2, <1>4, PollAllPolls
      <3>2. poller'.latest[t] = poller.latest[t] /\ looked'[t] = looked[t]
        BY <1>5, <2>2, <3>1 DEF AllPolled
      <3> QED
        BY <3>2 DEF PicturesInv, AllPictured
    <2> QED
      BY <2>1, <2>2
  <1>7. AllPictured(poller'.latest, looked')
    BY <1>6 DEF AllPictured
  <1>8. Render(turn.context, poller'.latest, now) /\ HiddenStaysHidden
    BY DEF PollEnds, PicturesInv, ReadInv
  <1>9. \A o \in Shown : Truthful(o, qml'[o], looked')
    BY <1>7, <1>8, RenderTells
  <1> QED
    BY <1>2, <1>3, <1>7, <1>9 DEF PicturesInv

LEMMA PicturesMarked ==
  ASSUME PicturesInv, PollOutOfScope \/ PollBegins \/ PollFails
  PROVE  AllPictured(poller'.latest, looked) /\ \A o \in Shown : Truthful(o, qml'[o], looked)
  <1>1. /\ IsPoller(poller) /\ AllPictured(poller.latest, looked) /\ HiddenStaysHidden
        /\ now \in Nat /\ Due(poller, now) \in SUBSET Ids
    BY DEF PicturesInv, ReadInv, ScreenTyped, Due
  <1>2. CASE PollOutOfScope
    <2>1. /\ poller' = MarkInactive(poller, now, Due(poller, now), "FocusInactive")
          /\ Render(context, poller'.latest, now)
      BY <1>2 DEF PollOutOfScope
    <2>2. AllPictured(poller'.latest, looked)
      BY <1>1, <2>1, MarkIsPictured
    <2> QED
      BY <1>1, <2>1, <2>2, RenderTells
  <1>3. CASE PollBegins
    <2> DEFINE idle == Due(poller, now) \ InScope(Due(poller, now), context, now)
    <2>1. poller' = MarkInactive(poller, now, idle, "FocusInactive") /\ qml' = qml
      BY <1>3 DEF PollBegins
    <2>2. idle \in SUBSET Ids
      BY <1>1
    <2> HIDE DEF idle
    <2>3. AllPictured(poller'.latest, looked)
      BY <1>1, <2>1, <2>2, MarkIsPictured
    <2> QED
      BY <2>1, <2>3 DEF PicturesInv
  <1>4. CASE PollFails
    <2>1. /\ poller' = MarkInactive(poller, turn.now, turn.active, "NoReadableSample")
          /\ Render(turn.context, poller'.latest, now) /\ Waits
      BY <1>4 DEF PollFails, Waits
    <2>2. turn.now \in Nat /\ turn.active \in SUBSET Ids
      BY <2>1 DEF PicturesInv, ReadInv, ScreenTyped, TurnTyped
    <2>3. AllPictured(poller'.latest, looked)
      BY <1>1, <2>1, <2>2, MarkIsPictured
    <2> QED
      BY <1>1, <2>1, <2>3, RenderTells
  <1> QED
    BY <1>2, <1>3, <1>4

LEMMA PicturesOther ==
  ASSUME PicturesInv, OtherStep
  PROVE  /\ poller' = poller /\ scale' = scale /\ focus' \in Windows /\ looked' = looked
         /\ \A o \in Shown : Truthful(o, qml'[o], looked)
  <1>1. /\ qml = [o \in Shown |-> qml[o]]
        /\ \A o \in Shown : qml[o] = NoProcess \/ qml[o] = [child |-> qml[o].child, state |-> qml[o].state]
    BY DEF PicturesInv, ReadInv, ScreenTyped
  <1>2. focus \in Windows /\ \A o \in Shown : Truthful(o, NoProcess, looked) /\ Truthful(o, qml[o], looked)
    BY DEF Truthful, PicturesInv
  <1>3. CASE Tick \/ MoveFocus \/ Report \/ UNCHANGED overlay_vars
    BY <1>2, <1>3 DEF Tick, MoveFocus, Report, overlay_vars
  <1>4. CASE Stop
    BY <1>2, <1>4 DEF Stop, Leave, Stopped
  <1>5. \A o \in Shown : qml[o] # NoProcess => Truthful(o, [qml[o] EXCEPT !.child = "exited"], looked)
    <2> SUFFICES ASSUME NEW o \in Shown, qml[o] # NoProcess
                 PROVE  Truthful(o, [qml[o] EXCEPT !.child = "exited"], looked)
      OBVIOUS
    <2>1. [qml[o] EXCEPT !.child = "exited"].state = qml[o].state
      BY <1>1
    <2> QED
      BY <1>2, <2>1 DEF Truthful
  <1>6. CASE Kill
    <2>1. \A o \in Shown : qml'[o] = IF qml[o] = NoProcess THEN NoProcess
                                     ELSE [qml[o] EXCEPT !.child = "exited"]
      BY <1>6 DEF Kill
    <2> QED
      BY <1>2, <1>5, <1>6, <2>1 DEF Kill
  <1>7. ASSUME NEW x \in Shown, QmlExits(x) \/ Toggle(x)
        PROVE  /\ poller' = poller /\ scale' = scale /\ focus' = focus /\ looked' = looked
               /\ \A o \in Shown : Truthful(o, qml'[o], looked)
    <2>1. CASE QmlExits(x)
      <3>1. qml' = [qml EXCEPT ![x] = [qml[x] EXCEPT !.child = "exited"]] /\ qml[x] # NoProcess
        BY <2>1 DEF QmlExits
      <3>2. \A o \in Shown : qml'[o] = qml[o] \/ (o = x /\ qml'[o] = [qml[o] EXCEPT !.child = "exited"])
        BY <1>1, <3>1
      <3> QED
        BY <1>2, <1>5, <2>1, <3>1, <3>2 DEF QmlExits
    <2>2. CASE Toggle(x)
      <3>1. qml' = qml \/ qml' = [qml EXCEPT ![x] = NoProcess]
        BY <2>2 DEF Toggle
      <3>2. \A o \in Shown : qml'[o] = qml[o] \/ qml'[o] = NoProcess
        BY <1>1, <3>1
      <3> QED
        BY <1>2, <2>2, <3>2 DEF Toggle
    <2> QED
      BY <1>7, <2>1, <2>2
  <1> QED
    BY <1>2, <1>3, <1>4, <1>6, <1>7 DEF OtherStep

LEMMA PicturesStep ==
  ASSUME PicturesInv, [OverlayNext]_overlay_vars
  PROVE  PicturesInv'
  <1>1. ReadInv'
    BY ReadInvStep DEF PicturesInv
  <1>2. CASE PollOutOfScope \/ PollBegins \/ PollFails
    <2>1. scale' = scale /\ focus' = focus /\ looked' = looked
      BY <1>2 DEF PollOutOfScope, PollBegins, PollFails
    <2> QED
      BY <1>1, <1>2, <2>1, PicturesMarked DEF PicturesInv
  <1>3. ASSUME NEW picture \in Pictures, PollEnds(picture) PROVE PicturesInv'
    <2>1. focus' = focus
      BY <1>3 DEF PollEnds
    <2> QED
      BY <1>1, <1>3, <2>1, PicturesPolled DEF PicturesInv
  <1>4. CASE OtherStep
    BY <1>1, <1>4, PicturesOther DEF PicturesInv
  <1> QED
    BY <1>2, <1>3, <1>4 DEF OverlayNext, OtherStep

\* Whichever polls skip a tracker, fail, or are overtaken by the focus, an overlay that shows a
\* tracker shows what its detector saw in the last picture that it was given.
THEOREM DrawsTheLastPicture == OverlaySpec => []BarsShowTheLastPicture
  <1>1. OverlayInit => PicturesInv
    <2> SUFFICES ASSUME OverlayInit PROVE PicturesInv
      OBVIOUS
    <2>1. AllPictured(poller.latest, looked)
      BY DEF OverlayInit, NewPoller, AllPictured
    <2>2. \A o \in Shown : Truthful(o, qml[o], looked)
      BY DEF OverlayInit, Stopped, Truthful
    <2>3. focus \in Windows /\ scale = NONE
      BY DEF OverlayInit
    <2> QED
      BY <2>1, <2>2, <2>3, ReadInvInit DEF PicturesInv
  <1>2. PicturesInv => BarsShowTheLastPicture
    BY TruthfulIs DEF PicturesInv
  <1> QED
    BY <1>1, <1>2, PicturesStep, PTL DEF OverlaySpec

=============================================================================
