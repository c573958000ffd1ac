------------------------------- MODULE KvmProofs -------------------------------
(***************************************************************************)
(* What MCKvm shows on two event nodes, proved for any number of nodes and *)
(* device objects: the safety invariants of Kvm and its implementation of  *)
(* InputOwnership.                                                         *)
(*                                                                         *)
(* NoLeftoverGrab alone is not inductive.  A release ungrabs what k.devs   *)
(* lists, so nothing outside devs may be held (HeldIsTracked); deviceLost  *)
(* ungrabs the others only, so the lost device must have lost its grab     *)
(* with its node (HeldIsLive, FailedIsDead); and the supervisor closes     *)
(* probes, so a probe is never the object that is tracked (ProbesApart).   *)
(***************************************************************************)
EXTENDS Kvm, TLAPS

HeldIsTracked == evgrab \subseteq devs

HeldIsLive == \A d \in evgrab : fd[d] = "live"

FailedIsDead ==
    Running => \A d \in Dev : reader[d] = "failed" => fd[d] = "dead"

ProbesApart == /\ found \cap devs = {}
               /\ Running => \A d \in devs \cup found : fd[d] # "closed"

IInv == /\ TypeOK
        /\ HeldIsTracked
        /\ HeldIsLive
        /\ FailedIsDead
        /\ ProbesApart
        /\ NoLeftoverGrab
        /\ OneReaderPerNode
        /\ NoFdLeak

(* Both ways of applyGrab, from a state in which nothing is held or        *)
(* everything may be: what the callers need to know of it.                 *)
LEMMA ApplyGrabEffect ==
    ASSUME TypeOK, HeldIsTracked, HeldIsLive, NoLeftoverGrab, Running,
           NEW on \in BOOLEAN, on # grabbed, ApplyGrab(on)
    PROVE  /\ grabbed' \in BOOLEAN
           /\ evgrab' \subseteq devs
           /\ \A d \in evgrab' : fd[d] = "live"
           /\ ~grabbed' => evgrab' = {}
           /\ grabbed' => (~grabbed /\ evgrab' = devs)
<1>1. CASE on
  <2>1. ~grabbed /\ evgrab = {}
    BY <1>1 DEF TypeOK, NoLeftoverGrab
  <2>2. CASE GrabAll
    BY <2>1, <2>2 DEF GrabAll, Live, TypeOK
  <2>3. CASE GrabRefused
    BY <2>1, <2>3 DEF GrabRefused
  <2> QED  BY <1>1, <2>2, <2>3 DEF ApplyGrab
<1>2. CASE ~on
  <2>1. UngrabAll
    BY <1>2 DEF ApplyGrab
  <2> QED  BY <2>1 DEF UngrabAll, HeldIsTracked
<1> QED  BY <1>1, <1>2

(* releaseLocked leaves nothing held among the devices it is given. *)
LEMMA ReleaseEffect ==
    ASSUME TypeOK, NoLeftoverGrab, NEW tracked, ReleaseLocked(tracked)
    PROVE  /\ grabbed' = FALSE
           /\ evgrab' = evgrab \ tracked
BY DEF ReleaseLocked, NoLeftoverGrab, TypeOK

(* The strengthened invariant holds at start-up. *)
LEMMA InitIInv == Init => IInv
<1> SUFFICES ASSUME Init
             PROVE  IInv
  OBVIOUS
<1> USE DEF Init
<1>1. devs \subseteq Dev /\ plugged \subseteq Path
  OBVIOUS
<1>2. TypeOK
  BY <1>1 DEF TypeOK
<1>3. \A d \in Dev : fd[d] = IF d \in devs THEN "live" ELSE "closed"
  OBVIOUS
<1>4. \A d \in Dev : reader[d] # "failed"
  OBVIOUS
<1>5. HeldIsTracked /\ HeldIsLive /\ FailedIsDead /\ NoLeftoverGrab
  BY <1>4 DEF HeldIsTracked, HeldIsLive, FailedIsDead, NoLeftoverGrab
<1>6. ProbesApart
  BY <1>1, <1>3 DEF ProbesApart
<1>7. OneReaderPerNode /\ NoFdLeak
  BY <1>1, <1>3 DEF OneReaderPerNode, NoFdLeak
<1> QED  BY <1>2, <1>5, <1>6, <1>7 DEF IInv

(* Every step of every goroutine keeps the strengthened invariant. *)
LEMMA NextIInv == IInv /\ [Next]_vars => IInv'
<1> USE DEF IInv, Running
<1> SUFFICES ASSUME IInv, [Next]_vars
             PROVE  IInv'
  OBVIOUS
<1>1. ASSUME NEW p \in Path, Unplug(p)
      PROVE  IInv'
  <2> USE <1>1 DEF Unplug, control, threads
  <2>1. TypeOK'
    BY DEF TypeOK
  <2>2. HeldIsTracked' /\ NoLeftoverGrab' /\ OneReaderPerNode'
    BY DEF HeldIsTracked, NoLeftoverGrab, OneReaderPerNode
  <2>3. HeldIsLive'
    BY DEF HeldIsLive, TypeOK
  <2>5. NoFdLeak'
    <3>1. \A d \in Dev : fd'[d] # "closed" => fd[d] # "closed"
      BY DEF Live, TypeOK
    <3> QED  BY <3>1 DEF NoFdLeak
  <2>4. FailedIsDead' /\ ProbesApart'
    BY DEF FailedIsDead, ProbesApart, TypeOK
  <2> QED  BY <2>1, <2>2, <2>3, <2>4, <2>5
<1>2. ASSUME NEW p \in Path, Plug(p)
      PROVE  IInv'
  BY <1>2 DEF Plug, control, threads, TypeOK, HeldIsTracked, HeldIsLive,
              FailedIsDead, ProbesApart, NoLeftoverGrab,
              OneReaderPerNode, NoFdLeak
<1>3. CASE LinkChange
  BY <1>3 DEF LinkChange, hardware, control, TypeOK, HeldIsTracked, HeldIsLive,
              FailedIsDead, ProbesApart, NoLeftoverGrab,
              OneReaderPerNode, NoFdLeak
<1>4. ASSUME NEW d \in Dev, ReadToggle(d)
      PROVE  IInv'
  BY <1>4 DEF ReadToggle, hardware, control, TypeOK, HeldIsTracked, HeldIsLive,
              FailedIsDead, ProbesApart, NoLeftoverGrab,
              OneReaderPerNode, NoFdLeak
<1>5. ASSUME NEW d \in Dev, HandleToggle(d)
      PROVE  IInv'
  <2> USE <1>5 DEF HandleToggle
  <2>1. /\ grabbed' \in BOOLEAN
        /\ evgrab' \subseteq devs
        /\ \A e \in evgrab' : fd[e] = "live"
        /\ ~grabbed' => evgrab' = {}
    BY ApplyGrabEffect DEF TypeOK
  <2> QED
    BY <2>1 DEF TypeOK, HeldIsTracked, HeldIsLive, FailedIsDead, ProbesApart,
                NoLeftoverGrab, OneReaderPerNode, NoFdLeak
<1>6. ASSUME NEW d \in Dev, ReadFails(d)
      PROVE  IInv'
  BY <1>6 DEF ReadFails, hardware, control, TypeOK, HeldIsTracked, HeldIsLive,
              FailedIsDead, ProbesApart, NoLeftoverGrab,
              OneReaderPerNode, NoFdLeak
<1>7. ASSUME NEW d \in Dev, DeviceLost(d)
      PROVE  IInv'
  <2> USE <1>7 DEF DeviceLost
  <2>1. grabbed' = FALSE /\ evgrab' = evgrab \ devs'
    BY ReleaseEffect
  <2>2. d \notin evgrab
    BY DEF FailedIsDead, HeldIsLive
  <2>3. evgrab' = {}
    BY <2>1, <2>2 DEF HeldIsTracked
  <2>4. TypeOK'
    BY <2>1, <2>3 DEF TypeOK
  <2>5. HeldIsTracked' /\ HeldIsLive' /\ NoLeftoverGrab'
    BY <2>3 DEF HeldIsTracked, HeldIsLive, NoLeftoverGrab
  <2>6. FailedIsDead' /\ ProbesApart'
    <3>1. FailedIsDead'
      BY DEF TypeOK, FailedIsDead
    <3>2. d \in devs /\ d \notin found
      BY DEF OneReaderPerNode, ProbesApart
    <3>3. ProbesApart'
      BY <3>2 DEF TypeOK, ProbesApart
    <3> QED  BY <3>1, <3>3
  <2>7. OneReaderPerNode' /\ NoFdLeak'
    BY DEF TypeOK, OneReaderPerNode, NoFdLeak
  <2> QED
    BY <2>4, <2>5, <2>6, <2>7
<1>8. ASSUME ApplyGrab(~grabbed), Running,
             UNCHANGED <<plugged, fd, devs, threads>>
      PROVE  IInv'
  <2>1. /\ grabbed' \in BOOLEAN
        /\ evgrab' \subseteq devs
        /\ \A e \in evgrab' : fd[e] = "live"
        /\ ~grabbed' => evgrab' = {}
    BY <1>8, ApplyGrabEffect DEF TypeOK
  <2> QED
    BY <1>8, <2>1 DEF threads, TypeOK, HeldIsTracked, HeldIsLive, FailedIsDead,
                      ProbesApart, NoLeftoverGrab, OneReaderPerNode, NoFdLeak
<1>9. CASE Mqtt
  <2>1. ASSUME NEW on \in BOOLEAN, SetGrab(on)
        PROVE  ApplyGrab(~grabbed) /\ Running
                 /\ UNCHANGED <<plugged, fd, devs, threads>>
    <3>1. on = ~grabbed
      BY <2>1 DEF SetGrab, TypeOK
    <3> QED  BY <2>1, <3>1 DEF SetGrab
  <2>2. CASE ToggleGrab
    BY <2>2, <1>8 DEF ToggleGrab
  <2> QED  BY <1>9, <1>8, <2>1, <2>2 DEF Mqtt
<1>10. CASE WatchTick \/ WatchAlive
  BY <1>10 DEF WatchTick, WatchAlive, hardware, control, TypeOK, HeldIsTracked,
               HeldIsLive, FailedIsDead, ProbesApart, NoLeftoverGrab,
               OneReaderPerNode, NoFdLeak
<1>11. CASE WatchRelease
  <2> USE <1>11 DEF WatchRelease
  <2>1. grabbed' = FALSE /\ evgrab' = {}
    BY ReleaseEffect DEF HeldIsTracked
  <2> QED
    BY <2>1 DEF TypeOK, HeldIsTracked, HeldIsLive, FailedIsDead, ProbesApart,
                NoLeftoverGrab, OneReaderPerNode, NoFdLeak
<1>12. CASE SuperviseTick
  <2> USE <1>12 DEF SuperviseTick
  <2>1. PICK ds \in Probes :
            /\ found' = ds
            /\ fd' = [d \in Dev |-> IF d \in ds THEN "live" ELSE fd[d]]
    OBVIOUS
  <2>2. ds \subseteq Dev /\ \A d \in ds : fd[d] = "closed"
    BY <2>1 DEF Probes
  <2>3. /\ TypeOK' /\ HeldIsTracked' /\ NoLeftoverGrab'
        /\ OneReaderPerNode' /\ NoFdLeak'
    BY <2>1, <2>2 DEF control, TypeOK, HeldIsTracked, NoLeftoverGrab,
                      OneReaderPerNode, NoFdLeak
  <2>4. HeldIsLive' /\ FailedIsDead' /\ ProbesApart'
    BY <2>1, <2>2 DEF control, TypeOK, HeldIsLive, FailedIsDead, ProbesApart
  <2> QED  BY <2>3, <2>4
<1>13. ASSUME NEW d \in Dev, SuperviseTrack(d)
       PROVE  IInv'
  <2> USE <1>13 DEF SuperviseTrack, hardware
  <2>1. fd[d] # "closed"
    BY DEF ProbesApart
  <2>2. TypeOK' /\ HeldIsTracked' /\ HeldIsLive' /\ FailedIsDead'
    BY DEF TypeOK, HeldIsTracked, HeldIsLive, FailedIsDead
  <2>3. ProbesApart' /\ NoLeftoverGrab' /\ NoFdLeak'
    BY <2>1 DEF TypeOK, ProbesApart, NoLeftoverGrab, NoFdLeak
  <2>4. OneReaderPerNode'
    BY DEF TypeOK, OneReaderPerNode, TrackedPath
  <2> QED  BY <2>2, <2>3, <2>4
<1>14. ASSUME NEW d \in Dev, SuperviseDrop(d)
       PROVE  IInv'
  BY <1>14 DEF SuperviseDrop, control, TypeOK, HeldIsTracked, HeldIsLive,
               FailedIsDead, ProbesApart, NoLeftoverGrab,
               OneReaderPerNode, NoFdLeak
<1>15. CASE Main
  <2>1. CASE Sigint
    BY <2>1 DEF Sigint, hardware, control, TypeOK, HeldIsTracked, HeldIsLive,
                FailedIsDead, ProbesApart, NoLeftoverGrab,
                OneReaderPerNode, NoFdLeak
  <2>2. CASE ShutdownRelease
    <3>1. evgrab' \subseteq devs /\ evgrab' = {} /\ grabbed' = FALSE
      BY <2>2 DEF ShutdownRelease, ApplyGrab, UngrabAll, HeldIsTracked,
                  NoLeftoverGrab, TypeOK
    <3> QED
      BY <2>2, <3>1 DEF ShutdownRelease, TypeOK, HeldIsTracked, HeldIsLive,
                        FailedIsDead, ProbesApart, NoLeftoverGrab,
                        OneReaderPerNode, NoFdLeak
  <2>3. CASE Exit
    BY <2>3 DEF Exit, control, TypeOK, HeldIsTracked, HeldIsLive, FailedIsDead,
                ProbesApart, NoLeftoverGrab, OneReaderPerNode, NoFdLeak
  <2> QED  BY <1>15, <2>1, <2>2, <2>3 DEF Main
<1>16. CASE UNCHANGED vars
  BY <1>16 DEF vars, TypeOK, HeldIsTracked, HeldIsLive, FailedIsDead,
               ProbesApart, NoLeftoverGrab, OneReaderPerNode, NoFdLeak
<1> QED
  BY <1>1, <1>2, <1>3, <1>4, <1>5, <1>6, <1>7, <1>9, <1>10, <1>11, <1>12,
     <1>13, <1>14, <1>15, <1>16
  DEF Next, Environment, Reader, Watcher, Supervisor

(* IInv is inductive. *)
LEMMA Invariance == Spec => []IInv
BY InitIInv, NextIInv, PTL DEF Spec

(* Types, for any set of devices and nodes. *)
THEOREM TypeCorrect == Spec => []TypeOK
<1>1. IInv => TypeOK
  BY DEF IInv
<1> QED  BY Invariance, <1>1, PTL

(* LOCAL mode and a finished process withhold nothing from the local       *)
(* session, whatever failed, vanished or was pressed on the way (applyGrab, *)
(* releaseLocked, deviceLost, the end of main).                            *)
THEOREM LocalMeansFree == Spec => []NoLeftoverGrab
<1>1. IInv => NoLeftoverGrab
  BY DEF IInv
<1> QED  BY Invariance, <1>1, PTL

(* Exactly the tracked devices are read, each node once (trackIfNew,       *)
(* superviseDevices, deviceLost).                                          *)
THEOREM OneReader == Spec => []OneReaderPerNode
<1>1. IInv => OneReaderPerNode
  BY DEF IInv
<1> QED  BY Invariance, <1>1, PTL

(* No descriptor outlives the goroutine that answers for it                *)
(* (superviseDevices, deviceLost).                                         *)
THEOREM NoLeak == Spec => []NoFdLeak
<1>1. IInv => NoFdLeak
  BY DEF IInv
<1> QED  BY Invariance, <1>1, PTL

(* The four things one step can do to the mode and to the held devices, and *)
(* what becomes of the tracked ones meanwhile.                              *)
Switched == /\ Running /\ Running'
            /\ ~grabbed /\ grabbed' = TRUE /\ evgrab' = devs /\ devs' = devs
Freed    == /\ Running
            /\ grabbed' = FALSE \/ (~Running' /\ grabbed' = grabbed)
            /\ evgrab' = {} /\ devs' \subseteq devs
Dropped  == /\ grabbed' = grabbed /\ Running' = Running
            /\ \E p \in Path : Unplug(p)
Idled    == /\ grabbed' = grabbed /\ Running' = Running /\ evgrab' = evgrab
            /\ devs \subseteq devs'

(* Every step of the controller is one of the four. *)
LEMMA GrabSteps ==
    ASSUME IInv, [Next]_vars
    PROVE  Switched \/ Freed \/ Dropped \/ Idled
<1> USE DEF IInv, Running
<1>1. ASSUME ApplyGrab(~grabbed), Running, UNCHANGED <<run, devs>>
      PROVE  Switched \/ Freed
  <2>1. (~grabbed) \in BOOLEAN /\ (~grabbed) # grabbed
    BY DEF TypeOK
  <2>2. /\ grabbed' \in BOOLEAN
        /\ ~grabbed' => evgrab' = {}
        /\ grabbed' => (~grabbed /\ evgrab' = devs)
    BY <1>1, <2>1, ApplyGrabEffect
  <2> QED  BY <1>1, <2>2 DEF Switched, Freed
<1>2. CASE Environment
  BY <1>2 DEF Environment, Unplug, Plug, LinkChange, hardware, control, threads,
              Dropped, Idled
<1>3. ASSUME NEW d \in Dev, Reader(d)
      PROVE  Switched \/ Freed \/ Idled
  <2>1. CASE ReadToggle(d) \/ ReadFails(d)
    BY <2>1 DEF ReadToggle, ReadFails, hardware, control, Idled
  <2>2. CASE HandleToggle(d)
    BY <2>2, <1>1 DEF HandleToggle
  <2>3. CASE DeviceLost(d)
    <3>1. grabbed' = FALSE /\ evgrab' = evgrab \ devs'
      BY <2>3, ReleaseEffect DEF DeviceLost
    <3>2. d \notin evgrab
      BY <2>3 DEF DeviceLost, FailedIsDead, HeldIsLive
    <3> QED  BY <2>3, <3>1, <3>2 DEF DeviceLost, HeldIsTracked, Freed
  <2> QED  BY <1>3, <2>1, <2>2, <2>3 DEF Reader
<1>4. CASE Mqtt
  <2>1. ASSUME NEW on \in BOOLEAN, SetGrab(on)
        PROVE  ApplyGrab(~grabbed) /\ Running /\ UNCHANGED <<run, devs>>
    <3>1. on = ~grabbed
      BY <2>1 DEF SetGrab, TypeOK
    <3> QED  BY <2>1, <3>1 DEF SetGrab, threads
  <2> QED  BY <1>4, <1>1, <2>1 DEF Mqtt, ToggleGrab, threads
<1>5. CASE Watcher
  <2>1. CASE WatchTick \/ WatchAlive
    BY <2>1 DEF WatchTick, WatchAlive, hardware, control, Idled
  <2>2. CASE WatchRelease
    <3>1. grabbed' = FALSE /\ evgrab' = evgrab \ devs
      BY <2>2, ReleaseEffect DEF WatchRelease
    <3> QED  BY <2>2, <3>1 DEF WatchRelease, HeldIsTracked, Freed
  <2> QED  BY <1>5, <2>1, <2>2 DEF Watcher
<1>6. CASE Supervisor
  BY <1>6 DEF Supervisor, SuperviseTick, SuperviseTrack, SuperviseDrop,
              hardware, control, Idled
<1>7. CASE Main
  <2>1. CASE Sigint
    BY <2>1 DEF Sigint, hardware, control, Idled
  <2>2. CASE ShutdownRelease
    BY <2>2 DEF ShutdownRelease, ApplyGrab, UngrabAll, HeldIsTracked,
                NoLeftoverGrab, TypeOK, Freed
  <2>3. CASE Exit
    BY <2>3 DEF Exit, control, Freed
  <2> QED  BY <1>7, <2>1, <2>2, <2>3 DEF Main
<1>8. CASE UNCHANGED vars
  BY <1>8 DEF vars, Idled
<1> QED
  BY <1>2, <1>3, <1>4, <1>5, <1>6, <1>7, <1>8 DEF Next

(* KVM mode is entered with every tracked device held or not at all        *)
(* (applyGrab: "never half-grab").                                         *)
THEOREM NeverHalfGrab == Spec => AllOrNothing
<1>1. ASSUME IInv, [Next]_vars
      PROVE  [~grabbed /\ grabbed' => evgrab' = devs]_vars
  <2>1. CASE Switched
    BY <2>1 DEF Switched
  <2>2. CASE Freed
    BY <2>2 DEF Freed
  <2>3. CASE Dropped \/ Idled
    BY <2>3 DEF Dropped, Idled
  <2> QED  BY <1>1, GrabSteps, <2>1, <2>2, <2>3
<1> QED  BY Invariance, <1>1, PTL DEF Spec, AllOrNothing

(* While KVM mode lasts, a device is freed only by losing its node.  The   *)
(* probes of superviseDevices and the loss of another device never free it. *)
THEOREM HeldUntilReleased == Spec => HoldsUntilRelease
<1>1. ASSUME IInv, [Next]_vars
      PROVE  [grabbed /\ grabbed' /\ run' # "exited"
                => \A d \in evgrab \ evgrab' : fd'[d] = "dead"]_vars
  <2>1. CASE Switched \/ Freed \/ Idled
    BY <2>1 DEF Switched, Freed, Idled, Running
  <2>2. ASSUME NEW p \in Path, Unplug(p), NEW d \in evgrab \ evgrab'
        PROVE  fd'[d] = "dead"
    <3>1. d \in Dev /\ fd[d] = "live" /\ PathOf[d] = p
      BY <1>1, <2>2 DEF Unplug, IInv, TypeOK, HeldIsLive
    <3> QED  BY <2>2, <3>1 DEF Unplug, Live
  <2>3. CASE Dropped
    BY <2>2, <2>3 DEF Dropped
  <2> QED  BY <1>1, GrabSteps, <2>1, <2>3
<1> QED  BY Invariance, <1>1, PTL DEF Spec, HoldsUntilRelease

(* The controller, with its readers, watcher, supervisor and shutdown,     *)
(* implements the two-mode ownership of input that it promises.            *)
THEOREM Implements == Spec => ImplementsOwnership
<1>1. Init => Ownership!Init
  BY DEF Init, Ownership!Init
<1>2. ASSUME IInv, [Next]_vars
      PROVE  [Ownership!Next]_(Ownership!vars)
  <2> USE DEF Ownership!Next, Ownership!vars, Running
  <2>1. devs \subseteq Dev /\ devs' \subseteq Dev
    BY <1>2, NextIInv DEF IInv, TypeOK
  <2>2. CASE Switched
    <3>1. Ownership!Engage
      BY <1>2, <2>2 DEF Switched, Ownership!Engage, IInv, TypeOK
    <3> QED  BY <3>1
  <2>3. CASE Freed
    <3>1. CASE grabbed
      BY <2>3, <3>1 DEF Freed, Ownership!Release
    <3>2. CASE ~grabbed
      BY <1>2, <2>1, <2>3, <3>2 DEF Freed, Ownership!Learn, IInv, NoLeftoverGrab
    <3> QED  BY <3>1, <3>2
  <2>4. CASE Dropped
    <3>1. /\ evgrab' \in SUBSET evgrab /\ evgrab' = evgrab \ (evgrab \ evgrab')
          /\ devs' = devs
      BY <2>4 DEF Dropped, Unplug, control
    <3>2. CASE grabbed /\ Running
      BY <2>4, <3>1, <3>2 DEF Dropped, Ownership!Lose
    <3>3. CASE ~(grabbed /\ Running)
      BY <1>2, <2>4, <3>1, <3>3 DEF Dropped, IInv, NoLeftoverGrab
    <3> QED  BY <3>2, <3>3
  <2>5. CASE Idled
    BY <2>1, <2>5 DEF Idled, Ownership!Learn
  <2> QED  BY <1>2, GrabSteps, <2>2, <2>3, <2>4, <2>5
<1> QED
  BY Invariance, <1>1, <1>2, PTL DEF Spec, ImplementsOwnership, Ownership!Spec
=============================================================================
