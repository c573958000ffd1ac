---------------------------------- MODULE Kvm ----------------------------------
(***************************************************************************)
(* The grab controller of the daemon (main.go): the kvm object, one reader *)
(* goroutine per input device, the link watcher, the device supervisor,    *)
(* the MQTT entry points and the shutdown sequence of main.                *)
(*                                                                         *)
(* Every method of kvm that touches devs or grabbed runs under k.mu, so    *)
(* one critical section is one action.  What is read under one lock and    *)
(* used under the next (the watcher's isGrabbed .. Alive .. forceRelease,  *)
(* a reader's event .. handle, the supervisor's probes .. trackIfNew) is   *)
(* split into one action per step.                                         *)
(*                                                                         *)
(* A device object is one open file on an event node.  PathOf gives the    *)
(* node; an object is reused once its file is closed, so two objects per   *)
(* node (one tracked, one probed by the supervisor) lose no behaviour.     *)
(* The reports sent to the target are the subject of Reporter and Session. *)
(***************************************************************************)
CONSTANTS Dev,        \* device objects
          Path,       \* /dev/input/event* nodes that the configuration names
          PathOf      \* the node an object was opened on

ASSUME KvmAssumption == PathOf \in [Dev -> Path]

VARIABLES plugged,    \* nodes present and readable
          fd,         \* "closed", "live", or "dead" (open, its node gone)
          evgrab,     \* objects that hold EVIOCGRAB in the kernel
          devs,       \* k.devs
          grabbed,    \* k.grabbed
          reader,     \* the goroutine readDevice(k, d)
          found,      \* probes the supervisor has yet to look at
          watch,      \* the goroutine watchLink
          alive,      \* what sink.Alive() would answer
          run         \* the main goroutine

vars == <<plugged, fd, evgrab, devs, grabbed, reader, found, watch, alive, run>>

hardware == <<plugged, fd, evgrab>>
control  == <<devs, grabbed>>
threads  == <<reader, found, watch, alive, run>>

(* The kernel drops a grab when the file closes or the device goes. *)
Live == {d \in Dev : fd[d] = "live"}
Running == run # "exited"

Init == /\ plugged \in (SUBSET Path) \ {{}}  \* discover fails on an empty set
        /\ devs \in SUBSET Dev
        /\ \A p \in Path : \A d \in devs : PathOf[d] = p => p \in plugged
        /\ \A p \in plugged : \E d \in devs : PathOf[d] = p
        /\ \A d, e \in devs : PathOf[d] = PathOf[e] => d = e
        /\ fd = [d \in Dev |-> IF d \in devs THEN "live" ELSE "closed"]
        /\ reader = [d \in Dev |-> IF d \in devs THEN "reading" ELSE "none"]
        /\ evgrab = {}
        /\ grabbed = FALSE
        /\ found = {}
        /\ watch = "idle"
        /\ alive \in BOOLEAN
        /\ run = "up"

-----------------------------------------------------------------------------
(* The environment: hot-plugging and the bridge link. *)

Unplug(p) ==
    /\ p \in plugged
    /\ plugged' = plugged \ {p}
    /\ fd' = [d \in Dev |-> IF d \in Live /\ PathOf[d] = p THEN "dead" ELSE fd[d]]
    /\ evgrab' = {d \in evgrab : PathOf[d] # p}
    /\ UNCHANGED <<control, threads>>

Plug(p) ==
    /\ p \in Path \ plugged
    /\ plugged' = plugged \cup {p}
    /\ UNCHANGED <<fd, evgrab, control, threads>>

LinkChange ==
    /\ alive' = ~alive
    /\ UNCHANGED <<hardware, control, reader, found, watch, run>>

-----------------------------------------------------------------------------
(* applyGrab and releaseLocked: the state they leave, the caller holding   *)
(* k.mu.  EVIOCGRAB fails on a node that is gone (ENODEV) and on one that  *)
(* another program holds (EBUSY), so any device may refuse.                *)

(* A partial grab kept: the error is logged and KVM mode starts anyway. *)
GrabAllKeepingPartial ==
    \E taken \in SUBSET (devs \cap Live) :
        /\ evgrab' = evgrab \cup taken
        /\ grabbed' = TRUE

GrabAll ==
    /\ devs \subseteq Live
    /\ evgrab' = evgrab \cup devs
    /\ grabbed' = TRUE

GrabRefusedNoRollback ==
    \E refused \in devs : \E taken \in SUBSET ((devs \cap Live) \ {refused}) :
        /\ evgrab' = evgrab \cup taken
        /\ grabbed' = FALSE

(* Device number i refuses: devs[:i], already taken, are given back. *)
GrabRefused ==
    \E refused \in devs : \E taken \in SUBSET ((devs \cap Live) \ {refused}) :
        /\ evgrab' = (evgrab \cup taken) \ taken
        /\ grabbed' = FALSE

UngrabAll ==
    /\ evgrab' = evgrab \ devs
    /\ grabbed' = FALSE

ApplyGrab(on) == IF on THEN GrabAll \/ GrabRefused ELSE UngrabAll

ReleaseLocked(tracked) ==
    /\ evgrab' = IF grabbed THEN evgrab \ tracked ELSE evgrab
    /\ grabbed' = FALSE

-----------------------------------------------------------------------------
(* readDevice.  Only the toggle key matters here; every other event leaves *)
(* this state alone.                                                       *)

ReadToggle(d) ==
    /\ Running /\ reader[d] = "reading" /\ fd[d] = "live"
    /\ reader' = [reader EXCEPT ![d] = "toggle"]
    /\ UNCHANGED <<hardware, control, found, watch, alive, run>>

HandleToggle(d) ==
    /\ Running /\ reader[d] = "toggle"
    /\ ApplyGrab(~grabbed)
    /\ reader' = [reader EXCEPT ![d] = "reading"]
    /\ UNCHANGED <<plugged, fd, devs, found, watch, alive, run>>

ReadFails(d) ==
    /\ Running /\ reader[d] = "reading" /\ fd[d] = "dead"
    /\ reader' = [reader EXCEPT ![d] = "failed"]
    /\ UNCHANGED <<hardware, control, found, watch, alive, run>>

DeviceLostKeepsGrab(d) ==
    /\ Running /\ reader[d] = "failed"
    /\ devs' = devs \ {d}
    /\ fd' = [fd EXCEPT ![d] = "closed"]
    /\ reader' = [reader EXCEPT ![d] = "none"]
    /\ UNCHANGED <<plugged, evgrab, grabbed, found, watch, alive, run>>

DeviceLostStaysTracked(d) ==
    /\ Running /\ reader[d] = "failed"
    /\ fd' = [fd EXCEPT ![d] = "closed"]
    /\ ReleaseLocked(devs)
    /\ reader' = [reader EXCEPT ![d] = "none"]
    /\ UNCHANGED <<plugged, devs, found, watch, alive, run>>

(* deviceLost: untrack, close, release the others; the goroutine ends. *)
DeviceLost(d) ==
    /\ Running /\ reader[d] = "failed"
    /\ devs' = devs \ {d}
    /\ fd' = [fd EXCEPT ![d] = "closed"]
    /\ ReleaseLocked(devs')
    /\ reader' = [reader EXCEPT ![d] = "none"]
    /\ UNCHANGED <<plugged, found, watch, alive, run>>

-----------------------------------------------------------------------------
(* The MQTT command handler calls these two from a goroutine of its own. *)

SetGrab(on) ==
    /\ Running /\ grabbed # on
    /\ ApplyGrab(on)
    /\ UNCHANGED <<plugged, fd, devs, threads>>

ToggleGrab ==
    /\ Running
    /\ ApplyGrab(~grabbed)
    /\ UNCHANGED <<plugged, fd, devs, threads>>

-----------------------------------------------------------------------------
(* watchLink: isGrabbed under the lock, Alive outside it, then release. *)

WatchTick ==
    /\ Running /\ watch = "idle" /\ grabbed
    /\ watch' = "polling"
    /\ UNCHANGED <<hardware, control, reader, found, alive, run>>

WatchAliveTrustsLink ==
    /\ Running /\ watch = "polling"
    /\ watch' = "idle"
    /\ UNCHANGED <<hardware, control, reader, found, alive, run>>

WatchAlive ==
    /\ Running /\ watch = "polling"
    /\ watch' = IF alive THEN "idle" ELSE "release"
    /\ UNCHANGED <<hardware, control, reader, found, alive, run>>

WatchRelease ==
    /\ Running /\ watch = "release"
    /\ ReleaseLocked(devs)
    /\ watch' = "idle"
    /\ UNCHANGED <<plugged, fd, devs, reader, found, alive, run>>

-----------------------------------------------------------------------------
(* superviseDevices: discover opens every configured node that is present; *)
(* each probe is then tracked, or closed when its node is tracked already. *)

Probes == {ds \in SUBSET {d \in Dev : fd[d] = "closed"} :
              /\ {PathOf[d] : d \in ds} = plugged
              /\ \A d, e \in ds : PathOf[d] = PathOf[e] => d = e}

SuperviseTick ==
    /\ Running /\ found = {}
    /\ \E ds \in Probes :
          /\ found' = ds
          /\ fd' = [d \in Dev |-> IF d \in ds THEN "live" ELSE fd[d]]
    /\ UNCHANGED <<plugged, evgrab, control, reader, watch, alive, run>>

TrackedPath(p) == \E e \in devs : PathOf[e] = p

SuperviseTrackAlways(d) ==
    /\ Running /\ d \in found
    /\ found' = found \ {d}
    /\ devs' = devs \cup {d}
    /\ reader' = [reader EXCEPT ![d] = "reading"]
    /\ UNCHANGED <<hardware, grabbed, watch, alive, run>>

SuperviseTrack(d) ==
    /\ Running /\ d \in found /\ ~TrackedPath(PathOf[d])
    /\ found' = found \ {d}
    /\ devs' = devs \cup {d}
    /\ reader' = [reader EXCEPT ![d] = "reading"]
    /\ UNCHANGED <<hardware, grabbed, watch, alive, run>>

SuperviseDropLeaks(d) ==
    /\ Running /\ d \in found /\ TrackedPath(PathOf[d])
    /\ found' = found \ {d}
    /\ UNCHANGED <<hardware, control, reader, watch, alive, run>>

SuperviseDropClosesNode(d) ==
    /\ Running /\ d \in found /\ TrackedPath(PathOf[d])
    /\ found' = found \ {d}
    /\ fd' = [fd EXCEPT ![d] = "closed"]
    /\ evgrab' = {e \in evgrab : PathOf[e] # PathOf[d]}
    /\ UNCHANGED <<plugged, control, reader, watch, alive, run>>

SuperviseDrop(d) ==
    /\ Running /\ d \in found /\ TrackedPath(PathOf[d])
    /\ found' = found \ {d}
    /\ fd' = [fd EXCEPT ![d] = "closed"]
    /\ UNCHANGED <<plugged, evgrab, control, reader, watch, alive, run>>

-----------------------------------------------------------------------------
(* main after SIGINT or SIGTERM: mb.Close (half a second and more, every   *)
(* goroutine still running), then the release, then os.Exit.               *)

Sigint ==
    /\ run = "up"
    /\ run' = "closing"
    /\ UNCHANGED <<hardware, control, reader, found, watch, alive>>

ShutdownRelease ==
    /\ run = "closing"
    /\ IF grabbed THEN ApplyGrab(FALSE) ELSE UNCHANGED <<evgrab, grabbed>>
    /\ run' = "released"
    /\ UNCHANGED <<plugged, fd, devs, reader, found, watch, alive>>

(* The kernel closes every file of the process. *)
Exit ==
    /\ run = "released"
    /\ run' = "exited"
    /\ fd' = [d \in Dev |-> "closed"]
    /\ evgrab' = {}
    /\ UNCHANGED <<plugged, control, reader, found, watch, alive>>

-----------------------------------------------------------------------------
Environment == \/ \E p \in Path : Unplug(p) \/ Plug(p)
               \/ LinkChange

Reader(d) == \/ ReadToggle(d) \/ HandleToggle(d)
             \/ ReadFails(d)  \/ DeviceLost(d)

Mqtt == (\E on \in BOOLEAN : SetGrab(on)) \/ ToggleGrab

Watcher == WatchTick \/ WatchAlive \/ WatchRelease

Supervisor == \/ SuperviseTick
              \/ \E d \in Dev : SuperviseTrack(d) \/ SuperviseDrop(d)

Main == Sigint \/ ShutdownRelease \/ Exit

Next == \/ Environment
        \/ \E d \in Dev : Reader(d)
        \/ Mqtt \/ Watcher \/ Supervisor \/ Main

(* The Go scheduler runs every goroutine that can run, a blocked read      *)
(* returns when its node goes, tickers keep firing, and k.mu is held only  *)
(* for bounded work.  Nothing is assumed of the user, of MQTT commands, of *)
(* the hardware or of the link.                                            *)
Fairness ==
    /\ \A d \in Dev : /\ WF_vars(HandleToggle(d))
                      /\ WF_vars(ReadFails(d))
                      /\ WF_vars(DeviceLost(d))
                      /\ WF_vars(SuperviseTrack(d) \/ SuperviseDrop(d))
    /\ WF_vars(SuperviseTick)
    /\ WF_vars(WatchTick) /\ WF_vars(WatchAlive) /\ WF_vars(WatchRelease)

Spec == Init /\ [][Next]_vars

FairSpec == Spec /\ Fairness

-----------------------------------------------------------------------------
TypeOK ==
    /\ plugged \subseteq Path
    /\ fd \in [Dev -> {"closed", "live", "dead"}]
    /\ evgrab \subseteq Dev
    /\ devs \subseteq Dev
    /\ grabbed \in BOOLEAN
    /\ reader \in [Dev -> {"none", "reading", "toggle", "failed"}]
    /\ found \subseteq Dev
    /\ watch \in {"idle", "polling", "release"}
    /\ alive \in BOOLEAN
    /\ run \in {"up", "closing", "released", "exited"}

(* In LOCAL mode, and once the process is gone, no device is withheld from *)
(* the local session: through refused grabs rolled back, releases that     *)
(* race with unplugging, and a toggle pressed during shutdown (applyGrab,  *)
(* releaseLocked, deviceLost, the end of main).                            *)
NoLeftoverGrab == (~grabbed \/ ~Running) => evgrab = {}

(* A tracked device has one reader, an untracked one has none, and no node *)
(* is read twice, so that no event is dropped or doubled (trackIfNew,      *)
(* superviseDevices, deviceLost).                                          *)
OneReaderPerNode ==
    /\ \A d \in Dev : reader[d] # "none" <=> d \in devs
    /\ \A d, e \in devs : PathOf[d] = PathOf[e] => d = e

(* A file stays open only while somebody answers for it: the reader of a   *)
(* tracked device or the supervisor's pending probe.  superviseDevices     *)
(* opens every node every second, so a probe that is not closed exhausts   *)
(* the descriptor table.                                                   *)
NoFdLeak == \A d \in Dev : fd[d] # "closed" => d \in devs \cup found

(* KVM mode starts with every tracked device held or not at all ("never    *)
(* half-grab", applyGrab).                                                 *)
AllOrNothing == [][~grabbed /\ grabbed' => evgrab' = devs]_vars

(* While KVM mode lasts only the loss of the hardware frees a device: a    *)
(* supervisor that opens and closes the same node every second, or another *)
(* device that fails, never does.                                          *)
HoldsUntilRelease ==
    [][grabbed /\ grabbed' /\ run' # "exited"
         => \A d \in evgrab \ evgrab' : fd'[d] = "dead"]_vars

(* The controller keeps the promise of InputOwnership: whatever readers,   *)
(* watcher, supervisor, commands and hardware do at once, KVM mode takes   *)
(* every tracked device and ends with none withheld.                       *)
Ownership == INSTANCE InputOwnership
                WITH mode <- IF grabbed /\ Running THEN "kvm" ELSE "local",
                     held <- evgrab, known <- devs

ImplementsOwnership == Ownership!Spec

(* A link that stays down ends the grab (watchLink): "you're never left    *)
(* locked out".                                                            *)
LinkDropReleases == (grabbed /\ ~alive) ~> (~grabbed \/ alive \/ ~Running)

(* A tracked device that vanishes while held ends the grab (deviceLost). *)
DeviceLossReleases ==
    \A d \in Dev : (grabbed /\ d \in devs /\ fd[d] = "dead")
                      ~> (~grabbed \/ ~Running)

(* A node that stays plugged in is being read again sooner or later,       *)
(* whatever was unplugged, probed or dropped before (superviseDevices:     *)
(* "this is the other half that brings them back").                        *)
BeingRead(p) == \E d \in devs : PathOf[d] = p /\ fd[d] = "live"

DeviceReattached ==
    \A p \in Path : (<>[](p \in plugged /\ Running)) => <>[](BeingRead(p))
=============================================================================
