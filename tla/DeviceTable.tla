------------------------------ MODULE DeviceTable ------------------------------
(***************************************************************************)
(* How the daemon comes to read its devices: the slice k.devs, the loop of *)
(* main that starts one reader per device, deviceLost and the supervisor   *)
(* (main.go).                                                              *)
(*                                                                         *)
(* Kvm starts where this loop ends and has a set for k.devs.  Here k.devs  *)
(* is what it is in Go: the first `length` entries of an array.  newKVM    *)
(* shares that array with main, whose range statement fixed the number of  *)
(* its entries but reads each one when its turn comes, without k.mu, while *)
(* deviceLost compacts it in place.  The supervisor starts after the loop, *)
(* so whether its append copies the array makes no difference.             *)
(*                                                                         *)
(* A device object is one open file on a node; an object is reused once    *)
(* its file is closed and no goroutine is left in readDevice with it.      *)
(***************************************************************************)
EXTENDS Naturals, Sequences, FiniteSets

CONSTANTS Dev, Path, PathOf    \* as in Kvm: PathOf \in [Dev -> Path]

VARIABLES plugged,   \* nodes present
          fd,        \* "closed", "live", or "dead" (open, its node gone)
          array,     \* the array that k.devs and main's devs share
          length,    \* len(k.devs)
          next,      \* the entry at which main's loop is
          reading,   \* goroutines in readDevice(k, d)
          failed,    \* and those of them whose read has failed
          found      \* probes the supervisor has yet to look at

vars == <<plugged, fd, array, length, next, reading, failed, found>>

table == <<array, length>>

Devs    == SubSeq(array, 1, length)
Started == next > Len(array)      \* main has gone through the loop

OnePerNode(ds) == \A d, e \in ds : PathOf[d] = PathOf[e] => d = e
Nodes(ds)      == {PathOf[d] : d \in ds}

(* discover in main, then newKVM. *)
Init == /\ \E ds \in (SUBSET Dev) \ {{}} :
              /\ OnePerNode(ds)
              /\ plugged = Nodes(ds)
              /\ array \in {s \in [1 .. Cardinality(ds) -> ds] :
                               {s[i] : i \in DOMAIN s} = ds}
              /\ fd = [d \in Dev |-> IF d \in ds THEN "live" ELSE "closed"]
        /\ length = Len(array) /\ next = 1
        /\ reading = [d \in Dev |-> 0] /\ failed = [d \in Dev |-> 0]
        /\ found = {}

-----------------------------------------------------------------------------
Unplug(p) ==
    /\ p \in plugged
    /\ plugged' = plugged \ {p}
    /\ fd' = [d \in Dev |->
                IF fd[d] = "live" /\ PathOf[d] = p THEN "dead" ELSE fd[d]]
    /\ UNCHANGED <<table, next, reading, failed, found>>

Plug(p) ==
    /\ p \in Path \ plugged
    /\ plugged' = plugged \cup {p}
    /\ UNCHANGED <<fd, table, next, reading, failed, found>>

(* for _, d := range devs { go readDevice(k, d) } *)
StartReader ==
    /\ ~Started
    /\ reading' = [reading EXCEPT ![array[next]] = @ + 1]
    /\ next' = next + 1
    /\ UNCHANGED <<plugged, fd, table, failed, found>>

ReadFails(d) ==
    /\ reading[d] > failed[d] /\ fd[d] = "dead"
    /\ failed' = [failed EXCEPT ![d] = @ + 1]
    /\ UNCHANGED <<plugged, fd, table, next, reading, found>>

(* A second reader of the device: os.ErrClosed, and nothing else to do. *)
ReadClosed(d) ==
    /\ reading[d] > failed[d] /\ fd[d] = "closed"
    /\ reading' = [reading EXCEPT ![d] = @ - 1]
    /\ UNCHANGED <<plugged, fd, table, next, failed, found>>

(* The entries that stay move to the front of the array; what is behind    *)
(* them is as before.                                                      *)
DeviceLost(d) ==
    /\ failed[d] > 0
    /\ LET kept == SelectSeq(Devs, LAMBDA e : e # d)
       IN  /\ array' = kept \o SubSeq(array, Len(kept) + 1, Len(array))
           /\ length' = Len(kept)
    /\ fd' = [fd EXCEPT ![d] = "closed"]
    /\ reading' = [reading EXCEPT ![d] = @ - 1]
    /\ failed' = [failed EXCEPT ![d] = @ - 1]
    /\ UNCHANGED <<plugged, next, found>>

-----------------------------------------------------------------------------
(* superviseDevices *)

Probe ==
    /\ Started /\ found = {} /\ plugged # {}
    /\ \E ds \in SUBSET {d \in Dev : fd[d] = "closed" /\ reading[d] = 0} :
          /\ OnePerNode(ds) /\ Nodes(ds) = plugged
          /\ found' = ds
          /\ fd' = [d \in Dev |-> IF d \in ds THEN "live" ELSE fd[d]]
    /\ UNCHANGED <<plugged, table, next, reading, failed>>

TrackedOn(p) == {i \in 1 .. length : PathOf[array[i]] = p}

Track(d) ==
    /\ d \in found /\ TrackedOn(PathOf[d]) = {}
    /\ found' = found \ {d}
    /\ array' = Append(Devs, d) /\ length' = length + 1
    /\ next' = Len(array') + 1    \* the loop is over and stays so
    /\ reading' = [reading EXCEPT ![d] = @ + 1]
    /\ UNCHANGED <<plugged, fd, failed>>

Drop(d) ==
    /\ d \in found /\ TrackedOn(PathOf[d]) # {}
    /\ found' = found \ {d}
    /\ fd' = [fd EXCEPT ![d] = "closed"]
    /\ UNCHANGED <<plugged, table, next, reading, failed>>

-----------------------------------------------------------------------------
Next == \/ \E p \in Path : Unplug(p) \/ Plug(p)
        \/ StartReader
        \/ Probe
        \/ \E d \in Dev : \/ ReadFails(d) \/ ReadClosed(d) \/ DeviceLost(d)
                          \/ Track(d) \/ Drop(d)

Spec == Init /\ [][Next]_vars

-----------------------------------------------------------------------------
(* What superviseDevices says when it closes a probe, "already reading     *)
(* this node": if the node is tracked, some goroutine reads it.            *)
AlreadyReading ==
    \A d \in found : \A i \in TrackedOn(PathOf[d]) : reading[array[i]] > 0
=============================================================================
