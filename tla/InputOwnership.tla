---------------------------- MODULE InputOwnership ----------------------------
(***************************************************************************)
(* What the daemon promises the person at the keyboard, with no goroutine, *)
(* descriptor or socket in sight: input belongs either to the local        *)
(* session or to the KVM target, and a device is withheld from the local   *)
(* session only in the second mode (comment on the type kvm, main.go).     *)
(* Kvm implements this specification.                                      *)
(***************************************************************************)
CONSTANT Dev          \* input devices

VARIABLES mode,       \* "local" or "kvm"
          held,       \* devices the local session cannot hear
          known       \* devices the daemon listens to

vars == <<mode, held, known>>

Init == mode = "local" /\ held = {} /\ known \in SUBSET Dev

(* Handing input to the target takes every device there is, at once. *)
Engage == /\ mode = "local"
          /\ mode' = "kvm"
          /\ held' = known
          /\ UNCHANGED known

(* Taking it back leaves no device behind.  A device that is lost is        *)
(* forgotten and the mode ended in one step.                                *)
Release == /\ mode = "kvm"
           /\ mode' = "local"
           /\ held' = {}
           /\ known' \in SUBSET known

(* Hardware may vanish; nothing is ever withheld that was not at Engage. *)
Lose == /\ mode = "kvm"
        /\ \E lost \in SUBSET held : held' = held \ lost
        /\ UNCHANGED <<mode, known>>

(* Devices come, in either mode, and go, in LOCAL mode. *)
Learn == /\ known' \in SUBSET Dev
         /\ mode = "kvm" => known \subseteq known'
         /\ UNCHANGED <<mode, held>>

Next == Engage \/ Release \/ Lose \/ Learn

Spec == Init /\ [][Next]_vars
=============================================================================
