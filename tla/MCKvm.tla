--------------------------------- MODULE MCKvm ---------------------------------
(* Kvm on two event nodes with two device objects each: the tracked one    *)
(* and the one the supervisor probes, so an unplugged device, its          *)
(* replacement and another device are all there at once.                   *)
EXTENDS Kvm

CONSTANTS kbd1, kbd2, mouse1, mouse2, kbdNode, mouseNode

MCPathOf == [d \in {kbd1, kbd2, mouse1, mouse2} |->
               IF d \in {kbd1, kbd2} THEN kbdNode ELSE mouseNode]
=============================================================================
