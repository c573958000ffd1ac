----------------------------- MODULE MCDeviceTable -----------------------------
(* DeviceTable with three nodes, for an entry can only be skipped when one *)
(* before it goes and one behind it follows, and two objects for each, the *)
(* second one for the supervisor's probe.                                  *)
EXTENDS DeviceTable

CONSTANTS kbd1, kbd2, mouse1, mouse2, pad1, pad2, kbdNode, mouseNode, padNode

MCPathOf == [d \in Dev |-> CASE d \in {kbd1, kbd2}     -> kbdNode
                             [] d \in {mouse1, mouse2} -> mouseNode
                             [] OTHER                  -> padNode]
=============================================================================
