------------------------------- MODULE MCSession -------------------------------
(* Session with two keyboards that both have the key A and also move the   *)
(* pointer, or with one keyboard that may be unplugged.  One object per    *)
(* node: what happens when a node comes back is the subject of Kvm.        *)
(* Nothing moves the wheel, so its direction does not matter, and          *)
(* coalescing only matters when something moves.                           *)
EXTENDS Session, TLC

CONSTANTS kbd1, kbd2, node1, node2, A, B, C

MCPathOf == [d \in Dev |-> IF d = kbd1 THEN node1 ELSE node2]
MCKeysOf == [d \in Dev |-> Mod \cup Usage \cup Button]
MCLimit  == [a \in Axis |-> 127]

MCInit == SessionInit /\ ~invertWheel /\ coalesce = (Axis # {})
MCSpec == MCInit /\ [][SessionNext]_sessionVars

(* The two keyboards are alike, each with its node. *)
MCSymmetry ==
    {p \in Permutations(Dev \cup Path) :
        \A d \in Dev : p[d] \in Dev /\ PathOf[p[d]] = p[PathOf[d]]}
=============================================================================
