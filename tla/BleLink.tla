--------------------------------- MODULE BleLink ---------------------------------
(***************************************************************************)
(* BLE from end to end: the sink (BleSink) and the bridge (BlePeripheral). *)
(*                                                                         *)
(* The two ends of a connection learn at different times that it has       *)
(* broken.  Until the bridge does it is silent, and no scan finds it;      *)
(* until BlueZ does, it answers for a bridge that may have restarted.      *)
(***************************************************************************)
EXTENDS Naturals

CONSTANTS Caller, Dialer, SpuriousErrors,   \* as in BleSink
          MaxDrops                          \* bound on the disturbances

ASSUME BleAssumption == SpuriousErrors \in BOOLEAN /\ MaxDrops \in Nat

VARIABLES linked, connected, dialing, caller, dialer, misled,
          synced, adv, mute, peer, events, handle, timer, fast,
          inRange,    \* the bridge is near
          drops       \* disturbances so far

B == INSTANCE BleSink
P == INSTANCE BlePeripheral

sinkVars       == <<linked, connected, dialing, caller, dialer, misled>>
peripheralVars == <<synced, adv, mute, peer, events, handle, timer, fast>>
vars           == <<sinkVars, peripheralVars, inRange, drops>>

Init == B!Init /\ P!Init /\ inRange = TRUE /\ drops = 0

Disturb == drops < MaxDrops /\ drops' = drops + 1

-----------------------------------------------------------------------------
(* Both ends. *)

ScanFinds(g) ==
    /\ inRange
    /\ B!ScanFinds(g) /\ P!Connected
    /\ UNCHANGED <<inRange, drops>>

ConnectRefused(g) ==
    /\ Disturb /\ inRange
    /\ dialer[g] = "scanning" /\ B!ConnectFails(g) /\ P!ConnectionFailed
    /\ UNCHANGED inRange

(* A connection that could go on ends only if it is disturbed. *)
MayEnd == IF inRange /\ linked /\ peer THEN Disturb ELSE UNCHANGED drops

SinkLoses == MayEnd /\ B!LinkEnds /\ UNCHANGED <<peripheralVars, inRange>>

BridgeLoses == MayEnd /\ P!Lost /\ UNCHANGED <<sinkVars, inRange>>

-----------------------------------------------------------------------------
(* One end. *)

ConnectEnds(g) ==
    /\ B!ConnectFails(g) \/ B!ConnectSucceeds(g) \/ B!DialDone(g)
    /\ UNCHANGED <<peripheralVars, inRange, drops>>

Starts(c) ==
    /\ B!WriteStart(c) \/ B!AliveAsk(c)
    /\ UNCHANGED <<peripheralVars, inRange, drops>>

Goes(c) == B!InCall(c) /\ UNCHANGED <<peripheralVars, inRange, drops>>

Host == /\ P!GapEvent \/ P!OnSync
        /\ IF ~mute /\ mute' THEN Disturb ELSE UNCHANGED drops
        /\ UNCHANGED <<sinkVars, inRange>>

Timer == P!RequestFastInterval /\ UNCHANGED <<sinkVars, inRange, drops>>

AdvEnds == Disturb /\ P!AdvEnds /\ UNCHANGED <<sinkVars, inRange>>

BoardRestarts == Disturb /\ P!Restart /\ UNCHANGED <<sinkVars, inRange>>

Vanish ==
    /\ Disturb
    /\ inRange /\ inRange' = FALSE
    /\ UNCHANGED <<sinkVars, peripheralVars>>

Return ==
    /\ ~inRange /\ inRange' = TRUE
    /\ UNCHANGED <<sinkVars, peripheralVars, drops>>

-----------------------------------------------------------------------------
Next == \/ SinkLoses \/ BridgeLoses
        \/ \E g \in Dialer : ScanFinds(g) \/ ConnectRefused(g) \/ ConnectEnds(g)
        \/ \E c \in Caller : Starts(c) \/ Goes(c)
        \/ Host \/ Timer \/ AdvEnds \/ BoardRestarts
        \/ Vanish \/ Return

Spec == Init /\ [][Next]_vars

(* A call or a dial that has begun ends, and a dial that could succeed     *)
(* again and again does.  Nobody need ever write or ask: when Alive is     *)
(* false kvm.watchLink ends the grab, after which nothing is written.      *)
SinkFairness ==
    /\ \A g \in Dialer :
          /\ WF_vars(ScanFinds(g) \/ ConnectEnds(g))
          /\ SF_vars(ScanFinds(g))
          /\ SF_vars(B!ConnectSucceeds(g) /\ UNCHANGED <<peripheralVars, inRange, drops>>)
    /\ \A c \in Caller : WF_vars(Goes(c))

(* The bridge's tasks run, and both ends have a supervision timeout. *)
BridgeFairness ==
    /\ WF_vars(Host) /\ WF_vars(Timer)
    /\ WF_vars(SinkLoses /\ ~(inRange /\ peer))
    /\ WF_vars(BridgeLoses /\ ~(inRange /\ linked))

FairSpec == Spec /\ SinkFairness /\ BridgeFairness

-----------------------------------------------------------------------------
TypeOK ==
    /\ B!TypeOK
    /\ synced \in {"no", "yes", "failed"} /\ timer \in {"off", "own", "old"}
    /\ {adv, mute, peer, handle, fast, inRange} \subseteq BOOLEAN
    /\ \A i \in DOMAIN events :
          events[i] \in {"connect", "failed", "complete", "disconnect"}
    /\ drops \in 0 .. MaxDrops

(* Of BleSink and BlePeripheral, where they are explained. *)
OneDial           == B!OneDial
NoOrphanLink      == B!NoOrphanLink
FastIntervalAsked == P!FastIntervalAsked

(* "It reconnects in the background if the link drops" (bleSink) is more   *)
(* than the code does: a drop that is noticed is dialled once, and a dial  *)
(* that fails is tried again by the next write alone, which is that of the *)
(* next toggle to KVM mode (Reset).  What it does: if reports are written  *)
(* again and again, the sink is connected again and again once the bridge  *)
(* stays in range, whichever end noticed first and whatever it was doing   *)
(* when the link broke or the board restarted.  The bridge must find an    *)
(* address and start its advertising, and the sink lose no connection as   *)
(* in NoOrphanLink.                                                        *)
Written == \E c \in Caller : caller[c] \in {"writing", "reconnect"}

Reconnects ==
    /\ <>[](inRange /\ ~misled /\ synced # "failed" /\ ~mute)
    /\ []<>Written
    => []<>(linked /\ connected)
=============================================================================
