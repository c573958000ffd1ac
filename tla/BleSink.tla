-------------------------------- MODULE BleSink --------------------------------
(***************************************************************************)
(* The BLE transport of the daemon (ble.go).  s.mu guards the fields, and  *)
(* no I/O happens under it: write and Alive copy what they need, let go of *)
(* the lock, talk to BlueZ, and take the lock again to act on the answer,  *)
(* which may by then be about a connection that has been replaced.         *)
(* reconnect starts connect in a goroutine of its own, one at a time.      *)
(*                                                                         *)
(* BlueZ is external, and finds out late that a connection has broken.     *)
(* BleLink puts the sink and the bridge together.                          *)
(***************************************************************************)
EXTENDS Naturals, FiniteSets

CONSTANTS Caller,         \* goroutines that call write or Alive
          Dialer,         \* goroutines that reconnect may have started
          SpuriousErrors  \* BlueZ may report an error although the link is up

VARIABLES linked,     \* BlueZ holds a connection to the bridge
          connected,  \* s.connected
          dialing,    \* s.dialing
          caller,     \* where each caller is in write or Alive
          dialer,     \* where each dialer is in connect
          misled      \* history: since the link last broke, BlueZ gave an
                      \* error for it, or it was recorded while a caller was
                      \* about to act on the end of the one before

sinkVars == <<linked, connected, dialing, caller, dialer, misled>>

(* dialBLE returns after a first connection. *)
Init == /\ linked = TRUE
        /\ connected = TRUE /\ dialing = FALSE
        /\ caller = [c \in Caller |-> "idle"]
        /\ dialer = [g \in Dialer |-> "none"]
        /\ misled = FALSE

-----------------------------------------------------------------------------
(* BlueZ closes the connection, or notices that it has broken. *)
LinkEnds ==
    /\ linked /\ linked' = FALSE /\ misled' = FALSE
    /\ UNCHANGED <<connected, dialing, caller, dialer>>

-----------------------------------------------------------------------------
(* reconnect: nothing to do while a dial is under way or has succeeded. *)

StartDialer ==
    /\ dialing' = TRUE
    /\ \E g \in Dialer : /\ dialer[g] = "none"
                         /\ dialer' = [dialer EXCEPT ![g] = "scanning"]

ReconnectUnlessConnected ==
    IF connected THEN UNCHANGED <<dialing, dialer>> ELSE StartDialer

Reconnect ==
    IF dialing \/ connected THEN UNCHANGED <<dialing, dialer>> ELSE StartDialer

(* connect, in a dialer: scan for at most 20 seconds and connect ... *)
ScanFinds(g) ==
    /\ dialer[g] = "scanning" /\ ~linked
    /\ linked' = TRUE
    /\ dialer' = [dialer EXCEPT ![g] = "opened"]
    /\ UNCHANGED <<connected, dialing, caller, misled>>

(* ... find the service and the characteristic, and record them.  A         *)
(* connection that BlueZ holds is never closed on an error.                 *)
ConnectFails(g) ==
    /\ \/ dialer[g] = "scanning"
       \/ dialer[g] = "opened" /\ (~linked \/ SpuriousErrors)
    /\ dialer' = [dialer EXCEPT ![g] = "finished"]
    /\ misled' = (misled \/ (dialer[g] = "opened" /\ linked))
    /\ UNCHANGED <<linked, connected, dialing, caller>>

ConnectSucceedsUnrecorded(g) ==
    /\ dialer[g] = "opened"
    /\ dialer' = [dialer EXCEPT ![g] = "finished"]
    /\ UNCHANGED <<linked, connected, dialing, caller, misled>>

ConnectSucceeds(g) ==
    /\ dialer[g] = "opened"
    /\ connected' = TRUE
    /\ misled' = (misled \/ \E c \in Caller : caller[c] = "failed")
    /\ dialer' = [dialer EXCEPT ![g] = "finished"]
    /\ UNCHANGED <<linked, dialing, caller>>

DialDone(g) ==
    /\ dialer[g] = "finished"
    /\ dialer' = [dialer EXCEPT ![g] = "none"]
    /\ dialing' = FALSE
    /\ UNCHANGED <<linked, connected, caller, misled>>

-----------------------------------------------------------------------------
(* write *)

At(c, from, to) == caller[c] = from /\ caller' = [caller EXCEPT ![c] = to]

WriteStart(c) ==
    /\ At(c, "idle", IF connected THEN "writing" ELSE "reconnect")
    /\ UNCHANGED <<linked, connected, dialing, dialer, misled>>

WriteOk(c) ==
    /\ linked /\ At(c, "writing", "idle")
    /\ UNCHANGED <<linked, connected, dialing, dialer, misled>>

WriteError(c) ==
    /\ ~linked \/ SpuriousErrors
    /\ At(c, "writing", "failed")
    /\ misled' = (misled \/ linked)
    /\ UNCHANGED <<linked, connected, dialing, dialer>>

(* Alive: false at once when not connected; otherwise BlueZ knows, and a   *)
(* property that cannot be read counts as a connection.                    *)
AliveAsk(c) ==
    /\ connected /\ At(c, "idle", "asking")
    /\ UNCHANGED <<linked, connected, dialing, dialer, misled>>

AliveAnswer(c) ==
    /\ \/ At(c, "asking", IF linked THEN "idle" ELSE "failed")
       \/ At(c, "asking", "idle")
    /\ UNCHANGED <<linked, connected, dialing, dialer, misled>>

(* Both take the lock to clear s.connected, then call reconnect. *)
Disconnected(c) ==
    /\ At(c, "failed", "reconnect")
    /\ connected' = FALSE
    /\ UNCHANGED <<linked, dialing, dialer, misled>>

CallReconnect(c) ==
    /\ At(c, "reconnect", "idle")
    /\ Reconnect
    /\ UNCHANGED <<linked, connected, misled>>

-----------------------------------------------------------------------------
InCall(c) == \/ WriteOk(c) \/ WriteError(c) \/ AliveAnswer(c)
             \/ Disconnected(c) \/ CallReconnect(c)

-----------------------------------------------------------------------------
TypeOK ==
    /\ {linked, connected, dialing, misled} \subseteq BOOLEAN
    /\ caller \in [Caller -> {"idle", "writing", "asking", "failed", "reconnect"}]
    /\ dialer \in [Dialer -> {"none", "scanning", "opened", "finished"}]

Dialing == {g \in Dialer : dialer[g] # "none"}

(* Two scans on one adapter would stop each other: there is never more     *)
(* than one dial, and s.dialing is set exactly while there is one, so that *)
(* it is not left set for ever either (reconnect).                         *)
OneDial == Cardinality(Dialing) <= 1 /\ (dialing <=> Dialing # {})

(* The bridge serves one connection and is silent while it has it, so a    *)
(* connection that the sink does not know of can never be found again.     *)
(* The proviso names the two ways the code has to lose one: an error that  *)
(* does not mean that the link broke, after which nothing closes it, and   *)
(* an answer about the connection before, which write and Alive take for   *)
(* one about this connection.                                              *)
NoOrphanLink ==
    linked /\ ~misled => connected \/ \E g \in Dialer : dialer[g] = "opened"
=============================================================================
