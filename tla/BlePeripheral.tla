----------------------------- MODULE BlePeripheral -----------------------------
(***************************************************************************)
(* The bridge's side of BLE (main.c): ble_on_sync, gap_event and           *)
(* ble_advertise in the task of the NimBLE host, and request_fast_interval *)
(* in the timer task.                                                      *)
(*                                                                         *)
(* The controller is external: it stops advertising when a central comes,  *)
(* whether the connection is made or fails, and reports what happens as    *)
(* events, which the host handles one at a time and later.                 *)
(***************************************************************************)
EXTENDS Sequences

VARIABLES synced,   \* "no", "yes", or "failed": no address was found
          adv,      \* the controller advertises
          mute,     \* history: the last ble_gap_adv_start failed
          peer,     \* the controller has a connection
          events,   \* what gap_event has yet to handle
          handle,   \* s_conn_handle is not BLE_HS_CONN_HANDLE_NONE
          timer,    \* s_param_timer: "off", "own" (started for the connection
                    \* there is) or "old" (for one that is over)
          fast      \* history: this connection's timer has asked for the interval

radio          == <<adv, mute>>
air            == <<radio, peer, events>>
host           == <<synced, handle, timer>>
peripheralVars == <<air, host, fast>>

(* A board that a sink has found the service of. *)
Init == /\ synced = "yes" /\ handle = TRUE /\ timer = "own"
        /\ adv = FALSE /\ mute = FALSE /\ peer = TRUE /\ events = <<>>
        /\ fast = FALSE

-----------------------------------------------------------------------------
(* The controller. *)

Stops(ev) == adv' = FALSE /\ events' = Append(events, ev) /\ UNCHANGED mute

Connected ==
    /\ adv /\ Stops("connect")
    /\ peer' = TRUE
    /\ UNCHANGED <<host, fast>>

ConnectionFailed ==
    /\ adv /\ Stops("failed")
    /\ UNCHANGED <<peer, host, fast>>

AdvEnds ==
    /\ adv /\ Stops("complete")
    /\ UNCHANGED <<peer, host, fast>>

Lost ==
    /\ peer /\ peer' = FALSE
    /\ events' = Append(events, "disconnect")
    /\ timer' = IF timer = "own" THEN "old" ELSE timer
    /\ fast' = FALSE
    /\ UNCHANGED <<radio, synced, handle>>

-----------------------------------------------------------------------------
(* ble_advertise: whether advertising has started nobody asks. *)
Advertise == adv' \in BOOLEAN /\ mute' = ~adv'

(* gap_event *)

Event(kinds) == events # <<>> /\ Head(events) \in kinds /\ events' = Tail(events)

(* esp_timer_start_once fails while the timer runs. *)
GapConnectNotStopping ==
    /\ Event({"connect"})
    /\ handle' = TRUE
    /\ timer' = IF timer # "off" THEN timer ELSE IF peer THEN "own" ELSE "old"
    /\ UNCHANGED <<radio, peer, synced, fast>>

(* The timer, stopped and started, fires in a second. *)
GapConnect ==
    /\ Event({"connect"})
    /\ handle' = TRUE
    /\ timer' = IF peer THEN "own" ELSE "old"
    /\ UNCHANGED <<radio, peer, synced, fast>>

(* No connection came of it, or advertising ended by itself. *)
GapAdvertise ==
    /\ Event({"failed", "complete"})
    /\ Advertise
    /\ UNCHANGED <<peer, host, fast>>

GapDisconnectSilent ==
    /\ Event({"disconnect"})
    /\ handle' = FALSE
    /\ UNCHANGED <<radio, peer, synced, timer, fast>>

GapDisconnect ==
    /\ Event({"disconnect"})
    /\ handle' = FALSE
    /\ Advertise
    /\ UNCHANGED <<peer, synced, timer, fast>>

GapEvent == GapConnect \/ GapAdvertise \/ GapDisconnect

(* The request of a timer that an earlier connection started comes too     *)
(* early, and centrals ignore it.  The handle is read twice, but no new    *)
(* connection fits in between.                                             *)
RequestFastInterval ==
    /\ timer # "off" /\ timer' = "off"
    /\ fast' = (fast \/ (timer = "own" /\ handle))
    /\ UNCHANGED <<air, synced, handle>>

-----------------------------------------------------------------------------
(* ble_on_sync: without an address it gives up for good. *)
OnSync ==
    /\ synced = "no"
    /\ \/ synced' = "yes" /\ Advertise
       \/ synced' = "failed" /\ UNCHANGED radio
    /\ UNCHANGED <<peer, events, handle, timer, fast>>

(* The board restarts; ble_init and the controller are part of it. *)
Restart ==
    /\ synced' = "no" /\ handle' = FALSE /\ timer' = "off"
    /\ adv' = FALSE /\ mute' = FALSE /\ peer' = FALSE /\ events' = <<>>
    /\ fast' = FALSE

-----------------------------------------------------------------------------
(* "Without this the link sits at BlueZ's lazy 30-50 ms": a connection is  *)
(* asked for its interval, a second after it began, unless it ends first,  *)
(* however soon after another one it comes (gap_event, s_param_timer).     *)
FastIntervalAsked == peer ~> (fast \/ ~peer)
=============================================================================
