------------------------------ MODULE WifiStation ------------------------------
(***************************************************************************)
(* The bridge's Wi-Fi (main.c): wifi_event_handler in the event loop, and  *)
(* the beginning of net_task, which waits for the first address and then   *)
(* listens for ever.                                                       *)
(*                                                                         *)
(* The driver is external: it tries to join when it is told to, and tells  *)
(* the handler when it has started and when a try fails or the membership  *)
(* ends; a try that the handler does not ask for again is the last one.    *)
(* net_task is woken by WIFI_CONNECTED_BIT being set, even if it is        *)
(* cleared at once; what it does then, mDNS, the web server and listen,    *)
(* takes no time, so that a joined station always listens.                 *)
(***************************************************************************)

VARIABLES ap,       \* the access point can be reached
          station   \* "told" (an event for the handler), "joining", "joined"

wifi == <<ap, station>>

Init == ap = TRUE /\ station = "joined"

(* A client's packets reach the listening socket. *)
Up == ap /\ station = "joined"

-----------------------------------------------------------------------------
(* STA_START and STA_DISCONNECTED *)
OnStartOrDisconnected ==
    /\ station = "told" /\ station' = "joining"
    /\ UNCHANGED ap

OnGotIp ==
    /\ station = "joining" /\ ap /\ station' = "joined"
    /\ UNCHANGED ap

WifiStep == OnStartOrDisconnected \/ OnGotIp

(* A try fails, or the membership ends. *)
Leaves ==
    /\ ~ap /\ station \in {"joining", "joined"} /\ station' = "told"
    /\ UNCHANGED ap

Fades   == ap /\ ap' = FALSE /\ UNCHANGED station
Returns == ~ap /\ ap' = TRUE /\ UNCHANGED station

(* wifi_connect_blocking, in a board that starts. *)
Restart == station' = "told" /\ UNCHANGED ap
=============================================================================
