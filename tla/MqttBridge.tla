------------------------------ MODULE MqttBridge ------------------------------
(***************************************************************************)
(* The Home Assistant bridge (mqtt.go) between the grab controller and an  *)
(* MQTT broker.  Four kinds of goroutine publish retained state with no    *)
(* lock between them: one per notification of the controller (go           *)
(* b.publishGrab), onConnect after each (re)connection, the link watcher,  *)
(* and Close.  The broker keeps the last message of each topic.            *)
(*                                                                         *)
(* The client library (paho, with automatic reconnection) and the broker   *)
(* are external.  A connection delivers in order and makes the broker      *)
(* publish the will when it breaks.  The library keeps every message of    *)
(* QoS 1, published with or without a connection, until the broker has     *)
(* acknowledged it.  The first connection empties this store (a clean      *)
(* session); every later one sends what is in it once more, in no fixed    *)
(* order, while onConnect runs.  Discovery messages never change and are   *)
(* left out.                                                               *)
(***************************************************************************)
EXTENDS Integers, Sequences, FiniteSets, SequencesExt

CONSTANTS MaxKept,       \* bound: messages that the client keeps at once
          MaxNotifiers   \* bound: publishGrab goroutines that have yet to run

ASSUME BridgeAssumption == MaxKept \in Nat \ {0} /\ MaxNotifiers \in Nat \ {0}

VARIABLES grabbed,     \* k.grabbed
          hook,        \* k.notify is set, and the link watcher started
          notifiers,   \* pending publishGrab goroutines, by argument
          alive,       \* what sink.Alive() would answer
          last,        \* the link watcher's last
          linkDue,     \* the watcher has yet to publish last
          conn,        \* the client is connected
          subscribed,  \* to grab/set, on this connection
          out,         \* messages under way to the broker
          stored,      \* messages that the client keeps for a connection
          catchUp,     \* "first": it has had none yet; "list": it has yet to
                       \* list the store for this one; "done"
          toResume,    \* messages listed and not yet sent once more
          onc, seen,   \* onConnect: next step, and the value it read
          run,         \* "up", "closing" (in Close), "off"
          retained,    \* at the broker
          overlap,     \* history: at the latest transition, or when
                       \* onConnect asked since, a publication of the other
                       \* state was under way or not acknowledged
          late,        \* history: "online" was said after Close began
          crossed      \* history: the same of the link state, as the watcher
                       \* and onConnect last saw it

control == <<grabbed, hook, notifiers, overlap>>
link    == <<alive, last, linkDue, crossed>>
session == <<conn, subscribed, onc, seen>>
end     == <<run, late>>
client  == <<out, stored, catchUp, toResume>>
vars    == <<control, link, session, client, end, retained>>

OnOff(on)  == IF on THEN "ON" ELSE "OFF"
Online(up) == IF up THEN "online" ELSE "offline"

Init == /\ grabbed = FALSE /\ hook = FALSE
        /\ notifiers = [v \in BOOLEAN |-> 0]
        /\ alive \in BOOLEAN /\ last = alive /\ linkDue = FALSE
        /\ conn = FALSE /\ subscribed = FALSE
        /\ out = <<>> /\ stored = {} /\ toResume = {}
        /\ catchUp = "first"
        /\ onc = "idle" /\ seen = FALSE
        /\ run = "up"
        /\ retained = [grab |-> "none", link |-> "none", status |-> "offline"]
        /\ overlap = FALSE /\ late = FALSE /\ crossed = FALSE

GrabStates == {"none", "ON", "OFF"}
LinkStates == {"none", "online", "offline"}

Message(t, p) == [topic |-> t, payload |-> p]

(* The client keeps a message of QoS 1 until it has been acknowledged:     *)
(* what it hands to a connection too, for which out stands.                *)
Publish(topic, payload) ==
    /\ Len(out) + Cardinality(stored) + Cardinality(toResume) < MaxKept
    /\ IF conn
       THEN out' = Append(out, Message(topic, payload)) /\ UNCHANGED stored
       ELSE stored' = stored \cup {Message(topic, payload)} /\ UNCHANGED out
    /\ UNCHANGED <<catchUp, toResume>>

(* What may yet reach the broker, once or twice. *)
Pending == ToSet(out) \cup stored \cup toResume

Contradicted(topic, payload) ==
    \E m \in Pending : m.topic = topic /\ m.payload # payload

-----------------------------------------------------------------------------
(* The controller calls notify with k.mu held, on every setGrabbed.  A     *)
(* refused grab ends in setGrabbed(false) too.                             *)

Notify(v) ==
    /\ IF hook THEN /\ notifiers[v] < MaxNotifiers
                    /\ notifiers' = [notifiers EXCEPT ![v] = @ + 1]
               ELSE UNCHANGED notifiers
    /\ overlap' = \/ ~hook \/ notifiers[~v] > 0 \/ Contradicted("grab", OnOff(v))
                  \/ onc = "grab" /\ seen # v

Transition == \/ grabbed' = ~grabbed /\ Notify(~grabbed)
              \/ ~grabbed /\ UNCHANGED grabbed /\ Notify(FALSE)

(* The local toggle key, a forced release or a lost device. *)
LocalTransition ==
    /\ run # "off"
    /\ Transition
    /\ UNCHANGED <<hook, link, session, client, end, retained>>

(* onGrabSet: ON, OFF or TOGGLE; a SetGrab to the current state is a no-op. *)
Command ==
    /\ conn /\ subscribed
    /\ Transition
    /\ UNCHANGED <<hook, link, session, client, end, retained>>

PublishGrab(v) ==
    /\ notifiers[v] > 0
    /\ notifiers' = [notifiers EXCEPT ![v] = @ - 1]
    /\ Publish("grab", OnOff(v))
    /\ UNCHANGED <<grabbed, hook, overlap, link, session, end, retained>>

(* The watcher's last, and what may yet be said otherwise. *)
WatcherSees ==
    /\ last' = alive /\ linkDue' = TRUE
    /\ crossed' = \/ Contradicted("link", Online(alive))
                  \/ onc = "link" /\ seen # alive

(* The end of startMQTT, at most ten seconds after the first Connect. *)
InstallHook ==
    /\ ~hook /\ run = "up"
    /\ hook' = TRUE
    /\ WatcherSees
    /\ UNCHANGED <<grabbed, notifiers, overlap, alive, session, client, end, retained>>

-----------------------------------------------------------------------------
(* watchLink: publishes on change. *)

LinkChange ==
    /\ alive' = ~alive
    /\ UNCHANGED <<control, last, linkDue, crossed, session, client, end, retained>>

PollLink ==
    /\ hook /\ ~linkDue /\ run # "off"
    /\ alive # last
    /\ WatcherSees
    /\ UNCHANGED <<control, alive, session, client, end, retained>>

PublishLink ==
    /\ linkDue
    /\ linkDue' = FALSE
    /\ Publish("link", Online(last))
    /\ UNCHANGED <<control, alive, last, crossed, session, end, retained>>

-----------------------------------------------------------------------------
(* The connection.  onConnect runs in a goroutine of the library; a second *)
(* one is assumed not to start before the first has returned.              *)

Connect ==
    /\ ~conn /\ onc = "idle" /\ run # "off"
    /\ conn' = TRUE /\ onc' = "status"
    /\ IF catchUp = "first" THEN stored' = {} /\ catchUp' = "done"
                            ELSE catchUp' = "list" /\ UNCHANGED stored
    /\ UNCHANGED <<control, link, subscribed, seen, out, toResume, end, retained>>

(* The client's resume, while onConnect already publishes. *)

ListStore ==
    /\ conn /\ catchUp = "list" /\ catchUp' = "done"
    /\ toResume' = stored \cup ToSet(out)
    /\ stored' = {}
    /\ UNCHANGED <<control, link, session, out, end, retained>>

SayOnline(m) == late' = (late \/ (run # "up" /\ m = Message("status", "online")))

Resume(m) ==
    /\ conn /\ m \in toResume /\ toResume' = toResume \ {m}
    /\ out' = Append(out, m)
    /\ SayOnline(m)
    /\ UNCHANGED <<control, link, session, stored, catchUp, run, retained>>

OnConnectStatusForgotten ==
    /\ onc = "status"
    /\ onc' = "isGrabbed"
    /\ UNCHANGED <<control, link, conn, subscribed, seen, client, end, retained>>

OnConnectStatus ==
    /\ onc = "status"
    /\ Publish("status", "online")
    /\ onc' = "isGrabbed"
    /\ SayOnline(Message("status", "online"))
    /\ UNCHANGED <<control, link, conn, subscribed, seen, run, retained>>

OnConnectReadGrab ==
    /\ onc = "isGrabbed"
    /\ seen' = grabbed /\ onc' = "grab"
    /\ overlap' = \/ notifiers[~grabbed] > 0
                  \/ Contradicted("grab", OnOff(grabbed))
    /\ UNCHANGED <<grabbed, hook, notifiers, link, conn, subscribed, client, end,
                   retained>>

OnConnectGrabForgotten ==
    /\ onc = "grab"
    /\ onc' = "alive"
    /\ UNCHANGED <<control, link, conn, subscribed, seen, client, end, retained>>

OnConnectGrab ==
    /\ onc = "grab"
    /\ Publish("grab", OnOff(seen))
    /\ onc' = "alive"
    /\ UNCHANGED <<control, link, conn, subscribed, seen, end, retained>>

OnConnectReadLink ==
    /\ onc = "alive"
    /\ seen' = alive /\ onc' = "link"
    /\ crossed' = (hook /\ (alive # last \/ Contradicted("link", Online(alive))))
    /\ UNCHANGED <<control, alive, last, linkDue, conn, subscribed, client, end,
                   retained>>

OnConnectLinkForgotten ==
    /\ onc = "link"
    /\ onc' = "subscribe"
    /\ UNCHANGED <<control, link, conn, subscribed, seen, client, end, retained>>

OnConnectLink ==
    /\ onc = "link"
    /\ Publish("link", Online(seen))
    /\ onc' = "subscribe"
    /\ UNCHANGED <<control, link, conn, subscribed, seen, end, retained>>

OnConnectSubscribe ==
    /\ onc = "subscribe"
    /\ subscribed' = conn
    /\ onc' = "idle"
    /\ UNCHANGED <<control, link, conn, seen, client, end, retained>>

OnConnect == \/ OnConnectStatus \/ OnConnectReadGrab \/ OnConnectGrab
             \/ OnConnectReadLink \/ OnConnectLink \/ OnConnectSubscribe

(* The broker takes a message and acknowledges it. *)
Deliver ==
    /\ conn /\ out # <<>>
    /\ retained' = [retained EXCEPT ![Head(out).topic] = Head(out).payload]
    /\ out' = Tail(out)
    /\ UNCHANGED <<control, link, session, stored, catchUp, toResume, end>>

(* The payload that the broker retains of a topic once it has taken the    *)
(* first n messages under way.                                             *)
Newest(t, n, p) ==
    \/ retained[t] = p /\ \A i \in 1 .. n : out[i].topic # t
    \/ \E i \in 1 .. n : /\ out[i] = Message(t, p)
                       /\ \A j \in i + 1 .. n : out[j].topic # t

(* The broker takes n more messages, of which the acknowledgement is lost, *)
(* and publishes the will.  All that is not acknowledged stays stored.     *)
ConnectionLost ==
    /\ conn
    /\ conn' = FALSE /\ subscribed' = FALSE
    /\ \E n \in 0 .. Len(out), g \in GrabStates, l \in LinkStates :
          /\ Newest("grab", n, g) /\ Newest("link", n, l)
          /\ retained' = [grab |-> g, link |-> l, status |-> "offline"]
    /\ stored' = Pending /\ out' = <<>> /\ toResume' = {}
    /\ catchUp' = "done"
    /\ UNCHANGED <<control, link, onc, seen, end>>

-----------------------------------------------------------------------------
(* Close: publish "offline", then disconnect cleanly, which withdraws the  *)
(* will; the DISCONNECT packet follows everything published before it.     *)

ClosePublish ==
    /\ run = "up" /\ hook
    /\ Publish("status", "offline")
    /\ run' = "closing"
    /\ UNCHANGED <<control, link, session, late, retained>>

CloseDisconnect ==
    /\ run = "closing" /\ out = <<>>
    /\ run' = "off"
    /\ conn' = FALSE /\ subscribed' = FALSE
    /\ UNCHANGED <<control, link, onc, seen, client, late, retained>>

Next == \/ LocalTransition \/ Command \/ InstallHook
        \/ \E v \in BOOLEAN : PublishGrab(v)
        \/ LinkChange \/ PollLink \/ PublishLink
        \/ Connect \/ OnConnect \/ ListStore
        \/ \E m \in toResume : Resume(m)
        \/ Deliver \/ ConnectionLost
        \/ ClosePublish \/ CloseDisconnect

Spec == Init /\ [][Next]_vars

-----------------------------------------------------------------------------
Messages == [topic : {"grab"}, payload : {"ON", "OFF"}] \cup
            [topic : {"link", "status"}, payload : {"online", "offline"}]

TypeOK ==
    /\ grabbed \in BOOLEAN /\ hook \in BOOLEAN /\ overlap \in BOOLEAN
    /\ late \in BOOLEAN
    /\ notifiers \in [BOOLEAN -> 0 .. MaxNotifiers]
    /\ alive \in BOOLEAN /\ last \in BOOLEAN /\ linkDue \in BOOLEAN
    /\ crossed \in BOOLEAN
    /\ conn \in BOOLEAN /\ subscribed \in BOOLEAN /\ seen \in BOOLEAN
    /\ out \in Seq(Messages)
    /\ stored \subseteq Messages /\ toResume \subseteq Messages
    /\ catchUp \in {"first", "list", "done"}
    /\ onc \in {"idle", "status", "isGrabbed", "grab", "alive", "link", "subscribe"}
    /\ run \in {"up", "closing", "off"}
    /\ retained \in [grab   : GrabStates, link : LinkStates,
                     status : {"online", "offline"}]

(* Nothing is left to publish, or to send again, and all has arrived. *)
Quiet == /\ conn /\ out = <<>> /\ onc = "idle" /\ hook /\ run = "up"
         /\ catchUp = "done" /\ toResume = {}
         /\ \A v \in BOOLEAN : notifiers[v] = 0
         /\ ~linkDue /\ last = alive

(* Availability is right whatever broke and reconnected before: a bridge   *)
(* at rest is shown as available, which is onConnect against the will, and *)
(* one that has stopped is not, which is Close against onConnect.  An      *)
(* onConnect or a resumption under way when Close begins can still say     *)
(* "online" last, and a clean disconnect withdraws the will: late excuses  *)
(* that.                                                                   *)
AvailabilityShown ==
    /\ Quiet => retained.status = "online"
    /\ run = "off" /\ ~late => retained.status = "offline"

(* "The switch always reflects the real state" (README.md): of a bridge at *)
(* rest, that has nothing left to say.  Quick transitions break it, for    *)
(* their goroutines may publish in the opposite order; so does a second    *)
(* transition while the message of the first waits for a connection or for *)
(* its acknowledgement, for the client sends old and new once more in no   *)
(* fixed order; so does one that onConnect has just missed; and one that   *)
(* comes between the first connection and k.notify is not published.       *)
SwitchShown == Quiet => retained.grab = OnOff(grabbed)

(* What holds: the switch shows the real state of a bridge at rest,        *)
(* through lost connections, messages sent twice, refused grabs and        *)
(* commands, if at the latest transition, or when onConnect has asked      *)
(* since, no publication of the other state was under way or               *)
(* unacknowledged (overlap).  One more transition puts the switch right.   *)
GrabShownUnlessOverlap == Quiet /\ ~overlap => retained.grab = OnOff(grabbed)

(* So it is with the link sensor, which two goroutines publish without     *)
(* knowing of each other, the watcher on change and onConnect at each      *)
(* connection, and the client once more: it is right at rest if, when the  *)
(* watcher last saw a change or onConnect has asked since, neither the     *)
(* other nor the store had another state to say (crossed).                 *)
LinkShownUnlessCrossed == Quiet /\ ~crossed => retained.link = Online(alive)
=============================================================================
