--------------------------- MODULE MqttBridgeProofs ---------------------------
(***************************************************************************)
(* The Home Assistant bridge, for any number of notifications and of       *)
(* messages that the client keeps.                                         *)
(*                                                                         *)
(* The three properties are about a bridge at rest.  Availability follows  *)
(* from what the newest message of its topic is, wherever it is: under     *)
(* way or retained.  For the grab and the link it would not do, for the    *)
(* client sends what it keeps once more in any order: there the invariant  *)
(* is that all that may yet reach the broker says the same, and that it is *)
(* under way or retained.  What the properties excuse (late, overlap,      *)
(* crossed) is excused in the invariants, and nothing else is.             *)
(***************************************************************************)
EXTENDS MqttBridge, TLAPS, SequenceTheorems

-----------------------------------------------------------------------------
(* The messages. *)

RetainedOK == retained \in [grab   : GrabStates, link : LinkStates,
                            status : {"online", "offline"}]

MessageInv == /\ out \in Seq(Messages) /\ stored \subseteq Messages
              /\ toResume \subseteq Messages
              /\ RetainedOK
              /\ ~conn => out = <<>>

UnderWay(m) == \E i \in 1 .. Len(out) : out[i] = m

IsPending(m) == UnderWay(m) \/ m \in stored \/ m \in toResume

(* What is under way is what ToSet collects. *)
LEMMA PendingIs ==
  ASSUME out \in Seq(Messages), NEW m
  PROVE  m \in Pending <=> IsPending(m)
<1>1. DOMAIN out = 1 .. Len(out)
  BY LenProperties
<1> QED  BY <1>1 DEF Pending, ToSet, IsPending, UnderWay

(* One message more under way. *)
LEMMA AppendIs ==
  ASSUME out \in Seq(Messages), NEW m \in Messages, out' = Append(out, m)
  PROVE  /\ out' \in Seq(Messages) /\ Len(out) \in Nat /\ Len(out') = Len(out) + 1
         /\ out'[Len(out) + 1] = m /\ \A i \in 1 .. Len(out) : out'[i] = out[i]
BY AppendProperties, LenProperties

(* It is under way then, and nothing else is that was not. *)
LEMMA AppendUnderWay ==
  ASSUME out \in Seq(Messages), NEW m \in Messages, out' = Append(out, m)
  PROVE  \A x : UnderWay(x)' <=> UnderWay(x) \/ x = m
<1>1. /\ Len(out) \in Nat /\ Len(out') = Len(out) + 1
      /\ out'[Len(out) + 1] = m /\ \A i \in 1 .. Len(out) : out'[i] = out[i]
  BY AppendIs
<1>2. \A i \in 1 .. Len(out') : i \in 1 .. Len(out) \/ i = Len(out) + 1
  BY <1>1
<1>3. 1 .. Len(out) \subseteq 1 .. Len(out') /\ Len(out) + 1 \in 1 .. Len(out')
  BY <1>1
<1> QED  BY <1>1, <1>2, <1>3, Zenon DEF UnderWay

(* Publishing adds the one message to what may yet reach the broker, and   *)
(* with a connection it is under way.                                      *)
LEMMA Published ==
  ASSUME MessageInv, conn \in BOOLEAN, NEW t, NEW p, Message(t, p) \in Messages,
         Publish(t, p), UNCHANGED <<retained, conn>>
  PROVE  /\ MessageInv'
         /\ \A x : IsPending(x)' => IsPending(x) \/ x = Message(t, p)
         /\ \A x : UnderWay(x) => UnderWay(x)'
         /\ conn => UnderWay(Message(t, p))' /\ out' = Append(out, Message(t, p))
         /\ ~conn => out' = out
<1> DEFINE m == Message(t, p)
<1>1. CASE conn
  <2>1. out' = Append(out, m) /\ UNCHANGED <<stored, toResume>>
    BY <1>1 DEF Publish
  <2>2. out' \in Seq(Messages)
    BY <2>1, AppendIs DEF MessageInv
  <2>3. \A x : UnderWay(x)' <=> UnderWay(x) \/ x = m
    BY <2>1, AppendUnderWay DEF MessageInv
  <2>4. MessageInv'
    BY <1>1, <2>1, <2>2 DEF MessageInv, RetainedOK
  <2> QED  BY <1>1, <2>1, <2>3, <2>4 DEF IsPending
<1>2. CASE ~conn
  <2>1. out' = out /\ stored' = stored \cup {m} /\ UNCHANGED toResume
    BY <1>2 DEF Publish
  <2>2. MessageInv'
    BY <1>2, <2>1 DEF MessageInv, RetainedOK
  <2> QED  BY <1>2, <2>1, <2>2 DEF IsPending, UnderWay
<1> QED  BY <1>1, <1>2

(* The client and the broker say nothing of their own. *)
Moves == \/ Connect \/ ListStore \/ (\E m \in toResume : Resume(m))
         \/ Deliver \/ ConnectionLost
         \/ /\ UNCHANGED <<out, stored, toResume, retained>>
            /\ UNCHANGED conn \/ (conn' = FALSE /\ out = <<>>)

(* Delivery takes the oldest message to the broker. *)
LEMMA Delivered ==
  ASSUME MessageInv, Deliver
  PROVE  /\ MessageInv'
         /\ Len(out) \in Nat \ {0} /\ Len(out') = Len(out) - 1
         /\ \A i \in 1 .. Len(out') : out'[i] = out[i + 1]
         /\ \E m \in Messages :
               /\ out[1] = m
               /\ retained' = [retained EXCEPT ![m.topic] = m.payload]
         /\ UNCHANGED <<stored, toResume, conn>>
<1>1. /\ out' = Tail(out) /\ out # <<>> /\ conn
      /\ retained' = [retained EXCEPT ![Head(out).topic] = Head(out).payload]
      /\ UNCHANGED <<stored, toResume, conn>>
  BY DEF Deliver, session
<1>2. /\ out' \in Seq(Messages) /\ Len(out) \in Nat \ {0} /\ Len(out') = Len(out) - 1
      /\ Head(out) = out[1] /\ out[1] \in Messages
      /\ \A i \in 1 .. Len(out') : out'[i] = out[i + 1]
  BY <1>1, HeadTailProperties, LenProperties DEF MessageInv
<1>3. RetainedOK'
  <2>1. PICK m \in Messages : /\ out[1] = m
                              /\ retained' = [retained EXCEPT ![m.topic] = m.payload]
    BY <1>1, <1>2
  <2>2. \/ m.topic = "grab" /\ m.payload \in GrabStates
        \/ m.topic = "link" /\ m.payload \in LinkStates
        \/ m.topic = "status" /\ m.payload \in {"online", "offline"}
    BY DEF Messages, GrabStates, LinkStates
  <2>3. RetainedOK
    BY DEF MessageInv
  <2> QED  BY <2>1, <2>2, <2>3 DEF RetainedOK
<1> QED  BY <1>1, <1>2, <1>3 DEF MessageInv

(* They keep the messages well formed and make up none. *)
LEMMA Moved ==
  ASSUME MessageInv, conn \in BOOLEAN, Moves
  PROVE  MessageInv' /\ \A x : IsPending(x)' => IsPending(x)
<1>1. CASE Connect
  <2>1. out' = out /\ stored' \subseteq stored /\ UNCHANGED <<toResume, retained>>
        /\ conn' = TRUE
    BY <1>1 DEF Connect
  <2> QED  BY <2>1 DEF MessageInv, RetainedOK, IsPending, UnderWay
<1>2. CASE ListStore
  <2>1. /\ out' = out /\ stored' = {} /\ UNCHANGED <<retained, conn>>
        /\ toResume' = stored \cup ToSet(out)
    BY <1>2 DEF ListStore, session
  <2>2. \A x : x \in ToSet(out) <=> UnderWay(x)
    <3>1. DOMAIN out = 1 .. Len(out)
      BY LenProperties DEF MessageInv
    <3> QED  BY <3>1 DEF ToSet, UnderWay
  <2>3. \A x : UnderWay(x) => x \in Messages
    <3>1. \A i \in 1 .. Len(out) : out[i] \in Messages
      BY ElementOfSeq DEF MessageInv
    <3> QED  BY <3>1 DEF UnderWay
  <2> QED  BY <2>1, <2>2, <2>3 DEF MessageInv, RetainedOK, IsPending, UnderWay
<1>3. ASSUME NEW m \in toResume, Resume(m)
      PROVE  MessageInv' /\ \A x : IsPending(x)' => IsPending(x)
  <2>1. /\ out' = Append(out, m) /\ UNCHANGED <<stored, retained, conn>>
        /\ toResume' = toResume \ {m} /\ conn
    BY <1>3 DEF Resume, session
  <2>2. out' \in Seq(Messages) /\ \A x : UnderWay(x)' <=> UnderWay(x) \/ x = m
    BY <2>1, AppendIs, AppendUnderWay DEF MessageInv
  <2> QED  BY <2>1, <2>2 DEF MessageInv, RetainedOK, IsPending
<1>4. CASE Deliver
  <2>1. /\ Len(out) \in Nat \ {0} /\ Len(out') = Len(out) - 1
        /\ \A i \in 1 .. Len(out') : out'[i] = out[i + 1]
        /\ MessageInv' /\ UNCHANGED <<stored, toResume>>
    BY <1>4, Delivered
  <2>2. \A i \in 1 .. Len(out') : i + 1 \in 1 .. Len(out)
    BY <2>1
  <2> QED  BY <2>1, <2>2 DEF IsPending, UnderWay
<1>5. CASE ConnectionLost
  <2>1. /\ out' = <<>> /\ stored' = Pending /\ toResume' = {} /\ RetainedOK'
    BY <1>5 DEF ConnectionLost, RetainedOK
  <2>2. Len(out') = 0 /\ out' \in Seq(Messages)
    BY <2>1
  <2>3. \A x : x \in Pending <=> IsPending(x)
    BY PendingIs DEF MessageInv
  <2>4. \A x : IsPending(x) => x \in Messages
    <3>1. \A i \in 1 .. Len(out) : out[i] \in Messages
      BY ElementOfSeq DEF MessageInv
    <3> QED  BY <3>1 DEF MessageInv, IsPending, UnderWay
  <2>5. \A x : IsPending(x)' => IsPending(x)
    BY <2>1, <2>2, <2>3 DEF IsPending, UnderWay
  <2> QED  BY <2>1, <2>2, <2>3, <2>4, <2>5 DEF MessageInv
<1>6. CASE /\ UNCHANGED <<out, stored, toResume, retained>>
           /\ UNCHANGED conn \/ (conn' = FALSE /\ out = <<>>)
  BY <1>6 DEF MessageInv, RetainedOK, IsPending, UnderWay
<1> QED  BY <1>1, <1>2, <1>3, <1>4, <1>5, <1>6 DEF Moves
-----------------------------------------------------------------------------
(* Types. *)

Stages == {"idle", "status", "isGrabbed", "grab", "alive", "link", "subscribe"}

FlagsOK ==
    /\ grabbed \in BOOLEAN /\ hook \in BOOLEAN /\ overlap \in BOOLEAN
    /\ late \in BOOLEAN /\ alive \in BOOLEAN /\ last \in BOOLEAN
    /\ linkDue \in BOOLEAN /\ crossed \in BOOLEAN
    /\ conn \in BOOLEAN /\ subscribed \in BOOLEAN /\ seen \in BOOLEAN

StagesOK == /\ onc \in Stages /\ run \in {"up", "closing", "off"}
            /\ catchUp \in {"first", "list", "done"}

NotifiersOK == notifiers \in [BOOLEAN -> 0 .. MaxNotifiers]

TypeInv == FlagsOK /\ StagesOK /\ NotifiersOK /\ MessageInv

(* What is said, in which step. *)
Says(t, p) == Publish(t, p) /\ UNCHANGED <<retained, conn>>

SayGrab   == OnConnectGrab \/ \E v \in BOOLEAN : PublishGrab(v)
SayLink   == OnConnectLink \/ PublishLink
SayStatus == OnConnectStatus \/ ClosePublish

(* Every step says something or moves the messages on. *)
LEMMA MessageSteps ==
  ASSUME [Next]_vars
  PROVE  /\ \/ SayGrab \/ SayLink \/ SayStatus \/ Moves
         /\ \A v \in BOOLEAN : PublishGrab(v) => Says("grab", OnOff(v))
         /\ PublishLink => Says("link", Online(last))
         /\ OnConnectStatus => Says("status", "online")
         /\ OnConnectGrab => Says("grab", OnOff(seen))
         /\ OnConnectLink => Says("link", Online(seen))
         /\ ClosePublish => Says("status", "offline")
<1> USE DEF session, client
<1>1. \A v \in BOOLEAN : PublishGrab(v) => Says("grab", OnOff(v))
  BY DEF PublishGrab, Says
<1>2. PublishLink => Says("link", Online(last))
  BY DEF PublishLink, Says
<1>3. OnConnectStatus => Says("status", "online")
  BY DEF OnConnectStatus, Says
<1>4. OnConnectGrab => Says("grab", OnOff(seen))
  BY DEF OnConnectGrab, Says
<1>5. OnConnectLink => Says("link", Online(seen))
  BY DEF OnConnectLink, Says
<1>6. ClosePublish => Says("status", "offline")
  BY DEF ClosePublish, Says
<1>7. ASSUME \/ LocalTransition \/ Command \/ InstallHook \/ LinkChange \/ PollLink
             \/ OnConnectReadGrab \/ OnConnectReadLink
             \/ OnConnectSubscribe \/ CloseDisconnect \/ UNCHANGED vars
      PROVE  Moves
  <2>1. UNCHANGED <<out, stored, toResume, retained>>
    BY <1>7 DEF LocalTransition, Command, InstallHook, LinkChange, PollLink,
                OnConnectReadGrab, OnConnectReadLink, OnConnectSubscribe,
                CloseDisconnect, vars
  <2>2. UNCHANGED conn \/ (conn' = FALSE /\ out = <<>>)
    BY <1>7 DEF LocalTransition, Command, InstallHook, LinkChange, PollLink,
                OnConnectReadGrab, OnConnectReadLink, OnConnectSubscribe,
                CloseDisconnect, vars
  <2> QED  BY <2>1, <2>2, Zenon DEF Moves
<1>8. SayGrab \/ SayLink \/ SayStatus \/ Moves
  BY <1>7 DEF Next, OnConnect, Moves, SayGrab, SayLink, SayStatus
<1> QED
  BY <1>1, <1>2, <1>3, <1>4, <1>5, <1>6, <1>8

LEMMA Payloads ==
  ASSUME NEW v \in BOOLEAN
  PROVE  /\ Message("grab", OnOff(v)) \in Messages
         /\ Message("link", Online(v)) \in Messages
         /\ Message("status", Online(v)) \in Messages
         /\ OnOff(v) \in GrabStates /\ Online(v) \in LinkStates
         /\ OnOff(v) # OnOff(~v) /\ Online(v) # Online(~v)
BY DEF Message, Messages, OnOff, Online, GrabStates, LinkStates

(* Whatever is said or moved on is a message. *)
LEMMA MessagesKept ==
  ASSUME TypeInv, [Next]_vars
  PROVE  MessageInv'
<1>0. /\ MessageInv /\ conn \in BOOLEAN /\ seen \in BOOLEAN /\ last \in BOOLEAN
  BY DEF TypeInv, FlagsOK
<1>1. /\ \A v \in BOOLEAN : /\ Message("grab", OnOff(v)) \in Messages
                            /\ Message("link", Online(v)) \in Messages
      /\ Message("status", "online") \in Messages
      /\ Message("status", "offline") \in Messages
  BY Payloads DEF Online
<1>2. ASSUME NEW t, NEW p, Message(t, p) \in Messages, Says(t, p)
      PROVE  MessageInv'
  BY <1>0, <1>2, Published DEF Says
<1>3. CASE SayGrab
  BY <1>0, <1>1, <1>2, <1>3, MessageSteps DEF SayGrab
<1>4. CASE SayLink
  BY <1>0, <1>1, <1>2, <1>4, MessageSteps DEF SayLink
<1>5. CASE SayStatus
  BY <1>1, <1>2, <1>5, MessageSteps DEF SayStatus
<1>6. CASE Moves
  BY <1>0, <1>6, Moved
<1> QED  BY <1>3, <1>4, <1>5, <1>6, MessageSteps
(* How the other variables keep their types. *)
LEMMA TypesKept ==
  ASSUME TypeInv, [Next]_vars
  PROVE  TypeInv'
<1> SUFFICES FlagsOK' /\ StagesOK' /\ NotifiersOK'
  BY MessagesKept DEF TypeInv
<1>0. FlagsOK /\ StagesOK /\ NotifiersOK
  BY DEF TypeInv
<1> USE <1>0 DEF FlagsOK, StagesOK, NotifiersOK, Stages, control, link, session, end
<1>1. ASSUME NEW v \in BOOLEAN, Notify(v)
      PROVE  NotifiersOK' /\ overlap' \in BOOLEAN
  <2>1. overlap' \in BOOLEAN
    BY <1>1 DEF Notify
  <2>2. CASE hook
    <3>1. notifiers[v] \in 0 .. MaxNotifiers /\ notifiers[v] < MaxNotifiers
          /\ notifiers' = [notifiers EXCEPT ![v] = notifiers[v] + 1]
      BY <1>1, <2>2 DEF Notify
    <3>2. notifiers[v] + 1 \in 0 .. MaxNotifiers
      BY <3>1, BridgeAssumption DEF BridgeAssumption
    <3> QED  BY <2>1, <3>1, <3>2
  <2>3. CASE ~hook
    BY <1>1, <2>1, <2>3 DEF Notify
  <2> QED  BY <2>2, <2>3
<1>2. ASSUME LocalTransition \/ Command
      PROVE  FlagsOK' /\ StagesOK' /\ NotifiersOK'
  <2>1. NotifiersOK' /\ overlap' \in BOOLEAN /\ grabbed' \in BOOLEAN
    BY <1>1, <1>2 DEF LocalTransition, Command, Transition
  <2>2. UNCHANGED <<hook, link, session, client, end>>
    BY <1>2 DEF LocalTransition, Command
  <2> QED  BY <2>1, <2>2 DEF client
<1>3. ASSUME NEW v \in BOOLEAN, PublishGrab(v)
      PROVE  FlagsOK' /\ StagesOK' /\ NotifiersOK'
  <2>1. notifiers[v] \in 0 .. MaxNotifiers /\ notifiers[v] > 0
        /\ notifiers' = [notifiers EXCEPT ![v] = notifiers[v] - 1]
    BY <1>3 DEF PublishGrab
  <2>2. NotifiersOK'
    BY <2>1, BridgeAssumption DEF BridgeAssumption
  <2>3. UNCHANGED <<grabbed, hook, overlap, link, session, catchUp, end>>
    BY <1>3 DEF PublishGrab, Publish
  <2> QED  BY <2>2, <2>3
<1>4. CASE InstallHook \/ PollLink
  <2>1. /\ UNCHANGED <<grabbed, notifiers, overlap, alive, session, client, end>>
        /\ hook' \in BOOLEAN /\ WatcherSees
    BY <1>4 DEF InstallHook, PollLink
  <2>2. last' = alive /\ linkDue' = TRUE /\ crossed' \in BOOLEAN
    BY <2>1 DEF WatcherSees
  <2> QED  BY <2>1, <2>2 DEF client
<1>5. CASE PublishLink
  <2>1. /\ UNCHANGED <<control, alive, last, crossed, session, catchUp, end>>
        /\ linkDue' \in BOOLEAN
    BY <1>5 DEF PublishLink, Publish
  <2> QED  BY <2>1
<1>6. CASE LinkChange
  <2>1. /\ UNCHANGED <<control, last, linkDue, crossed, session, client, end>>
        /\ alive' \in BOOLEAN
    BY <1>6 DEF LinkChange
  <2> QED  BY <2>1 DEF client
<1>7. CASE Connect \/ ListStore \/ Deliver \/ ConnectionLost
  <2>1. /\ UNCHANGED <<control, link, seen, end>>
        /\ conn' \in BOOLEAN /\ subscribed' \in BOOLEAN
    BY <1>7 DEF Connect, ListStore, Deliver, ConnectionLost
  <2>2. onc' \in Stages /\ catchUp' \in {"first", "list", "done"}
    BY <1>7 DEF Connect, ListStore, Deliver, ConnectionLost
  <2> QED  BY <2>1, <2>2
<1>8. ASSUME NEW m \in toResume, Resume(m)
      PROVE  FlagsOK' /\ StagesOK' /\ NotifiersOK'
  <2>1. UNCHANGED <<control, link, session, catchUp, run>> /\ SayOnline(m)
    BY <1>8 DEF Resume
  <2>2. late' \in BOOLEAN
    BY <2>1 DEF SayOnline
  <2> QED  BY <2>1, <2>2
<1>9. CASE OnConnectStatus
  <2>1. /\ UNCHANGED <<control, link, conn, subscribed, seen, run, catchUp>>
        /\ onc' = "isGrabbed" /\ SayOnline(Message("status", "online"))
    BY <1>9 DEF OnConnectStatus, Publish
  <2>2. late' \in BOOLEAN
    BY <2>1 DEF SayOnline
  <2> QED  BY <2>1, <2>2
<1>10. CASE OnConnectReadGrab
  <2>1. /\ UNCHANGED <<grabbed, hook, notifiers, link, conn, subscribed, client, end>>
        /\ seen' = grabbed /\ onc' = "grab"
    BY <1>10 DEF OnConnectReadGrab
  <2>2. overlap' \in BOOLEAN
    BY <1>10 DEF OnConnectReadGrab
  <2> QED  BY <2>1, <2>2 DEF client
<1>11. CASE OnConnectReadLink
  <2>1. /\ UNCHANGED <<control, alive, last, linkDue, conn, subscribed, client, end>>
        /\ seen' = alive /\ onc' = "link"
    BY <1>11 DEF OnConnectReadLink
  <2>2. crossed' \in BOOLEAN
    BY <1>11 DEF OnConnectReadLink
  <2> QED  BY <2>1, <2>2 DEF client
<1>12. CASE OnConnectGrab \/ OnConnectLink \/ OnConnectSubscribe
  <2>1. /\ UNCHANGED <<control, link, conn, seen, catchUp, end>>
        /\ subscribed' \in BOOLEAN /\ onc' \in Stages
    BY <1>12 DEF OnConnectGrab, OnConnectLink, OnConnectSubscribe, Publish, client
  <2> QED  BY <2>1
<1>13. CASE ClosePublish \/ CloseDisconnect
  <2>1. /\ UNCHANGED <<control, link, onc, seen, catchUp, late>>
        /\ conn' \in BOOLEAN /\ subscribed' \in BOOLEAN
        /\ run' \in {"closing", "off"}
    BY <1>13 DEF ClosePublish, CloseDisconnect, Publish, client
  <2> QED  BY <2>1
<1>14. CASE UNCHANGED vars
  BY <1>14 DEF vars, client
<1> QED
  BY <1>2, <1>3, <1>4, <1>5, <1>6, <1>7, <1>8, <1>9, <1>10, <1>11, <1>12, <1>13, <1>14
     DEF Next, OnConnect
-----------------------------------------------------------------------------
(* A topic of which everything that may yet reach the broker says p, and   *)
(* of which p is under way or retained.                                    *)

OnlySays(t, p) == \A m : IsPending(m) /\ m.topic = t => m.payload = p

Coming(t, p) == retained[t] = p \/ UnderWay(Message(t, p))

(* What Contradicted asks. *)
LEMMA Uncontradicted ==
  ASSUME MessageInv, NEW t, NEW p, ~Contradicted(t, p), UNCHANGED client
  PROVE  OnlySays(t, p)'
<1>1. \A m : IsPending(m)' <=> IsPending(m)
  BY DEF client, IsPending, UnderWay
<1>2. \A m : IsPending(m) => m \in Pending
  BY PendingIs DEF MessageInv
<1> QED  BY <1>1, <1>2 DEF Contradicted, OnlySays

(* Messages that move on keep saying the same, and what is under way is    *)
(* retained in the end.                                                    *)
LEMMA MovedOn ==
  ASSUME MessageInv, conn \in BOOLEAN, Moves, NEW t \in {"grab", "link"}, NEW p,
         OnlySays(t, p)
  PROVE  /\ OnlySays(t, p)'
         /\ ~ConnectionLost /\ Coming(t, p) => Coming(t, p)'
<1>1. OnlySays(t, p)'
  BY Moved DEF OnlySays
<1>2. ASSUME ~ConnectionLost, Coming(t, p)
      PROVE  Coming(t, p)'
  <2> DEFINE m == Message(t, p)
  <2>1. CASE Connect \/ ListStore \/ UNCHANGED <<out, retained>>
    <3>1. UNCHANGED <<out, retained>>
      BY <2>1 DEF Connect, ListStore
    <3> QED  BY <1>2, <3>1 DEF Coming, UnderWay
  <2>2. ASSUME NEW x \in toResume, Resume(x)
        PROVE  Coming(t, p)'
    <3>1. out' = Append(out, x) /\ UNCHANGED retained /\ x \in Messages
      BY <2>2 DEF Resume, MessageInv
    <3>2. UnderWay(m) => UnderWay(m)'
      BY <3>1, AppendUnderWay DEF MessageInv
    <3> QED  BY <1>2, <3>1, <3>2 DEF Coming
  <2>3. CASE Deliver
    <3>1. /\ Len(out) \in Nat \ {0} /\ Len(out') = Len(out) - 1
          /\ \A i \in 1 .. Len(out') : out'[i] = out[i + 1]
      BY <2>3, Delivered
    <3>2. PICK x \in Messages : /\ out[1] = x
                                /\ retained' = [retained EXCEPT ![x.topic] = x.payload]
      BY <2>3, Delivered
    <3>3. x.topic = t => x.payload = p
      <4>1. 1 \in 1 .. Len(out)
        BY <3>1
      <4>2. UnderWay(x)
        BY <3>2, <4>1 DEF UnderWay
      <4> QED  BY <4>2 DEF OnlySays, IsPending
    <3>4. RetainedOK /\ x.topic \in {"grab", "link", "status"}
      BY DEF MessageInv, Messages
    <3>5. /\ x.topic = t => retained'[t] = p
          /\ x.topic # t => retained'[t] = retained[t]
      BY <3>2, <3>3, <3>4 DEF RetainedOK
    <3>6. CASE x.topic = t
      BY <3>5, <3>6 DEF Coming
    <3>7. CASE x.topic # t
      <4>1. CASE retained[t] = p
        BY <3>5, <3>7, <4>1 DEF Coming
      <4>2. ASSUME NEW i \in 1 .. Len(out), out[i] = m
            PROVE  Coming(t, p)'
        <5>1. m.topic = t
          BY DEF Message
        <5>2. i # 1
          BY <3>2, <3>7, <4>2, <5>1
        <5>3. i - 1 \in 1 .. Len(out') /\ out'[i - 1] = m
          BY <3>1, <4>2, <5>2
        <5> QED  BY <5>3 DEF Coming, UnderWay
      <4> QED  BY <1>2, <4>1, <4>2 DEF Coming, UnderWay
    <3> QED  BY <3>6, <3>7
  <2> QED  BY <1>2, <2>1, <2>2, <2>3 DEF Moves
<1> QED  BY <1>1, <1>2

(* Saying it once more changes nothing, and a message of another topic is  *)
(* of no concern.                                                          *)
LEMMA SaidOn ==
  ASSUME MessageInv, conn \in BOOLEAN, NEW t, NEW p, NEW u, NEW q,
         Message(u, q) \in Messages, Says(u, q), OnlySays(t, p), u = t => q = p
  PROVE  /\ OnlySays(t, p)'
         /\ Coming(t, p) => Coming(t, p)'
         /\ conn /\ u = t => Coming(t, p)'
<1>1. /\ \A x : IsPending(x)' => IsPending(x) \/ x = Message(u, q)
      /\ \A x : UnderWay(x) => UnderWay(x)'
      /\ conn => UnderWay(Message(u, q))'
  BY Published DEF Says
<1>2. OnlySays(t, p)'
  BY <1>1 DEF OnlySays, Message
<1>3. Coming(t, p) => Coming(t, p)'
  BY <1>1 DEF Coming, Says
<1>4. conn /\ u = t => Coming(t, p)'
  BY <1>1 DEF Coming
<1> QED  BY <1>2, <1>3, <1>4

(* A step that says nothing of the topic, or the same once more, keeps     *)
(* both, unless the connection goes.                                       *)
LEMMA TopicKept ==
  ASSUME TypeInv, [Next]_vars, NEW t \in {"grab", "link"}, NEW p, OnlySays(t, p),
         t = "grab" => ~SayGrab, t = "link" => ~SayLink
  PROVE  /\ OnlySays(t, p)'
         /\ ~ConnectionLost /\ Coming(t, p) => Coming(t, p)'
<1>0. /\ MessageInv /\ conn \in BOOLEAN /\ seen \in BOOLEAN /\ last \in BOOLEAN
  BY DEF TypeInv, FlagsOK
<1>1. /\ \A v \in BOOLEAN : /\ Message("grab", OnOff(v)) \in Messages
                            /\ Message("link", Online(v)) \in Messages
      /\ Message("status", "online") \in Messages
      /\ Message("status", "offline") \in Messages
  BY Payloads DEF Online
<1>2. ASSUME NEW u \in {"grab", "link", "status"} \ {t}, NEW q,
             Message(u, q) \in Messages, Says(u, q)
      PROVE  OnlySays(t, p)' /\ (Coming(t, p) => Coming(t, p)')
  BY <1>0, <1>2, SaidOn
<1>3. CASE SayGrab
  <2>1. \E v \in BOOLEAN : Says("grab", OnOff(v))
    BY <1>0, <1>3, MessageSteps DEF SayGrab
  <2> QED  BY <1>1, <1>2, <1>3, <2>1
<1>4. CASE SayLink
  <2>1. \E v \in BOOLEAN : Says("link", Online(v))
    BY <1>0, <1>4, MessageSteps DEF SayLink
  <2> QED  BY <1>1, <1>2, <1>4, <2>1
<1>5. CASE SayStatus
  <2>1. Says("status", "online") \/ Says("status", "offline")
    BY <1>5, MessageSteps DEF SayStatus
  <2> QED  BY <1>1, <1>2, <2>1
<1>6. CASE Moves
  BY <1>0, <1>6, MovedOn
<1> QED  BY <1>3, <1>4, <1>5, <1>6, MessageSteps
-----------------------------------------------------------------------------
(* Availability. *)

NewestStatus(p) == Newest("status", Len(out), p)

(* Connected, the bridge has said "online" since, and nothing that waits   *)
(* says otherwise before Close; once Close has begun the bridge says       *)
(* nothing but "offline", unless late.                                     *)
StatusInv ==
    /\ run = "off" => ~conn
    /\ ~conn /\ run # "off" => retained.status = "offline"
    /\ run = "up" => OnlySays("status", "online")
    /\ conn /\ run = "up" /\ onc # "status" => NewestStatus("online")
    /\ run # "up" /\ ~late => NewestStatus("offline")

(* One message more is the newest if it is of the topic, and else changes  *)
(* nothing.                                                                *)
LEMMA NewestAppended ==
  ASSUME MessageInv, NEW m \in Messages, out' = Append(out, m), UNCHANGED retained, NEW p
  PROVE  /\ m = Message("status", p) => NewestStatus(p)'
         /\ m.topic # "status" /\ NewestStatus(p) => NewestStatus(p)'
<1>1. /\ Len(out) \in Nat /\ Len(out') = Len(out) + 1
      /\ out'[Len(out) + 1] = m /\ \A i \in 1 .. Len(out) : out'[i] = out[i]
  BY AppendIs DEF MessageInv
<1>2. ASSUME m = Message("status", p)
      PROVE  NewestStatus(p)'
  <2>1. Len(out) + 1 \in 1 .. Len(out') /\ Len(out) + 1 + 1 .. Len(out') = {}
    BY <1>1
  <2> QED  BY <1>1, <1>2, <2>1, Zenon DEF NewestStatus, Newest
<1>3. ASSUME m.topic # "status", NewestStatus(p)
      PROVE  NewestStatus(p)'
  <2>1. \A i \in 1 .. Len(out') : i \in 1 .. Len(out) \/ out'[i] = m
    BY <1>1
  <2>2. CASE retained["status"] = p /\ \A i \in 1 .. Len(out) : out[i].topic # "status"
    <3>1. \A i \in 1 .. Len(out') : out'[i].topic # "status"
      BY <1>1, <1>3, <2>1, <2>2
    <3> QED  BY <2>2, <3>1 DEF NewestStatus, Newest
  <2>3. ASSUME NEW i \in 1 .. Len(out), out[i] = Message("status", p),
               \A j \in i + 1 .. Len(out) : out[j].topic # "status"
        PROVE  NewestStatus(p)'
    <3>1. i \in 1 .. Len(out') /\ out'[i] = Message("status", p)
      BY <1>1, <2>3
    <3>2. \A j \in i + 1 .. Len(out') : out'[j].topic # "status"
      <4> SUFFICES ASSUME NEW j \in i + 1 .. Len(out')
                   PROVE  out'[j].topic # "status"
        OBVIOUS
      <4>1. j \in i + 1 .. Len(out) \/ j = Len(out) + 1
        BY <1>1
      <4>2. j \in i + 1 .. Len(out) => out'[j] = out[j]
        BY <1>1
      <4> QED  BY <1>1, <1>3, <2>3, <4>1, <4>2
    <3> QED  BY <3>1, <3>2 DEF NewestStatus, Newest
  <2> QED  BY <1>3, <2>2, <2>3 DEF NewestStatus, Newest
<1> QED  BY <1>2, <1>3

(* Delivery moves the newest message on and makes none older. *)
LEMMA NewestDelivered ==
  ASSUME MessageInv, Deliver, NEW p, NewestStatus(p)
  PROVE  NewestStatus(p)'
<1>1. /\ Len(out) \in Nat \ {0} /\ Len(out') = Len(out) - 1
      /\ \A i \in 1 .. Len(out') : out'[i] = out[i + 1]
  BY Delivered
<1>2. PICK x \in Messages : /\ out[1] = x
                            /\ retained' = [retained EXCEPT ![x.topic] = x.payload]
  BY Delivered
<1>3. x.topic \in {"grab", "link", "status"} /\ RetainedOK
  BY DEF Messages, MessageInv
<1>4. retained'["status"] = IF x.topic = "status" THEN x.payload ELSE retained["status"]
  BY <1>2, <1>3 DEF RetainedOK
<1>5. CASE retained["status"] = p /\ \A i \in 1 .. Len(out) : out[i].topic # "status"
  <2>1. x.topic # "status" /\ \A i \in 1 .. Len(out') : out'[i].topic # "status"
    BY <1>1, <1>2, <1>5
  <2> QED  BY <1>4, <1>5, <2>1 DEF NewestStatus, Newest
<1>6. ASSUME NEW i \in 1 .. Len(out), out[i] = Message("status", p),
             \A j \in i + 1 .. Len(out) : out[j].topic # "status"
      PROVE  NewestStatus(p)'
  <2>1. CASE i = 1
    <3>1. retained'["status"] = p
      BY <1>2, <1>4, <1>6, <2>1 DEF Message
    <3>2. \A j \in 1 .. Len(out') : out'[j].topic # "status"
      BY <1>1, <1>6, <2>1
    <3> QED  BY <3>1, <3>2 DEF NewestStatus, Newest
  <2>2. CASE i # 1
    <3>1. i - 1 \in 1 .. Len(out') /\ out'[i - 1] = Message("status", p)
      BY <1>1, <1>6, <2>2
    <3>2. \A j \in (i - 1) + 1 .. Len(out') : out'[j].topic # "status"
      BY <1>1, <1>6
    <3> QED  BY <3>1, <3>2 DEF NewestStatus, Newest
  <2> QED  BY <2>1, <2>2
<1> QED  BY <1>5, <1>6 DEF NewestStatus, Newest

(* With nothing under way it is the one that the broker retains. *)
LEMMA NewestAtRest ==
  ASSUME out = <<>>, NEW p
  PROVE  NewestStatus(p) <=> retained.status = p
<1>1. Len(out) = 0 /\ 1 .. 0 = {}
  OBVIOUS
<1> QED  BY <1>1 DEF NewestStatus, Newest

(* What is said of the other topics leaves it the newest. *)
LEMMA NewestKept ==
  ASSUME TypeInv, [Next]_vars, NEW p, NewestStatus(p), ~ConnectionLost, ~SayStatus,
         \A m \in toResume : ~Resume(m)
  PROVE  NewestStatus(p)'
<1>0. /\ MessageInv /\ conn \in BOOLEAN /\ seen \in BOOLEAN /\ last \in BOOLEAN
  BY DEF TypeInv, FlagsOK
<1>1. ASSUME NEW u \in {"grab", "link"}, NEW q, Message(u, q) \in Messages, Says(u, q)
      PROVE  NewestStatus(p)'
  <2>1. /\ conn => out' = Append(out, Message(u, q))
        /\ ~conn => out' = out
        /\ UNCHANGED retained
    BY <1>0, <1>1, Published DEF Says
  <2>2. CASE conn
    <3>1. Message(u, q).topic # "status"
      BY DEF Message
    <3> QED  BY <1>0, <1>1, <2>1, <2>2, <3>1, NewestAppended
  <2>3. CASE ~conn
    BY <2>1, <2>3 DEF NewestStatus, Newest
  <2> QED  BY <2>2, <2>3
<1>2. CASE SayGrab
  <2>1. \E v \in BOOLEAN : Says("grab", OnOff(v))
    BY <1>0, <1>2, MessageSteps DEF SayGrab
  <2> QED  BY <1>1, <2>1, Payloads
<1>3. CASE SayLink
  <2>1. \E v \in BOOLEAN : Says("link", Online(v))
    BY <1>0, <1>3, MessageSteps DEF SayLink
  <2> QED  BY <1>1, <2>1, Payloads
<1>4. CASE Deliver
  BY <1>0, <1>4, NewestDelivered
<1>5. CASE Connect \/ ListStore \/ UNCHANGED <<out, retained>>
  <2>1. UNCHANGED <<out, retained>>
    BY <1>5 DEF Connect, ListStore
  <2> QED  BY <2>1 DEF NewestStatus, Newest
<1> QED  BY <1>2, <1>3, <1>4, <1>5, MessageSteps DEF Moves

(* Every step keeps what StatusInv says. *)
LEMMA StatusKept ==
  ASSUME TypeInv, StatusInv, [Next]_vars
  PROVE  StatusInv'
<1>0. /\ MessageInv /\ conn \in BOOLEAN /\ seen \in BOOLEAN /\ last \in BOOLEAN
      /\ ~conn => out = <<>>
  BY DEF TypeInv, FlagsOK, MessageInv
<1>1. /\ Message("status", "online") \in Messages
      /\ Message("status", "offline") \in Messages
  BY DEF Message, Messages
<1>2. CASE OnConnectStatus
  <2>1. /\ Says("status", "online") /\ onc' = "isGrabbed"
        /\ UNCHANGED <<conn, run, retained>>
        /\ late' = (late \/ run # "up")
    BY <1>2 DEF OnConnectStatus, Says, SayOnline
  <2>2. /\ conn => out' = Append(out, Message("status", "online"))
        /\ ~conn => out' = out
    BY <1>0, <1>1, <2>1, Published DEF Says
  <2>3. conn => NewestStatus("online")'
    BY <1>0, <1>1, <2>1, <2>2, NewestAppended
  <2>4. run = "up" => OnlySays("status", "online")'
    BY <1>0, <1>1, <2>1, SaidOn DEF StatusInv
  <2>5. run' # "up" /\ ~late' => NewestStatus("offline")'
    BY <2>1
  <2> QED  BY <2>1, <2>3, <2>4, <2>5 DEF StatusInv
<1>3. CASE ClosePublish
  <2>1. /\ Says("status", "offline") /\ run = "up" /\ run' = "closing"
        /\ UNCHANGED <<conn, retained>>
    BY <1>3 DEF ClosePublish, Says, session
  <2>2. /\ conn => out' = Append(out, Message("status", "offline"))
        /\ ~conn => out' = out
    BY <1>0, <1>1, <2>1, Published DEF Says
  <2>3. CASE conn
    <3>1. NewestStatus("offline")'
      BY <1>0, <1>1, <2>1, <2>2, <2>3, NewestAppended
    <3> QED  BY <2>1, <2>3, <3>1 DEF StatusInv
  <2>4. CASE ~conn
    <3>1. retained.status = "offline" /\ out = <<>> /\ NewestStatus("offline")
      BY <1>0, <2>1, <2>4, NewestAtRest DEF StatusInv
    <3>2. NewestStatus("offline")'
      BY <2>1, <2>2, <2>4, <3>1 DEF NewestStatus, Newest
    <3> QED  BY <2>1, <2>4, <3>1, <3>2 DEF StatusInv
  <2> QED  BY <2>3, <2>4
<1>4. CASE ConnectionLost
  <2>1. /\ out' = <<>> /\ retained'.status = "offline" /\ conn' = FALSE /\ UNCHANGED end
    BY <1>4 DEF ConnectionLost
  <2>2. Len(out') = 0 /\ 1 .. 0 = {} /\ retained'["status"] = "offline"
    BY <2>1
  <2>3. NewestStatus("offline")'
    BY <2>2 DEF NewestStatus, Newest
  <2>4. run = "up" => OnlySays("status", "online")'
    BY <1>0, <1>4, Moved DEF StatusInv, OnlySays, Moves
  <2> QED  BY <2>1, <2>3, <2>4 DEF StatusInv, end
<1>5. ASSUME NEW m \in toResume, Resume(m)
      PROVE  StatusInv'
  <2>1. /\ out' = Append(out, m) /\ UNCHANGED <<conn, onc, run, retained>>
        /\ late' = (late \/ (run # "up" /\ m = Message("status", "online")))
        /\ m \in Messages
    BY <1>5 DEF Resume, SayOnline, session, TypeInv, MessageInv
  <2>2. run = "up" => OnlySays("status", "online")'
    BY <1>0, <1>5, Moved DEF StatusInv, OnlySays, Moves
  <2>3. CASE m.topic # "status"
    <3>1. \A p : NewestStatus(p) => NewestStatus(p)'
      BY <1>0, <2>1, <2>3, NewestAppended
    <3> QED  BY <2>1, <2>2, <3>1 DEF StatusInv
  <2>4. CASE m.topic = "status"
    <3>1. m = Message("status", "online") \/ m = Message("status", "offline")
      BY <2>1, <2>4 DEF Messages, Message
    <3>2. \A p : m = Message("status", p) => NewestStatus(p)'
      BY <1>0, <2>1, NewestAppended
    <3>3. run = "up" => m = Message("status", "online")
      <4>1. IsPending(m)
        BY DEF IsPending
      <4>2. Message("status", "offline").payload # "online"
        BY DEF Message
      <4> QED  BY <2>4, <3>1, <4>1, <4>2 DEF StatusInv, OnlySays
    <3>4. CASE run = "up"
      BY <2>1, <2>2, <3>2, <3>3, <3>4 DEF StatusInv
    <3>5. CASE run # "up"
      BY <2>1, <2>2, <3>1, <3>2, <3>5 DEF StatusInv
    <3> QED  BY <3>4, <3>5
  <2> QED  BY <2>3, <2>4
<1>6. CASE /\ ~OnConnectStatus /\ ~ClosePublish /\ ~ConnectionLost
           /\ \A m \in toResume : ~Resume(m)
  <2>1. \A p : NewestStatus(p) => NewestStatus(p)'
    BY <1>6, NewestKept DEF SayStatus
  <2>2. run = "up" => OnlySays("status", "online")'
    <3>1. CASE Moves
      BY <1>0, <3>1, Moved DEF StatusInv, OnlySays
    <3>2. CASE SayGrab
      <4>1. \E v \in BOOLEAN : Says("grab", OnOff(v))
        BY <1>0, <3>2, MessageSteps DEF SayGrab
      <4> QED  BY <1>0, <4>1, Payloads, SaidOn DEF StatusInv
    <3>3. CASE SayLink
      <4>1. \E v \in BOOLEAN : Says("link", Online(v))
        BY <1>0, <3>3, MessageSteps DEF SayLink
      <4> QED  BY <1>0, <4>1, Payloads, SaidOn DEF StatusInv
    <3> QED  BY <1>6, <3>1, <3>2, <3>3, MessageSteps DEF SayStatus
  <2>4. CASE Connect
    BY <2>1, <2>2, <2>4 DEF Connect, StatusInv, end
  <2>5. CASE CloseDisconnect
    BY <2>1, <2>2, <2>5 DEF CloseDisconnect, StatusInv, end
  <2>6. CASE OnConnectReadGrab \/ OnConnectGrab \/ OnConnectReadLink \/ OnConnectLink
             \/ OnConnectSubscribe
    <3>1. UNCHANGED <<conn, end, retained>> /\ onc # "status"
      BY <2>6 DEF OnConnectReadGrab, OnConnectGrab, OnConnectReadLink, OnConnectLink,
                  OnConnectSubscribe
    <3> QED  BY <2>1, <2>2, <3>1 DEF StatusInv, end
  <2>7. CASE Deliver
    <3>1. UNCHANGED <<session, end>> /\ conn
      BY <2>7 DEF Deliver
    <3> QED  BY <2>1, <2>2, <3>1 DEF StatusInv, end, session
  <2>8. CASE \/ LocalTransition \/ Command \/ InstallHook \/ LinkChange \/ PollLink
             \/ PublishLink \/ ListStore \/ UNCHANGED vars
             \/ \E v \in BOOLEAN : PublishGrab(v)
    <3>1. UNCHANGED <<session, end, retained>>
      BY <2>8 DEF LocalTransition, Command, InstallHook, LinkChange, PollLink, PublishLink,
                  ListStore, PublishGrab, vars
    <3> QED  BY <2>1, <2>2, <3>1 DEF StatusInv, end, session
  <2> QED  BY <1>6, <2>4, <2>5, <2>6, <2>7, <2>8 DEF Next, OnConnect
<1> QED  BY <1>2, <1>3, <1>4, <1>5, <1>6
-----------------------------------------------------------------------------
(* The grab state. *)

NoNotifier(v) == ~(notifiers[v] > 0)

(* Unless the latest transition met another state on its way: everything   *)
(* that may yet be said of the grab is what it is, and when no goroutine   *)
(* is left to say it, it is under way or retained.                         *)
GrabInv ==
    ~overlap =>
        /\ NoNotifier(~grabbed)
        /\ OnlySays("grab", OnOff(grabbed))
        /\ onc = "grab" => seen = grabbed
        /\ conn /\ onc \in {"idle", "alive", "link", "subscribe"} /\ NoNotifier(grabbed)
             => Coming("grab", OnOff(grabbed))

(* A transition sends a notifier after itself. *)
LEMMA GrabKept ==
  ASSUME TypeInv, GrabInv, [Next]_vars
  PROVE  GrabInv'
<1>0. /\ notifiers \in [BOOLEAN -> 0 .. MaxNotifiers] /\ grabbed \in BOOLEAN
      /\ conn \in BOOLEAN /\ seen \in BOOLEAN /\ MaxNotifiers \in Nat
      /\ MessageInv
  BY BridgeAssumption DEF TypeInv, FlagsOK, NotifiersOK, BridgeAssumption
<1>1. ASSUME NEW v \in BOOLEAN, Notify(v), grabbed' = v,
             UNCHANGED <<hook, session, client, retained>>
      PROVE  GrabInv'
  <2> SUFFICES ASSUME ~overlap'
               PROVE  GrabInv'
    BY DEF GrabInv
  <2>1. /\ hook /\ ~(notifiers[~v] > 0) /\ ~Contradicted("grab", OnOff(v))
        /\ ~(onc = "grab" /\ seen # v)
    BY <1>1 DEF Notify
  <2>2. notifiers' = [notifiers EXCEPT ![v] = notifiers[v] + 1]
    BY <1>1, <2>1 DEF Notify
  <2>3. notifiers'[v] > 0 /\ ~(notifiers'[~v] > 0)
    BY <1>0, <2>1, <2>2
  <2>4. OnlySays("grab", OnOff(v))'
    BY <1>0, <1>1, <2>1, Uncontradicted
  <2>5. OnlySays("grab", OnOff(grabbed))'
    BY <1>1, <2>4 DEF OnlySays, OnOff
  <2>6. onc' = "grab" => seen' = grabbed'
    BY <1>1, <2>1 DEF session
  <2> QED  BY <1>1, <2>3, <2>5, <2>6 DEF GrabInv, NoNotifier
<1>2. CASE LocalTransition \/ Command
  <2>1. \E v \in BOOLEAN : Notify(v) /\ grabbed' = v
    BY <1>0, <1>2 DEF LocalTransition, Command, Transition
  <2>2. UNCHANGED <<hook, session, client, retained>>
    BY <1>2 DEF LocalTransition, Command
  <2> QED  BY <1>1, <2>1, <2>2
<1>3. ASSUME NEW v \in BOOLEAN, PublishGrab(v)
      PROVE  GrabInv'
  <2> SUFFICES ASSUME ~overlap'
               PROVE  GrabInv'
    BY DEF GrabInv
  <2>1. /\ notifiers[v] > 0 /\ notifiers' = [notifiers EXCEPT ![v] = notifiers[v] - 1]
        /\ Says("grab", OnOff(v)) /\ UNCHANGED <<grabbed, overlap, session>>
    BY <1>3 DEF PublishGrab, Says, session
  <2>2. v = grabbed /\ OnlySays("grab", OnOff(v))
    <3>1. v = grabbed
      BY <1>0, <2>1 DEF GrabInv, NoNotifier
    <3> QED  BY <2>1, <3>1, Zenon DEF GrabInv
  <2>3. /\ OnlySays("grab", OnOff(v))' /\ (conn => Coming("grab", OnOff(v))')
    BY <1>0, <2>1, <2>2, Payloads, SaidOn
  <2>4. OnlySays("grab", OnOff(grabbed))' /\ (conn => Coming("grab", OnOff(grabbed))')
    BY <2>1, <2>2, <2>3 DEF OnlySays, Coming, OnOff
  <2>5. NoNotifier(~grabbed)'
    BY <1>0, <2>1, <2>2 DEF GrabInv, NoNotifier
  <2> QED  BY <2>1, <2>4, <2>5 DEF GrabInv, session
<1>4. CASE OnConnectGrab
  <2> SUFFICES ASSUME ~overlap'
               PROVE  GrabInv'
    BY DEF GrabInv
  <2>1. /\ onc = "grab" /\ onc' = "alive" /\ Says("grab", OnOff(seen))
        /\ UNCHANGED <<control, conn>>
    BY <1>4 DEF OnConnectGrab, Says
  <2>2. /\ seen = grabbed /\ UNCHANGED <<grabbed, notifiers, overlap>>
        /\ NoNotifier(~grabbed) /\ OnlySays("grab", OnOff(grabbed))
    BY <2>1 DEF GrabInv, control
  <2>3. PICK v \in BOOLEAN : v = grabbed
    BY <1>0
  <2>4. Says("grab", OnOff(v)) /\ OnlySays("grab", OnOff(v))
    BY <2>1, <2>2, <2>3, Zenon
  <2>5. OnlySays("grab", OnOff(v))' /\ (conn => Coming("grab", OnOff(v))')
    BY <1>0, <2>4, Payloads, SaidOn
  <2>6. OnlySays("grab", OnOff(grabbed))' /\ (conn => Coming("grab", OnOff(grabbed))')
    BY <2>2, <2>3, <2>5 DEF OnlySays, Coming, OnOff
  <2> QED  BY <2>1, <2>2, <2>6 DEF GrabInv, NoNotifier
<1>5. CASE OnConnectReadGrab
  <2> SUFFICES ASSUME ~overlap'
               PROVE  GrabInv'
    BY DEF GrabInv
  <2>1. /\ ~(notifiers[~grabbed] > 0) /\ ~Contradicted("grab", OnOff(grabbed))
        /\ seen' = grabbed /\ onc' = "grab"
        /\ UNCHANGED <<grabbed, notifiers, client>>
    BY <1>5 DEF OnConnectReadGrab
  <2>2. OnlySays("grab", OnOff(grabbed))'
    <3>1. PICK v \in BOOLEAN : v = grabbed
      BY <1>0
    <3>2. OnlySays("grab", OnOff(v))'
      BY <1>0, <2>1, <3>1, Uncontradicted
    <3> QED  BY <2>1, <3>1, <3>2 DEF OnlySays, OnOff
  <2> QED  BY <2>1, <2>2 DEF GrabInv, NoNotifier
<1>6. CASE /\ ~LocalTransition /\ ~Command /\ ~OnConnectReadGrab /\ ~SayGrab
  <2> SUFFICES ASSUME ~overlap'
               PROVE  GrabInv'
    BY DEF GrabInv
  <2>1. UNCHANGED <<grabbed, notifiers, overlap>>
    BY <1>6 DEF Next, OnConnect, SayGrab, control, InstallHook, LinkChange, PollLink,
       PublishLink, Connect, ListStore, Resume, OnConnectStatus, OnConnectReadLink,
       OnConnectLink, OnConnectSubscribe, Deliver, ConnectionLost, ClosePublish,
       CloseDisconnect, vars
  <2>2. /\ NoNotifier(~grabbed) /\ OnlySays("grab", OnOff(grabbed))
        /\ onc = "grab" => seen = grabbed
        /\ conn /\ onc \in {"idle", "alive", "link", "subscribe"} /\ NoNotifier(grabbed)
             => Coming("grab", OnOff(grabbed))
    BY <2>1 DEF GrabInv
  <2>3. PICK v \in BOOLEAN : v = grabbed
    BY <1>0
  <2>4. /\ OnlySays("grab", OnOff(v))'
        /\ ~ConnectionLost /\ Coming("grab", OnOff(v)) => Coming("grab", OnOff(v))'
    <3>1. OnlySays("grab", OnOff(v))
      BY <2>2, <2>3, Zenon
    <3> QED  BY <1>6, <3>1, TopicKept
  <2>5. /\ OnlySays("grab", OnOff(grabbed))'
        /\ ~ConnectionLost /\ Coming("grab", OnOff(grabbed))
             => Coming("grab", OnOff(grabbed))'
    BY <2>1, <2>3, <2>4 DEF OnlySays, Coming, OnOff
  <2>6. (NoNotifier(~grabbed))' /\ (NoNotifier(grabbed) <=> NoNotifier(grabbed)')
    BY <2>1, <2>2 DEF NoNotifier
  <2>7. CASE conn' = FALSE \/ onc' \in {"status", "isGrabbed"}
    <3>1. onc' = "grab" => onc = "grab" /\ seen' = seen
      BY <1>6, <2>7 DEF Next, OnConnect, SayGrab, session, LocalTransition, InstallHook,
         LinkChange, PollLink, PublishLink, Connect, ListStore, Resume, OnConnectStatus,
         OnConnectReadLink, OnConnectLink, OnConnectSubscribe, Deliver, ConnectionLost,
         ClosePublish, CloseDisconnect, vars
    <3> QED  BY <2>1, <2>2, <2>5, <2>6, <2>7, <3>1 DEF GrabInv
  <2>8. CASE UNCHANGED session /\ ~ConnectionLost
    BY <2>1, <2>2, <2>5, <2>6, <2>8 DEF GrabInv, session
  <2>9. CASE OnConnectReadLink \/ OnConnectLink \/ OnConnectSubscribe
    <3>1. /\ onc \in {"alive", "link", "subscribe"}
          /\ onc' \in {"link", "subscribe", "idle"}
          /\ UNCHANGED conn
      BY <2>9 DEF OnConnectReadLink, OnConnectLink, OnConnectSubscribe
    <3>2. CASE ConnectionLost
      BY <2>7, <3>2 DEF ConnectionLost
    <3>3. CASE ~ConnectionLost
      BY <2>1, <2>2, <2>5, <2>6, <3>1, <3>3 DEF GrabInv
    <3> QED  BY <3>2, <3>3
  <2>10. \/ conn' = FALSE \/ onc' \in {"status", "isGrabbed"}
         \/ UNCHANGED session /\ ~ConnectionLost
         \/ OnConnectReadLink \/ OnConnectLink \/ OnConnectSubscribe
    BY <1>6 DEF Next, OnConnect, SayGrab, session, InstallHook,
         LinkChange, PollLink, PublishLink, Connect, ListStore, Resume, OnConnectStatus,
         Deliver, ConnectionLost, ClosePublish, CloseDisconnect, vars
  <2> QED  BY <2>7, <2>8, <2>9, <2>10
<1> QED  BY <1>2, <1>3, <1>4, <1>5, <1>6 DEF SayGrab
-----------------------------------------------------------------------------
(* The link state. *)

(* Unless the watcher and onConnect crossed: all that may yet be said of   *)
(* the link is what the watcher knows, and when neither of them has        *)
(* anything to say, it is under way or retained.                           *)
LinkInv ==
    hook /\ ~crossed =>
        /\ OnlySays("link", Online(last))
        /\ onc = "link" => seen = last
        /\ conn /\ ~linkDue /\ onc \in {"idle", "subscribe"} => Coming("link", Online(last))

(* The watcher says what it knows; onConnect says the same, or crosses it. *)
LEMMA LinkKept ==
  ASSUME TypeInv, LinkInv, [Next]_vars
  PROVE  LinkInv'
<1>0. /\ alive \in BOOLEAN /\ last \in BOOLEAN /\ seen \in BOOLEAN /\ conn \in BOOLEAN
      /\ MessageInv
  BY DEF TypeInv, FlagsOK
<1> SUFFICES ASSUME hook', ~crossed'
             PROVE  LinkInv'
  BY DEF LinkInv
<1>1. ASSUME NEW v \in BOOLEAN, OnlySays("link", Online(v))', last' = v
      PROVE  OnlySays("link", Online(last))'
  BY <1>1 DEF OnlySays, Online
<1>2. CASE InstallHook \/ PollLink
  <2>1. /\ last' = alive /\ linkDue' = TRUE /\ UNCHANGED <<client, session>>
        /\ ~Contradicted("link", Online(alive)) /\ ~(onc = "link" /\ seen # alive)
    BY <1>2 DEF InstallHook, PollLink, WatcherSees
  <2>2. PICK v \in BOOLEAN : v = alive
    BY <1>0
  <2>3. OnlySays("link", Online(v))'
    BY <1>0, <2>1, <2>2, Uncontradicted
  <2> QED  BY <1>1, <2>1, <2>2, <2>3 DEF LinkInv, session
<1>3. CASE OnConnectReadLink
  <2>1. /\ hook /\ alive = last /\ ~Contradicted("link", Online(alive))
        /\ seen' = alive /\ onc' = "link" /\ UNCHANGED <<last, client>>
    BY <1>3 DEF OnConnectReadLink, control
  <2>2. PICK v \in BOOLEAN : v = alive
    BY <1>0
  <2>3. OnlySays("link", Online(v))'
    BY <1>0, <2>1, <2>2, Uncontradicted
  <2> QED  BY <1>1, <2>1, <2>2, <2>3 DEF LinkInv
<1>4. CASE SayLink
  <2>1. UNCHANGED <<hook, crossed, last, conn>>
    BY <1>4 DEF SayLink, PublishLink, OnConnectLink, control, link, session
  <2>2. /\ OnlySays("link", Online(last))
        /\ onc = "link" => seen = last
    BY <2>1 DEF LinkInv
  <2>3. onc' = "link" => onc = "link" /\ seen' = seen
    BY <1>4 DEF SayLink, PublishLink, OnConnectLink, session
  <2>4. PICK v \in BOOLEAN : v = last
    BY <1>0
  <2>5. Says("link", Online(v)) /\ OnlySays("link", Online(v))
    <3>1. Says("link", Online(last))
      <4>1. CASE PublishLink
        BY <4>1, MessageSteps
      <4>2. CASE OnConnectLink
        <5>1. Says("link", Online(seen)) /\ onc = "link"
          BY <4>2, MessageSteps DEF OnConnectLink
        <5>2. seen = last
          BY <2>2, <5>1
        <5> QED  BY <5>1, <5>2, Zenon
      <4> QED  BY <1>4, <4>1, <4>2 DEF SayLink
    <3> QED  BY <2>2, <2>4, <3>1, Zenon
  <2>6. OnlySays("link", Online(v))' /\ (conn => Coming("link", Online(v))')
    BY <1>0, <2>5, Payloads, SaidOn
  <2>7. OnlySays("link", Online(last))' /\ (conn => Coming("link", Online(last))')
    BY <2>1, <2>4, <2>6 DEF OnlySays, Coming, Online
  <2> QED  BY <2>1, <2>2, <2>3, <2>7 DEF LinkInv
<1>5. CASE ~InstallHook /\ ~PollLink /\ ~OnConnectReadLink /\ ~SayLink
  <2>1. UNCHANGED <<hook, last, linkDue, crossed>>
    BY <1>5 DEF Next, OnConnect, SayLink, control, link, LocalTransition, Command,
       PublishGrab, LinkChange, Connect, ListStore, Resume, OnConnectStatus,
       OnConnectReadGrab, OnConnectGrab, OnConnectSubscribe, Deliver, ConnectionLost,
       ClosePublish, CloseDisconnect, vars
  <2>2. /\ OnlySays("link", Online(last))
        /\ onc = "link" => seen = last
        /\ conn /\ ~linkDue /\ onc \in {"idle", "subscribe"} => Coming("link", Online(last))
    BY <2>1 DEF LinkInv
  <2>3. PICK v \in BOOLEAN : v = last
    BY <1>0
  <2>4. /\ OnlySays("link", Online(v))'
        /\ ~ConnectionLost /\ Coming("link", Online(v)) => Coming("link", Online(v))'
    <3>1. OnlySays("link", Online(v))
      BY <2>2, <2>3, Zenon
    <3> QED  BY <1>5, <3>1, TopicKept
  <2>5. /\ OnlySays("link", Online(last))'
        /\ ~ConnectionLost /\ Coming("link", Online(last)) => Coming("link", Online(last))'
    BY <2>1, <2>3, <2>4 DEF OnlySays, Coming, Online
  <2>6. CASE conn' = FALSE \/ onc' \in {"status", "isGrabbed", "grab", "alive"}
    <3>1. onc' = "link" => onc = "link" /\ seen' = seen
      BY <1>5, <2>6 DEF Next, OnConnect, SayLink, session, LocalTransition, Command,
         PublishGrab, LinkChange, Connect, ListStore, Resume, OnConnectStatus,
         OnConnectReadGrab, OnConnectGrab, OnConnectSubscribe, Deliver, ConnectionLost,
         ClosePublish, CloseDisconnect, vars
    <3> QED  BY <2>1, <2>2, <2>5, <2>6, <3>1 DEF LinkInv
  <2>7. CASE UNCHANGED session /\ ~ConnectionLost
    BY <2>1, <2>2, <2>5, <2>7 DEF LinkInv, session
  <2>8. CASE OnConnectSubscribe
    <3>1. onc = "subscribe" /\ onc' = "idle" /\ UNCHANGED conn
      BY <2>8 DEF OnConnectSubscribe
    <3>2. CASE ConnectionLost
      BY <2>6, <3>2 DEF ConnectionLost
    <3>3. CASE ~ConnectionLost
      BY <2>1, <2>2, <2>5, <3>1, <3>3 DEF LinkInv
    <3> QED  BY <3>2, <3>3
  <2>9. \/ conn' = FALSE \/ onc' \in {"status", "isGrabbed", "grab", "alive"}
        \/ UNCHANGED session /\ ~ConnectionLost
        \/ OnConnectSubscribe
    BY <1>5 DEF Next, OnConnect, SayLink, session, LocalTransition, Command, PublishGrab,
       LinkChange, Connect, ListStore, Resume, OnConnectStatus, OnConnectReadGrab,
       OnConnectGrab, Deliver, ConnectionLost, ClosePublish, CloseDisconnect, vars
  <2> QED  BY <2>6, <2>7, <2>8, <2>9
<1> QED  BY <1>2, <1>3, <1>4, <1>5

-----------------------------------------------------------------------------
(* The inductive invariant and what follows from it. *)

BridgeInv == TypeInv /\ StatusInv /\ GrabInv /\ LinkInv

(* The four parts hold at the start and are kept together. *)
LEMMA BridgeInvariance == Spec => []BridgeInv
<1>1. Init => BridgeInv
  <2> SUFFICES ASSUME Init
               PROVE  BridgeInv
    OBVIOUS
  <2>1. TypeInv
    <3>1. MessageInv
      BY DEF Init, MessageInv, RetainedOK, GrabStates, LinkStates
    <3>2. FlagsOK
      BY DEF Init, FlagsOK
    <3>3. NotifiersOK
      BY BridgeAssumption DEF Init, NotifiersOK, BridgeAssumption
    <3> QED  BY <3>1, <3>2, <3>3 DEF Init, TypeInv, StagesOK, Stages
  <2>2. \A m : ~IsPending(m)
    <3>1. Len(out) = 0 /\ 1 .. 0 = {} /\ stored = {} /\ toResume = {}
      BY DEF Init
    <3> QED  BY <3>1 DEF IsPending, UnderWay
  <2>3. StatusInv
    BY <2>2 DEF Init, StatusInv, OnlySays
  <2>4. GrabInv
    <3>1. NoNotifier(~grabbed) /\ ~conn /\ onc = "idle"
      BY DEF Init, NoNotifier
    <3> QED  BY <2>2, <3>1 DEF GrabInv, OnlySays
  <2>5. LinkInv
    BY DEF Init, LinkInv
  <2> QED  BY <2>1, <2>3, <2>4, <2>5 DEF BridgeInv
<1>2. BridgeInv /\ [Next]_vars => BridgeInv'
  BY TypesKept, StatusKept, GrabKept, LinkKept DEF BridgeInv
<1> QED  BY <1>1, <1>2, PTL DEF Spec

(* Every variable keeps its type, and whatever is under way or stored is   *)
(* a message of its topic.                                                 *)
THEOREM TypeCorrect == Spec => []TypeOK
<1>1. BridgeInv => TypeOK
  BY DEF BridgeInv, TypeInv, FlagsOK, StagesOK, NotifiersOK, MessageInv, RetainedOK,
         Stages, TypeOK
<1> QED  BY <1>1, BridgeInvariance, PTL

(* A bridge at rest is shown as available, and one that has stopped is     *)
(* not, whatever broke, reconnected and was sent twice before.             *)
THEOREM AvailabilityRight == Spec => []AvailabilityShown
<1>1. BridgeInv => AvailabilityShown
  <2> SUFFICES ASSUME BridgeInv
               PROVE  AvailabilityShown
    OBVIOUS
  <2>1. Quiet => retained.status = "online"
    BY NewestAtRest DEF BridgeInv, StatusInv, Quiet
  <2>2. run = "off" /\ ~late => retained.status = "offline"
    BY NewestAtRest DEF BridgeInv, TypeInv, MessageInv, StatusInv
  <2> QED  BY <2>1, <2>2 DEF AvailabilityShown
<1> QED  BY <1>1, BridgeInvariance, PTL

(* At rest nothing is under way, so what was coming has come. *)
LEMMA ComeAtRest ==
  ASSUME out = <<>>, NEW t, NEW p, Coming(t, p)
  PROVE  retained[t] = p
<1>1. Len(out) = 0 /\ 1 .. 0 = {}
  OBVIOUS
<1> QED  BY <1>1 DEF Coming, UnderWay

(* The switch shows the real state once the bridge is at rest, whatever    *)
(* was stored and sent once more, unless at the latest transition or at    *)
(* onConnect's question another state was on its way.                      *)
THEOREM SwitchRight == Spec => []GrabShownUnlessOverlap
<1>1. BridgeInv => GrabShownUnlessOverlap
  <2> SUFFICES ASSUME BridgeInv, Quiet, ~overlap
               PROVE  retained.grab = OnOff(grabbed)
    BY DEF GrabShownUnlessOverlap
  <2>1. NoNotifier(grabbed) /\ conn /\ onc = "idle" /\ out = <<>>
    BY DEF Quiet, NoNotifier, BridgeInv, TypeInv, FlagsOK
  <2>2. Coming("grab", OnOff(grabbed))
    BY <2>1 DEF BridgeInv, GrabInv
  <2> QED  BY <2>1, <2>2, ComeAtRest
<1> QED  BY <1>1, BridgeInvariance, PTL

(* The link sensor shows the real link once the bridge is at rest, unless  *)
(* the watcher, onConnect or the store crossed one another.                *)
THEOREM SensorRight == Spec => []LinkShownUnlessCrossed
<1>1. BridgeInv => LinkShownUnlessCrossed
  <2> SUFFICES ASSUME BridgeInv, Quiet, ~crossed
               PROVE  retained.link = Online(alive)
    BY DEF LinkShownUnlessCrossed
  <2>1. conn /\ onc = "idle" /\ out = <<>> /\ hook /\ ~linkDue /\ last = alive
    BY DEF Quiet
  <2>2. Coming("link", Online(last))
    BY <2>1 DEF BridgeInv, LinkInv
  <2> QED  BY <2>1, <2>2, ComeAtRest
<1> QED  BY <1>1, BridgeInvariance, PTL
===============================================================================
