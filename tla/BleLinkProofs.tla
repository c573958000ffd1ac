----------------------------- MODULE BleLinkProofs -----------------------------
(***************************************************************************)
(* What MCBleLink shows for two callers and two dialers, proved for any    *)
(* number of them, of disturbances, and with or without spurious errors:   *)
(* the safety invariants of the BLE sink against the bridge.               *)
(*                                                                         *)
(* OneDial is inductive once it is said of dialers rather than of their    *)
(* number (DialersAlike, DialingIsSet).  NoOrphanLink is not: a caller     *)
(* that has been told of a failure is about to clear s.connected, so the   *)
(* link it was told about must not have been replaced by one that counts   *)
(* on s.connected (FailureIsOld).                                          *)
(*                                                                         *)
(* Of the bridge, what its liveness properties rest on is proved: what the *)
(* controller does and what gap_event has yet to hear of always fit        *)
(* together (AirInv), so that nothing but a failed start leaves it without *)
(* advertising, and a connection's own timer runs until it has asked       *)
(* (TimerInv).                                                             *)
(***************************************************************************)
EXTENDS BleLink, TLAPS, FiniteSetTheorems, SequenceTheorems

Busy(g)   == dialer[g] # "none"
Opened(g) == dialer[g] = "opened"

DialersAlike == \A g, h \in Dialer : Busy(g) /\ Busy(h) => g = h

DialingIsSet == dialing <=> \E g \in Dialer : Busy(g)

(* A caller on its way to clear s.connected finds no link that anybody     *)
(* relies on: it has broken, or is just being dialled again.               *)
FailureIsOld ==
    linked /\ ~misled => \A c \in Caller :
        caller[c] = "failed" => \E g \in Dialer : Opened(g)

SinkTypeOK == B!TypeOK

IInv == SinkTypeOK /\ DialersAlike /\ DialingIsSet /\ FailureIsOld /\ NoOrphanLink

USE DEF sinkVars, Busy, Opened

-----------------------------------------------------------------------------
(* IInv is inductive: it holds at the start and every step keeps it. *)
LEMMA InitIInv == Init => IInv
BY DEF Init, B!Init, IInv, SinkTypeOK, B!TypeOK, DialersAlike, DialingIsSet,
       FailureIsOld, NoOrphanLink, B!NoOrphanLink

(* Every step of the sink and of BlueZ keeps the strengthened invariant;   *)
(* those of the bridge alone do not touch it.                              *)
LEMMA NextIInv == IInv /\ [Next]_vars => IInv'
<1> SUFFICES ASSUME IInv, [Next]_vars
             PROVE  IInv'
  OBVIOUS
<1> USE DEF IInv, SinkTypeOK, B!TypeOK
<1>1. CASE SinkLoses
  BY <1>1 DEF SinkLoses, B!LinkEnds, DialersAlike, DialingIsSet, FailureIsOld,
              NoOrphanLink, B!NoOrphanLink
<1>2. ASSUME NEW g \in Dialer, ScanFinds(g)
      PROVE  IInv'
  <2> USE <1>2 DEF ScanFinds, B!ScanFinds
  <2>1. SinkTypeOK' /\ DialersAlike' /\ DialingIsSet'
    BY DEF DialersAlike, DialingIsSet
  <2>2. Opened(g)'
    OBVIOUS
  <2>3. FailureIsOld' /\ NoOrphanLink'
    BY <2>2 DEF FailureIsOld, NoOrphanLink, B!NoOrphanLink
  <2> QED  BY <2>1, <2>3
<1>3. ASSUME NEW g \in Dialer, B!ConnectFails(g)
      PROVE  IInv'
  <2> USE <1>3 DEF B!ConnectFails
  <2>1. SinkTypeOK' /\ DialersAlike' /\ DialingIsSet'
    BY DEF DialersAlike, DialingIsSet
  <2>2. linked /\ ~misled' => dialer[g] = "scanning"
    OBVIOUS
  <2>3. linked /\ ~misled' => ~ \E h \in Dialer : Opened(h)
    BY <2>2 DEF DialersAlike
  <2>4. FailureIsOld' /\ NoOrphanLink'
    BY <2>2, <2>3 DEF FailureIsOld, NoOrphanLink, B!NoOrphanLink
  <2> QED  BY <2>1, <2>4
<1>4. ASSUME NEW g \in Dialer, B!ConnectSucceeds(g)
      PROVE  IInv'
  BY <1>4 DEF B!ConnectSucceeds, DialersAlike, DialingIsSet, FailureIsOld,
              NoOrphanLink, B!NoOrphanLink
<1>5. ASSUME NEW g \in Dialer, B!DialDone(g)
      PROVE  IInv'
  <2> USE <1>5 DEF B!DialDone
  <2>1. \A h \in Dialer : ~Opened(h) /\ ~Busy(h)'
    BY DEF DialersAlike
  <2> QED
    BY <2>1 DEF DialersAlike, DialingIsSet, FailureIsOld, NoOrphanLink,
                B!NoOrphanLink
<1>6. ASSUME NEW c \in Caller, Starts(c)
      PROVE  IInv'
  BY <1>6 DEF Starts, B!WriteStart, B!AliveAsk, B!At, DialersAlike,
              DialingIsSet, FailureIsOld, NoOrphanLink, B!NoOrphanLink
<1>7. ASSUME NEW c \in Caller, B!WriteOk(c) \/ B!WriteError(c) \/ B!AliveAnswer(c)
      PROVE  IInv'
  BY <1>7 DEF B!WriteOk, B!WriteError, B!AliveAnswer, B!At, DialersAlike,
              DialingIsSet, FailureIsOld, NoOrphanLink, B!NoOrphanLink
<1>8. ASSUME NEW c \in Caller, B!Disconnected(c)
      PROVE  IInv'
  <2> USE <1>8 DEF B!Disconnected, B!At
  <2>1. linked /\ ~misled => \E g \in Dialer : Opened(g)
    BY DEF FailureIsOld
  <2> QED
    BY <2>1 DEF DialersAlike, DialingIsSet, FailureIsOld, NoOrphanLink,
                B!NoOrphanLink
<1>9. ASSUME NEW c \in Caller, B!CallReconnect(c)
      PROVE  IInv'
  <2> USE <1>9 DEF B!CallReconnect, B!At, B!Reconnect
  <2>1. CASE dialing \/ connected
    BY <2>1 DEF DialersAlike, DialingIsSet, FailureIsOld, NoOrphanLink,
                B!NoOrphanLink
  <2>2. CASE ~(dialing \/ connected)
    <3>1. PICK g \in Dialer : /\ dialing' = TRUE
                              /\ dialer[g] = "none"
                              /\ dialer' = [dialer EXCEPT ![g] = "scanning"]
      BY <2>2 DEF B!StartDialer
    <3>2. \A h \in Dialer : dialer[h] = "none"
      BY <2>2 DEF DialingIsSet
    <3> QED
      BY <2>2, <3>1, <3>2 DEF DialersAlike, DialingIsSet, FailureIsOld,
                              NoOrphanLink, B!NoOrphanLink
  <2> QED  BY <2>1, <2>2
<1>10. ASSUME UNCHANGED sinkVars
       PROVE  IInv'
  BY <1>10 DEF DialersAlike, DialingIsSet, FailureIsOld, NoOrphanLink,
               B!NoOrphanLink
<1> QED
  BY <1>1, <1>2, <1>3, <1>4, <1>5, <1>6, <1>7, <1>8, <1>9, <1>10
     DEF Next, vars, BridgeLoses, ConnectRefused, ConnectEnds, Goes, B!InCall,
         Host, Timer, AdvEnds, BoardRestarts, Vanish, Return

(* One dialer at most, in the words of the set that OneDial counts.        *)
LEMMA OneDialFollows == IInv => OneDial
<1> SUFFICES ASSUME IInv
             PROVE  OneDial
  OBVIOUS
<1>0. \A S : B!Cardinality(S) = Cardinality(S)
  BY DEF B!Cardinality, Cardinality, B!IsFiniteSet, IsFiniteSet
<1>1. dialing <=> B!Dialing # {}
  BY DEF IInv, DialingIsSet, B!Dialing
<1>2. CASE B!Dialing = {}
  BY <1>0, <1>1, <1>2, FS_EmptySet DEF OneDial, B!OneDial
<1>3. CASE B!Dialing # {}
  <2>1. PICK g : B!Dialing = {g}
    BY <1>3 DEF IInv, DialersAlike, B!Dialing
  <2> QED  BY <1>0, <1>1, <2>1, FS_Singleton DEF OneDial, B!OneDial
<1> QED  BY <1>2, <1>3

-----------------------------------------------------------------------------
(* The bridge's end.  At most two events wait, the two of a connection     *)
(* that ends before gap_event has heard of it.                             *)
Waiting(ev) == <<ev>>
Brief       == <<"connect", "disconnect">>

NoSink == {<<>>, Waiting("connect")}
Over   == {Brief, Waiting("disconnect"), Waiting("failed"), Waiting("complete")}

(* The controller advertises, or has a connection, or something is waiting *)
(* that makes gap_event advertise, and never two of them at once, except   *)
(* that a connection may be news still; before ble_on_sync, and when       *)
(* advertising could not be started, there is nothing.                     *)
AirInv ==
    /\ adv => ~peer /\ events = <<>>
    /\ peer => events \in NoSink
    /\ synced = "yes" /\ ~adv /\ ~peer /\ ~mute => events \in Over
    /\ synced # "yes" => ~adv /\ ~peer /\ events = <<>>
    /\ mute => ~adv /\ ~peer /\ events = <<>>

(* A timer that runs for the connection there is, and a request that was   *)
(* made, are of a connection that gap_event has heard of.                  *)
TimerInv ==
    /\ timer = "own" \/ fast => peer
    /\ events = Waiting("connect") => timer # "own"
    /\ peer /\ events = <<>> => handle /\ (timer = "own" \/ fast)

BridgeTypeOK ==
    /\ synced \in {"no", "yes", "failed"} /\ timer \in {"off", "own", "old"}
    /\ adv \in BOOLEAN /\ mute \in BOOLEAN /\ peer \in BOOLEAN
    /\ handle \in BOOLEAN /\ fast \in BOOLEAN /\ inRange \in BOOLEAN
    /\ drops \in 0 .. MaxDrops

BridgeInv == BridgeTypeOK /\ AirInv /\ TimerInv

(* Appending to a sequence of one element.                                 *)
LEMMA AppendToOne ==
  ASSUME NEW S, NEW one \in Seq(S), Len(one) = 1, NEW y \in S
  PROVE  /\ Append(one, y) \in Seq(S) /\ Len(Append(one, y)) = 2
         /\ Append(one, y)[1] = one[1] /\ Append(one, y)[2] = y
<1>1. /\ Append(one, y) \in Seq(S)
      /\ Append(one, y) # << >>
      /\ Len(Append(one, y)) = Len(one) + 1
      /\ \A i \in 1 .. Len(one) : Append(one, y)[i] = one[i]
      /\ Append(one, y)[Len(one) + 1] = y
  BY AppendProperties, Zenon
<1> QED  BY <1>1

(* The pair, of one element and the other.                                 *)
LEMMA PairIs ==
  ASSUME NEW x, NEW y
  PROVE  Append(<<x>>, y) = <<x, y>>
<1> DEFINE S    == {x, y}
           one  == <<x>>
           two  == Append(one, y)
           pair == <<x, y>>
<1>1. one \in Seq(S) /\ Len(one) = 1 /\ one[1] = x /\ y \in S
  OBVIOUS
<1>2. pair \in Seq(S) /\ Len(pair) = 2 /\ pair[1] = x /\ pair[2] = y
  OBVIOUS
<1> HIDE DEF one, S, pair
<1>3. two \in Seq(S) /\ Len(two) = 2 /\ two[1] = one[1] /\ two[2] = y
  BY <1>1, AppendToOne
<1> HIDE DEF two
<1>4. \A i \in 1 .. 2 : two[i] = pair[i]
  BY <1>1, <1>2, <1>3
<1>5. two = pair
  BY <1>2, <1>3, <1>4, SeqEqual
<1> QED  BY <1>5 DEF two, one, pair

(* What the controller and gap_event make of the queues there can be.      *)
LEMMA Queues ==
    /\ \A ev : /\ Append(<<>>, ev) = Waiting(ev)
               /\ Waiting(ev) # <<>> /\ Waiting(ev) # Brief
               /\ Head(Waiting(ev)) = ev /\ Tail(Waiting(ev)) = <<>>
    /\ \A a, b : Waiting(a) = Waiting(b) => a = b
    /\ Append(Waiting("connect"), "disconnect") = Brief
    /\ Brief # <<>> /\ Head(Brief) = "connect" /\ Tail(Brief) = Waiting("disconnect")
<1>1. Append(Waiting("connect"), "disconnect") = Brief
  BY PairIs DEF Waiting, Brief
<1>2. \A ev : /\ Append(<<>>, ev) = Waiting(ev)
              /\ Waiting(ev) # <<>> /\ Waiting(ev) # Brief
              /\ Head(Waiting(ev)) = ev /\ Tail(Waiting(ev)) = <<>>
  BY DEF Waiting, Brief
<1>3. \A a, b : Waiting(a) = Waiting(b) => a = b
  BY DEF Waiting
<1>4. Brief # <<>> /\ Head(Brief) = "connect" /\ Tail(Brief) = Waiting("disconnect")
  BY DEF Waiting, Brief
<1> QED  BY <1>1, <1>2, <1>3, <1>4

(* Every step of the bridge keeps its invariant; those of the sink alone   *)
(* do not touch it.                                                        *)
LEMMA NextBridgeInv == BridgeInv /\ [Next]_vars => BridgeInv'
<1> SUFFICES ASSUME BridgeInv, [Next]_vars
             PROVE  BridgeInv'
  OBVIOUS
<1> USE DEF BridgeInv, BridgeTypeOK, AirInv, TimerInv, NoSink, Over
<1>d. /\ Disturb \/ UNCHANGED drops
      /\ inRange' \in BOOLEAN
  BY DEF Next, vars, peripheralVars, SinkLoses, BridgeLoses, MayEnd, ScanFinds,
         ConnectRefused, ConnectEnds, Starts, Goes, Host, Timer, AdvEnds,
         BoardRestarts, Vanish, Return, Disturb
<1>n. drops' \in 0 .. MaxDrops
  BY <1>d, BleAssumption DEF Disturb
<1>1. CASE P!Connected
  <2>1. /\ adv /\ adv' = FALSE /\ peer' = TRUE
        /\ events' = Append(events, "connect")
        /\ UNCHANGED <<synced, mute, handle, timer, fast>>
    BY <1>1 DEF P!Connected, P!Stops, P!host
  <2>2. events' = Waiting("connect")
    BY <2>1, Queues
  <2> QED  BY <2>1, <2>2, <1>d, <1>n, Queues
<1>2. CASE P!ConnectionFailed \/ P!AdvEnds
  <2>1. PICK ev \in {"failed", "complete"} :
           /\ adv /\ ~adv' /\ adv' \in BOOLEAN
           /\ events' = Append(events, ev)
           /\ UNCHANGED <<peer, synced, mute, handle, timer, fast>>
    BY <1>2 DEF P!ConnectionFailed, P!AdvEnds, P!Stops, P!host
  <2>2. events' = Waiting(ev)
    BY <2>1, Queues
  <2> QED  BY <2>1, <2>2, <1>d, <1>n, Queues
<1>3. CASE P!Lost
  BY <1>3, <1>d, <1>n, Queues DEF P!Lost, P!radio
<1>4. CASE P!GapConnect
  BY <1>4, <1>d, <1>n, Queues DEF P!GapConnect, P!Event, P!radio
<1>5. CASE P!GapAdvertise
  BY <1>5, <1>d, <1>n, Queues DEF P!GapAdvertise, P!Event, P!host, P!Advertise
<1>6. CASE P!GapDisconnect
  BY <1>6, <1>d, <1>n, Queues DEF P!GapDisconnect, P!Event, P!Advertise
<1>7. CASE P!OnSync
  <2>1. CASE synced' = "yes" /\ P!Advertise
    BY <1>7, <2>1, <1>d, <1>n, Queues DEF P!OnSync, P!Advertise
  <2>2. CASE synced' = "failed" /\ UNCHANGED P!radio
    BY <1>7, <2>2, <1>d, <1>n, Queues DEF P!OnSync, P!radio
  <2> QED  BY <1>7, <2>1, <2>2 DEF P!OnSync
<1>8. CASE P!RequestFastInterval
  BY <1>8, <1>d, <1>n, Queues DEF P!RequestFastInterval, P!air, P!radio
<1>9. CASE P!Restart
  BY <1>9, <1>d, <1>n, Queues DEF P!Restart
<1>10. CASE UNCHANGED peripheralVars
  BY <1>10, <1>d, <1>n DEF peripheralVars
<1> QED
  BY <1>1, <1>2, <1>3, <1>4, <1>5, <1>6, <1>7, <1>8, <1>9, <1>10
     DEF Next, vars, SinkLoses, BridgeLoses, ScanFinds, ConnectRefused, ConnectEnds,
         Starts, Goes, Host, P!GapEvent, Timer, AdvEnds, BoardRestarts, Vanish, Return

(* A board that a sink has found is one of them.                           *)
LEMMA InitBridgeInv == Init => BridgeInv
<1> SUFFICES ASSUME Init
             PROVE  BridgeInv
  OBVIOUS
<1> USE DEF Init, P!Init
<1>0. 0 \in 0 .. MaxDrops
  BY BleAssumption
<1>1. BridgeTypeOK
  BY <1>0 DEF BridgeTypeOK
<1>2. AirInv
  BY DEF AirInv, NoSink
<1>3. TimerInv
  BY Queues DEF TimerInv
<1> QED  BY <1>1, <1>2, <1>3 DEF BridgeInv

-----------------------------------------------------------------------------
(* The sink's fields keep their types.                                     *)
THEOREM SinkTypeCorrect == Spec => []SinkTypeOK
<1>1. IInv => SinkTypeOK
  BY DEF IInv
<1> QED  BY <1>1, InitIInv, NextIInv, PTL DEF Spec

(* There is never more than one scan or dial, and s.dialing is set exactly *)
(* while there is one: reconnect tests and sets it under s.mu, and connect *)
(* clears it when it ends.                                                 *)
THEOREM OneDialAtATime == Spec => []OneDial
BY InitIInv, NextIInv, OneDialFollows, PTL DEF Spec

(* A connection that BlueZ holds is one that the sink knows of or is about *)
(* to record, up to the two ways of losing one that NoOrphanLink names:    *)
(* whatever write, Alive and connect conclude from answers that come late. *)
THEOREM NoOrphan == Spec => []NoOrphanLink
<1>1. IInv => NoOrphanLink
  BY DEF IInv
<1> QED  BY <1>1, InitIInv, NextIInv, PTL DEF Spec

-----------------------------------------------------------------------------
(* Every variable of the sink and of the bridge keeps its type, and no     *)
(* event is queued that gap_event does not handle.                         *)
THEOREM TypeCorrect == Spec => []TypeOK
<1>1. IInv /\ BridgeInv => TypeOK
  <2> SUFFICES ASSUME IInv, BridgeInv
               PROVE  TypeOK
    OBVIOUS
  <2>1. events \in NoSink \cup Over
    BY DEF BridgeInv, BridgeTypeOK, AirInv, NoSink
  <2>2. \A i \in DOMAIN events :
           events[i] \in {"connect", "failed", "complete", "disconnect"}
    BY <2>1 DEF NoSink, Over, Waiting, Brief
  <2> QED  BY <2>2 DEF IInv, SinkTypeOK, BridgeInv, BridgeTypeOK, TypeOK
<1> QED
  BY <1>1, InitIInv, NextIInv, InitBridgeInv, NextBridgeInv, PTL DEF Spec

(* A bridge that has an address can be found, has a sink, or is about to   *)
(* hear of what ended the one or the other, upon which it advertises: no   *)
(* order of connections, failures, losses and restarts leaves it silent,   *)
(* as a gap_event that forgot one of these would; only a failed            *)
(* ble_gap_adv_start does, which ble_advertise does not look at (mute).    *)
NeverSilent == synced = "yes" /\ ~mute => adv \/ peer \/ events \in Over

(* The bridge is never silent for good, unless it could not advertise.     *)
THEOREM Findable == Spec => []NeverSilent
<1>1. BridgeInv => NeverSilent
  BY DEF BridgeInv, BridgeTypeOK, AirInv, NeverSilent
<1> QED  BY <1>1, InitBridgeInv, NextBridgeInv, PTL DEF Spec

(* It never advertises while it has a sink, nor while an event waits: the  *)
(* disconnect that clears s_conn_handle is never handled in the middle of  *)
(* a later connection.                                                     *)
NeverTwo == adv => ~peer /\ events = <<>>

(* The bridge has one central at a time.                                   *)
THEOREM OneCentral == Spec => []NeverTwo
<1>1. BridgeInv => NeverTwo
  BY DEF BridgeInv, AirInv, NeverTwo
<1> QED  BY <1>1, InitBridgeInv, NextBridgeInv, PTL DEF Spec

(* A connection that gap_event has heard of has its handle in              *)
(* s_conn_handle, and has been asked for its interval or has a timer of    *)
(* its own running that will: one left over from an earlier connection is  *)
(* not taken for it (s_param_timer, which FastIntervalAsked relies on).    *)
IntervalPending == peer /\ events = <<>> => handle /\ (timer = "own" \/ fast)

(* Every connection keeps a timer of its own until it has been asked.      *)
THEOREM TimerOfItsOwn == Spec => []IntervalPending
<1>1. BridgeInv => IntervalPending
  BY DEF BridgeInv, TimerInv, IntervalPending
<1> QED  BY <1>1, InitBridgeInv, NextBridgeInv, PTL DEF Spec
=============================================================================
