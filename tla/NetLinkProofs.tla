----------------------------- MODULE NetLinkProofs -----------------------------
(***************************************************************************)
(* The TCP transport, for any number of connections, of frames, of         *)
(* disturbances, and any backlog.                                          *)
(*                                                                         *)
(* NoSocketLeak and ConnIsWatched are inductive only together: a reader    *)
(* closes the socket it watched, and the one the sink writes to is         *)
(* watched.  InOrder rests on where the frames are: those of the           *)
(* connection that is served come before those that wait in the backlog,   *)
(* which are in its order, and the sink writes to the last of them.        *)
(***************************************************************************)
EXTENDS NetLink, TLAPS, SequenceTheorems

Live(c) == server[c] \in {"queued", "served"}

Increasing(s) == \A i, j \in 1 .. Len(s) : i < j => s[i] < s[j]

Before(c, d) == \A i \in 1 .. Len(pipe[c]), j \in 1 .. Len(pipe[d]) :
                    pipe[c][i] < pipe[d][j]

(* The backlog holds the connections that wait, each once. *)
QueueIsBacklog ==
    /\ \A c \in Conn : server[c] = "queued" <=> \E i \in 1 .. Len(queue) : queue[i] = c
    /\ \A i, j \in 1 .. Len(queue) : queue[i] = queue[j] => i = j

OneServed == \A c, d \in Conn : server[c] = "served" /\ server[d] = "served" => c = d

(* What a connection holds was written after what the bridge has read.     *)
PipesAhead ==
    /\ lastSeen <= sent
    /\ \A c \in Conn : Live(c) =>
          /\ Increasing(pipe[c])
          /\ \A i \in 1 .. Len(pipe[c]) : lastSeen < pipe[c][i] /\ pipe[c][i] <= sent

ServedFirst ==
    \A c, d \in Conn : server[c] = "served" /\ server[d] = "queued" => Before(c, d)

BacklogInOrder ==
    \A i, j \in 1 .. Len(queue) : i < j => Before(queue[i], queue[j])

(* The sink writes to the last connection of them all. *)
ConnIsLast ==
    conn # NoConn =>
        /\ server[conn] # "none"
        /\ server[conn] = "queued" => queue[Len(queue)] = conn
        /\ server[conn] = "served" => queue = <<>>

OrderInv == /\ QueueIsBacklog /\ OneServed /\ PipesAhead
            /\ ServedFirst /\ BacklogInOrder /\ ConnIsLast

IInv == TypeOK /\ NoSocketLeak /\ ConnIsWatched /\ OrderInv

-----------------------------------------------------------------------------
(* Nothing is connected at first. *)
LEMMA InitIInv == Init => IInv
<1> SUFFICES ASSUME Init
             PROVE  IInv
  OBVIOUS
<1>1. TypeOK
  <2>1. 0 \in 0 .. MaxDisturb /\ 0 \in 0 .. MaxFrames
    BY NetAssumption DEF NetAssumption
  <2>2. queue \in Seq(Conn) /\ pipe \in [Conn -> Seq(Nat)]
    BY EmptySeq DEF Init
  <2> QED  BY <2>1, <2>2 DEF Init, W!Init, TypeOK
<1>2. NoSocketLeak /\ ConnIsWatched
  BY DEF Init, NoSocketLeak, ConnIsWatched
<1>3. OrderInv
  BY DEF Init, OrderInv, QueueIsBacklog, OneServed, PipesAhead, ServedFirst,
         BacklogInOrder, ConnIsLast, Live
<1> QED  BY <1>1, <1>2, <1>3 DEF IInv

(* What is left of a sequence has its first elements. *)
LEMMA PrefixIs ==
  ASSUME NEW s \in Seq(Nat), NEW r \in Prefixes(s)
  PROVE  /\ r \in Seq(Nat) /\ Len(r) \in 0 .. Len(s)
         /\ \A i \in 1 .. Len(r) : r[i] = s[i]
<1>1. PICK n \in 0 .. Len(s) : r = SubSeq(s, 1, n)
  BY DEF Prefixes
<1>2. n \in Nat /\ 1 .. n \subseteq 1 .. Len(s)
  BY LenProperties
<1> QED  BY <1>1, <1>2, LenProperties, ElementOfSeq

(* No pipe holds more than it did. *)
Shrinks ==
    /\ pipe' \in [Conn -> Seq(Nat)]
    /\ \A c \in Conn : /\ Len(pipe'[c]) \in 0 .. Len(pipe[c])
                       /\ \A i \in 1 .. Len(pipe'[c]) : pipe'[c][i] = pipe[c][i]

(* Closing a socket cuts its pipe off and adds nothing to any. *)
LEMMA ClosingShrinks ==
  ASSUME TypeOK, NEW c \in Conn, CloseSocket(c)
  PROVE  /\ Shrinks
         /\ client' = [client EXCEPT ![c] = IF @ = "open" THEN "closed" ELSE @]
         /\ fin' \in [Conn -> BOOLEAN]
<1>0. up \in BOOLEAN /\ pipe[c] \in Seq(Nat)
  BY DEF TypeOK, up, W!Up
<1>1. CASE client[c] = "open"
  <2>1. PICK rest \in Prefixes(pipe[c]) : pipe' = [pipe EXCEPT ![c] = rest]
    BY <1>1 DEF CloseSocket
  <2>2. /\ rest \in Seq(Nat) /\ Len(rest) \in 0 .. Len(pipe[c])
        /\ \A i \in 1 .. Len(rest) : rest[i] = pipe[c][i]
    BY <1>0, PrefixIs
  <2>3. Shrinks
    BY <2>1, <2>2, LenProperties DEF TypeOK, Shrinks
  <2> QED  BY <1>0, <1>1, <2>3 DEF CloseSocket, TypeOK
<1>2. CASE client[c] # "open"
  BY <1>2, LenProperties DEF CloseSocket, Shrinks, TypeOK, stream
<1> QED  BY <1>1, <1>2

-----------------------------------------------------------------------------
(* Where the frames are. *)

(* A step after which nothing is ahead that was not: connections may end,  *)
(* pipes may lose their last frames, and the sink may give its up.         *)
Dwindles ==
    /\ UNCHANGED <<queue, sent, lastSeen>>
    /\ Shrinks /\ conn' \in {conn, NoConn}
    /\ \A c \in Conn : server'[c] # server[c] => server[c] = "served" /\ server'[c] = "gone"

(* What is cut off was not out of order. *)
LEMMA DwindlingKeepsOrder ==
  ASSUME TypeOK, OrderInv, Dwindles
  PROVE  OrderInv'
<1> USE DEF Dwindles
<1>0. \A c \in Conn : \A i \in 1 .. Len(pipe'[c]) :
         i \in 1 .. Len(pipe[c]) /\ pipe'[c][i] = pipe[c][i]
  <2> TAKE c \in Conn
  <2>1. Len(pipe[c]) \in Nat /\ Len(pipe'[c]) \in 0 .. Len(pipe[c])
    BY LenProperties DEF Shrinks, TypeOK
  <2> QED  BY <2>1 DEF Shrinks
<1>1. \A c \in Conn : /\ server'[c] = "served" => server[c] = "served"
                      /\ server'[c] = "queued" <=> server[c] = "queued"
                      /\ Live(c)' => Live(c)
  BY DEF Live
<1>2. /\ \A c \in Conn : Increasing(pipe[c]) => Increasing(pipe'[c])
      /\ \A c, d \in Conn : Before(c, d) => Before(c, d)'
  <2>1. ASSUME NEW c \in Conn, Increasing(pipe[c])
        PROVE  Increasing(pipe'[c])
    BY <1>0, <2>1 DEF Increasing
  <2>2. ASSUME NEW c \in Conn, NEW d \in Conn, Before(c, d)
        PROVE  Before(c, d)'
    BY <1>0, <2>2 DEF Before
  <2> QED  BY <2>1, <2>2
<1>3. QueueIsBacklog' /\ OneServed'
  BY <1>1 DEF OrderInv, QueueIsBacklog, OneServed
<1>4. PipesAhead'
  BY <1>0, <1>1, <1>2 DEF OrderInv, PipesAhead
<1>5. ServedFirst'
  BY <1>1, <1>2 DEF OrderInv, ServedFirst
<1>6. BacklogInOrder'
  <2>1. \A i \in 1 .. Len(queue) : queue[i] \in Conn
    BY ElementOfSeq DEF TypeOK
  <2> QED  BY <1>2, <2>1 DEF OrderInv, BacklogInOrder
<1>7. ConnIsLast'
  BY <1>1 DEF OrderInv, ConnIsLast, TypeOK
<1> QED  BY <1>3, <1>4, <1>5, <1>6, <1>7 DEF OrderInv

(* The head of the backlog is next. *)
LEMMA AcceptKeepsOrder ==
  ASSUME TypeOK, OrderInv, Accept
  PROVE  OrderInv' /\ queue' \in Seq(Conn) /\ Head(queue) \in Conn
<1> DEFINE h == Head(queue)
<1>1. /\ Len(queue) \in Nat \ {0} /\ Len(queue') = Len(queue) - 1
      /\ queue[1] = h /\ h \in Conn /\ queue' \in Seq(Conn)
      /\ \A i \in 1 .. Len(queue) : queue[i] \in Conn
      /\ \A i \in 1 .. Len(queue') : i + 1 \in 1 .. Len(queue) /\ queue'[i] = queue[i + 1]
      /\ \A i \in 2 .. Len(queue) : i - 1 \in 1 .. Len(queue') /\ queue'[i - 1] = queue[i]
  <2>1. queue \in Seq(Conn) /\ queue # <<>> /\ queue' = Tail(queue)
    BY DEF TypeOK, Accept
  <2>2. /\ Len(queue) \in Nat \ {0} /\ Len(queue') = Len(queue) - 1
        /\ queue[1] = h /\ h \in Conn /\ queue' \in Seq(Conn)
        /\ \A i \in 1 .. Len(queue') : queue'[i] = queue[i + 1]
    BY <2>1, HeadTailProperties, LenProperties, EmptySeq
  <2>3. \A i \in 1 .. Len(queue) : queue[i] \in Conn
    BY <2>1, ElementOfSeq
  <2> QED  BY <2>2, <2>3
<1>2. /\ server' = [server EXCEPT ![h] = "served"] /\ server[h] = "queued"
      /\ \A c \in Conn : server[c] # "served"
      /\ UNCHANGED <<conn, sent, lastSeen, pipe>>
  BY <1>1 DEF Accept, Serving, daemon, stream, OrderInv, QueueIsBacklog
<1>3. \A c \in Conn : /\ server'[c] = "served" <=> c = h
                      /\ server'[c] = "queued" <=> server[c] = "queued" /\ c # h
                      /\ Live(c)' <=> Live(c)
                      /\ server[c] # "none" => server'[c] # "none"
  BY <1>1, <1>2 DEF TypeOK, Live
<1> HIDE DEF h
<1>4. QueueIsBacklog'
  <2>1. ASSUME NEW c \in Conn
        PROVE  server'[c] = "queued" <=> \E i \in 1 .. Len(queue') : queue'[i] = c
    <3>1. ASSUME NEW i \in 1 .. Len(queue'), queue'[i] = c
          PROVE  server[c] = "queued" /\ c # h
      BY <1>1, <3>1 DEF OrderInv, QueueIsBacklog
    <3>2. ASSUME server[c] = "queued", c # h
          PROVE  \E i \in 1 .. Len(queue') : queue'[i] = c
      <4>1. PICK i \in 1 .. Len(queue) : queue[i] = c
        BY <3>2 DEF OrderInv, QueueIsBacklog
      <4>2. i \in 2 .. Len(queue)
        BY <1>1, <3>2, <4>1
      <4> QED  BY <1>1, <4>1, <4>2
    <3> QED  BY <1>3, <3>1, <3>2
  <2>2. \A i, j \in 1 .. Len(queue') : queue'[i] = queue'[j] => i = j
    BY <1>1 DEF OrderInv, QueueIsBacklog
  <2> QED  BY <2>1, <2>2 DEF QueueIsBacklog
<1>5. OneServed' /\ PipesAhead'
  BY <1>2, <1>3 DEF OrderInv, OneServed, PipesAhead
<1>6. \A c, d \in Conn : Before(c, d)' <=> Before(c, d)
  BY <1>2 DEF Before
<1>7. ServedFirst'
  <2> SUFFICES ASSUME NEW d \in Conn, server[d] = "queued", d # h
               PROVE  Before(h, d)
    BY <1>1, <1>3, <1>6 DEF ServedFirst
  <2>1. PICK j \in 1 .. Len(queue) : queue[j] = d
    BY DEF OrderInv, QueueIsBacklog
  <2>2. 1 \in 1 .. Len(queue) /\ 1 < j
    BY <1>1, <2>1
  <2> QED  BY <1>1, <2>1, <2>2 DEF OrderInv, BacklogInOrder
<1>8. BacklogInOrder'
  <2> SUFFICES ASSUME NEW i \in 1 .. Len(queue'), NEW j \in 1 .. Len(queue'), i < j
               PROVE  Before(queue'[i], queue'[j])
    BY <1>1, <1>6 DEF BacklogInOrder
  <2>1. i + 1 < j + 1
    OBVIOUS
  <2> QED  BY <1>1, <2>1 DEF OrderInv, BacklogInOrder
<1>9. ConnIsLast'
  <2> SUFFICES ASSUME conn # NoConn
               PROVE  /\ server'[conn] # "none"
                      /\ server'[conn] = "queued" => queue'[Len(queue')] = conn
                      /\ server'[conn] = "served" => queue' = <<>>
    BY <1>2 DEF ConnIsLast
  <2>0. conn \in Conn /\ server[conn] # "none"
    BY DEF TypeOK, OrderInv, ConnIsLast
  <2>1. server[conn] = "queued" => queue[Len(queue)] = conn
    BY DEF OrderInv, ConnIsLast
  <2>2. ASSUME server'[conn] = "queued"
        PROVE  queue'[Len(queue')] = conn
    <3>1. Len(queue) \in 2 .. Len(queue)
      BY <1>1, <1>3, <2>0, <2>1, <2>2
    <3> QED  BY <1>1, <1>3, <2>0, <2>1, <2>2, <3>1
  <2>3. ASSUME conn = h
        PROVE  queue' = <<>>
    <3>1. Len(queue) = 1
      BY <1>1, <1>2, <2>1, <2>3 DEF OrderInv, QueueIsBacklog
    <3> QED  BY <1>1, <3>1, EmptySeq
  <2> QED  BY <1>3, <2>0, <2>2, <2>3
<1> QED  BY <1>1, <1>4, <1>5, <1>7, <1>8, <1>9 DEF OrderInv, h

(* A new connection is the last of them. *)
LEMMA DialKeepsOrder ==
  ASSUME TypeOK, OrderInv, NEW c \in Conn, NEW frames,
         Dial(c, frames), UNCHANGED lastSeen,
         \/ frames = <<>> /\ UNCHANGED sent
         \/ frames = <<sent + 1>> /\ sent' = sent + 1
  PROVE  OrderInv' /\ queue' \in Seq(Conn) /\ pipe' \in [Conn -> Seq(Nat)]
<1>1. /\ Len(queue) \in Nat /\ Len(queue') = Len(queue) + 1
      /\ queue' \in Seq(Conn) /\ queue'[Len(queue')] = c
      /\ \A i \in 1 .. Len(queue) : queue[i] \in Conn /\ queue'[i] = queue[i]
  <2>1. queue \in Seq(Conn) /\ queue' = Append(queue, c)
    BY DEF TypeOK, Dial
  <2> QED  BY <2>1, AppendProperties, LenProperties, ElementOfSeq
<1>2. sent \in Nat /\ lastSeen \in Nat /\ lastSeen <= sent /\ sent' >= sent
  BY NetAssumption DEF NetAssumption, TypeOK, OrderInv, PipesAhead
<1>3. /\ frames \in Seq(Nat) /\ Increasing(frames)
      /\ \A i \in 1 .. Len(frames) : sent < frames[i] /\ frames[i] <= sent'
  <2>1. CASE frames = <<>>
    BY <2>1, EmptySeq DEF Increasing
  <2>2. CASE frames = <<sent + 1>> /\ sent' = sent + 1
    <3>1. frames \in Seq(Nat) /\ Len(frames) = 1 /\ frames[1] = sent + 1
      BY <1>2, <2>2
    <3> QED  BY <1>2, <2>2, <3>1 DEF Increasing
  <2> QED  BY <2>1, <2>2
<1>4. /\ conn' = c /\ server[c] \in {"none", "gone"}
      /\ server' = [server EXCEPT ![c] = "queued"]
      /\ pipe' = [pipe EXCEPT ![c] = frames]
  BY DEF Dial, Unused
<1>5. \A d \in Conn : IF d = c THEN server'[d] = "queued" /\ pipe'[d] = frames
                               ELSE server'[d] = server[d] /\ pipe'[d] = pipe[d]
  BY <1>4 DEF TypeOK
<1>6. \A i \in 1 .. Len(queue) : queue[i] # c
  BY <1>4 DEF OrderInv, QueueIsBacklog
<1>7. QueueIsBacklog'
  <2>1. ASSUME NEW d \in Conn
        PROVE  server'[d] = "queued" <=> \E i \in 1 .. Len(queue') : queue'[i] = d
    <3>1. CASE d = c
      BY <1>1, <1>5, <3>1
    <3>2. CASE d # c
      <4>1. ASSUME NEW i \in 1 .. Len(queue'), queue'[i] = d
            PROVE  server[d] = "queued"
        <5>1. i \in 1 .. Len(queue)
          BY <1>1, <3>2, <4>1
        <5> QED  BY <1>1, <4>1, <5>1 DEF OrderInv, QueueIsBacklog
      <4>2. ASSUME server[d] = "queued"
            PROVE  \E i \in 1 .. Len(queue') : queue'[i] = d
        BY <1>1, <4>2 DEF OrderInv, QueueIsBacklog
      <4> QED  BY <1>5, <3>2, <4>1, <4>2
    <3> QED  BY <3>1, <3>2
  <2>2. ASSUME NEW i \in 1 .. Len(queue'), NEW j \in 1 .. Len(queue'),
               queue'[i] = queue'[j]
        PROVE  i = j
    BY <1>1, <1>6, <2>2 DEF OrderInv, QueueIsBacklog
  <2> QED  BY <2>1, <2>2 DEF QueueIsBacklog
<1>8. OneServed'
  BY <1>5 DEF OrderInv, OneServed
<1>9. PipesAhead'
  <2>1. ASSUME NEW d \in Conn, Live(d)'
        PROVE  /\ Increasing(pipe'[d])
               /\ \A i \in 1 .. Len(pipe'[d]) :
                     lastSeen < pipe'[d][i] /\ pipe'[d][i] <= sent'
    <3>1. CASE d = c
      <4>1. pipe'[d] = frames
        BY <1>5, <3>1
      <4>2. ASSUME NEW i \in 1 .. Len(frames)
            PROVE  lastSeen < frames[i] /\ frames[i] <= sent'
        <5>1. frames[i] \in Nat
          BY <1>3, ElementOfSeq
        <5> QED  BY <1>2, <1>3, <5>1
      <4> QED  BY <1>3, <4>1, <4>2
    <3>2. CASE d # c
      <4>1. Live(d) /\ pipe'[d] = pipe[d] /\ pipe[d] \in Seq(Nat)
        BY <1>5, <2>1, <3>2 DEF Live, TypeOK
      <4>2. \A i \in 1 .. Len(pipe[d]) : pipe[d][i] \in Nat
        BY <4>1, ElementOfSeq
      <4> QED  BY <1>2, <4>1, <4>2 DEF OrderInv, PipesAhead
    <3> QED  BY <3>1, <3>2
  <2>2. lastSeen' <= sent'
    BY <1>2
  <2> QED  BY <2>1, <2>2 DEF PipesAhead
<1>10. ASSUME NEW d \in Conn, d # c, Live(d)
       PROVE  Before(d, c)'
  <2>1. pipe'[d] = pipe[d] /\ pipe[d] \in Seq(Nat) /\ pipe'[c] = frames
    BY <1>5, <1>10 DEF TypeOK
  <2>2. \A i \in 1 .. Len(pipe[d]) : pipe[d][i] \in Nat /\ pipe[d][i] <= sent
    BY <1>10, <2>1, ElementOfSeq DEF OrderInv, PipesAhead
  <2>3. \A j \in 1 .. Len(frames) : frames[j] \in Nat
    BY <1>3, ElementOfSeq
  <2> QED  BY <1>2, <1>3, <2>1, <2>2, <2>3 DEF Before
<1>11. \A d, e \in Conn : d # c /\ e # c /\ Before(d, e) => Before(d, e)'
  BY <1>5 DEF Before
<1>12. ServedFirst'
  BY <1>4, <1>5, <1>10, <1>11 DEF OrderInv, ServedFirst, Live
<1>13. BacklogInOrder'
  <2> SUFFICES ASSUME NEW i \in 1 .. Len(queue'), NEW j \in 1 .. Len(queue'), i < j
               PROVE  Before(queue[i], queue[j])'
    BY DEF BacklogInOrder
  <2>1. i \in 1 .. Len(queue) /\ queue'[i] = queue[i] /\ queue[i] # c /\ queue[i] \in Conn
    BY <1>1, <1>6
  <2>2. CASE j \in 1 .. Len(queue)
    <3>1. queue'[j] = queue[j] /\ queue[j] # c /\ queue[j] \in Conn
      BY <1>1, <1>6, <2>2
    <3>2. Before(queue[i], queue[j])
      BY <2>1, <2>2 DEF OrderInv, BacklogInOrder
    <3> QED  BY <1>11, <2>1, <3>1, <3>2 DEF Before
  <2>3. CASE j = Len(queue')
    <3>1. Live(queue[i])
      BY <2>1 DEF Live, OrderInv, QueueIsBacklog
    <3> QED  BY <1>1, <1>10, <2>1, <2>3, <3>1 DEF Before
  <2> QED  BY <1>1, <2>2, <2>3
<1>14. ConnIsLast'
  BY <1>1, <1>4, <1>5 DEF ConnIsLast
<1>15. pipe' \in [Conn -> Seq(Nat)]
  BY <1>3, <1>4 DEF TypeOK
<1> QED
  BY <1>1, <1>7, <1>8, <1>9, <1>12, <1>13, <1>14, <1>15 DEF OrderInv

(* What write adds goes behind everything there is. *)
LEMMA WriteKeepsOrder ==
  ASSUME TypeOK, OrderInv, WriteOk
  PROVE  OrderInv' /\ pipe' \in [Conn -> Seq(Nat)]
<1>1. /\ conn \in Conn /\ sent \in Nat /\ sent' = sent + 1
      /\ UNCHANGED <<conn, server, queue, lastSeen>>
  BY NetAssumption DEF NetAssumption, TypeOK, WriteOk, NextFrame, bridge
<1>2. \A c \in Conn : Live(c)' <=> Live(c)
  BY <1>1 DEF Live
<1>3. \A c \in Conn : /\ pipe[c] \in Seq(Nat)
                      /\ \A i \in 1 .. Len(pipe[c]) : pipe[c][i] \in Nat
  BY ElementOfSeq DEF TypeOK
<1>4. CASE server[conn] = "gone"
  <2>1. UNCHANGED pipe
    BY <1>4 DEF WriteOk
  <2>2. PipesAhead'
    BY <1>1, <1>2, <1>3, <2>1 DEF OrderInv, PipesAhead, TypeOK
  <2> QED
    BY <1>1, <2>1, <2>2 DEF OrderInv, QueueIsBacklog, OneServed, ServedFirst,
                            BacklogInOrder, ConnIsLast, Before, TypeOK
<1>5. CASE server[conn] # "gone"
  <2>1. pipe' = [pipe EXCEPT ![conn] = Append(@, sent + 1)]
    BY <1>5 DEF WriteOk
  <2>2. /\ pipe' \in [Conn -> Seq(Nat)]
        /\ \A c \in Conn : c # conn => pipe'[c] = pipe[c]
        /\ pipe'[conn] = Append(pipe[conn], sent + 1)
    BY <1>1, <1>3, <2>1, AppendProperties DEF TypeOK
  <2>3. /\ Len(pipe[conn]) \in Nat /\ Len(pipe'[conn]) = Len(pipe[conn]) + 1
        /\ pipe'[conn][Len(pipe'[conn])] = sent + 1
        /\ \A i \in 1 .. Len(pipe[conn]) : pipe'[conn][i] = pipe[conn][i]
    BY <1>1, <1>3, <2>2, AppendProperties, LenProperties
  <2>4. \A c \in Conn : Live(c) =>
            \A i \in 1 .. Len(pipe[c]) : lastSeen < pipe[c][i] /\ pipe[c][i] < sent + 1
    BY <1>1, <1>3 DEF OrderInv, PipesAhead
  <2>5. QueueIsBacklog' /\ OneServed' /\ ConnIsLast'
    BY <1>1 DEF OrderInv, QueueIsBacklog, OneServed, ConnIsLast
  <2>6. PipesAhead'
    <3>1. lastSeen \in Nat /\ lastSeen <= sent
      BY NetAssumption DEF NetAssumption, OrderInv, PipesAhead, TypeOK
    <3>2. ASSUME NEW c \in Conn, Live(c)
          PROVE  /\ Increasing(pipe'[c])
                 /\ \A i \in 1 .. Len(pipe'[c]) :
                       lastSeen < pipe'[c][i] /\ pipe'[c][i] <= sent + 1
      <4>1. CASE c # conn
        <5>1. pipe'[c] = pipe[c] /\ Increasing(pipe[c])
          BY <2>2, <3>2, <4>1 DEF OrderInv, PipesAhead
        <5>2. \A i \in 1 .. Len(pipe[c]) : lastSeen < pipe[c][i] /\ pipe[c][i] <= sent + 1
          BY <1>1, <1>3, <2>4, <3>1, <3>2
        <5> QED  BY <5>1, <5>2
      <4>2. CASE c = conn
        <5>1. Increasing(pipe[conn])
          BY <3>2, <4>2 DEF OrderInv, PipesAhead
        <5>2. ASSUME NEW i \in 1 .. Len(pipe'[conn])
              PROVE  \/ i \in 1 .. Len(pipe[conn]) /\ pipe'[conn][i] = pipe[conn][i]
                     \/ i = Len(pipe'[conn]) /\ pipe'[conn][i] = sent + 1
          BY <2>3
        <5>3. Increasing(pipe'[conn])
          BY <2>3, <2>4, <3>2, <4>2, <5>1, <5>2 DEF Increasing
        <5>4. \A i \in 1 .. Len(pipe'[conn]) :
                  lastSeen < pipe'[conn][i] /\ pipe'[conn][i] <= sent + 1
          BY <1>1, <1>3, <2>4, <3>1, <3>2, <4>2, <5>2
        <5> QED  BY <4>2, <5>3, <5>4
      <4> QED  BY <4>1, <4>2
    <3> QED  BY <1>1, <1>2, <3>1, <3>2 DEF PipesAhead
  <2>7. ASSUME NEW c \in Conn, NEW d \in Conn, c # conn, Live(c), Before(c, d)
        PROVE  Before(c, d)'
    <3>1. CASE d # conn
      BY <2>2, <2>7, <3>1 DEF Before
    <3>2. CASE d = conn
      <4>1. ASSUME NEW j \in 1 .. Len(pipe'[conn])
            PROVE  \/ j \in 1 .. Len(pipe[conn]) /\ pipe'[conn][j] = pipe[conn][j]
                   \/ pipe'[conn][j] = sent + 1
        BY <2>3
      <4> QED
        BY <2>2, <2>4, <2>7, <3>2, <4>1 DEF Before
    <3> QED  BY <3>1, <3>2
  <2>8. ServedFirst'
    <3>1. \A d \in Conn : server[conn] = "served" => server[d] # "queued"
      BY EmptySeq DEF OrderInv, QueueIsBacklog, ConnIsLast, WriteOk
    <3> QED
      BY <1>1, <2>7, <3>1 DEF OrderInv, ServedFirst, Live
  <2>9. BacklogInOrder'
    <3> SUFFICES ASSUME NEW i \in 1 .. Len(queue), NEW j \in 1 .. Len(queue), i < j
                 PROVE  Before(queue[i], queue[j])'
      BY <1>1 DEF BacklogInOrder
    <3>1. queue[i] \in Conn /\ queue[j] \in Conn /\ Len(queue) \in Nat
      BY ElementOfSeq, LenProperties DEF TypeOK
    <3>2. server[queue[i]] = "queued" /\ Before(queue[i], queue[j])
      BY <3>1 DEF OrderInv, QueueIsBacklog, BacklogInOrder
    <3>3. queue[i] # conn
      <4>1. queue[i] = conn => queue[Len(queue)] = queue[i]
        BY <3>2 DEF OrderInv, ConnIsLast, WriteOk
      <4>2. Len(queue) \in 1 .. Len(queue) /\ Len(queue) # i
        BY <3>1
      <4> QED  BY <4>1, <4>2 DEF OrderInv, QueueIsBacklog
    <3> QED  BY <1>1, <2>7, <3>1, <3>2, <3>3 DEF Live, Before
  <2> QED  BY <2>2, <2>5, <2>6, <2>8, <2>9 DEF OrderInv
<1> QED  BY <1>4, <1>5 DEF TypeOK

(* What recv reads is behind what it has read, and before all the rest.    *)
LEMMA RecvKeepsOrder ==
  ASSUME TypeOK, OrderInv, NEW c \in Conn, Recv(c)
  PROVE  /\ OrderInv' /\ pipe' \in [Conn -> Seq(Nat)]
         /\ lastSeen' \in Nat /\ lastSeen < lastSeen' /\ lastSeen' <= sent
<1>1. /\ server[c] = "served" /\ pipe[c] \in Seq(Nat) /\ pipe[c] # <<>>
      /\ lastSeen' = Head(pipe[c]) /\ pipe' = [pipe EXCEPT ![c] = Tail(@)]
      /\ UNCHANGED <<conn, sent, server, queue>>
  BY DEF Recv, TypeOK, daemon
<1>2. /\ Len(pipe[c]) \in Nat \ {0} /\ Len(pipe'[c]) = Len(pipe[c]) - 1
      /\ lastSeen' = pipe[c][1] /\ lastSeen' \in Nat
      /\ pipe' \in [Conn -> Seq(Nat)]
      /\ \A i \in 1 .. Len(pipe'[c]) : pipe'[c][i] = pipe[c][i + 1]
      /\ \A d \in Conn : d # c => pipe'[d] = pipe[d]
  BY <1>1, HeadTailProperties, LenProperties, EmptySeq DEF TypeOK
<1>3. \A i \in 1 .. Len(pipe'[c]) : i + 1 \in 2 .. Len(pipe[c])
  BY <1>2
<1>4. Increasing(pipe[c]) /\ lastSeen < lastSeen' /\ lastSeen' <= sent
  <2>1. 1 \in 1 .. Len(pipe[c])
    BY <1>2
  <2> QED  BY <1>1, <1>2, <2>1 DEF OrderInv, PipesAhead, Live
<1>5. QueueIsBacklog' /\ OneServed' /\ ConnIsLast'
  BY <1>1 DEF OrderInv, QueueIsBacklog, OneServed, ConnIsLast
<1>6. \A d, e \in Conn : Before(d, e) /\ e # c => Before(d, e)'
  <2> SUFFICES ASSUME NEW d \in Conn, NEW e \in Conn, Before(d, e), e # c,
                      NEW i \in 1 .. Len(pipe'[d]), NEW j \in 1 .. Len(pipe'[e])
               PROVE  pipe'[d][i] < pipe'[e][j]
    BY DEF Before
  <2>1. pipe'[e] = pipe[e]
    BY <1>2
  <2>2. CASE d = c
    <3>1. i + 1 \in 1 .. Len(pipe[c]) /\ pipe'[c][i] = pipe[c][i + 1]
      BY <1>2, <2>2
    <3> QED  BY <2>1, <2>2, <3>1 DEF Before
  <2>3. CASE d # c
    BY <1>2, <2>1, <2>3 DEF Before
  <2> QED  BY <2>2, <2>3
<1>7. ServedFirst'
  BY <1>1, <1>6 DEF OrderInv, ServedFirst
<1>8. BacklogInOrder'
  <2>1. \A i \in 1 .. Len(queue) : queue[i] \in Conn /\ queue[i] # c
    BY <1>1, ElementOfSeq DEF TypeOK, OrderInv, QueueIsBacklog
  <2> QED  BY <1>1, <1>6, <2>1 DEF OrderInv, BacklogInOrder, Before
<1>9. PipesAhead'
  <2> SUFFICES ASSUME NEW d \in Conn, Live(d)
               PROVE  /\ Increasing(pipe'[d])
                      /\ \A i \in 1 .. Len(pipe'[d]) :
                            lastSeen' < pipe'[d][i] /\ pipe'[d][i] <= sent
    BY <1>1, <1>4 DEF PipesAhead, Live
  <2>1. CASE d = c
    <3>1. 1 \in 1 .. Len(pipe[c])
      BY <1>2
    <3>2. \A i \in 2 .. Len(pipe[c]) : pipe[c][1] < pipe[c][i] /\ pipe[c][i] <= sent
      BY <1>1, <1>4, <3>1 DEF Increasing, OrderInv, PipesAhead, Live
    <3>3. Increasing(pipe'[c])
      <4> SUFFICES ASSUME NEW i \in 1 .. Len(pipe'[c]), NEW j \in 1 .. Len(pipe'[c]), i < j
                   PROVE  pipe'[c][i] < pipe'[c][j]
        BY DEF Increasing
      <4>1. Len(pipe[c]) \in Nat /\ Len(pipe'[c]) = Len(pipe[c]) - 1
            /\ pipe'[c][i] = pipe[c][i + 1] /\ pipe'[c][j] = pipe[c][j + 1]
        BY <1>2
      <4>2. i + 1 \in 1 .. Len(pipe[c]) /\ j + 1 \in 1 .. Len(pipe[c]) /\ i + 1 < j + 1
        BY <4>1
      <4> QED  BY <1>4, <4>1, <4>2 DEF Increasing
    <3> QED  BY <1>2, <1>3, <2>1, <3>2, <3>3
  <2>2. CASE d # c
    <3>1. server[d] = "queued"
      BY <1>1, <2>2 DEF OrderInv, OneServed, Live
    <3>2. Before(c, d) /\ 1 \in 1 .. Len(pipe[c])
      BY <1>1, <1>2, <3>1 DEF OrderInv, ServedFirst
    <3> QED  BY <1>2, <2>2, <3>2 DEF Before, OrderInv, PipesAhead
  <2> QED  BY <2>1, <2>2
<1> QED  BY <1>2, <1>4, <1>5, <1>7, <1>8, <1>9 DEF OrderInv

(* A bridge that resets has no connections. *)
LEMMA ResetKeepsOrder ==
  ASSUME TypeOK, OrderInv, BridgeResets
  PROVE  OrderInv'
<1>1. /\ \A c \in Conn : /\ server'[c] \notin {"queued", "served"}
                         /\ server[c] # "none" => server'[c] # "none"
      /\ queue' = <<>> /\ UNCHANGED <<conn, sent, lastSeen>>
  BY DEF BridgeResets, daemon
<1> QED
  BY <1>1, EmptySeq DEF OrderInv, QueueIsBacklog, OneServed, PipesAhead, ServedFirst,
                        BacklogInOrder, ConnIsLast, Live, TypeOK

-----------------------------------------------------------------------------
(* The sockets, and all steps together. *)

SocketInv == NoSocketLeak /\ ConnIsWatched

(* A step in which no pipe, socket or reader changes. *)
LEMMA PipesAlone ==
  ASSUME TypeOK, UNCHANGED pipe
  PROVE  Shrinks
BY LenProperties DEF Shrinks, TypeOK

(* A dial opens a socket that is the sink's and watched. *)
LEMMA DialKeepsIInv ==
  ASSUME IInv, NEW c \in Conn, NEW frames, Dial(c, frames), UNCHANGED <<world, lastSeen>>,
         \/ frames = <<>> /\ UNCHANGED sent
         \/ frames = <<sent + 1>> /\ NextFrame
  PROVE  IInv'
<1>1. OrderInv' /\ queue' \in Seq(Conn) /\ pipe' \in [Conn -> Seq(Nat)]
  BY DialKeepsOrder DEF IInv, NextFrame
<1>2. sent' \in 0 .. MaxFrames
  BY NetAssumption DEF NetAssumption, NextFrame, IInv, TypeOK
<1>3. TypeOK'
  BY <1>1, <1>2 DEF Dial, IInv, TypeOK, world, wifi
<1>4. SocketInv'
  <2>1. /\ conn = NoConn /\ conn' = c
        /\ client' = [client EXCEPT ![c] = "open"]
        /\ reader' = [reader EXCEPT ![c] = "reading"]
    BY DEF Dial
  <2> QED
    BY <2>1, NetAssumption
       DEF NetAssumption, IInv, TypeOK, SocketInv, NoSocketLeak, ConnIsWatched
<1> QED  BY <1>1, <1>3, <1>4 DEF IInv, SocketInv

(* Every step keeps the strengthened invariant. *)
LEMMA NextIInv == IInv /\ [Next]_vars => IInv'
<1> SUFFICES ASSUME IInv, [Next]_vars
             PROVE  IInv'
  OBVIOUS
<1> USE DEF world, wifi, daemon, bridge, stream
<1>0. TypeOK /\ SocketInv /\ OrderInv
  BY DEF IInv, SocketInv
<1>1. ASSUME Dwindles, TypeOK', SocketInv'
      PROVE  IInv'
  BY <1>0, <1>1, DwindlingKeepsOrder DEF IInv, SocketInv
<1>2. CASE Maintain
  <2>1. CASE \E c \in Conn : Dial(c, <<>>)
    BY <1>2, <2>1, DialKeepsIInv DEF Maintain
  <2>2. CASE DialRefused
    <3>1. Dwindles
      BY <1>0, <1>2, <2>2, PipesAlone DEF Maintain, DialRefused, Dwindles
    <3>2. TypeOK' /\ SocketInv'
      BY <1>0, <1>2, <2>2 DEF Maintain, DialRefused, TypeOK, SocketInv,
                              NoSocketLeak, ConnIsWatched
    <3> QED  BY <1>1, <3>1, <3>2
  <2> QED  BY <1>2, <2>1, <2>2 DEF Maintain
<1>3. CASE WriteOk
  <2>1. OrderInv' /\ pipe' \in [Conn -> Seq(Nat)]
    BY <1>0, <1>3, WriteKeepsOrder
  <2>2. sent' \in 0 .. MaxFrames
    BY <1>0, <1>3, NetAssumption DEF NetAssumption, WriteOk, NextFrame, TypeOK
  <2>3. TypeOK'
    BY <1>0, <1>3, <2>1, <2>2 DEF WriteOk, TypeOK
  <2>4. SocketInv'
    BY <1>0, <1>3 DEF WriteOk, SocketInv, NoSocketLeak, ConnIsWatched
  <2> QED  BY <2>1, <2>3, <2>4 DEF IInv, SocketInv
<1>4. CASE WriteFails
  <2>0. conn \in Conn /\ CloseSocket(conn)
    BY <1>0, <1>4 DEF WriteFails, TypeOK
  <2>1. /\ Shrinks /\ fin' \in [Conn -> BOOLEAN]
        /\ client' = [client EXCEPT ![conn] = IF @ = "open" THEN "closed" ELSE @]
    BY <1>0, <2>0, ClosingShrinks
  <2>2. Dwindles
    BY <1>4, <2>1 DEF WriteFails, Dwindles
  <2>3. TypeOK'
    BY <1>0, <1>4, <2>1 DEF WriteFails, TypeOK, Shrinks
  <2>4. SocketInv'
    BY <1>0, <1>4, <2>0, <2>1 DEF WriteFails, TypeOK, SocketInv, NoSocketLeak, ConnIsWatched
  <2> QED  BY <1>1, <2>2, <2>3, <2>4
<1>5. CASE WriteDials
  BY <1>5, DialKeepsIInv DEF WriteDials
<1>6. CASE WriteRefused
  <2>1. Dwindles
    BY <1>0, <1>6, PipesAlone DEF WriteRefused, DialRefused, Dwindles
  <2>2. TypeOK' /\ SocketInv'
    BY <1>0, <1>6 DEF WriteRefused, DialRefused, TypeOK, SocketInv, NoSocketLeak,
                      ConnIsWatched
  <2> QED  BY <1>1, <2>1, <2>2
<1>7. ASSUME NEW c \in Conn, ReadFails(c)
      PROVE  IInv'
  <2>1. Dwindles
    BY <1>0, <1>7, PipesAlone DEF ReadFails, Dwindles
  <2>2. TypeOK' /\ SocketInv'
    BY <1>0, <1>7 DEF ReadFails, TypeOK, SocketInv, NoSocketLeak, ConnIsWatched
  <2> QED  BY <1>1, <2>1, <2>2
<1>8. ASSUME NEW c \in Conn, ReaderForgets(c)
      PROVE  IInv'
  <2>1. Dwindles
    BY <1>0, <1>8, PipesAlone DEF ReaderForgets, Dwindles
  <2>2. TypeOK' /\ SocketInv'
    BY <1>0, <1>8 DEF ReaderForgets, TypeOK, SocketInv, NoSocketLeak, ConnIsWatched
  <2> QED  BY <1>1, <2>1, <2>2
<1>9. ASSUME NEW c \in Conn, ReaderCloses(c)
      PROVE  IInv'
  <2>1. /\ Shrinks /\ fin' \in [Conn -> BOOLEAN]
        /\ client' = [client EXCEPT ![c] = IF @ = "open" THEN "closed" ELSE @]
    BY <1>0, <1>9, ClosingShrinks DEF ReaderCloses
  <2>2. Dwindles
    BY <1>9, <2>1 DEF ReaderCloses, Dwindles
  <2>3. TypeOK'
    BY <1>0, <1>9, <2>1 DEF ReaderCloses, TypeOK, Shrinks
  <2>4. SocketInv'
    BY <1>0, <1>9, <2>1 DEF ReaderCloses, TypeOK, SocketInv, NoSocketLeak, ConnIsWatched
  <2> QED  BY <1>1, <2>2, <2>3, <2>4
<1>10. ASSUME NEW c \in Conn, Recv(c)
       PROVE  IInv'
  <2>1. /\ OrderInv' /\ pipe' \in [Conn -> Seq(Nat)]
        /\ lastSeen' \in Nat /\ lastSeen' <= sent
    BY <1>0, <1>10, RecvKeepsOrder
  <2>2. lastSeen' \in 0 .. MaxFrames
    BY <1>0, <2>1, NetAssumption DEF NetAssumption, TypeOK
  <2>3. TypeOK' /\ SocketInv'
    BY <1>0, <1>10, <2>1, <2>2 DEF Recv, TypeOK, SocketInv, NoSocketLeak, ConnIsWatched
  <2> QED  BY <2>1, <2>3 DEF IInv, SocketInv
<1>11. ASSUME NEW c \in Conn, RecvEnds(c) \/ KeepaliveFails(c)
       PROVE  IInv'
  <2>1. UNCHANGED pipe \/ pipe' = [pipe EXCEPT ![c] = <<>>]
    BY <1>11 DEF RecvEnds, KeepaliveFails
  <2>2. Shrinks /\ pipe' \in [Conn -> Seq(Nat)]
    <3>1. CASE UNCHANGED pipe
      BY <1>0, <3>1, PipesAlone DEF Shrinks
    <3>2. CASE pipe' = [pipe EXCEPT ![c] = <<>>]
      <4>1. <<>> \in Seq(Nat) /\ Len(<<>>) = 0
        BY EmptySeq
      <4>2. \A d \in Conn : Len(pipe[d]) \in Nat
        BY <1>0, LenProperties DEF TypeOK
      <4>3. pipe' \in [Conn -> Seq(Nat)] /\ \A d \in Conn :
                pipe'[d] = IF d = c THEN <<>> ELSE pipe[d]
        BY <1>0, <3>2, <4>1 DEF TypeOK
      <4> QED  BY <4>1, <4>2, <4>3 DEF Shrinks
    <3> QED  BY <2>1, <3>1, <3>2
  <2>3. Dwindles
    BY <1>0, <1>11, <2>2 DEF RecvEnds, KeepaliveFails, Dwindles, TypeOK
  <2>4. TypeOK' /\ SocketInv'
    BY <1>0, <1>11, <2>2 DEF RecvEnds, KeepaliveFails, TypeOK, SocketInv,
                             NoSocketLeak, ConnIsWatched
  <2> QED  BY <1>1, <2>3, <2>4
<1>12. CASE Accept
  <2>1. OrderInv' /\ queue' \in Seq(Conn)
    BY <1>0, <1>12, AcceptKeepsOrder
  <2>2. TypeOK' /\ SocketInv'
    BY <1>0, <1>12, <2>1 DEF Accept, TypeOK, SocketInv, NoSocketLeak, ConnIsWatched
  <2> QED  BY <2>1, <2>2 DEF IInv, SocketInv
<1>13. CASE Elapse \/ Outage \/ Recover \/ Leaves \/ Wifi \/ UNCHANGED vars
  <2>1. Dwindles
    BY <1>0, <1>13, PipesAlone DEF Elapse, Outage, Recover, Leaves, Wifi, vars, Dwindles
  <2>2. ap' \in BOOLEAN /\ station' \in {"told", "joining", "joined"}
    BY <1>0, <1>13 DEF Elapse, Outage, Recover, Leaves, Wifi, vars, TypeOK, W!Fades,
                       W!Returns, W!Leaves, W!WifiStep, W!OnStartOrDisconnected, W!OnGotIp
  <2>3. disturbs' \in 0 .. MaxDisturb
    BY <1>0, <1>13, NetAssumption
       DEF NetAssumption, Elapse, Outage, Disturb, Recover, Leaves, Wifi, vars, TypeOK
  <2>4. UNCHANGED <<conn, client, reader, server, fin, queue, pipe, sent, lastSeen>>
        /\ recent' \in BOOLEAN
    BY <1>0, <1>13 DEF Elapse, Outage, Recover, Leaves, Wifi, vars, TypeOK
  <2>5. TypeOK' /\ SocketInv'
    BY <1>0, <2>2, <2>3, <2>4 DEF TypeOK, SocketInv, NoSocketLeak, ConnIsWatched
  <2> QED  BY <1>1, <2>1, <2>5
<1>14. CASE BridgeResets
  <2>1. disturbs' \in 0 .. MaxDisturb
    BY <1>0, <1>14, NetAssumption DEF NetAssumption, BridgeResets, Disturb, TypeOK
  <2>2. TypeOK'
    BY <1>0, <1>14, <2>1, EmptySeq DEF BridgeResets, W!Restart, TypeOK
  <2>3. SocketInv'
    BY <1>0, <1>14 DEF BridgeResets, SocketInv, NoSocketLeak, ConnIsWatched
  <2> QED
    BY <1>0, <1>14, <2>2, <2>3, ResetKeepsOrder DEF IInv, SocketInv
<1>15. CASE DaemonRestarts
  <2>1. Dwindles
    BY <1>0, <1>15, PipesAlone DEF DaemonRestarts, Dwindles
  <2>2. disturbs' \in 0 .. MaxDisturb
    BY <1>0, <1>15, NetAssumption DEF NetAssumption, DaemonRestarts, Disturb, TypeOK
  <2>3. TypeOK'
    BY <1>0, <1>15, <2>2 DEF DaemonRestarts, TypeOK, up, W!Up
  <2>4. SocketInv'
    BY <1>0, <1>15 DEF DaemonRestarts, TypeOK, SocketInv, NoSocketLeak, ConnIsWatched
  <2> QED  BY <1>1, <2>1, <2>3, <2>4
<1> QED
  BY <1>2, <1>3, <1>4, <1>5, <1>6, <1>7, <1>8, <1>9, <1>10, <1>11, <1>12, <1>13,
     <1>14, <1>15
     DEF Next, Write, Reader, Serve

-----------------------------------------------------------------------------
(* The variables keep their types, and no frame is counted twice. *)
THEOREM TypeCorrect == Spec => []TypeOK
<1>1. IInv => TypeOK
  BY DEF IInv
<1> QED  BY <1>1, InitIInv, NextIInv, PTL DEF Spec

(* A socket of the daemon's is open only while the sink writes to it or    *)
(* its reader is about to close it, however connections and their ends     *)
(* overlap (write, readUntilClosed).                                       *)
THEOREM SocketsClosed == Spec => []NoSocketLeak
<1>1. IInv => NoSocketLeak
  BY DEF IInv
<1> QED  BY <1>1, InitIInv, NextIInv, PTL DEF Spec

(* The connection that the sink writes to is open and has a reader.        *)
THEOREM ConnWatched == Spec => []ConnIsWatched
<1>1. IInv => ConnIsWatched
  BY DEF IInv
<1> QED  BY <1>1, InitIInv, NextIInv, PTL DEF Spec

(* The sink gives a connection up only on evidence about that connection:  *)
(* readUntilClosed compares s.conn with its own before it forgets it.      *)
THEOREM FreshKept == Spec => FreshConnKept
<1>1. IInv /\ [Next]_vars
        => [conn # NoConn /\ conn' # conn
              => \/ reader[conn] = "failed" \/ Broken(conn)
                 \/ disturbs' # disturbs]_vars
  <2> SUFFICES ASSUME IInv, Next, conn # NoConn, conn' # conn
               PROVE  \/ reader[conn] = "failed" \/ Broken(conn)
                      \/ disturbs' # disturbs
    OBVIOUS
  <2>1. CASE DaemonRestarts
    BY <2>1 DEF DaemonRestarts, Disturb, IInv, TypeOK
  <2>2. CASE WriteFails
    BY <2>2 DEF WriteFails
  <2>3. ASSUME NEW c \in Conn, ReaderForgets(c)
        PROVE  reader[conn] = "failed"
    BY <2>3 DEF ReaderForgets
  <2>4. CASE ~DaemonRestarts /\ ~WriteFails /\ ~ \E c \in Conn : ReaderForgets(c)
    BY <2>4 DEF Next, Maintain, Dial, DialRefused, Elapse, Write, WriteOk, WriteDials,
                WriteRefused, Reader, ReadFails, ReaderCloses, Serve, Recv, RecvEnds,
                KeepaliveFails, Accept, Outage, Recover, Leaves, Wifi, BridgeResets,
                daemon
  <2> QED  BY <2>1, <2>2, <2>3, <2>4
<1> QED  BY <1>1, InitIInv, NextIInv, PTL DEF Spec, FreshConnKept

(* The bridge reads the frames in the order in which they were written, on *)
(* whatever connections they came: net_task reads a connection to its end  *)
(* before it accepts the next, and the sink writes only to its newest.     *)
THEOREM FramesInOrder == Spec => InOrder
<1>1. IInv /\ [Next]_vars => [lastSeen' # lastSeen => lastSeen' > lastSeen]_vars
  <2> SUFFICES ASSUME IInv, Next, lastSeen' # lastSeen
               PROVE  lastSeen' > lastSeen
    OBVIOUS
  <2>1. ASSUME NEW c \in Conn, Recv(c)
        PROVE  lastSeen' > lastSeen
    BY <2>1, RecvKeepsOrder DEF IInv, TypeOK
  <2>2. CASE ~ \E c \in Conn : Recv(c)
    BY <2>2 DEF Next, Maintain, Dial, DialRefused, Elapse, Write, WriteOk, WriteFails,
                WriteDials, WriteRefused, Reader, ReadFails, ReaderForgets, ReaderCloses,
                Serve, RecvEnds, KeepaliveFails, Accept, Outage, Recover, Leaves, Wifi,
                BridgeResets, DaemonRestarts, bridge
  <2> QED  BY <2>1, <2>2
<1> QED  BY <1>1, InitIInv, NextIInv, PTL DEF Spec, InOrder
=============================================================================
