----------------------------- MODULE FramingProofs -----------------------------
(***************************************************************************)
(* The firmware's parser keeps every store inside its buffers, for every   *)
(* set of transports, buffer size, table of payload lengths and sequence   *)
(* of bytes, on every interleaving of the tasks that share ota_buf.        *)
(*                                                                         *)
(* TypeOK and RoomForNextByte are inductive together: the first gives the  *)
(* numbers their range, the second says how far each counter has got.      *)
(* The wire adds that the parsers are fed bytes: every step of Framing is  *)
(* a step of FrameParser or leaves the parsers alone.                      *)
(*                                                                         *)
(* What the daemon encodes is what the parser decodes, one byte at a time: *)
(* Reading says how much of a frame a parser has.  FInv places the frames  *)
(* that were sent on the wire (Layout) and has every whole connection read *)
(* the one after those it completed (Stream).  BInv adds the transports    *)
(* that have lost a byte: until enough bytes have passed that mislead no   *)
(* parser, it may be astray or skip the rest of a frame (Resync).          *)
(***************************************************************************)
EXTENDS Framing, TLAPS, SequenceTheorems, WellFoundedInduction

IInv == TypeOK /\ RoomForNextByte

ParserType == [st : States, type : Byte, payload : Seq(Byte), need : Nat,
               csum : Byte, olen : Nat, ogot : Nat]

-----------------------------------------------------------------------------
(* A fresh parser is sound. *)
LEMMA ReadyIsSound == Ready \in ParserType /\ Room(Ready)
  BY ParserAssumption DEF Ready, ParserType, Room, States, Byte

(* A step that replaces one parser by a sound one, and leaves ota_buf an   *)
(* array of bytes, keeps the invariant.                                    *)
LEMMA BecomeSound ==
  ASSUME IInv, NEW t \in Transport, NEW p \in ParserType, Room(p),
         parser' = [parser EXCEPT ![t] = p],
         ota_buf' \in [1 .. MaxChunk -> Byte]
  PROVE  IInv'
  <1>1. parser \in [Transport -> ParserType]
    BY DEF IInv, TypeOK, ParserType
  <1>2. parser' \in [Transport -> ParserType]
    BY <1>1
  <1>3. TypeOK'
    BY <1>2 DEF TypeOK, ParserType
  <1>4. ASSUME NEW u \in Transport PROVE Room(parser'[u])
    <2>1. CASE u = t
      BY <2>1, <1>1
    <2>2. CASE u # t
      <3>1. parser'[u] = parser[u]
        BY <2>2, <1>1
      <3>2. Room(parser[u])
        BY DEF IInv, RoomForNextByte, Room
      <3> QED BY <3>1, <3>2
    <2> QED BY <2>1, <2>2
  <1>5. RoomForNextByte'
    BY <1>4 DEF RoomForNextByte, Room
  <1> QED BY <1>3, <1>5 DEF IInv

(* The parser of a transport, before a step. *)
LEMMA OneParser ==
  ASSUME IInv, NEW t \in Transport
  PROVE  /\ parser[t] \in ParserType
         /\ Room(parser[t])
         /\ ota_buf \in [1 .. MaxChunk -> Byte]
  BY DEF IInv, TypeOK, RoomForNextByte, ParserType, Room

(* Taking a byte into the checksum leaves a parser a parser. *)
LEMMA SummedType ==
  ASSUME NEW p \in ParserType, NEW b \in Byte
  PROVE  /\ Summed(p, b) \in ParserType
         /\ \A f \in {"st", "type", "payload", "need", "olen", "ogot"} :
               Summed(p, b)[f] = p[f]
  <1>1. Xor(p.csum, b) \in Byte
    BY ParserAssumption DEF ParserType
  <1> QED BY <1>1 DEF Summed, ParserType

-----------------------------------------------------------------------------
(* IInv is inductive: it holds at the start and every step keeps it. *)
LEMMA InitIInv == Init => IInv
  <1> SUFFICES ASSUME Init PROVE IInv
    OBVIOUS
  <1>1. parser \in [Transport -> ParserType] /\ \A t \in Transport : Room(parser[t])
    BY ReadyIsSound DEF Init
  <1>2. ota_buf \in [1 .. MaxChunk -> Byte]
    BY ParserAssumption DEF Init, Byte
  <1> QED BY <1>1, <1>2 DEF IInv, TypeOK, RoomForNextByte, ParserType, Room

(* At the end of a frame the parser waits for the next one, or every       *)
(* parser starts afresh.                                                   *)
LEMMA FrameEnds ==
  ASSUME IInv, NEW t \in Transport, UNCHANGED ota_buf,
         \/ \E command : Complete(t, command)
         \/ parser' = [parser EXCEPT ![t] = [parser[t] EXCEPT !.st = "SYNC"]]
  PROVE  IInv'
  <1> DEFINE q == [parser[t] EXCEPT !.st = "SYNC"]
  <1>1. parser[t] \in ParserType /\ ota_buf' \in [1 .. MaxChunk -> Byte]
    BY OneParser
  <1>2. q \in ParserType /\ Room(q)
    BY <1>1 DEF ParserType, States, Room
  <1>3. CASE parser' = [parser EXCEPT ![t] = q]
    BY <1>1, <1>2, <1>3, BecomeSound
  <1>4. CASE parser' = [u \in Transport |-> Ready]
    BY <1>1, <1>4, ReadyIsSound DEF IInv, TypeOK, RoomForNextByte, ParserType
  <1>5. parser \in [Transport -> ParserType]
    BY DEF IInv, TypeOK, ParserType
  <1>6. [parser EXCEPT ![t].st = "SYNC"] = [parser EXCEPT ![t] = q]
    BY <1>5
  <1> QED BY <1>3, <1>4, <1>6 DEF Complete

(* One byte, state by state. *)
LEMMA FeedKeepsIInv ==
  ASSUME IInv, NEW t \in Transport, NEW b \in Byte, Feed(t, b)
  PROVE  IInv'
  <1> DEFINE p == parser[t]
             s == Summed(p, b)
  <1>n. b \in Nat
    BY ParserAssumption DEF Byte
  <1>0. /\ p \in ParserType /\ Room(p) /\ ota_buf \in [1 .. MaxChunk -> Byte]
        /\ b \in Nat
    BY OneParser, <1>n
  <1>s. /\ s \in ParserType
        /\ s.st = p.st /\ s.payload = p.payload /\ s.need = p.need
        /\ s.olen = p.olen /\ s.ogot = p.ogot
    BY <1>0, SummedType
  <1>1. CASE AtSync(t, b)
    <2> DEFINE q == IF b = SyncByte THEN [p EXCEPT !.st = "TYPE"] ELSE p
    <2>1. q \in ParserType /\ Room(q)
      BY <1>0, <1>1 DEF AtSync, st, ParserType, Room, States
    <2> QED BY <2>1, <1>0, <1>1, BecomeSound DEF AtSync, Become
  <1>2. CASE AtType(t, b)
    <2> DEFINE d == [p EXCEPT !.type = b, !.csum = b]
               e == [d EXCEPT !.payload = <<>>]
               long == [e EXCEPT !.st = "PAYLOAD"]
               idle == [e EXCEPT !.st = "SYNC"]
               q == CASE b \in Prefixed -> [e EXCEPT !.st = "LEN"]
                      [] b = OTA_DATA   -> [e EXCEPT !.st = "OTA_L0"]
                      [] b \in DOMAIN FixedLen
                                        -> [long EXCEPT !.need = FixedLen[b]]
                      [] OTHER          -> [idle EXCEPT !.need = 0]
    <2>0. q \in ParserType /\ Room(q) => IInv'
      BY <1>0, <1>2, BecomeSound DEF AtType, Become
    <2>1. d \in ParserType
      BY <1>0 DEF ParserType
    <2> HIDE DEF d
    <2>2. e \in ParserType /\ e.payload = <<>>
      <3> DEFINE none == <<>>
      <3>1. none \in Seq(Byte)
        OBVIOUS
      <3> HIDE DEF none
      <3>2. [d EXCEPT !.payload = none] \in ParserType
        BY <2>1, <3>1 DEF ParserType
      <3>3. [d EXCEPT !.payload = none].payload = none
        BY <2>1 DEF ParserType
      <3> QED BY <3>2, <3>3 DEF none
    <2> HIDE DEF e
    <2>3. /\ long \in ParserType /\ long.payload = <<>> /\ long.st = "PAYLOAD"
          /\ idle \in ParserType /\ idle.st = "SYNC"
      BY <2>2 DEF ParserType, States
    <2> HIDE DEF long, idle
    <2>4. [idle EXCEPT !.need = 0] \in ParserType /\ Room([idle EXCEPT !.need = 0])
      BY <2>3 DEF ParserType, Room
    <2>5. /\ [e EXCEPT !.st = "LEN"] \in ParserType
          /\ Room([e EXCEPT !.st = "LEN"])
      BY <2>2 DEF ParserType, States, Room
    <2>6. /\ [e EXCEPT !.st = "OTA_L0"] \in ParserType
          /\ Room([e EXCEPT !.st = "OTA_L0"])
      BY <2>2 DEF ParserType, States, Room
    <2>7. ASSUME b \in DOMAIN FixedLen
          PROVE  /\ [long EXCEPT !.need = FixedLen[b]] \in ParserType
                 /\ Room([long EXCEPT !.need = FixedLen[b]])
      <3>1. FixedLen[b] \in 1 .. MaxPayload /\ MaxPayload \in Nat
        BY <2>7, ParserAssumption
      <3> QED BY <2>3, <3>1 DEF ParserType, Room
    <2>8. q \in ParserType /\ Room(q)
      BY <2>4, <2>5, <2>6, <2>7
    <2> QED BY <2>0, <2>8
  <1>3. CASE AtLen(t, b)
    <2> DEFINE e == [s EXCEPT !.need = b]
               q == [e EXCEPT !.st = IF b > MaxPayload THEN "SYNC"
                                     ELSE IF b = 0 THEN "CSUM" ELSE "PAYLOAD"]
    <2>1. q \in ParserType /\ q.need = b /\ q.payload = p.payload
      BY <1>0, <1>s DEF ParserType, States
    <2>2. p.payload = <<>> /\ MaxPayload \in Nat
      BY <1>0, <1>3, ParserAssumption DEF AtLen, st, Room
    <2>3. Room(q)
      BY <1>0, <2>1, <2>2 DEF Room, ParserType
    <2> QED BY <2>1, <2>3, <1>0, <1>3, BecomeSound DEF AtLen, Become
  <1>4. CASE AtPayload(t, b)
    <2> DEFINE e == [s EXCEPT !.payload = Append(@, b)]
               q == IF Len(e.payload) = e.need THEN [e EXCEPT !.st = "CSUM"] ELSE e
    <2>1. /\ Len(p.payload) < p.need /\ p.need <= MaxPayload
          /\ p.st = "PAYLOAD" /\ MaxPayload \in Nat /\ p.need \in Nat
          /\ p.payload \in Seq(Byte)
      BY <1>0, <1>4, ParserAssumption DEF AtPayload, st, Room, ParserType
    <2>2. /\ Append(p.payload, b) \in Seq(Byte)
          /\ Len(Append(p.payload, b)) = Len(p.payload) + 1
      BY <2>1
    <2>3. /\ e \in ParserType /\ e.payload = Append(p.payload, b)
          /\ e.need = p.need /\ e.st = "PAYLOAD"
      BY <1>s, <2>1, <2>2 DEF ParserType
    <2>4. q \in ParserType
      BY <2>3 DEF ParserType, States
    <2>5. Room(q)
      BY <2>1, <2>2, <2>3 DEF Room, ParserType
    <2> QED BY <2>4, <2>5, <1>0, <1>4, BecomeSound DEF AtPayload, Become
  <1>5. CASE AtOtaL0(t, b)
    <2> DEFINE q == [s EXCEPT !.olen = b, !.st = "OTA_L1"]
    <2>1. q \in ParserType /\ Room(q)
      BY <1>0, <1>s DEF ParserType, States, Room
    <2> QED BY <2>1, <1>0, <1>5, BecomeSound DEF AtOtaL0, Become
  <1>6. CASE AtOtaL1(t, b)
    <2> DEFINE len == p.olen + Base * b
               e == [s EXCEPT !.olen = len, !.ogot = 0]
               q == [e EXCEPT !.st = IF len \in 1 .. MaxChunk THEN "OTA_DATA"
                                                              ELSE "SYNC"]
    <2>1. len \in Nat /\ MaxChunk \in Nat
      <3>1. p.olen \in Nat /\ Base \in Nat /\ b \in Nat /\ MaxChunk \in Nat
        BY <1>0, ParserAssumption DEF ParserType
      <3> QED  BY <3>1
    <2>2. q \in ParserType /\ q.olen = len /\ q.ogot = 0
      BY <1>s, <2>1 DEF ParserType, States
    <2>3. Room(q)
      BY <1>s, <2>1, <2>2 DEF Room, ParserType
    <2> QED BY <2>2, <2>3, <1>0, <1>6, BecomeSound DEF AtOtaL1, Become
  <1>7. CASE AtOtaData(t, b)
    <2> DEFINE e == [s EXCEPT !.ogot = @ + 1]
               q == IF e.ogot = e.olen THEN [e EXCEPT !.st = "OTA_CSUM"] ELSE e
    <2>1. /\ p.st = "OTA_DATA" /\ p.ogot < p.olen /\ p.olen <= MaxChunk
          /\ p.ogot \in Nat /\ p.olen \in Nat /\ MaxChunk \in Nat
      BY <1>0, <1>7, ParserAssumption DEF AtOtaData, st, Room, ParserType
    <2>2. /\ e \in ParserType /\ e.ogot = p.ogot + 1 /\ e.olen = p.olen
          /\ e.st = "OTA_DATA"
      BY <1>s, <2>1 DEF ParserType
    <2>3. ota_buf' \in [1 .. MaxChunk -> Byte]
      BY <1>0, <1>7 DEF AtOtaData
    <2>4. q \in ParserType /\ Room(q) => IInv'
      BY <2>3, <1>7, BecomeSound DEF AtOtaData, Become
    <2> HIDE DEF e
    <2>5. q \in ParserType
      BY <2>2 DEF ParserType, States
    <2>6. Room(q)
      BY <2>1, <2>2 DEF ParserType, Room
    <2> QED BY <2>4, <2>5, <2>6
  <1>8. CASE AtCsum(t, b)
    <2>1. CASE b = p.csum
      BY <2>1, <1>8, FrameEnds DEF AtCsum, Complete
    <2>2. CASE b # p.csum
      BY <2>2, <1>8, FrameEnds DEF AtCsum, Become
    <2> QED BY <2>1, <2>2
  <1>9. CASE AtOtaCsum(t, b)
    <2>1. CASE b = p.csum
      BY <2>1, <1>9, FrameEnds DEF AtOtaCsum, Complete
    <2>2. CASE b # p.csum
      BY <2>2, <1>9, FrameEnds DEF AtOtaCsum, Become
    <2> QED BY <2>1, <2>2
  <1> QED
    BY <1>1, <1>2, <1>3, <1>4, <1>5, <1>6, <1>7, <1>8, <1>9 DEF Feed

(* The step invariant: a byte on some transport, or a client accepted. *)
LEMMA StepIInv == IInv /\ [Next]_parserVars => IInv'
  <1> SUFFICES ASSUME IInv, [Next]_parserVars PROVE IInv'
    OBVIOUS
  <1>1. ASSUME NEW t \in Transport, Accepted(t) PROVE IInv'
    BY <1>1, ReadyIsSound, OneParser, BecomeSound DEF Accepted, Become
  <1>2. ASSUME NEW t \in Transport, NEW b \in Byte, Feed(t, b) PROVE IInv'
    BY <1>2, FeedKeepsIInv
  <1>3. CASE UNCHANGED parserVars
    BY <1>3 DEF parserVars, IInv, TypeOK, RoomForNextByte, Room
  <1> QED BY <1>1, <1>2, <1>3 DEF Next

-----------------------------------------------------------------------------
(* Every field of every parser keeps its range (parser_t, feed). *)
THEOREM TypeCorrect == Spec => []TypeOK
  <1>1. IInv => TypeOK
    BY DEF IInv
  <1> QED BY InitIInv, StepIInv, <1>1, PTL DEF Spec

(* No byte is ever stored outside payload[] or ota_buf (feed). *)
THEOREM NoOverrun == Spec => []RoomForNextByte
  <1>1. IInv => RoomForNextByte
    BY DEF IInv
  <1> QED BY InitIInv, StepIInv, <1>1, PTL DEF Spec

-----------------------------------------------------------------------------
(* A set of numbers that is not empty has a least one. *)
LEMMA Least ==
  ASSUME NEW T, T \subseteq Nat, T # {}
  PROVE  \E n \in T : \A m \in T : n <= m
<1> DEFINE R == OpToRel(<, Nat)
<1>1. \A m, n \in Nat : m < n => <<m, n>> \in R
  BY Zenon DEF OpToRel
<1>2. IsWellFoundedOn(R, Nat)
  BY NatLessThanWellFounded
<1> HIDE DEF R
<1>3. PICK n \in T : \A m \in T : <<m, n>> \notin R
  BY <1>2, WFMin
<1>4. ASSUME NEW m \in T
      PROVE  n <= m
  <2>1. m \in Nat /\ n \in Nat
    OBVIOUS
  <2>2. ~ (m < n)
    BY <1>1, <1>3, <2>1
  <2> QED  BY <2>1, <2>2
<1> QED  BY <1>4

(* Induction, for a set in place of a predicate. *)
LEMMA Induction ==
  ASSUME NEW S, 0 \in S, \A n \in Nat : n \in S => n + 1 \in S
  PROVE  \A n \in Nat : n \in S
<1> DEFINE T == Nat \ S
<1> SUFFICES ASSUME T # {}
             PROVE  FALSE
  OBVIOUS
<1>1. T \subseteq Nat
  OBVIOUS
<1>2. PICK n \in T : \A m \in T : n <= m
  <2> HIDE DEF T
  <2> QED  BY <1>1, Least
<1>3. n \in Nat /\ n # 0 /\ n - 1 \in Nat
  OBVIOUS
<1> QED  BY <1>2, <1>3

(* What the fold is: a function on the sets of indices, that takes the     *)
(* greatest index off.                                                     *)
Folds(it, a, s, D) ==
    it = [q \in SUBSET D |-> IF q = {} THEN a
                             ELSE LET x == Max(q) IN Xor(it[q \ {x}], s[x])]

(* The library folds with the function it chooses among those.           *)
LEMMA FoldsChosen ==
  ASSUME NEW a, NEW s
  PROVE  FoldLeft(Xor, a, s) = (CHOOSE it : Folds(it, a, s, DOMAIN s))[DOMAIN s]
BY DEF FoldLeft, MapThenFoldSet, Folds

(* The greatest index of a set that holds the last one.                  *)
LEMMA MaxOfInterval ==
  ASSUME NEW n \in Nat, NEW q \in SUBSET (1 .. n), n \in q
  PROVE  Max(q) = n
<1>1. n \in q /\ \A y \in q : n >= y
  OBVIOUS
<1>2. Max(q) \in q /\ \A y \in q : Max(q) >= y
  BY <1>1, Zenon DEF Max
<1>3. Max(q) \in 1 .. n /\ Max(q) >= n
  BY <1>2
<1> QED  BY <1>3

(* Such a function exists on every interval: by induction on its length. *)
LEMMA FoldExists ==
  ASSUME NEW a, NEW s
  PROVE  \A n \in Nat : \E it : Folds(it, a, s, 1 .. n)
<1> DEFINE S == {n \in Nat : \E it : Folds(it, a, s, 1 .. n)}
<1>1. 0 \in S
  <2> DEFINE none == [q \in SUBSET (1 .. 0) |-> a]
  <2>1. \A q \in SUBSET (1 .. 0) : q = {}
    OBVIOUS
  <2>2. Folds(none, a, s, 1 .. 0)
    BY <2>1, Zenon DEF Folds
  <2> QED  BY <2>2, Zenon
<1>2. ASSUME NEW n \in Nat, n \in S
      PROVE  n + 1 \in S
  <2>1. PICK it : Folds(it, a, s, 1 .. n)
    BY <1>2
  <2> DEFINE up == [q \in SUBSET (1 .. n + 1) |->
                      IF n + 1 \in q THEN Xor(it[q \ {n + 1}], s[n + 1]) ELSE it[q]]
  <2>2. \A q \in SUBSET (1 .. n) : q \in SUBSET (1 .. n + 1) /\ up[q] = it[q]
    <3>1. \A q \in SUBSET (1 .. n) : q \in SUBSET (1 .. n + 1) /\ n + 1 \notin q
      OBVIOUS
    <3> QED  BY <3>1
  <2>3. ASSUME NEW q \in SUBSET (1 .. n + 1)
        PROVE  up[q] = IF q = {} THEN a
                       ELSE LET x == Max(q) IN Xor(up[q \ {x}], s[x])
    <3>1. CASE n + 1 \in q
      <4>1. Max(q) = n + 1 /\ q # {}
        BY <3>1, MaxOfInterval
      <4>2. q \ {n + 1} \in SUBSET (1 .. n)
        OBVIOUS
      <4>3. up[q] = Xor(it[q \ {n + 1}], s[n + 1]) /\ up[q \ {n + 1}] = it[q \ {n + 1}]
        BY <2>2, <3>1, <4>2
      <4> QED  BY <4>1, <4>3
    <3>2. CASE n + 1 \notin q
      <4>1. q \in SUBSET (1 .. n) /\ q \ {Max(q)} \in SUBSET (1 .. n)
        <5>1. \A x \in 1 .. n + 1 : x # n + 1 => x \in 1 .. n
          OBVIOUS
        <5>2. \A x \in q : x \in 1 .. n
          BY <3>2, <5>1
        <5> QED  BY <5>2
      <4>2. up[q] = it[q] /\ up[q \ {Max(q)}] = it[q \ {Max(q)}]
        BY <2>2, <4>1
      <4>3. it[q] = IF q = {} THEN a
                    ELSE LET x == Max(q) IN Xor(it[q \ {x}], s[x])
        <5> DEFINE it2 == [r \in SUBSET (1 .. n) |-> IF r = {} THEN a
                             ELSE LET x == Max(r) IN Xor(it[r \ {x}], s[x])]
        <5>1. it = it2
          BY <2>1 DEF Folds
        <5>2. it2[q] = IF q = {} THEN a
                             ELSE LET x == Max(q) IN Xor(it[q \ {x}], s[x])
          BY <4>1
        <5> HIDE DEF it2
        <5> QED  BY <5>1, <5>2
      <4> QED  BY <4>2, <4>3
    <3> QED  BY <3>1, <3>2
  <2>4. Folds(up, a, s, 1 .. n + 1)
    <3> DEFINE step(q) == IF q = {} THEN a
                       ELSE LET x == Max(q) IN Xor(up[q \ {x}], s[x])
    <3>1. up = [q \in SUBSET (1 .. n + 1) |-> up[q]]
      BY Zenon
    <3> HIDE DEF up
    <3>2. \A q \in SUBSET (1 .. n + 1) : up[q] = step(q)
      BY <2>3
    <3>3. up = [q \in SUBSET (1 .. n + 1) |-> step(q)]
      <4> HIDE DEF step
      <4> QED BY <3>1, <3>2
    <3> QED  BY <3>3 DEF Folds
  <2> QED  BY <2>4
<1> HIDE DEF S
<1>3. \A n \in Nat : n \in S
  BY <1>1, <1>2, Induction
<1> QED  BY <1>3 DEF S

(* The checksum, byte by byte. *)
LEMMA PrefixSums ==
  ASSUME NEW a \in Byte, NEW s \in Seq(Byte)
  PROVE  \E sum \in [0 .. Len(s) -> Byte] :
            /\ sum[0] = a
            /\ \A k \in 1 .. Len(s) : sum[k] = Xor(sum[k - 1], s[k])
            /\ sum[Len(s)] = FoldLeft(Xor, a, s)
<1>0. Len(s) \in Nat /\ DOMAIN s = 1 .. Len(s) /\ \A k \in 1 .. Len(s) : s[k] \in Byte
  BY LenProperties, ElementOfSeq
<1> DEFINE it == CHOOSE f : Folds(f, a, s, 1 .. Len(s))
           sum == [k \in 0 .. Len(s) |-> it[1 .. k]]
<1>1. Folds(it, a, s, 1 .. Len(s)) /\ FoldLeft(Xor, a, s) = it[1 .. Len(s)]
  <2>1. \E f : Folds(f, a, s, 1 .. Len(s))
    BY <1>0, FoldExists
  <2>2. Folds(it, a, s, 1 .. Len(s))
    BY <2>1, Zenon
  <2> QED  BY <1>0, <2>2, FoldsChosen
<1> HIDE DEF it
<1>2. sum[0] = a
  <2>1. 1 .. 0 = {} /\ {} \in SUBSET (1 .. Len(s)) /\ 0 \in 0 .. Len(s)
    BY <1>0
  <2>2. it[{}] = a
    BY <1>1, <2>1 DEF Folds
  <2> QED  BY <2>1, <2>2
<1>3. ASSUME NEW k \in 1 .. Len(s)
      PROVE  sum[k] = Xor(sum[k - 1], s[k])
  <2>0. k \in Nat /\ k >= 1 /\ k \in 0 .. Len(s) /\ k - 1 \in 0 .. Len(s)
    BY <1>0
  <2>1. /\ 1 .. k \in SUBSET (1 .. Len(s)) /\ k \in 1 .. k /\ k \in Nat
        /\ (1 .. k) \ {k} = 1 .. k - 1 /\ k \in 0 .. Len(s) /\ k - 1 \in 0 .. Len(s)
    <3>1. \A x \in 1 .. k : x \in 1 .. Len(s)
      BY <1>0, <2>0
    <3>2. \A x : x \in (1 .. k) \ {k} <=> x \in 1 .. k - 1
      BY <2>0
    <3>3. (1 .. k) \ {k} = 1 .. k - 1
      BY <3>2, Zenon
    <3> QED  BY <2>0, <3>1, <3>3
  <2>2. Max(1 .. k) = k
    BY <2>1, MaxOfInterval
  <2>3. it[1 .. k] = Xor(it[(1 .. k) \ {k}], s[k])
    BY <1>1, <2>1, <2>2 DEF Folds
  <2> QED  BY <2>1, <2>3
<1>4. sum \in [0 .. Len(s) -> Byte]
  <2> DEFINE S == {k \in Nat : k <= Len(s) => sum[k] \in Byte}
  <2> HIDE DEF sum
  <2>1. 0 \in S
    BY <1>2
  <2>2. \A k \in Nat : k \in S => k + 1 \in S
    <3> SUFFICES ASSUME NEW k \in Nat, k \in S, k + 1 <= Len(s)
                 PROVE  sum[k + 1] \in Byte
      OBVIOUS
    <3>1. k + 1 \in 1 .. Len(s) /\ (k + 1) - 1 = k /\ sum[k] \in Byte
      BY <1>0
    <3>2. sum[k + 1] = Xor(sum[k], s[k + 1]) /\ s[k + 1] \in Byte
      BY <1>0, <1>3, <3>1
    <3> QED  BY <3>1, <3>2, ParserAssumption
  <2>3. \A k \in Nat : k \in S
    <3> HIDE DEF S
    <3> QED  BY <2>1, <2>2, Induction
  <2>4. \A k \in 0 .. Len(s) : sum[k] \in Byte
    BY <1>0, <2>3
  <2> QED  BY <2>4 DEF sum
<1>5. sum[Len(s)] = FoldLeft(Xor, a, s)
  BY <1>0, <1>1
<1> HIDE DEF sum
<1> QED  BY <1>2, <1>3, <1>4, <1>5
-----------------------------------------------------------------------------
(* What frame puts around the contents. *)

(* Two sequences of bytes, one after the other.                          *)
LEMMA Joined ==
  ASSUME NEW s \in Seq(Byte), NEW u \in Seq(Byte),
         NEW j, j = s \o u
  PROVE  /\ j \in Seq(Byte)
         /\ Len(s) \in Nat /\ Len(u) \in Nat /\ Len(j) = Len(s) + Len(u)
         /\ \A i \in 1 .. Len(s) : j[i] = s[i]
         /\ \A i \in 1 .. Len(u) : j[Len(s) + i] = u[i]
<1>1. Len(u) \in Nat /\ Len(s) \in Nat
  BY LenProperties
<1>2. j \in Seq(Byte) /\ Len(j) = Len(s) + Len(u)
      /\ \A i \in 1 .. Len(s) + Len(u) : j[i] = IF i <= Len(s) THEN s[i] ELSE u[i - Len(s)]
  BY ConcatProperties
<1>3. ASSUME NEW i \in 1 .. Len(s)
      PROVE  j[i] = s[i]
  BY <1>1, <1>2
<1>4. ASSUME NEW i \in 1 .. Len(u)
      PROVE  j[Len(s) + i] = u[i]
  <2>1. Len(s) + i \in 1 .. Len(s) + Len(u) /\ ~ (Len(s) + i <= Len(s))
        /\ (Len(s) + i) - Len(s) = i
    BY <1>1
  <2> QED  BY <1>2, <2>1
<1> QED  BY <1>1, <1>2, <1>3, <1>4

(* The low and the high byte of a length (otaDataFrame).                 *)
LEMMA DivMod ==
  ASSUME NEW n \in Nat
  PROVE  /\ n % Base \in Byte /\ n \div Base \in Nat
         /\ n = (n % Base) + Base * (n \div Base)
         /\ n < Base * Base => n \div Base \in Byte
<1> DEFINE q == n \div Base
<1>1. Base \in Nat \ {0}
  BY ParserAssumption
<1>2. n % Base \in 0 .. Base - 1 /\ q \in Nat /\ n = (n % Base) + Base * q
  BY <1>1
<1> HIDE DEF q
<1>3. q >= Base => Base * q >= Base * Base
  BY <1>1, <1>2
<1>4. n < Base * Base => q \in 0 .. Base - 1
  BY <1>1, <1>2, <1>3
<1> QED  BY <1>2, <1>4 DEF Byte, q

Header(c) == IF c.type = OTA_DATA THEN 2 ELSE IF c.type \in Prefixed THEN 1 ELSE 0

(* The contents are the length prefix, if any, and the payload.          *)
LEMMA ContentsOf ==
  ASSUME NEW c, IsCommand(c)
  PROVE  /\ Contents(c) \in Seq(Byte)
         /\ Len(Contents(c)) = Header(c) + Len(c.payload)
         /\ \A i \in 1 .. Len(c.payload) : Contents(c)[Header(c) + i] = c.payload[i]
         /\ c.type = OTA_DATA => /\ Contents(c)[1] = Len(c.payload) % Base
                                 /\ Contents(c)[2] = Len(c.payload) \div Base
         /\ c.type \in Prefixed => Contents(c)[1] = Len(c.payload)
<1>1. c.payload \in Seq(Byte) /\ Len(c.payload) \in Nat
  BY LenProperties DEF IsCommand
<1>2. CASE c.type = OTA_DATA
  <2> DEFINE len == Len(c.payload)
             two == <<len % Base, len \div Base>>
  <2>1. len % Base \in Byte /\ len \div Base \in Byte
    <3>1. len \in 1 .. MaxChunk
      BY <1>2, CommandsAssumption, ParserAssumption DEF IsCommand, CommandsAssumption
    <3>2. len \in Nat /\ len < Base * Base
      BY <3>1, CommandsAssumption, ParserAssumption DEF CommandsAssumption
    <3> QED  BY <3>2, DivMod
  <2>2. two \in Seq(Byte) /\ Len(two) = 2 /\ two[1] = len % Base /\ two[2] = len \div Base
    BY <2>1
  <2>3. c.type \notin Prefixed /\ Header(c) = 2
    BY <1>2, CommandsAssumption DEF CommandsAssumption, Header
  <2>4. Contents(c) = two \o c.payload
    BY <1>2, <2>3 DEF Contents
  <2> HIDE DEF two
  <2>5. /\ Contents(c) \in Seq(Byte) /\ Len(Contents(c)) = 2 + len
        /\ Contents(c)[1] = two[1] /\ Contents(c)[2] = two[2]
        /\ \A i \in 1 .. len : Contents(c)[2 + i] = c.payload[i]
    <3>1. /\ Contents(c) \in Seq(Byte) /\ Len(Contents(c)) = Len(two) + len
          /\ \A i \in 1 .. Len(two) : Contents(c)[i] = two[i]
          /\ \A i \in 1 .. len : Contents(c)[Len(two) + i] = c.payload[i]
      <4>1. two \in Seq(Byte) /\ c.payload \in Seq(Byte)
        BY <1>1, <2>2
      <4> QED  BY <2>4, <4>1, Joined
    <3>2. 1 \in 1 .. Len(two) /\ 2 \in 1 .. Len(two)
      BY <2>2
    <3> QED  BY <2>2, <3>1, <3>2
  <2> QED  BY <2>2, <2>3, <2>5
<1>3. CASE c.type \in Prefixed
  <2> DEFINE len == Len(c.payload)
             one == <<len>>
  <2>0. c.type # OTA_DATA /\ c.type \notin DOMAIN FixedLen
    BY <1>3, CommandsAssumption DEF CommandsAssumption
  <2>1. len \in Byte /\ c.type # OTA_DATA
    <3>1. len <= MaxPayload /\ MaxPayload < Base /\ MaxPayload \in Nat /\ Base \in Nat
      BY <1>3, <2>0, CommandsAssumption, ParserAssumption
         DEF IsCommand, CommandsAssumption
    <3> QED  BY <1>1, <2>0, <3>1 DEF Byte
  <2>2. one \in Seq(Byte) /\ Len(one) = 1 /\ one[1] = len
    BY <2>1
  <2>3. Contents(c) = one \o c.payload
    BY <1>3, <2>1 DEF Contents
  <2> HIDE DEF one
  <2>4. /\ Contents(c) \in Seq(Byte) /\ Len(Contents(c)) = 1 + len
        /\ Contents(c)[1] = one[1]
        /\ \A i \in 1 .. len : Contents(c)[1 + i] = c.payload[i]
    <3>1. /\ Contents(c) \in Seq(Byte) /\ Len(Contents(c)) = Len(one) + len
          /\ \A i \in 1 .. Len(one) : Contents(c)[i] = one[i]
          /\ \A i \in 1 .. len : Contents(c)[Len(one) + i] = c.payload[i]
      <4>1. one \in Seq(Byte) /\ c.payload \in Seq(Byte)
        BY <1>1, <2>2
      <4> QED  BY <2>3, <4>1, Joined
    <3>2. 1 \in 1 .. Len(one)
      BY <2>2
    <3> QED  BY <2>2, <3>1, <3>2
  <2>5. Header(c) = 1
    BY <1>3, <2>1 DEF Header
  <2> QED  BY <2>1, <2>2, <2>4, <2>5
<1>4. CASE c.type # OTA_DATA /\ c.type \notin Prefixed
  <2>1. Contents(c) = c.payload /\ Header(c) = 0
    BY <1>4 DEF Contents, Header
  <2> QED  BY <1>1, <1>4, <2>1
<1> QED  BY <1>2, <1>3, <1>4

(* The checksum after so many bytes of the contents. *)
Sums(c) ==
    CHOOSE sum \in [0 .. Len(Contents(c)) -> Byte] :
        /\ sum[0] = c.type
        /\ \A k \in 1 .. Len(Contents(c)) : sum[k] = Xor(sum[k - 1], Contents(c)[k])
        /\ sum[Len(Contents(c))] = FoldLeft(Xor, c.type, Contents(c))

(* The running checksum starts from the type and takes each byte in.     *)
LEMMA SumsOf ==
  ASSUME NEW c, IsCommand(c)
  PROVE  /\ Sums(c) \in [0 .. Len(Contents(c)) -> Byte]
         /\ Sums(c)[0] = c.type
         /\ \A k \in 1 .. Len(Contents(c)) :
               Sums(c)[k] = Xor(Sums(c)[k - 1], Contents(c)[k])
         /\ Sums(c)[Len(Contents(c))] = FoldLeft(Xor, c.type, Contents(c))
<1>1. c.type \in Byte /\ Contents(c) \in Seq(Byte)
  BY ContentsOf DEF IsCommand
<1>2. \E sum \in [0 .. Len(Contents(c)) -> Byte] :
            /\ sum[0] = c.type
            /\ \A k \in 1 .. Len(Contents(c)) :
                   sum[k] = Xor(sum[k - 1], Contents(c)[k])
            /\ sum[Len(Contents(c))] = FoldLeft(Xor, c.type, Contents(c))
  BY <1>1, PrefixSums
<1> QED  BY <1>2, Zenon DEF Sums

(* A frame is the sync byte, the type, the contents and their checksum.  *)
LEMMA EncodeOf ==
  ASSUME NEW c, IsCommand(c)
  PROVE  /\ Encode(c) \in Seq(Byte)
         /\ Len(Contents(c)) \in Nat
         /\ Len(Encode(c)) = Len(Contents(c)) + 3
         /\ Encode(c)[1] = SyncByte /\ Encode(c)[2] = c.type
         /\ \A k \in 1 .. Len(Contents(c)) : Encode(c)[k + 2] = Contents(c)[k]
         /\ Encode(c)[Len(Contents(c)) + 3] = Sums(c)[Len(Contents(c))]
<1> DEFINE s == Contents(c)
           head == <<SyncByte, c.type>>
           tail == <<FoldLeft(Xor, c.type, s)>>
<1>1. s \in Seq(Byte) /\ Len(s) \in Nat /\ c.type \in Byte
  BY ContentsOf, LenProperties DEF IsCommand
<1>2. FoldLeft(Xor, c.type, s) \in Byte /\ FoldLeft(Xor, c.type, s) = Sums(c)[Len(s)]
  <2>1. Len(s) \in 0 .. Len(s)
    BY <1>1
  <2> QED  BY <2>1, SumsOf
<1>3. Encode(c) = head \o s \o tail
  BY DEF Encode
<1> HIDE DEF s
<1>4. head \in Seq(Byte) /\ Len(head) = 2 /\ head[1] = SyncByte /\ head[2] = c.type
  BY <1>1, ParserAssumption
<1>5. tail \in Seq(Byte) /\ Len(tail) = 1 /\ tail[1] = Sums(c)[Len(s)]
  BY <1>2
<1> DEFINE u == head \o s
<1>6. Encode(c) = u \o tail
  BY <1>3
<1> HIDE DEF head, tail
<1>7. /\ u \in Seq(Byte) /\ Len(u) = 2 + Len(s) /\ 2 + Len(s) \in Nat
      /\ u[1] = SyncByte /\ u[2] = c.type /\ \A k \in 1 .. Len(s) : u[2 + k] = s[k]
  <2>1. /\ u \in Seq(Byte) /\ Len(u) = Len(head) + Len(s)
        /\ \A i \in 1 .. Len(head) : u[i] = head[i]
        /\ \A i \in 1 .. Len(s) : u[Len(head) + i] = s[i]
    <3>1. head \in Seq(Byte) /\ s \in Seq(Byte)
      BY <1>1, <1>4
    <3> QED  BY <3>1, Joined
  <2>2. 1 \in 1 .. Len(head) /\ 2 \in 1 .. Len(head)
    BY <1>4
  <2> HIDE DEF u
  <2> QED  BY <1>1, <1>4, <2>1, <2>2
<1> HIDE DEF u
<1>8. /\ Encode(c) \in Seq(Byte) /\ Len(Encode(c)) = 2 + Len(s) + 1
      /\ \A i \in 1 .. 2 + Len(s) : Encode(c)[i] = u[i]
      /\ Encode(c)[2 + Len(s) + 1] = tail[1]
  <2>1. /\ Encode(c) \in Seq(Byte) /\ Len(Encode(c)) = Len(u) + Len(tail)
        /\ \A i \in 1 .. Len(u) : Encode(c)[i] = u[i]
        /\ \A i \in 1 .. Len(tail) : Encode(c)[Len(u) + i] = tail[i]
    <3>1. tail \in Seq(Byte) /\ u \in Seq(Byte)
      BY <1>5, <1>7
    <3> QED  BY <1>6, <3>1, Joined
  <2>2. 1 \in 1 .. Len(tail)
    BY <1>5
  <2> QED  BY <1>5, <1>7, <2>1, <2>2
<1>9. /\ 1 \in 1 .. 2 + Len(s) /\ 2 \in 1 .. 2 + Len(s) /\ 2 + Len(s) + 1 = Len(s) + 3
      /\ \A k \in 1 .. Len(s) : k + 2 \in 1 .. 2 + Len(s) /\ k + 2 = 2 + k
  BY <1>1
<1> QED  BY <1>1, <1>5, <1>7, <1>8, <1>9 DEF s

-----------------------------------------------------------------------------
(* The parsers on the wire. *)

WireOK == wire \in [Transport -> Seq(Byte)]

(* What is left of a frame with a hole is bytes. *)
LEMMA PartIsBytes ==
  ASSUME NEW s \in Seq(Byte), NEW i \in 1 .. Len(s), NEW j \in i .. Len(s)
  PROVE  SubSeq(s, 1, i - 1) \o SubSeq(s, j + 1, Len(s)) \in Seq(Byte)
<1>1. Len(s) \in Nat /\ \A k \in 1 .. Len(s) : s[k] \in Byte
  BY LenProperties, ElementOfSeq
<1>2. SubSeq(s, 1, i - 1) \in Seq(Byte)
  <2>1. 1 \in Int /\ i - 1 \in Int /\ \A k \in 1 .. i - 1 : s[k] \in Byte
    BY <1>1
  <2> QED  BY <2>1, SubSeqProperties
<1>3. SubSeq(s, j + 1, Len(s)) \in Seq(Byte)
  <2>1. j + 1 \in Int /\ Len(s) \in Int /\ \A k \in j + 1 .. Len(s) : s[k] \in Byte
    BY <1>1
  <2> QED  BY <2>1, SubSeqProperties
<1> QED  BY <1>2, <1>3, ConcatProperties

(* Writing bytes to a wire leaves bytes on every wire. *)
LEMMA TransmitsBytes ==
  ASSUME WireOK, NEW t \in Transport, NEW bytes \in Seq(Byte), Transmit(t, bytes)
  PROVE  WireOK'
<1>1. wire[t] \o bytes \in Seq(Byte)
  BY ConcatProperties DEF WireOK
<1> QED  BY <1>1 DEF Transmit, WireOK

(* A step on the wire, as the parsers see it. *)
LEMMA StepOfParsers ==
  ASSUME WireOK, [FramingNext]_framingVars
  PROVE  WireOK' /\ [Next]_parserVars
<1>0. <<>> \in Seq(Byte)
  BY EmptySeq
<1>1. ASSUME NEW t \in Transport, NEW c \in Commands[t], Send(t, c)
      PROVE  WireOK' /\ UNCHANGED parserVars
  BY <1>1, TransmitsBytes, EncodeOf, CommandsAssumption DEF CommandsAssumption, Send
<1>2. ASSUME NEW t \in Transport, NEW c \in Commands[t], SendCut(t, c)
      PROVE  WireOK' /\ UNCHANGED parserVars
  <2>1. Encode(c) \in Seq(Byte)
    BY EncodeOf, CommandsAssumption DEF CommandsAssumption
  <2>2. PICK i \in 1 .. Len(Encode(c)) : \E j \in i .. Len(Encode(c)) :
           Transmit(t, SubSeq(Encode(c), 1, i - 1)
                         \o SubSeq(Encode(c), j + 1, Len(Encode(c))))
    BY <1>2 DEF SendCut
  <2> QED  BY <1>2, <2>1, <2>2, PartIsBytes, TransmitsBytes DEF SendCut
<1>3. ASSUME NEW t \in Transport, FeedNext(t)
      PROVE  WireOK' /\ Next
  <2>1. wire[t] # <<>> /\ wire[t] \in Seq(Byte)
    BY <1>3 DEF FeedNext, WireOK
  <2>2. Head(wire[t]) \in Byte /\ Tail(wire[t]) \in Seq(Byte)
    BY <2>1, HeadTailProperties
  <2>3. \/ wire' = [u \in Transport |-> <<>>]
        \/ wire' = [wire EXCEPT ![t] = Tail(wire[t])]
    BY <1>3 DEF FeedNext
  <2>4. WireOK'
    BY <1>0, <2>2, <2>3 DEF WireOK
  <2> QED  BY <1>3, <2>2, <2>4 DEF FeedNext, Next
<1>4. ASSUME NEW t \in Transport, NetReconnects(t)
      PROVE  WireOK' /\ [Next]_parserVars
  <2>1. wire' = [wire EXCEPT ![t] = <<>>]
    BY <1>4 DEF NetReconnects, NewConnection
  <2>2. WireOK'
    BY <1>0, <2>1 DEF WireOK
  <2> QED  BY <1>4, <2>2 DEF NetReconnects, Next
<1>5. CASE UNCHANGED framingVars
  BY <1>5 DEF framingVars, WireOK
<1> QED  BY <1>1, <1>2, <1>3, <1>4, <1>5 DEF FramingNext

(* Whatever is sent, cut short and reconnected, the parsers on the wire do *)
(* what FrameParser says: what holds for any bytes holds for frames.       *)
THEOREM ParsersRun == FramingSpec => Spec
<1>1. FramingInit => Init /\ WireOK
  BY EmptySeq DEF FramingInit, WireOK
<1>2. WireOK /\ [FramingNext]_framingVars => WireOK' /\ [Next]_parserVars
  BY StepOfParsers
<1> QED  BY <1>1, <1>2, PTL DEF FramingSpec, Spec

(* No frame, whole or cut short, makes a parser store outside its buffers. *)
THEOREM NoOverrunByFrames == FramingSpec => []RoomForNextByte
BY ParsersRun, NoOverrun, PTL

-----------------------------------------------------------------------------
(* A parser in the middle of a frame. *)

(* It has m bytes of the payload of c. *)
InPayload(p, c, m) ==
    /\ p.st = IF m = Len(c.payload) THEN "CSUM" ELSE "PAYLOAD"
    /\ p.need = Len(c.payload) /\ Len(p.payload) = m
    /\ \A i \in 1 .. m : p.payload[i] = c.payload[i]

InChunk(p, buf, c, m) ==
    /\ p.st = IF m = Len(c.payload) THEN "OTA_CSUM" ELSE "OTA_DATA"
    /\ p.olen = Len(c.payload) /\ p.ogot = m
    /\ \A i \in 1 .. m : buf[i] = c.payload[i]

(* It has n bytes of the contents of c. *)
InContents(p, buf, c, n) ==
    IF c.type = OTA_DATA
    THEN \/ n = 0 /\ p.st = "OTA_L0"
         \/ n = 1 /\ p.st = "OTA_L1" /\ p.olen = Len(c.payload) % Base
         \/ n >= 2 /\ InChunk(p, buf, c, n - 2)
    ELSE IF c.type \in Prefixed
    THEN \/ n = 0 /\ p.st = "LEN"
         \/ n >= 1 /\ InPayload(p, c, n - 1)
    ELSE InPayload(p, c, n)

(* It has k bytes of the frame of c. *)
Reading(p, buf, c, k) ==
    \/ k = 0 /\ p.st = "SYNC"
    \/ k = 1 /\ p.st = "TYPE"
    \/ k >= 2 /\ p.type = c.type /\ p.csum = Sums(c)[k - 2] /\ InContents(p, buf, c, k - 2)

(* A parser that becomes q leaves the others alone and announces nothing.*)
LEMMA Becomes ==
  ASSUME IInv, NEW t \in Transport, NEW q, Become(t, q)
  PROVE  /\ parser'[t] = q /\ cmd' = NoCommand
         /\ \A u \in Transport \ {t} : parser'[u] = parser[u]
BY DEF IInv, TypeOK, Become

(* Each state has one action. *)
LEMMA OneState ==
  ASSUME NEW t \in Transport, NEW b, Feed(t, b)
  PROVE  /\ st(t) = "SYNC" => AtSync(t, b)
         /\ st(t) = "TYPE" => AtType(t, b)
         /\ st(t) = "LEN" => AtLen(t, b)
         /\ st(t) = "PAYLOAD" => AtPayload(t, b)
         /\ st(t) = "CSUM" => AtCsum(t, b)
         /\ st(t) = "OTA_L0" => AtOtaL0(t, b)
         /\ st(t) = "OTA_L1" => AtOtaL1(t, b)
         /\ st(t) = "OTA_DATA" => AtOtaData(t, b)
         /\ st(t) = "OTA_CSUM" => AtOtaCsum(t, b)
BY DEF Feed, AtSync, AtType, AtLen, AtPayload, AtCsum,
       AtOtaL0, AtOtaL1, AtOtaData, AtOtaCsum

(* The next byte of the payload. *)
LEMMA PayloadByte ==
  ASSUME IInv, NEW t \in Transport, NEW c, IsCommand(c),
         NEW m \in 0 .. Len(c.payload) - 1, InPayload(parser[t], c, m),
         Feed(t, c.payload[m + 1])
  PROVE  /\ InPayload(parser'[t], c, m + 1) /\ cmd' = NoCommand
         /\ parser'[t].type = parser[t].type
         /\ parser'[t].csum = Xor(parser[t].csum, c.payload[m + 1])
         /\ \A u \in Transport \ {t} : parser'[u] = parser[u]
<1> DEFINE b == c.payload[m + 1]
           p == parser[t]
           s == Summed(p, b)
           e == [s EXCEPT !.payload = Append(@, b)]
           q == IF Len(e.payload) = e.need THEN [e EXCEPT !.st = "CSUM"] ELSE e
<1>1. c.payload \in Seq(Byte) /\ Len(c.payload) \in Nat /\ b \in Byte
  <2>1. c.payload \in Seq(Byte) /\ Len(c.payload) \in Nat
    BY LenProperties DEF IsCommand
  <2>2. m + 1 \in 1 .. Len(c.payload)
    BY <2>1
  <2> QED  BY <2>1, <2>2, ElementOfSeq
<1>2. p \in ParserType /\ p.st = "PAYLOAD"
  BY <1>1, OneParser DEF InPayload
<1>3. Become(t, q)
  BY <1>2, OneState DEF AtPayload, st
<1>4. s \in ParserType /\ s.st = p.st /\ s.payload = p.payload /\ s.need = p.need
      /\ s.type = p.type /\ s.csum = Xor(p.csum, b)
  <2>1. s.csum = Xor(p.csum, b)
    BY <1>2 DEF Summed, ParserType
  <2> QED  BY <1>1, <1>2, <2>1, SummedType
<1>5. /\ Append(p.payload, b) \in Seq(Byte) /\ Len(Append(p.payload, b)) = m + 1
      /\ \A i \in 1 .. m : Append(p.payload, b)[i] = p.payload[i]
      /\ Append(p.payload, b)[m + 1] = b
  BY <1>1, <1>2, AppendProperties DEF InPayload, ParserType
<1> HIDE DEF s
<1>6. /\ e.payload = Append(p.payload, b) /\ e.need = Len(c.payload) /\ e.st = "PAYLOAD"
      /\ e.type = p.type /\ e.csum = Xor(p.csum, b) /\ e \in ParserType
  BY <1>2, <1>4, <1>5 DEF ParserType, InPayload
<1>7. /\ q.payload = e.payload /\ q.need = e.need /\ q.type = e.type /\ q.csum = e.csum
      /\ q.st = IF m + 1 = Len(c.payload) THEN "CSUM" ELSE "PAYLOAD"
  <2> HIDE DEF e
  <2> QED  BY <1>5, <1>6 DEF ParserType
<1>8. \A i \in 1 .. m + 1 : q.payload[i] = c.payload[i]
  BY <1>1, <1>5, <1>6, <1>7 DEF InPayload
<1> HIDE DEF q
<1>9. parser'[t] = q /\ cmd' = NoCommand
      /\ \A u \in Transport \ {t} : parser'[u] = parser[u]
  BY <1>3, Becomes
<1> QED  BY <1>5, <1>6, <1>7, <1>8, <1>9 DEF InPayload

(* How long the contents are. *)
LEMMA Lengths ==
  ASSUME NEW c, IsCommand(c)
  PROVE  /\ Len(c.payload) \in Nat /\ c.payload \in Seq(Byte)
         /\ c.type = OTA_DATA => Len(Contents(c)) = 2 + Len(c.payload)
         /\ c.type \in Prefixed => Len(Contents(c)) = 1 + Len(c.payload)
         /\ c.type # OTA_DATA /\ c.type \notin Prefixed =>
                Len(Contents(c)) = Len(c.payload)
<1>1. c.payload \in Seq(Byte) /\ Len(c.payload) \in Nat
  BY LenProperties DEF IsCommand
<1>2. Len(Contents(c)) = Header(c) + Len(c.payload)
  BY ContentsOf
<1>3. c.type \in Prefixed => c.type # OTA_DATA
  BY CommandsAssumption DEF CommandsAssumption
<1>4. CASE c.type = OTA_DATA
  BY <1>1, <1>2, <1>3, <1>4 DEF Header
<1>5. CASE c.type \in Prefixed
  BY <1>1, <1>2, <1>3, <1>5 DEF Header
<1>6. CASE c.type # OTA_DATA /\ c.type \notin Prefixed
  <2>1. Header(c) = 0 /\ 0 + Len(c.payload) = Len(c.payload)
    BY <1>1, <1>6 DEF Header
  <2> QED  BY <1>1, <1>2, <1>6, <2>1
<1> QED  BY <1>4, <1>5, <1>6

(* One more byte of the frame of c. *)
Heard(t, c, k) ==
    /\ Reading(parser'[t], ota_buf', c, k + 1)
    /\ cmd' = NoCommand
    /\ \A u \in Transport \ {t} : parser'[u] = parser[u]

(* The first byte. *)
LEMMA SyncHeard ==
  ASSUME IInv, NEW t \in Transport, NEW c, parser[t].st = "SYNC", Feed(t, SyncByte)
  PROVE  Heard(t, c, 0)
<1> DEFINE q == [parser[t] EXCEPT !.st = "TYPE"]
<1>1. parser[t] \in ParserType
  BY OneParser
<1>2. Become(t, q)
  BY OneState DEF AtSync, st
<1>3. q.st = "TYPE"
  BY <1>1 DEF ParserType
<1>4. parser'[t] = q /\ cmd' = NoCommand
      /\ \A u \in Transport \ {t} : parser'[u] = parser[u]
  BY <1>2, Becomes
<1> QED  BY <1>3, <1>4 DEF Heard, Reading

(* The type. *)
LEMMA TypeHeard ==
  ASSUME IInv, NEW t \in Transport, NEW c, IsCommand(c), parser[t].st = "TYPE",
         Feed(t, c.type)
  PROVE  Heard(t, c, 1)
<1> DEFINE b == c.type
           p == parser[t]
           d == [p EXCEPT !.type = b, !.csum = b]
           e == [d EXCEPT !.payload = <<>>]
           long == [e EXCEPT !.st = "PAYLOAD"]
           idle == [e EXCEPT !.st = "SYNC"]
           q == CASE b \in Prefixed -> [e EXCEPT !.st = "LEN"]
                  [] b = OTA_DATA   -> [e EXCEPT !.st = "OTA_L0"]
                  [] b \in DOMAIN FixedLen
                                    -> [long EXCEPT !.need = FixedLen[b]]
                  [] OTHER          -> [idle EXCEPT !.need = 0]
<1>0. b \in Byte /\ p \in ParserType
  BY OneParser DEF IsCommand
<1>1. Become(t, q)
  BY OneState DEF AtType, st
<1>2. d \in ParserType /\ d.type = b /\ d.csum = b
  BY <1>0 DEF ParserType
<1> HIDE DEF d
<1>3. e \in ParserType /\ e.type = b /\ e.csum = b /\ e.payload = <<>>
  <2> DEFINE none == <<>>
  <2>1. none \in Seq(Byte)
    BY EmptySeq
  <2> HIDE DEF none
  <2>2. LET x == [d EXCEPT !.payload = none]
        IN  x \in ParserType /\ x.type = b /\ x.csum = b /\ x.payload = none
    BY <1>2, <2>1 DEF ParserType
  <2> QED BY <2>2 DEF none
<1> HIDE DEF e
<1>4. /\ long \in ParserType /\ long.type = b /\ long.csum = b /\ long.payload = <<>>
      /\ long.st = "PAYLOAD"
  BY <1>3 DEF ParserType, States
<1> HIDE DEF long, idle
<1> DEFINE Good(r) == r.type = b /\ r.csum = b /\ InContents(r, ota_buf', c, 0)
<1>5. b = OTA_DATA => Good(q)
  <2> SUFFICES ASSUME b = OTA_DATA PROVE Good(q)
    OBVIOUS
  <2>1. q = [e EXCEPT !.st = "OTA_L0"]
    BY CommandsAssumption DEF CommandsAssumption
  <2>2. q.type = b /\ q.csum = b /\ q.st = "OTA_L0"
    BY <2>1, <1>3 DEF ParserType
  <2> QED BY <2>2 DEF InContents
<1>6. b \in Prefixed => Good(q)
  <2> SUFFICES ASSUME b \in Prefixed PROVE Good(q)
    OBVIOUS
  <2>1. q = [e EXCEPT !.st = "LEN"]
    BY CommandsAssumption DEF CommandsAssumption
  <2>2. b # OTA_DATA
    BY CommandsAssumption DEF CommandsAssumption
  <2>3. q.type = b /\ q.csum = b /\ q.st = "LEN"
    BY <2>1, <1>3 DEF ParserType
  <2> QED BY <2>2, <2>3 DEF InContents
<1>7. b \notin Prefixed /\ b # OTA_DATA => Good(q)
  <2> SUFFICES ASSUME b \notin Prefixed, b # OTA_DATA PROVE Good(q)
    OBVIOUS
  <2>1. b \in DOMAIN FixedLen /\ Len(c.payload) = FixedLen[b]
    BY DEF IsCommand
  <2>2. FixedLen[b] \in Nat \ {0}
    BY <2>1, ParserAssumption
  <2>3. q = [long EXCEPT !.need = FixedLen[b]]
    BY <2>1
  <2>4. /\ q.type = b /\ q.csum = b /\ q.st = "PAYLOAD" /\ q.need = Len(c.payload)
        /\ q.payload = <<>>
    BY <2>1, <2>2, <2>3, <1>4 DEF ParserType
  <2>5. InPayload(q, c, 0)
    BY <2>1, <2>2, <2>4 DEF InPayload
  <2> QED BY <2>4, <2>5 DEF InContents
<1> HIDE DEF q
<1>8. parser'[t] = q /\ cmd' = NoCommand
      /\ \A u \in Transport \ {t} : parser'[u] = parser[u]
  BY <1>1, Becomes
<1>9. Sums(c)[0] = b
  BY SumsOf
<1> QED  BY <1>5, <1>6, <1>7, <1>8, <1>9 DEF Heard, Reading

(* The length byte of a prefixed type. *)
LEMMA LenHeard ==
  ASSUME IInv, NEW t \in Transport, NEW c, IsCommand(c), c.type \in Prefixed,
         parser[t].st = "LEN", parser[t].type = c.type, parser[t].csum = Sums(c)[0],
         Feed(t, Contents(c)[1])
  PROVE  Heard(t, c, 2)
<1> DEFINE b == Contents(c)[1]
           p == parser[t]
           s == Summed(p, b)
           e == [s EXCEPT !.need = b]
           q == [e EXCEPT !.st = IF b > MaxPayload THEN "SYNC"
                                 ELSE IF b = 0 THEN "CSUM" ELSE "PAYLOAD"]
<1>0. /\ p \in ParserType /\ p.payload = <<>> /\ c.type # OTA_DATA
      /\ b = Len(c.payload) /\ b \in Nat /\ b <= MaxPayload /\ MaxPayload \in Nat
      /\ b \in Byte
  <2>1. c.type # OTA_DATA /\ c.type \notin DOMAIN FixedLen
    BY CommandsAssumption DEF CommandsAssumption
  <2>2. b = Len(c.payload) /\ Len(c.payload) \in Nat
    BY ContentsOf, Lengths
  <2>3. b <= MaxPayload /\ MaxPayload < Base /\ MaxPayload \in Nat /\ Base \in Nat
    BY <2>1, <2>2, CommandsAssumption, ParserAssumption
       DEF IsCommand, CommandsAssumption
  <2> QED BY <2>1, <2>2, <2>3, OneParser DEF Room, Byte
<1>1. Become(t, q)
  BY OneState DEF AtLen, st
<1>2. s \in ParserType /\ s.type = p.type /\ s.payload = <<>> /\ s.csum = Xor(p.csum, b)
  <2>1. s.csum = Xor(p.csum, b)
    BY <1>0 DEF Summed, ParserType
  <2> QED BY <2>1, <1>0, SummedType
<1> HIDE DEF s
<1>3. /\ e \in ParserType /\ e.type = p.type /\ e.payload = <<>>
      /\ e.csum = Xor(p.csum, b) /\ e.need = b
  BY <1>0, <1>2 DEF ParserType
<1> HIDE DEF e
<1>4. /\ q.type = p.type /\ q.payload = <<>> /\ q.csum = Xor(p.csum, b) /\ q.need = b
      /\ q.st = IF b = 0 THEN "CSUM" ELSE "PAYLOAD"
  BY <1>0, <1>3 DEF ParserType
<1> HIDE DEF q
<1>5. InPayload(q, c, 0)
  BY <1>0, <1>4 DEF InPayload
<1>6. Sums(c)[1] = Xor(Sums(c)[0], b)
  <2>1. 1 \in 1 .. Len(Contents(c)) /\ 1 - 1 = 0
    BY <1>0, Lengths
  <2> QED BY <2>1, SumsOf
<1>7. parser'[t] = q /\ cmd' = NoCommand
      /\ \A u \in Transport \ {t} : parser'[u] = parser[u]
  BY <1>1, Becomes
<1> QED  BY <1>0, <1>4, <1>5, <1>6, <1>7 DEF Heard, Reading, InContents

(* The low byte of the length of a chunk (S_OTA_L0).                       *)
LEMMA LowHeard ==
  ASSUME IInv, NEW t \in Transport, NEW c, IsCommand(c), c.type = OTA_DATA,
         parser[t].st = "OTA_L0", parser[t].type = c.type, parser[t].csum = Sums(c)[0],
         Feed(t, Contents(c)[1])
  PROVE  Heard(t, c, 2)
<1> DEFINE b == Contents(c)[1]
           p == parser[t]
           s == Summed(p, b)
           q == [s EXCEPT !.olen = b, !.st = "OTA_L1"]
<1>0. p \in ParserType /\ b = Len(c.payload) % Base /\ b \in Byte /\ b \in Nat
  <2>1. Len(c.payload) \in Nat /\ Byte \subseteq Nat
    BY Lengths, ParserAssumption DEF Byte
  <2>2. b = Len(c.payload) % Base /\ b \in Byte
    BY <2>1, ContentsOf, DivMod
  <2> QED BY <2>1, <2>2, OneParser
<1>1. Become(t, q)
  BY OneState DEF AtOtaL0, st
<1>2. s \in ParserType /\ s.type = p.type /\ s.csum = Xor(p.csum, b)
  <2>1. s.csum = Xor(p.csum, b)
    BY <1>0 DEF Summed, ParserType
  <2> QED BY <2>1, <1>0, SummedType
<1> HIDE DEF s
<1>3. q.type = p.type /\ q.csum = Xor(p.csum, b) /\ q.olen = b /\ q.st = "OTA_L1"
  BY <1>0, <1>2 DEF ParserType
<1> HIDE DEF q
<1>4. Sums(c)[1] = Xor(Sums(c)[0], b)
  <2>1. 1 \in 1 .. Len(Contents(c)) /\ 1 - 1 = 0
    BY Lengths
  <2> QED BY <2>1, SumsOf
<1>5. parser'[t] = q /\ cmd' = NoCommand
      /\ \A u \in Transport \ {t} : parser'[u] = parser[u]
  BY <1>1, Becomes
<1> QED  BY <1>0, <1>3, <1>4, <1>5 DEF Heard, Reading, InContents

(* The high byte of the length of a chunk (S_OTA_L1).                    *)
LEMMA HighHeard ==
  ASSUME IInv, NEW t \in Transport, NEW c, IsCommand(c), c.type = OTA_DATA,
         parser[t].st = "OTA_L1", parser[t].type = c.type, parser[t].csum = Sums(c)[1],
         parser[t].olen = Len(c.payload) % Base, Feed(t, Contents(c)[2])
  PROVE  Heard(t, c, 3)
<1> DEFINE b == Contents(c)[2]
           p == parser[t]
           s == Summed(p, b)
           len == p.olen + Base * b
           e == [s EXCEPT !.olen = len, !.ogot = 0]
           q == [e EXCEPT !.st = IF len \in 1 .. MaxChunk THEN "OTA_DATA"
                                                          ELSE "SYNC"]
<1>0. p \in ParserType /\ b = Len(c.payload) \div Base /\ b \in Byte
      /\ len = Len(c.payload) /\ len \in 1 .. MaxChunk /\ len \in Nat /\ len # 0
      /\ Len(c.payload) \in Nat
  <2>1. Len(c.payload) \in 1 .. MaxChunk /\ MaxChunk \in Nat /\ Base \in Nat
        /\ MaxChunk < Base * Base
    BY CommandsAssumption, ParserAssumption DEF IsCommand, CommandsAssumption
  <2>2. Len(c.payload) \in Nat /\ Len(c.payload) < Base * Base /\ Len(c.payload) # 0
    BY <2>1
  <2>3. b = Len(c.payload) \div Base
    BY ContentsOf
  <2> QED BY <2>1, <2>2, <2>3, OneParser, DivMod
<1>1. Become(t, q)
  BY OneState DEF AtOtaL1, st
<1>2. s \in ParserType /\ s.type = p.type /\ s.csum = Xor(p.csum, b)
  <2>1. s.csum = Xor(p.csum, b)
    BY <1>0 DEF Summed, ParserType
  <2> QED BY <2>1, <1>0, SummedType
<1> HIDE DEF s, len
<1>3. /\ e \in ParserType /\ e.type = p.type /\ e.csum = Xor(p.csum, b) /\ e.olen = len
      /\ e.ogot = 0
  BY <1>0, <1>2 DEF ParserType
<1> HIDE DEF e
<1>4. q.type = p.type /\ q.csum = Xor(p.csum, b) /\ q.olen = Len(c.payload) /\ q.ogot = 0
      /\ q.st = "OTA_DATA"
  BY <1>0, <1>3 DEF ParserType
<1> HIDE DEF q
<1>5. Sums(c)[2] = Xor(Sums(c)[1], b)
  <2>1. 2 \in 1 .. Len(Contents(c)) /\ 2 - 1 = 1
    BY Lengths
  <2> QED BY <2>1, SumsOf
<1>6. parser'[t] = q /\ cmd' = NoCommand
      /\ \A u \in Transport \ {t} : parser'[u] = parser[u]
  BY <1>1, Becomes
<1>7. InChunk(q, ota_buf', c, 0)
  BY <1>0, <1>4 DEF InChunk
<1> QED  BY <1>0, <1>4, <1>5, <1>6, <1>7 DEF Heard, Reading, InContents

(* A byte of a chunk. *)
LEMMA ChunkHeard ==
  ASSUME IInv, NEW t \in Transport, NEW c, IsCommand(c), c.type = OTA_DATA,
         NEW m \in 0 .. Len(c.payload) - 1, InChunk(parser[t], ota_buf, c, m),
         parser[t].type = c.type, parser[t].csum = Sums(c)[m + 2],
         Feed(t, Contents(c)[m + 3])
  PROVE  Heard(t, c, m + 4)
<1> DEFINE b == Contents(c)[m + 3]
           p == parser[t]
           s == Summed(p, b)
           e == [s EXCEPT !.ogot = @ + 1]
           q == IF e.ogot = e.olen THEN [e EXCEPT !.st = "OTA_CSUM"] ELSE e
<1>0. /\ m \in Nat /\ Len(c.payload) \in Nat /\ m + 1 \in 1 .. Len(c.payload)
      /\ c.payload \in Seq(Byte) /\ Len(c.payload) \in 1 .. MaxChunk /\ MaxChunk \in Nat
  <2>1. Len(c.payload) \in 1 .. MaxChunk /\ MaxChunk \in Nat
    BY CommandsAssumption, ParserAssumption DEF IsCommand, CommandsAssumption
  <2> QED BY <2>1 DEF IsCommand
<1>1. b = c.payload[m + 1] /\ b \in Byte
  <2>1. Header(c) = 2 /\ Contents(c)[2 + (m + 1)] = c.payload[m + 1]
    BY <1>0, ContentsOf DEF Header
  <2>2. 2 + (m + 1) = m + 3
    BY <1>0
  <2> QED BY <1>0, <2>1, <2>2, ElementOfSeq
<1>2. /\ p \in ParserType /\ p.st = "OTA_DATA" /\ p.olen = Len(c.payload) /\ p.ogot = m
      /\ ota_buf \in [1 .. MaxChunk -> Byte]
  BY <1>0, OneParser DEF InChunk
<1>3. s \in ParserType /\ s.type = p.type /\ s.csum = Xor(p.csum, b) /\ s.olen = p.olen
      /\ s.ogot = m /\ s.st = p.st
  <2>1. s.csum = Xor(p.csum, b)
    BY <1>2 DEF Summed, ParserType
  <2> QED BY <2>1, <1>1, <1>2, SummedType
<1>4. Become(t, q) /\ ota_buf' = [ota_buf EXCEPT ![e.ogot] = b]
  BY <1>2, OneState DEF AtOtaData, st
<1> HIDE DEF s
<1>5. /\ e \in ParserType /\ e.type = p.type /\ e.csum = Xor(p.csum, b)
      /\ e.olen = Len(c.payload) /\ e.ogot = m + 1 /\ e.st = "OTA_DATA"
  <2>1. s.ogot + 1 = m + 1 /\ m + 1 \in Nat
    BY <1>0, <1>3
  <2> QED BY <1>2, <1>3, <2>1 DEF ParserType
<1> HIDE DEF e
<1>6. /\ q.type = p.type /\ q.csum = Xor(p.csum, b)
      /\ q.olen = Len(c.payload) /\ q.ogot = m + 1
      /\ q.st = IF m + 1 = Len(c.payload) THEN "OTA_CSUM" ELSE "OTA_DATA"
  BY <1>5 DEF ParserType
<1> HIDE DEF q
<1>7. \A i \in 1 .. m + 1 : ota_buf'[i] = c.payload[i]
  <2>1. m + 1 \in 1 .. MaxChunk /\ \A i \in 1 .. m : i \in 1 .. MaxChunk /\ i # m + 1
    BY <1>0
  <2>2. ota_buf'[m + 1] = b /\ \A i \in 1 .. m : ota_buf'[i] = ota_buf[i]
    BY <1>2, <1>4, <1>5, <2>1
  <2>3. \A i \in 1 .. m : ota_buf[i] = c.payload[i]
    BY DEF InChunk
  <2>4. \A i \in 1 .. m + 1 : i = m + 1 \/ i \in 1 .. m
    BY <1>0
  <2> QED BY <1>1, <2>2, <2>3, <2>4
<1>8. Sums(c)[m + 3] = Xor(Sums(c)[m + 2], b)
  <2>1. m + 3 \in 1 .. Len(Contents(c)) /\ (m + 3) - 1 = m + 2
    BY <1>0, Lengths
  <2> QED BY <2>1, SumsOf
<1>9. parser'[t] = q /\ cmd' = NoCommand
      /\ \A u \in Transport \ {t} : parser'[u] = parser[u]
  BY <1>4, Becomes
<1>10. InChunk(parser'[t], ota_buf', c, m + 1)
  BY <1>6, <1>7, <1>9 DEF InChunk
<1>11. (m + 4) + 1 >= 2 /\ ((m + 4) + 1) - 2 = m + 3 /\ m + 3 >= 2 /\ (m + 3) - 2 = m + 1
  BY <1>0
<1>12. InContents(parser'[t], ota_buf', c, m + 3)
  BY <1>10, <1>11 DEF InContents
<1>13. Reading(parser'[t], ota_buf', c, (m + 4) + 1)
  BY <1>6, <1>8, <1>9, <1>11, <1>12 DEF Reading
<1> QED  BY <1>9, <1>13 DEF Heard

(* Before the last byte of a frame: it is heard, and nothing is announced. *)
LEMMA ReadsOn ==
  ASSUME IInv, NEW t \in Transport, NEW c, IsCommand(c),
         NEW k \in 0 .. Len(Encode(c)) - 2, Reading(parser[t], ota_buf, c, k),
         Feed(t, Encode(c)[k + 1])
  PROVE  Heard(t, c, k)
<1> DEFINE p == parser[t]
           n == k - 2
<1>0. Len(Contents(c)) \in Nat /\ k \in Nat /\ k <= Len(Contents(c)) + 1
      /\ Len(c.payload) \in Nat
  BY EncodeOf, Lengths
<1>1. CASE k = 0
  BY <1>1, SyncHeard, EncodeOf DEF Reading
<1>2. CASE k = 1
  BY <1>2, TypeHeard, EncodeOf DEF Reading
<1>3. CASE k >= 2
  <2>1. /\ n \in Nat /\ n + 1 \in 1 .. Len(Contents(c)) /\ (n + 1) + 2 = k + 1 /\ k = n + 2
        /\ k + 1 = n + 3 /\ (n + 3) - 2 = n + 1 /\ n + 3 >= 2 /\ (n + 1) - 1 = n
    BY <1>0, <1>3
  <2>2. /\ p.type = c.type /\ p.csum = Sums(c)[n] /\ InContents(p, ota_buf, c, n)
        /\ Feed(t, Contents(c)[n + 1])
    <3>1. k # 0 /\ k # 1
      BY <1>0, <1>3
    <3>2. Encode(c)[(n + 1) + 2] = Contents(c)[n + 1]
      BY <2>1, EncodeOf
    <3>3. Encode(c)[k + 1] = Contents(c)[n + 1]
      BY <2>1, <3>2
    <3> QED  BY <3>1, <3>3 DEF Reading
  <2> HIDE DEF n
  <2>3. CASE c.type = OTA_DATA
    <3>1. CASE n = 0
      BY <2>1, <2>2, <2>3, <3>1, LowHeard DEF InContents, InChunk
    <3>2. CASE n = 1
      BY <2>1, <2>2, <2>3, <3>2, HighHeard DEF InContents, InChunk
    <3>3. CASE n >= 2
      <4>1. InChunk(p, ota_buf, c, n - 2)
        BY <2>1, <2>2, <2>3, <3>3 DEF InContents
      <4>2. n - 2 \in 0 .. Len(c.payload) - 1 /\ (n - 2) + 2 = n /\ (n - 2) + 3 = n + 1
            /\ (n - 2) + 4 = k
        BY <1>0, <2>1, <2>3, <3>3, Lengths
      <4> DEFINE m == n - 2
      <4>3. /\ m \in 0 .. Len(c.payload) - 1 /\ InChunk(p, ota_buf, c, m)
            /\ p.csum = Sums(c)[m + 2] /\ Feed(t, Contents(c)[m + 3]) /\ m + 4 = k
        BY <2>2, <4>1, <4>2
      <4> HIDE DEF m
      <4>4. Heard(t, c, m + 4)
        BY <2>2, <2>3, <4>3, ChunkHeard
      <4> QED  BY <4>3, <4>4
    <3> QED  BY <2>1, <3>1, <3>2, <3>3
  <2>4. CASE c.type # OTA_DATA /\ c.type \in Prefixed /\ n = 0
    BY <2>1, <2>2, <2>4, LenHeard DEF InContents, InPayload
  <2>5. CASE c.type # OTA_DATA /\ ~ (c.type \in Prefixed /\ n = 0)
    <3> DEFINE m == IF c.type \in Prefixed THEN n - 1 ELSE n
    <3>1. /\ m \in 0 .. Len(c.payload) - 1 /\ InPayload(p, c, m)
          /\ Contents(c)[n + 1] = c.payload[m + 1]
      <4>1. CASE c.type \in Prefixed
        <5>1. m = n - 1 /\ n >= 1
          BY <2>1, <2>5, <4>1
        <5>2. m \in 0 .. Len(c.payload) - 1 /\ m + 1 \in 1 .. Len(c.payload)
              /\ 1 + (m + 1) = n + 1
          BY <1>0, <2>1, <4>1, <5>1, Lengths
        <5>3. InPayload(p, c, m)
          BY <2>2, <2>5, <4>1, <5>1 DEF InContents
        <5>4. Header(c) = 1
          BY <2>5, <4>1 DEF Header
        <5> HIDE DEF m
        <5> QED  BY <5>2, <5>3, <5>4, ContentsOf
      <4>2. CASE c.type \notin Prefixed
        <5>1. m = n
          BY <4>2
        <5>2. m \in 0 .. Len(c.payload) - 1 /\ m + 1 \in 1 .. Len(c.payload)
              /\ 0 + (m + 1) = n + 1
          BY <1>0, <2>1, <2>5, <4>2, <5>1, Lengths
        <5>3. InPayload(p, c, m)
          BY <2>2, <2>5, <4>2, <5>1 DEF InContents
        <5>4. Header(c) = 0
          BY <2>5, <4>2 DEF Header
        <5> HIDE DEF m
        <5> QED  BY <5>2, <5>3, <5>4, ContentsOf
      <4> QED  BY <4>1, <4>2
    <3> HIDE DEF m
    <3>2. /\ InPayload(parser'[t], c, m + 1) /\ cmd' = NoCommand
          /\ parser'[t].type = parser[t].type
          /\ parser'[t].csum = Xor(parser[t].csum, c.payload[m + 1])
          /\ \A u \in Transport \ {t} : parser'[u] = parser[u]
      BY <2>2, <3>1, PayloadByte
    <3>3. Sums(c)[n + 1] = Xor(Sums(c)[n], Contents(c)[n + 1])
      BY <2>1, SumsOf
    <3>4. InContents(parser'[t], ota_buf', c, n + 1)
      <4>1. CASE c.type \in Prefixed
        <5>1. m + 1 = (n + 1) - 1 /\ n + 1 >= 1
          BY <2>1, <4>1 DEF m
        <5> QED  BY <2>5, <3>2, <4>1, <5>1 DEF InContents
      <4>2. CASE c.type \notin Prefixed
        <5>1. m + 1 = n + 1
          BY <4>2 DEF m
        <5> QED  BY <2>5, <3>2, <4>2, <5>1 DEF InContents
      <4> QED  BY <4>1, <4>2
    <3>5. Reading(parser'[t], ota_buf', c, k + 1)
      BY <2>1, <2>2, <3>1, <3>2, <3>3, <3>4 DEF Reading
    <3> QED  BY <3>2, <3>5 DEF Heard
  <2> QED  BY <2>3, <2>4, <2>5
<1> QED  BY <1>0, <1>1, <1>2, <1>3

(* The first n elements. *)
LEMMA FirstOf ==
  ASSUME NEW S, NEW s, NEW n \in Nat, \A i \in 1 .. n : s[i] \in S
  PROVE  /\ SubSeq(s, 1, n) \in Seq(S) /\ Len(SubSeq(s, 1, n)) = n
         /\ \A i \in 1 .. n : SubSeq(s, 1, n)[i] = s[i]
<1>1. 1 \in Int /\ n \in Int /\ n - 1 + 1 = n /\ (~ 1 <= n => n = 0)
      /\ \A i \in 1 .. n : 1 + i - 1 = i
  OBVIOUS
<1>2. /\ SubSeq(s, 1, n) \in Seq(S)
      /\ Len(SubSeq(s, 1, n)) = IF 1 <= n THEN n - 1 + 1 ELSE 0
      /\ \A i \in 1 .. n - 1 + 1 : SubSeq(s, 1, n)[i] = s[1 + i - 1]
  BY <1>1, SubSeqProperties
<1> QED  BY <1>1, <1>2

(* Every parser waits for the first byte of a frame. *)
AllReady == \A u \in Transport : parser'[u] = Ready

(* The last byte: the command is announced as it was sent. *)
LEMMA ReadsLast ==
  ASSUME IInv, NEW t \in Transport, NEW c, IsCommand(c),
         NEW k, k = Len(Encode(c)) - 1, Reading(parser[t], ota_buf, c, k),
         Feed(t, Encode(c)[k + 1])
  PROVE  /\ cmd' = c /\ UNCHANGED ota_buf
         /\ \/ AllReady
            \/ /\ parser'[t].st = "SYNC"
               /\ \A u \in Transport \ {t} : parser'[u] = parser[u]
<1> DEFINE p == parser[t]
           n == Len(Contents(c))
<1>0. /\ n \in Nat /\ k = n + 2 /\ k >= 2 /\ k - 2 = n /\ k # 0 /\ k # 1
      /\ Encode(c)[k + 1] = Sums(c)[n] /\ Len(c.payload) \in Nat /\ c.payload \in Seq(Byte)
  <2>1. n \in Nat /\ k = n + 2
    BY EncodeOf
  <2>2. k + 1 = n + 3 /\ k >= 2 /\ k - 2 = n /\ k # 0 /\ k # 1
    BY <2>1
  <2>3. Encode(c)[n + 3] = Sums(c)[n]
    BY EncodeOf
  <2> QED  BY <2>1, <2>2, <2>3, Lengths
<1>1. /\ p.type = c.type /\ p.csum = Sums(c)[n] /\ InContents(p, ota_buf, c, n)
      /\ Feed(t, p.csum)
  BY <1>0 DEF Reading
<1>2. p \in ParserType /\ ota_buf \in [1 .. MaxChunk -> Byte]
  BY OneParser
<1>3. c = [type |-> c.type, payload |-> c.payload]
  BY DEF IsCommand
<1>4. \E command : Complete(t, command) /\ command = c
  <2>1. CASE c.type = OTA_DATA
    <3>1. InChunk(p, ota_buf, c, Len(c.payload)) /\ Len(c.payload) \in 1 .. MaxChunk
          /\ MaxChunk \in Nat
      <4>1. Len(c.payload) \in 1 .. MaxChunk /\ MaxChunk \in Nat
        BY <2>1, CommandsAssumption, ParserAssumption DEF IsCommand, CommandsAssumption
      <4>2. n = 2 + Len(c.payload) /\ n # 0 /\ n # 1 /\ n - 2 = Len(c.payload)
        <5>1. n = 2 + Len(c.payload)
          BY <2>1, Lengths
        <5> QED  BY <1>0, <5>1
      <4> QED  BY <1>1, <2>1, <4>1, <4>2 DEF InContents
    <3> DEFINE s == SubSeq(ota_buf, 1, p.olen)
    <3>2. p.st = "OTA_CSUM" /\ p.olen = Len(c.payload)
          /\ \A i \in 1 .. Len(c.payload) : ota_buf[i] = c.payload[i]
      BY <3>1 DEF InChunk
    <3>3. Complete(t, [type |-> OTA_DATA, payload |-> s])
      BY <1>1, <3>2, OneState DEF AtOtaCsum, st
    <3>4. /\ Len(s) = Len(c.payload) /\ s \in Seq(Byte)
          /\ \A i \in 1 .. Len(c.payload) : s[i] = ota_buf[i]
      <4>1. \A i \in 1 .. Len(c.payload) : ota_buf[i] \in Byte
        BY <1>0, <1>2, <3>1
      <4> QED  BY <1>0, <3>2, <4>1, FirstOf
    <3>5. s = c.payload
      BY <1>0, <3>2, <3>4, SeqEqual
    <3> QED  BY <1>3, <2>1, <3>3, <3>5
  <2>2. CASE c.type # OTA_DATA
    <3>1. InPayload(p, c, Len(c.payload))
      <4>1. CASE c.type \in Prefixed
        <5>1. n = 1 + Len(c.payload) /\ n # 0 /\ n - 1 = Len(c.payload)
          BY <1>0, <4>1, Lengths
        <5> QED  BY <1>1, <2>2, <4>1, <5>1 DEF InContents
      <4>2. CASE c.type \notin Prefixed
        BY <1>0, <1>1, <2>2, <4>2, Lengths DEF InContents
      <4> QED  BY <4>1, <4>2
    <3>2. p.st = "CSUM" /\ p.payload \in Seq(Byte) /\ p.payload = c.payload
      BY <1>0, <1>2, <3>1, SeqEqual DEF InPayload, ParserType
    <3>3. Complete(t, [type |-> p.type, payload |-> p.payload])
      BY <1>1, <3>2, OneState DEF AtCsum, st
    <3> QED  BY <1>1, <1>3, <3>2, <3>3
  <2> QED  BY <2>1, <2>2
<1>5. Complete(t, c)
  BY <1>4
<1>6. CASE parser' = [u \in Transport |-> Ready]
  BY <1>5, <1>6 DEF Complete, AllReady
<1>7. CASE parser' = [parser EXCEPT ![t].st = "SYNC"]
  <2>1. parser \in [Transport -> ParserType]
    BY DEF IInv, TypeOK, ParserType
  <2>2. parser'[t].st = "SYNC" /\ \A u \in Transport \ {t} : parser'[u] = parser[u]
    BY <1>7, <2>1 DEF ParserType
  <2> QED  BY <1>5, <2>2 DEF Complete
<1> QED  BY <1>5, <1>6, <1>7 DEF Complete

-----------------------------------------------------------------------------
(* Where the frames of a connection are on its wire. *)

Command == [type : Byte, payload : Seq(Byte)]

AreCommands(s) == s \in Seq(Command) /\ \A i \in 1 .. Len(s) : IsCommand(s[i])

(* Frame i of s comes after byte at[i] of w, which is not positive when it *)
(* has been fed; the last one ends where w does.                           *)
Layout(at, w, s) ==
    /\ at \in [1 .. Len(s) + 1 -> Int]
    /\ at[Len(s) + 1] = Len(w)
    /\ \A i \in 1 .. Len(s) + 1 : at[i] <= Len(w)
    /\ \A i \in 1 .. Len(s) : at[i + 1] = at[i] + Len(Encode(s[i]))
    /\ \A i \in 1 .. Len(s) : \A k \in 1 .. Len(Encode(s[i])) :
          at[i] + k >= 1 => w[at[i] + k] = Encode(s[i])[k]

(* Before the first frame. *)
LEMMA LayoutBegins ==
  ASSUME NEW w, Len(w) \in Nat
  PROVE  Layout([i \in 1 .. 1 |-> Len(w)], w, <<>>)
<1> DEFINE n == Len(w)
           at == [i \in 1 .. 1 |-> n]
<1> HIDE DEF n
<1>1. Len(<<>>) = 0 /\ 0 + 1 = 1 /\ n \in Int /\ n <= n /\ 1 .. 0 = {}
      /\ 1 .. 1 = {1}
  BY DEF n
<1>2. at \in [1 .. 1 -> Int] /\ at[1] = n
  BY <1>1
<1> HIDE DEF at
<1>3. Layout(at, w, <<>>)
  BY <1>1, <1>2 DEF Layout, n
<1> QED  BY <1>3 DEF at, n

(* One more frame. *)
LEMMA LayoutGrows ==
  ASSUME NEW at, NEW w \in Seq(Byte), NEW s, AreCommands(s), Layout(at, w, s),
         NEW c, IsCommand(c)
  PROVE  \E up : /\ Layout(up, w \o Encode(c), Append(s, c))
                 /\ \A i \in 1 .. Len(s) + 1 : up[i] = at[i]
<1> DEFINE n == Len(s)
           m == Len(w)
           e == Len(Encode(c))
           up == [i \in 1 .. n + 2 |-> IF i <= n + 1 THEN at[i] ELSE m + e]
           w2 == w \o Encode(c)
           s2 == Append(s, c)
<1>1. n \in Nat /\ m \in Nat /\ e \in Nat /\ Encode(c) \in Seq(Byte) /\ s \in Seq(Command)
      /\ c \in Command
  BY EncodeOf, LenProperties DEF AreCommands, IsCommand, Command
<1>2. /\ Len(s2) = n + 1 /\ s2[n + 1] = c /\ \A i \in 1 .. n : s2[i] = s[i]
  BY <1>1, AppendProperties
<1>3. /\ Len(w2) = m + e /\ \A i \in 1 .. m : w2[i] = w[i]
      /\ \A i \in 1 .. e : w2[m + i] = Encode(c)[i]
  BY <1>1, Joined
<1>4. \A i \in 1 .. n : Len(Encode(s[i])) \in Nat
  BY EncodeOf DEF AreCommands
<1>5. /\ at \in [1 .. n + 1 -> Int] /\ at[n + 1] = m
      /\ \A i \in 1 .. n + 1 : at[i] <= m
      /\ \A i \in 1 .. n : at[i + 1] = at[i] + Len(Encode(s[i]))
      /\ \A i \in 1 .. n : \A k \in 1 .. Len(Encode(s[i])) :
            at[i] + k >= 1 => w[at[i] + k] = Encode(s[i])[k]
  BY DEF Layout
<1> HIDE DEF n, m, e, w2, s2
<1>6. up \in [1 .. n + 2 -> Int] /\ up[n + 2] = m + e
      /\ \A i \in 1 .. n + 1 : up[i] = at[i]
  BY <1>1, <1>5
<1> HIDE DEF up
<1>7. \A i \in 1 .. n + 2 : up[i] <= m + e
  <2> SUFFICES ASSUME NEW i \in 1 .. n + 2 PROVE up[i] <= m + e
    OBVIOUS
  <2>1. CASE i = n + 2
    BY <1>1, <1>6, <2>1
  <2>2. CASE i \in 1 .. n + 1
    BY <1>1, <1>5, <1>6, <2>2
  <2> QED  BY <1>1, <2>1, <2>2
<1>8. ASSUME NEW i \in 1 .. n + 1
      PROVE  /\ up[i + 1] = up[i] + Len(Encode(s2[i]))
             /\ \A k \in 1 .. Len(Encode(s2[i])) :
                   up[i] + k >= 1 => w2[up[i] + k] = Encode(s2[i])[k]
  <2>1. CASE i = n + 1
    <3>1. up[i] = m /\ up[i + 1] = m + e /\ s2[i] = c
      BY <1>1, <1>2, <1>5, <1>6, <2>1
    <3> QED  BY <1>3, <3>1 DEF e
  <2>2. CASE i \in 1 .. n
    <3>1. i \in 1 .. n + 1 /\ i + 1 \in 1 .. n + 1
      BY <1>1, <2>2
    <3>2. up[i] = at[i] /\ up[i + 1] = at[i + 1] /\ s2[i] = s[i] /\ at[i] \in Int
      BY <1>2, <1>5, <1>6, <2>2, <3>1
    <3>3. ASSUME NEW k \in 1 .. Len(Encode(s[i])), at[i] + k >= 1
          PROVE  w2[at[i] + k] = Encode(s[i])[k]
      <4>1. w[at[i] + k] = Encode(s[i])[k] /\ at[i + 1] = at[i] + Len(Encode(s[i]))
            /\ at[i + 1] <= m
        BY <1>5, <2>2, <3>1, <3>3
      <4> DEFINE l == Len(Encode(s[i]))
      <4>l. l \in Nat /\ k \in 1 .. l /\ at[i] + l <= m
        BY <1>4, <2>2, <4>1
      <4> HIDE DEF l
      <4>2. at[i] + k \in 1 .. m
        BY <1>1, <3>2, <3>3, <4>l
      <4> QED  BY <1>3, <4>1, <4>2
    <3> QED  BY <1>5, <2>2, <3>2, <3>3
  <2> QED  BY <1>1, <2>1, <2>2
<1>9. Len(s2) + 1 = n + 2
  BY <1>1, <1>2
<1>10. Layout(up, w2, s2)
  BY <1>2, <1>3, <1>6, <1>7, <1>8, <1>9 DEF Layout
<1> QED  BY <1>6, <1>10 DEF w2, s2, n

(* One byte fewer. *)
LEMMA LayoutShifts ==
  ASSUME NEW at, NEW w \in Seq(Byte), w # <<>>, NEW s, AreCommands(s), Layout(at, w, s)
  PROVE  Layout([i \in 1 .. Len(s) + 1 |-> at[i] - 1], Tail(w), s)
<1> DEFINE n == Len(s)
           m == Len(w)
           down == [i \in 1 .. n + 1 |-> at[i] - 1]
           v == Tail(w)
<1>1. n \in Nat /\ m \in Nat
  BY LenProperties DEF AreCommands
<1>2. Len(v) = m - 1 /\ \A i \in 1 .. m - 1 : v[i] = w[i + 1]
  BY HeadTailProperties
<1>4. \A i \in 1 .. n : Len(Encode(s[i])) \in Nat
  BY EncodeOf DEF AreCommands
<1>5. /\ at \in [1 .. n + 1 -> Int] /\ at[n + 1] = m
      /\ \A i \in 1 .. n + 1 : at[i] <= m
      /\ \A i \in 1 .. n : at[i + 1] = at[i] + Len(Encode(s[i]))
      /\ \A i \in 1 .. n : \A k \in 1 .. Len(Encode(s[i])) :
            at[i] + k >= 1 => w[at[i] + k] = Encode(s[i])[k]
  BY DEF Layout
<1> HIDE DEF n, m, v
<1>6. down \in [1 .. n + 1 -> Int] /\ \A i \in 1 .. n + 1 : down[i] = at[i] - 1
  BY <1>5
<1> HIDE DEF down
<1>7. down[n + 1] = m - 1 /\ \A i \in 1 .. n + 1 : down[i] <= m - 1
  BY <1>1, <1>5, <1>6
<1>8. ASSUME NEW i \in 1 .. n
      PROVE  /\ down[i + 1] = down[i] + Len(Encode(s[i]))
             /\ \A k \in 1 .. Len(Encode(s[i])) :
                   down[i] + k >= 1 => v[down[i] + k] = Encode(s[i])[k]
  <2>1. i \in 1 .. n + 1 /\ i + 1 \in 1 .. n + 1
    BY <1>1
  <2>2. /\ down[i] = at[i] - 1 /\ down[i + 1] = at[i + 1] - 1 /\ at[i] \in Int
        /\ at[i + 1] = at[i] + Len(Encode(s[i])) /\ at[i + 1] <= m
        /\ Len(Encode(s[i])) \in Nat
    BY <1>4, <1>5, <1>6, <2>1
  <2>3. ASSUME NEW k \in 1 .. Len(Encode(s[i])), down[i] + k >= 1
        PROVE  v[down[i] + k] = Encode(s[i])[k]
    <3> DEFINE l == Len(Encode(s[i]))
    <3>l. l \in Nat /\ k \in 1 .. l /\ at[i] + l <= m
      BY <2>2
    <3> HIDE DEF l
    <3>1. down[i] + k \in 1 .. m - 1 /\ (down[i] + k) + 1 = at[i] + k /\ at[i] + k >= 1
      <4> DEFINE a == at[i]
      <4>1. a \in Int /\ down[i] = a - 1 /\ a + l <= m /\ k \in Nat /\ k <= l
        BY <2>2, <3>l
      <4>2. (a - 1) + k >= 1
        BY <2>3, <4>1
      <4> HIDE DEF a
      <4>3. (a - 1) + k \in 1 .. m - 1 /\ ((a - 1) + k) + 1 = a + k /\ a + k >= 1
        BY <1>1, <3>l, <4>1, <4>2
      <4> QED  BY <4>1, <4>3 DEF a
    <3> QED  BY <1>2, <1>5, <3>1
  <2>4. down[i + 1] = down[i] + Len(Encode(s[i]))
    <3> DEFINE l == Len(Encode(s[i]))
    <3>1. l \in Nat /\ at[i + 1] = at[i] + l
      BY <2>2
    <3> HIDE DEF l
    <3>2. down[i + 1] = down[i] + l
      BY <2>2, <3>1
    <3> QED  BY <3>2 DEF l
  <2> QED  BY <2>3, <2>4
<1>9. Layout(down, v, s)
  BY <1>2, <1>6, <1>7, <1>8 DEF Layout, n
<1> QED  BY <1>9 DEF down, v, n

-----------------------------------------------------------------------------
(* What a byte on one transport does to the rest. *)
LEMMA FeedOthers ==
  ASSUME IInv, NEW t \in Transport, NEW b \in Byte, Feed(t, b)
  PROVE  /\ cmd' = NoCommand \/ cmd' \in Command
         /\ \/ \A u \in Transport \ {t} : parser'[u] = parser[u]
            \/ AllReady /\ cmd' \in Command
         /\ UNCHANGED ota_buf \/ st(t) = "OTA_DATA"
<1> DEFINE p == parser[t]
           Quiet == /\ cmd' = NoCommand
                    /\ \A u \in Transport \ {t} : parser'[u] = parser[u]
<1>1. p \in ParserType /\ Room(p) /\ ota_buf \in [1 .. MaxChunk -> Byte]
  BY OneParser
<1>2. ASSUME NEW q, Become(t, q)
      PROVE  Quiet
  BY <1>2, Becomes
<1>3. ASSUME NEW c \in Command, Complete(t, c)
      PROVE  /\ cmd' \in Command /\ UNCHANGED ota_buf
             /\ (\A u \in Transport \ {t} : parser'[u] = parser[u]) \/ AllReady
  <2>1. CASE parser' = [u \in Transport |-> Ready]
    BY <1>3, <2>1 DEF Complete, AllReady
  <2>2. CASE parser' = [parser EXCEPT ![t].st = "SYNC"]
    BY <1>3, <2>2 DEF Complete, IInv, TypeOK
  <2> QED  BY <1>3, <2>1, <2>2 DEF Complete
<1>4. CASE AtSync(t, b)
  BY <1>2, <1>4 DEF AtSync
<1>5. CASE AtType(t, b)
  BY <1>2, <1>5 DEF AtType
<1>6. CASE AtLen(t, b)
  BY <1>2, <1>6 DEF AtLen
<1>7. CASE AtPayload(t, b)
  BY <1>2, <1>7 DEF AtPayload
<1>8. CASE AtOtaL0(t, b)
  BY <1>2, <1>8 DEF AtOtaL0
<1>9. CASE AtOtaL1(t, b)
  BY <1>2, <1>9 DEF AtOtaL1
<1>10. CASE AtOtaData(t, b)
  BY <1>2, <1>10 DEF AtOtaData
<1>11. CASE AtCsum(t, b)
  <2>1. [type |-> p.type, payload |-> p.payload] \in Command
    BY <1>1 DEF ParserType, Command
  <2>2. CASE b = p.csum
    BY <1>3, <1>11, <2>1, <2>2 DEF AtCsum
  <2>3. CASE b # p.csum
    BY <1>2, <1>11, <2>3 DEF AtCsum
  <2> QED  BY <2>2, <2>3
<1>12. CASE AtOtaCsum(t, b)
  <2>0. p.olen \in 1 .. MaxChunk /\ p.olen \in Nat /\ MaxChunk \in Nat
    BY <1>1, <1>12, ParserAssumption DEF AtOtaCsum, st, Room, ParserType
  <2>1. [type |-> OTA_DATA, payload |-> SubSeq(ota_buf, 1, p.olen)] \in Command
    <3>1. \A i \in 1 .. p.olen : ota_buf[i] \in Byte
      BY <1>1, <2>0
    <3>2. SubSeq(ota_buf, 1, p.olen) \in Seq(Byte)
      BY <2>0, <3>1, FirstOf
    <3> QED  BY <3>2, ParserAssumption DEF Command
  <2>2. CASE b = p.csum
    BY <1>3, <1>12, <2>1, <2>2 DEF AtOtaCsum
  <2>3. CASE b # p.csum
    BY <1>2, <1>12, <2>3 DEF AtOtaCsum
  <2> QED  BY <2>2, <2>3
<1> QED  BY <1>4, <1>5, <1>6, <1>7, <1>8, <1>9, <1>10, <1>11, <1>12 DEF Feed

(* A command that was announced is not the absence of one.               *)
LEMMA CommandIsSome ==
  ASSUME NEW c \in Command
  PROVE  c # NoCommand
<1>1. DOMAIN c = {"type", "payload"} /\ DOMAIN NoCommand = {"type"}
  BY DEF Command, NoCommand
<1> QED  BY <1>1

-----------------------------------------------------------------------------
(* How far a connection has been heard. *)

BookOK ==
    /\ sent \in [Transport -> Seq(Command)] /\ done \in [Transport -> Seq(Command)]
    /\ \A t \in Transport : \A i \in 1 .. Len(sent[t]) : sent[t][i] \in Commands[t]

(* The commands in d are the first ones of s; of the next one, the parser  *)
(* has the bytes that are no longer under way.                             *)
Hears(at, p, buf, s, d) ==
    /\ Len(d) <= Len(s) /\ \A i \in 1 .. Len(d) : d[i] = s[i]
    /\ at[Len(d) + 1] <= 0
    /\ Len(d) = Len(s) => p.st = "SYNC"
    /\ Len(d) < Len(s) => /\ 0 - at[Len(d) + 1] < Len(Encode(s[Len(d) + 1]))
                          /\ Reading(p, buf, s[Len(d) + 1], 0 - at[Len(d) + 1])

Stream(t) == \E at : /\ Layout(at, wire[t], sent[t])
                     /\ Hears(at, parser[t], ota_buf, sent[t], done[t])

(* What is known of the book of one transport.                           *)
LEMMA BookOf ==
  ASSUME BookOK, NEW t \in Transport
  PROVE  /\ sent[t] \in Seq(Command) /\ done[t] \in Seq(Command)
         /\ Len(sent[t]) \in Nat /\ Len(done[t]) \in Nat
         /\ AreCommands(sent[t])
<1>1. sent[t] \in Seq(Command) /\ done[t] \in Seq(Command)
  BY DEF BookOK
<1>2. \A i \in 1 .. Len(sent[t]) : IsCommand(sent[t][i])
  BY CommandsAssumption DEF BookOK, CommandsAssumption
<1> QED  BY <1>1, <1>2, LenProperties DEF AreCommands

(* A connection that begins with a parser at the start of a frame. *)
LEMMA StreamBegins ==
  ASSUME NEW w, w = <<>>, NEW p, p.st = "SYNC", NEW buf, NEW s, s = <<>>, NEW d, d = <<>>
  PROVE  \E at : Layout(at, w, s) /\ Hears(at, p, buf, s, d)
<1> DEFINE at == [i \in 1 .. 1 |-> Len(w)]
<1>1. Len(w) = 0 /\ Len(s) = 0 /\ Len(d) = 0
  OBVIOUS
<1>2. Layout(at, w, s)
  BY <1>1, LayoutBegins
<1>3. at[Len(d) + 1] <= 0
  BY <1>1
<1>4. Hears(at, p, buf, s, d)
  BY <1>1, <1>3 DEF Hears
<1> QED  BY <1>2, <1>4

(* A command is sent. *)
LEMMA StreamGrows ==
  ASSUME WireOK, BookOK, NEW t \in Transport, Stream(t), NEW c \in Commands[t], Send(t, c)
  PROVE  Stream(t)'
<1> DEFINE w == wire[t]
           s == sent[t]
           d == done[t]
<1>0. /\ s \in Seq(Command) /\ Len(s) \in Nat /\ Len(d) \in Nat /\ AreCommands(s)
      /\ w \in Seq(Byte)
  BY BookOf DEF WireOK
<1>1. IsCommand(c) /\ c \in Command
  BY CommandsAssumption DEF CommandsAssumption, IsCommand, Command
<1>2. PICK at : Layout(at, w, s) /\ Hears(at, parser[t], ota_buf, s, d)
  BY DEF Stream
<1>3. PICK up : /\ Layout(up, w \o Encode(c), Append(s, c))
                /\ \A i \in 1 .. Len(s) + 1 : up[i] = at[i]
  BY <1>0, <1>1, <1>2, LayoutGrows
<1>4. /\ wire'[t] = w \o Encode(c) /\ sent'[t] = Append(s, c) /\ done'[t] = d
      /\ parser' = parser /\ ota_buf' = ota_buf
  BY DEF Send, Transmit, WireOK, BookOK, parserVars
<1>5. /\ Len(Append(s, c)) = Len(s) + 1 /\ Append(s, c)[Len(s) + 1] = c
      /\ \A i \in 1 .. Len(s) : Append(s, c)[i] = s[i]
  BY <1>0, <1>1, AppendProperties
<1> DEFINE s2 == Append(s, c)
<1> HIDE DEF s2
<1>6. /\ Len(d) <= Len(s) /\ \A i \in 1 .. Len(d) : d[i] = s[i]
      /\ at[Len(d) + 1] <= 0
      /\ Len(d) = Len(s) => parser[t].st = "SYNC"
      /\ Len(d) < Len(s) => /\ 0 - at[Len(d) + 1] < Len(Encode(s[Len(d) + 1]))
                            /\ Reading(parser[t], ota_buf, s[Len(d) + 1],
                                       0 - at[Len(d) + 1])
  BY <1>2 DEF Hears
<1>7. /\ Len(d) + 1 \in 1 .. Len(s) + 1 /\ up[Len(d) + 1] = at[Len(d) + 1]
      /\ \A i \in 1 .. Len(d) : i \in 1 .. Len(s)
  BY <1>0, <1>3, <1>6
<1>8. CASE Len(d) < Len(s)
  <2>1. s2[Len(d) + 1] = s[Len(d) + 1] /\ Len(d) < Len(s2) /\ Len(d) # Len(s2)
    BY <1>0, <1>5, <1>8 DEF s2
  <2>2. Hears(up, parser[t], ota_buf, s2, d)
    BY <1>5, <1>6, <1>7, <1>8, <2>1 DEF Hears, s2
  <2> QED  BY <1>3, <1>4, <2>2 DEF Stream, s2
<1>9. CASE Len(d) = Len(s)
  <2>1. s2[Len(d) + 1] = c /\ Len(d) < Len(s2) /\ Len(d) # Len(s2) /\ Len(d) <= Len(s2)
    BY <1>0, <1>5, <1>9 DEF s2
  <2>2. at[Len(d) + 1] = 0
    <3>1. at[Len(d) + 1] = Len(w) /\ Len(w) \in Nat
      BY <1>0, <1>2, <1>9, LenProperties DEF Layout
    <3> QED  BY <1>6, <3>1
  <2>3. 0 - up[Len(d) + 1] = 0 /\ 0 < Len(Encode(c)) /\ up[Len(d) + 1] <= 0
    <3>1. Len(Encode(c)) = Len(Contents(c)) + 3 /\ Len(Contents(c)) \in Nat
      BY <1>1, EncodeOf
    <3> QED  BY <1>7, <2>2, <3>1
  <2>4. Reading(parser[t], ota_buf, c, 0)
    BY <1>6, <1>9 DEF Reading
  <2>5. \A i \in 1 .. Len(d) : d[i] = s2[i]
    BY <1>5, <1>6, <1>7 DEF s2
  <2>6. Hears(up, parser[t], ota_buf, s2, d)
    BY <2>1, <2>3, <2>4, <2>5 DEF Hears
  <2> QED  BY <1>3, <1>4, <2>6 DEF Stream, s2
<1> QED  BY <1>0, <1>6, <1>8, <1>9

(* A TCP connection loses nothing; a transport that has lost nothing spares *)
(* no frame.                                                               *)
HistoryOK ==
    /\ whole \in [Transport -> BOOLEAN]
    /\ clear \in [Transport -> Nat] /\ spared \in [Transport -> Nat]
    /\ \A t \in Net : whole[t]
    /\ \A t \in Transport : whole[t] => clear[t] >= LongestRemainder /\ spared[t] = 0

FInv == /\ IInv /\ WireOK /\ BookOK /\ HistoryOK
        /\ \A t \in Transport : whole[t] /\ Alone(t) => Stream(t)

(* The first byte under way is the next one of frame j. *)
HeadIsIn(at, w, s, j) ==
    /\ j \in 1 .. Len(s) /\ IsCommand(s[j])
    /\ 0 - at[j] \in 0 .. Len(Encode(s[j])) - 1 /\ Len(Encode(s[j])) \in Nat
    /\ Head(w) = Encode(s[j])[0 - at[j] + 1]
    /\ at[j + 1] = at[j] + Len(Encode(s[j]))
    /\ at[j] \in Int /\ at[j + 1] \in Int

(* It is, when it is within that frame. *)
LEMMA HeadIn ==
  ASSUME NEW at, NEW w \in Seq(Byte), w # <<>>, NEW s, AreCommands(s), Layout(at, w, s),
         NEW j \in 1 .. Len(s), at[j] <= 0, 0 - at[j] < Len(Encode(s[j]))
  PROVE  HeadIsIn(at, w, s, j)
<1> DEFINE k == 0 - at[j]
           c == s[j]
<1>1. Len(s) \in Nat /\ j \in 1 .. Len(s) + 1 /\ j + 1 \in 1 .. Len(s) + 1
  BY LenProperties DEF AreCommands
<1>4. IsCommand(c) /\ Len(Encode(c)) \in Nat
  <2>1. IsCommand(c)
    BY DEF AreCommands
  <2>2. Encode(c) \in Seq(Byte)
    BY <2>1, EncodeOf
  <2> QED  BY <2>1, <2>2, LenProperties
<1>5. at[j] \in Int /\ at[j] <= 0 /\ k < Len(Encode(c))
  BY <1>1 DEF Layout
<1>6. k \in 0 .. Len(Encode(c)) - 1 /\ k + 1 \in 1 .. Len(Encode(c)) /\ at[j] + (k + 1) = 1
  BY <1>4, <1>5
<1> HIDE DEF k, c
<1>7. w[1] = Encode(c)[k + 1]
  <2>1. at[j] + (k + 1) >= 1
    BY <1>6
  <2>2. w[at[j] + (k + 1)] = Encode(s[j])[k + 1]
    BY <1>6, <2>1 DEF Layout, c
  <2> QED  BY <1>6, <2>2 DEF c
<1>8. Head(w) = w[1]
  OBVIOUS
<1>9. at[j + 1] = at[j] + Len(Encode(c))
  BY DEF Layout, c
<1>10. at[j] \in Int /\ at[j + 1] \in Int
  BY <1>1 DEF Layout
<1> QED  BY <1>4, <1>6, <1>7, <1>8, <1>9, <1>10 DEF k, c, HeadIsIn

(* It belongs to the frame that the parser is in.                          *)
LEMMA NextByte ==
  ASSUME NEW at, NEW p, NEW buf, NEW w \in Seq(Byte), w # <<>>, NEW s, AreCommands(s),
         NEW d, Len(d) \in Nat, Layout(at, w, s), Hears(at, p, buf, s, d),
         NEW j, j = Len(d) + 1
  PROVE  Len(d) < Len(s) /\ HeadIsIn(at, w, s, j)
<1>1. Len(s) \in Nat /\ Len(w) \in Nat \ {0} /\ Len(d) <= Len(s)
  BY LenProperties, EmptySeq DEF AreCommands, Hears
<1>2. Len(d) # Len(s)
  BY <1>1 DEF Layout, Hears
<1>3. Len(d) < Len(s) /\ j \in 1 .. Len(s)
  BY <1>1, <1>2
<1>4. at[j] <= 0 /\ 0 - at[j] < Len(Encode(s[j]))
  BY <1>3 DEF Hears
<1> QED  BY <1>3, <1>4, HeadIn

(* A byte is heard. *)
LEMMA StreamFed ==
  ASSUME IInv, WireOK, BookOK, NEW t \in Transport, Stream(t), FeedNext(t)
  PROVE  Stream(t)'
<1> DEFINE w == wire[t]
           s == sent[t]
           d == done[t]
           j == Len(d) + 1
           c == s[j]
<1>j. j = Len(d) + 1
  OBVIOUS
<1> HIDE DEF j
<1>0. /\ s \in Seq(Command) /\ Len(s) \in Nat /\ Len(d) \in Nat /\ AreCommands(s)
      /\ w \in Seq(Byte) /\ w # <<>> /\ Feed(t, Head(w)) /\ d \in Seq(Command)
  BY BookOf DEF WireOK, FeedNext
<1>1. PICK at : Layout(at, w, s) /\ Hears(at, parser[t], ota_buf, s, d)
  BY DEF Stream
<1> DEFINE k == 0 - at[j]
           down == [i \in 1 .. Len(s) + 1 |-> at[i] - 1]
<1>2. Layout(down, Tail(w), s)
  BY <1>0, <1>1, LayoutShifts
<1>3. /\ Len(d) < Len(s) /\ j \in 1 .. Len(s) /\ IsCommand(c)
      /\ k \in 0 .. Len(Encode(c)) - 1 /\ Len(Encode(c)) \in Nat
      /\ Head(w) = Encode(c)[k + 1] /\ at[j + 1] = at[j] + Len(Encode(c))
      /\ at[j] \in Int /\ at[j + 1] \in Int
  <2> DEFINE p == parser[t]
  <2>1. Layout(at, w, s) /\ Hears(at, p, ota_buf, s, d)
    BY <1>1
  <2>2. w \in Seq(Byte) /\ w # <<>> /\ AreCommands(s) /\ Len(d) \in Nat
    BY <1>0
  <2> HIDE DEF w, s, d, p
  <2>3. Len(d) < Len(s) /\ HeadIsIn(at, w, s, j)
    BY <1>j, <2>1, <2>2, NextByte
  <2> QED  BY <2>3 DEF HeadIsIn
<1>4. Reading(parser[t], ota_buf, c, k) /\ \A i \in 1 .. Len(d) : d[i] = s[i]
  BY <1>1, <1>3, <1>j DEF Hears
<1>5. j + 1 \in 1 .. Len(s) + 1 /\ j \in 1 .. Len(s) + 1 /\ j \in Nat
  <2>1. Len(s) \in Nat /\ j \in 1 .. Len(s)
    BY <1>0, <1>3
  <2> HIDE DEF s
  <2> QED  BY <2>1
<1>6. down[j] = at[j] - 1 /\ down[j + 1] = at[j + 1] - 1
  BY <1>5
<1>6a. k = 0 - at[j]
  OBVIOUS
<1> HIDE DEF down, k, c
<1>7. CASE Restarts
  <2>1. wire'[t] = <<>> /\ sent'[t] = <<>> /\ done'[t] = <<>> /\ parser'[t] = Ready
    BY <1>7 DEF FeedNext, Restarts
  <2>2. parser'[t].st = "SYNC"
    BY <2>1 DEF Ready
  <2>3. \E x : Layout(x, wire'[t], sent'[t])
               /\ Hears(x, parser'[t], ota_buf', sent'[t], done'[t])
    BY <2>1, <2>2, StreamBegins
  <2> QED  BY <2>3 DEF Stream
<1>8. CASE ~ Restarts
  <2>1. /\ wire'[t] = Tail(w) /\ sent'[t] = s
        /\ cmd' = NoCommand => done'[t] = d
        /\ cmd' # NoCommand => done'[t] = Append(d, cmd')
    BY <1>8 DEF FeedNext, WireOK, BookOK
  <2>2. CASE k < Len(Encode(c)) - 1
    <3>1. k \in 0 .. Len(Encode(c)) - 2 /\ 0 - down[j] = k + 1 /\ down[j] <= 0
          /\ k + 1 < Len(Encode(c))
      <4> DEFINE l == Len(Encode(c))
      <4>1. l \in Nat /\ k \in 0 .. l - 1 /\ k < l - 1 /\ k = 0 - at[j] /\ at[j] \in Int
        BY <1>3, <1>6a, <2>2
      <4> HIDE DEF l
      <4> QED  BY <1>6, <4>1 DEF l
    <3>2. Heard(t, c, k)
      BY <1>0, <1>3, <1>4, <3>1, ReadsOn
    <3>3. done'[t] = d /\ Reading(parser'[t], ota_buf', c, k + 1)
      BY <2>1, <3>2 DEF Heard
    <3>4. Len(d) <= Len(s) /\ Len(d) # Len(s)
      BY <1>0, <1>3
    <3>5. Hears(down, parser'[t], ota_buf', s, d)
      BY <1>4, <1>j, <3>1, <3>3, <3>4 DEF Hears, c
    <3> QED  BY <1>2, <2>1, <3>3, <3>5 DEF Stream
  <2>3. CASE k = Len(Encode(c)) - 1
    <3>1. cmd' = c /\ (AllReady \/ parser'[t].st = "SYNC")
      BY <1>0, <1>3, <1>4, <2>3, ReadsLast
    <3>2. c \in Command /\ c # NoCommand
      BY <1>3, CommandIsSome DEF IsCommand, Command
    <3>3. ~ AllReady
      BY <1>8, <3>1, <3>2 DEF AllReady, Restarts
    <3> DEFINE e == Append(d, c)
    <3>4. done'[t] = e /\ Len(e) = j /\ \A i \in 1 .. j : e[i] = s[i]
      <4>1. /\ Len(e) = j /\ e[j] = c /\ \A i \in 1 .. Len(d) : e[i] = d[i]
        BY <1>0, <1>j, <3>2, AppendProperties
      <4>2. \A i \in 1 .. j : i = j \/ i \in 1 .. Len(d)
        BY <1>0, <1>j
      <4> QED  BY <1>4, <2>1, <3>1, <3>2, <4>1, <4>2 DEF c
    <3> HIDE DEF e
    <3>5. down[j + 1] = 0 /\ down[j + 1] <= 0 /\ 0 - down[j + 1] = 0
      <4> DEFINE l == Len(Encode(c))
      <4>1. l \in Nat /\ at[j + 1] = at[j] + l /\ 0 - at[j] = l - 1 /\ at[j] \in Int
        BY <1>3, <1>6a, <2>3
      <4> HIDE DEF l
      <4>2. at[j + 1] = 1
        BY <4>1
      <4> QED  BY <1>6, <4>2
    <3>6. j < Len(s) => /\ 0 < Len(Encode(s[j + 1]))
                        /\ Reading(parser'[t], ota_buf', s[j + 1], 0)
      <4> SUFFICES ASSUME j < Len(s)
                   PROVE  /\ 0 < Len(Encode(s[j + 1]))
                          /\ Reading(parser'[t], ota_buf', s[j + 1], 0)
        OBVIOUS
      <4>1. IsCommand(s[j + 1])
        <5>1. j + 1 \in 1 .. Len(s)
          BY <1>0, <1>5
        <5> QED  BY <1>0, <5>1 DEF AreCommands
      <4>2. 0 < Len(Encode(s[j + 1]))
        <5>1. Len(Encode(s[j + 1])) = Len(Contents(s[j + 1])) + 3
              /\ Len(Contents(s[j + 1])) \in Nat
          BY <4>1, EncodeOf
        <5> QED  BY <5>1
      <4> QED  BY <3>1, <3>3, <4>2 DEF Reading
    <3>7. j <= Len(s)
      BY <1>0, <1>3, <1>j
    <3>8. Hears(down, parser'[t], ota_buf', s, e)
      BY <3>1, <3>3, <3>4, <3>5, <3>6, <3>7 DEF Hears
    <3> QED  BY <1>2, <2>1, <3>4, <3>8 DEF Stream
  <2> QED  BY <1>3, <2>2, <2>3
<1> QED  BY <1>7, <1>8

(* A byte on another transport: it stores into ota_buf only when this one  *)
(* carries no chunks.                                                      *)
LEMMA OtherFed ==
  ASSUME FInv, NEW t \in Transport, Alone(t), NEW u \in Transport \ {t}, FeedNext(u),
         ~ Restarts
  PROVE  /\ wire'[t] = wire[t] /\ sent'[t] = sent[t] /\ done'[t] = done[t]
         /\ parser'[t] = parser[t]
         /\ UNCHANGED ota_buf \/ \A x \in Commands[t] : x.type # OTA_DATA
<1>0. IInv /\ WireOK /\ BookOK
  BY DEF FInv
<1>1. wire[u] # <<>> /\ Feed(u, Head(wire[u])) /\ Head(wire[u]) \in Byte
  <2>1. wire[u] # <<>> /\ Feed(u, Head(wire[u])) /\ wire[u] \in Seq(Byte)
    BY <1>0 DEF FeedNext, WireOK
  <2> QED  BY <2>1, HeadTailProperties
<1>2. wire'[t] = wire[t] /\ sent'[t] = sent[t] /\ done'[t] = done[t]
  BY <1>0 DEF FeedNext, WireOK, BookOK
<1>3. parser'[t] = parser[t]
  <2>1. \/ \A v \in Transport \ {u} : parser'[v] = parser[v]
        \/ AllReady /\ cmd' \in Command
    BY <1>0, <1>1, FeedOthers
  <2>2. ~ (AllReady /\ cmd' \in Command)
    BY CommandIsSome DEF AllReady, Restarts
  <2> QED  BY <2>1, <2>2
<1>4. ASSUME st(u) = "OTA_DATA", NEW x \in Commands[t], x.type = OTA_DATA
      PROVE  FALSE
  <2>1. whole[u] /\ \A y \in Commands[u] : y.type # OTA_DATA
    <3>1. CarriesChunks(t) /\ ~ CarriesChunks(u)
      BY <1>4, OneUpdater DEF CarriesChunks, OneUpdater
    <3> QED  BY <3>1 DEF Alone, CarriesChunks
  <2>2. Stream(u) /\ Len(sent[u]) \in Nat /\ Len(done[u]) \in Nat
    BY <1>0, <2>1, BookOf DEF FInv, Alone, CarriesChunks
  <2>3. PICK b : Layout(b, wire[u], sent[u])
                 /\ Hears(b, parser[u], ota_buf, sent[u], done[u])
    BY <2>2 DEF Stream
  <2>4. parser[u].st = "OTA_DATA"
    BY <1>4 DEF st
  <2>5. /\ Len(done[u]) + 1 \in 1 .. Len(sent[u])
        /\ Reading(parser[u], ota_buf, sent[u][Len(done[u]) + 1],
                   0 - b[Len(done[u]) + 1])
    BY <2>2, <2>3, <2>4 DEF Hears
  <2>6. sent[u][Len(done[u]) + 1].type # OTA_DATA
    BY <1>0, <2>1, <2>5 DEF BookOK
  <2> QED  BY <2>4, <2>5, <2>6 DEF Reading, InContents, InPayload
<1>5. UNCHANGED ota_buf \/ st(u) = "OTA_DATA"
  BY <1>0, <1>1, FeedOthers
<1> QED  BY <1>2, <1>3, <1>4, <1>5

(* What is read of a frame that is no chunk does not depend on ota_buf. *)
LEMMA ReadingKept ==
  ASSUME NEW p, NEW b1, NEW b2, NEW c, NEW k, Reading(p, b1, c, k),
         b1 = b2 \/ c.type # OTA_DATA
  PROVE  Reading(p, b2, c, k)
BY DEF Reading, InContents

(* A byte on another transport, for a connection that has lost nothing. *)
LEMMA StreamKept ==
  ASSUME FInv, NEW t \in Transport, Alone(t), Stream(t),
         NEW u \in Transport \ {t}, FeedNext(u)
  PROVE  Stream(t)'
<1> DEFINE s == sent[t]
           d == done[t]
<1>0. Len(s) \in Nat /\ Len(d) \in Nat /\ BookOK /\ Stream(t)
  BY BookOf DEF FInv
<1>2. CASE Restarts
  <2>1. wire'[t] = <<>> /\ sent'[t] = <<>> /\ done'[t] = <<>> /\ parser'[t] = Ready
    BY <1>2 DEF FeedNext, Restarts
  <2>2. parser'[t].st = "SYNC"
    BY <2>1 DEF Ready
  <2>3. \E x : Layout(x, wire'[t], sent'[t])
               /\ Hears(x, parser'[t], ota_buf', sent'[t], done'[t])
    BY <2>1, <2>2, StreamBegins
  <2> QED  BY <2>3 DEF Stream
<1>3. CASE ~ Restarts
  <2>1. /\ wire'[t] = wire[t] /\ sent'[t] = s /\ done'[t] = d /\ parser'[t] = parser[t]
        /\ UNCHANGED ota_buf \/ \A x \in Commands[t] : x.type # OTA_DATA
    BY <1>3, OtherFed
  <2>2. PICK at : Layout(at, wire[t], s) /\ Hears(at, parser[t], ota_buf, s, d)
    BY <1>0 DEF Stream
  <2>3. Len(d) < Len(s) => s[Len(d) + 1] \in Commands[t]
    <3>1. Len(d) < Len(s) => Len(d) + 1 \in 1 .. Len(s)
      BY <1>0
    <3> QED  BY <1>0, <3>1 DEF BookOK
  <2>4. Hears(at, parser[t], ota_buf', s, d)
    BY <2>1, <2>2, <2>3, ReadingKept DEF Hears
  <2> QED  BY <2>1, <2>2, <2>4 DEF Stream
<1> QED  BY <1>2, <1>3

(* What was sent and what was completed are commands. *)
LEMMA BookStep ==
  ASSUME IInv, WireOK, BookOK, [FramingNext]_framingVars
  PROVE  BookOK'
<1> DEFINE none == <<>>
           Fresh(f) == f \in [Transport -> Seq(Command)]
<1>0. Fresh(sent) /\ Fresh(done) /\ none \in Seq(Command) /\ Len(none) = 0
      /\ \A t \in Transport : \A i \in 1 .. Len(sent[t]) : sent[t][i] \in Commands[t]
  BY EmptySeq DEF BookOK
<1>1. ASSUME NEW t \in Transport, NEW c \in Commands[t], Send(t, c)
      PROVE  BookOK'
  <2>1. c \in Command /\ sent[t] \in Seq(Command)
    BY <1>0, CommandsAssumption DEF CommandsAssumption, IsCommand, Command
  <2> DEFINE e == Append(sent[t], c)
  <2>2. /\ e \in Seq(Command) /\ Len(e) = Len(sent[t]) + 1 /\ Len(sent[t]) \in Nat
        /\ \A i \in 1 .. Len(sent[t]) : e[i] = sent[t][i]
        /\ e[Len(sent[t]) + 1] = c
    BY <2>1, AppendProperties
  <2>3. sent' = [sent EXCEPT ![t] = e] /\ done' = done
    BY <1>1 DEF Send
  <2>4. \A i \in 1 .. Len(e) : e[i] \in Commands[t]
    <3>1. \A i \in 1 .. Len(e) : i = Len(sent[t]) + 1 \/ i \in 1 .. Len(sent[t])
      BY <2>2
    <3> QED  BY <1>0, <1>1, <2>2, <3>1
  <2> HIDE DEF e
  <2> QED  BY <1>0, <2>2, <2>3, <2>4 DEF BookOK
<1>2. ASSUME NEW t \in Transport, sent' = [sent EXCEPT ![t] = none],
             done' = [done EXCEPT ![t] = none]
      PROVE  BookOK'
  <2> HIDE DEF none
  <2>1. Fresh(sent)' /\ Fresh(done)'
    BY <1>0, <1>2
  <2>2. \A u \in Transport : sent'[u] = none \/ sent'[u] = sent[u]
    BY <1>0, <1>2
  <2>3. 1 .. 0 = {}
    OBVIOUS
  <2> QED  BY <1>0, <2>1, <2>2, <2>3 DEF BookOK
<1>3. ASSUME NEW t \in Transport, FeedNext(t)
      PROVE  BookOK'
  <2>1. Feed(t, Head(wire[t])) /\ Head(wire[t]) \in Byte
    BY <1>3, HeadTailProperties DEF FeedNext, WireOK
  <2>2. cmd' = NoCommand \/ cmd' \in Command
    BY <2>1, FeedOthers
  <2>3. CASE Restarts
    <3>1. sent' = [u \in Transport |-> none] /\ done' = [u \in Transport |-> none]
      BY <1>3, <2>3 DEF FeedNext
    <3> HIDE DEF none
    <3>2. Fresh(sent)' /\ Fresh(done)' /\ \A u \in Transport : sent'[u] = none
      BY <1>0, <3>1
    <3>3. 1 .. 0 = {}
      OBVIOUS
    <3> QED  BY <1>0, <3>2, <3>3 DEF BookOK
  <2>4. CASE ~ Restarts
    <3>1. sent' = sent /\ done' = IF cmd' = NoCommand THEN done
                                  ELSE [done EXCEPT ![t] = Append(done[t], cmd')]
      BY <1>3, <2>4 DEF FeedNext
    <3>2. cmd' \in Command => Append(done[t], cmd') \in Seq(Command)
      BY <1>0, AppendProperties
    <3>3. done' \in [Transport -> Seq(Command)]
      BY <1>0, <2>2, <3>1, <3>2
    <3> QED  BY <1>0, <3>1, <3>3 DEF BookOK
  <2> QED  BY <2>3, <2>4
<1>4. ASSUME NEW t \in Transport, NEW c \in Commands[t], SendCut(t, c)
      PROVE  BookOK'
  BY <1>2, <1>4 DEF SendCut, BeginAnew
<1>5. ASSUME NEW t \in Transport, NetReconnects(t)
      PROVE  BookOK'
  BY <1>2, <1>5 DEF NetReconnects, NewConnection, BeginAnew
<1>6. CASE UNCHANGED framingVars
  BY <1>6 DEF framingVars, BookOK
<1> QED  BY <1>1, <1>3, <1>4, <1>5, <1>6 DEF FramingNext

(* The history, step by step: only a restart makes a transport whole again. *)
LEMMA HistoryStep ==
  ASSUME HistoryOK, BookOK, [FramingNext]_framingVars
  PROVE  /\ HistoryOK'
         /\ \/ \A u \in Transport : whole'[u] => whole[u]
            \/ \E t \in Transport : FeedNext(t) /\ Restarts
<1> DEFINE R == LongestRemainder
<1>0. R \in Nat
  BY ParserAssumption DEF LongestRemainder
<1>h. /\ whole \in [Transport -> BOOLEAN] /\ clear \in [Transport -> Nat]
      /\ spared \in [Transport -> Nat] /\ \A t \in Net : whole[t]
      /\ \A t \in Transport : whole[t] => clear[t] >= R /\ spared[t] = 0
  BY DEF HistoryOK
<1> HIDE DEF R
<1>1. ASSUME NEW t \in Transport, NEW c \in Commands[t], Send(t, c)
      PROVE  HistoryOK' /\ whole' = whole
  <2>1. Len(Encode(c)) \in Nat
    <3>1. Encode(c) \in Seq(Byte)
      BY EncodeOf, CommandsAssumption DEF CommandsAssumption
    <3> QED  BY <3>1, LenProperties
  <2>2. whole' = whole
    BY <1>1 DEF Send
  <2>3. CASE clear[t] >= R
    <3>1. clear' = clear /\ spared' = spared
      BY <1>1, <2>3 DEF Send, Reckon, R
    <3> QED  BY <1>h, <2>2, <3>1 DEF HistoryOK, R
  <2>4. CASE ~ (clear[t] >= R)
    <3> DEFINE n == IF Misleading(c) THEN 0 ELSE clear[t] + Len(Encode(c))
    <3>1. clear' = [clear EXCEPT ![t] = n] /\ spared' = [spared EXCEPT ![t] = @ + 1]
      BY <1>1, <2>4 DEF Send, Reckon, R
    <3>2. n \in Nat
      BY <1>h, <2>1
    <3> HIDE DEF n
    <3>3. clear' \in [Transport -> Nat] /\ spared' \in [Transport -> Nat]
      BY <1>h, <3>1, <3>2
    <3>4. ASSUME NEW u \in Transport, whole[u]
          PROVE  clear'[u] >= R /\ spared'[u] = 0
      <4>1. u # t
        BY <1>h, <2>4, <3>4
      <4> QED  BY <1>h, <3>1, <3>4, <4>1
    <3> QED  BY <1>h, <2>2, <3>3, <3>4 DEF HistoryOK, R
  <2> QED  BY <2>2, <2>3, <2>4
<1>2. ASSUME NEW t \in Transport, NEW c \in Commands[t], SendCut(t, c)
      PROVE  HistoryOK' /\ \A u \in Transport : whole'[u] => whole[u]
  <2>1. /\ whole' = [whole EXCEPT ![t] = FALSE] /\ clear' = [clear EXCEPT ![t] = 0]
        /\ spared' = [spared EXCEPT ![t] = 0] /\ t \notin Net
    BY <1>2 DEF SendCut, Lossy
  <2>2. /\ whole' \in [Transport -> BOOLEAN] /\ clear' \in [Transport -> Nat]
        /\ spared' \in [Transport -> Nat]
    BY <1>h, <2>1
  <2>3. \A u \in Transport : whole'[u] => u # t /\ whole[u]
    BY <1>h, <2>1
  <2>4. \A u \in Transport \ {t} : clear'[u] = clear[u] /\ spared'[u] = spared[u]
                                  /\ whole'[u] = whole[u]
    BY <1>h, <2>1
  <2>5. \A u \in Net : whole'[u]
    BY <1>h, <2>1, <2>4, FramingAssumption DEF FramingAssumption
  <2> QED  BY <1>h, <2>2, <2>3, <2>4, <2>5 DEF HistoryOK, R
<1>3. ASSUME NEW t \in Transport, FeedNext(t)
      PROVE  HistoryOK' /\ (Restarts \/ whole' = whole)
  <2>1. CASE Restarts
    <3>1. /\ whole' = [u \in Transport |-> TRUE] /\ clear' = [u \in Transport |-> R]
          /\ spared' = [u \in Transport |-> 0]
      BY <1>3, <2>1 DEF FeedNext, R
    <3>2. /\ whole' \in [Transport -> BOOLEAN] /\ clear' \in [Transport -> Nat]
          /\ spared' \in [Transport -> Nat]
      BY <1>0, <3>1
    <3>3. \A u \in Transport : whole'[u] /\ clear'[u] >= R /\ spared'[u] = 0
      BY <1>0, <3>1
    <3> QED  BY <2>1, <3>2, <3>3, FramingAssumption DEF HistoryOK, FramingAssumption, R
  <2>2. CASE ~ Restarts
    BY <1>3, <2>2 DEF FeedNext, history, HistoryOK
  <2> QED  BY <2>1, <2>2
<1>4. ASSUME NEW t \in Transport, NetReconnects(t)
      PROVE  HistoryOK' /\ whole' = whole
  BY <1>4 DEF NetReconnects, NewConnection, history, HistoryOK
<1>5. CASE UNCHANGED framingVars
  BY <1>5 DEF framingVars, history, HistoryOK
<1> QED  BY <1>1, <1>2, <1>3, <1>4, <1>5 DEF FramingNext

(* What a step of another transport leaves alone. *)
LEMMA StreamSame ==
  ASSUME NEW t, Stream(t), wire'[t] = wire[t], sent'[t] = sent[t], done'[t] = done[t],
         parser'[t] = parser[t], ota_buf' = ota_buf
  PROVE  Stream(t)'
BY DEF Stream

(* A restart begins everything anew. *)
LEMMA StreamAnew ==
  ASSUME NEW u \in Transport, FeedNext(u), Restarts, NEW t \in Transport
  PROVE  Stream(t)'
<1>1. wire'[t] = <<>> /\ sent'[t] = <<>> /\ done'[t] = <<>> /\ parser'[t] = Ready
  BY DEF FeedNext, Restarts
<1>2. parser'[t].st = "SYNC"
  BY <1>1 DEF Ready
<1>3. \E x : Layout(x, wire'[t], sent'[t])
             /\ Hears(x, parser'[t], ota_buf', sent'[t], done'[t])
  BY <1>1, <1>2, StreamBegins
<1> QED  BY <1>3 DEF Stream

(* A step keeps every connection that loses nothing. *)
LEMMA StreamStep ==
  ASSUME FInv, [FramingNext]_framingVars, NEW t \in Transport, Alone(t), Stream(t),
         whole'[t]
  PROVE  Stream(t)'
<1>0. IInv /\ WireOK /\ BookOK /\ HistoryOK /\ whole \in [Transport -> BOOLEAN]
  BY DEF FInv, HistoryOK
<1>1. ASSUME NEW u \in Transport, NEW c \in Commands[u], Send(u, c)
      PROVE  Stream(t)'
  <2>1. CASE u = t
    BY <1>0, <1>1, <2>1, StreamGrows
  <2>2. CASE u # t
    BY <1>0, <1>1, <2>2, StreamSame DEF Send, Transmit, WireOK, BookOK, parserVars
  <2> QED  BY <2>1, <2>2
<1>2. ASSUME NEW u \in Transport, NEW c \in Commands[u], SendCut(u, c)
      PROVE  Stream(t)'
  <2>1. u # t
    BY <1>0, <1>2 DEF SendCut
  <2>2. PICK bytes : Transmit(u, bytes)
    BY <1>2 DEF SendCut
  <2> QED  BY <1>0, <1>2, <2>1, <2>2, StreamSame
           DEF SendCut, BeginAnew, Transmit, WireOK, BookOK, parserVars
<1>3. ASSUME NEW u \in Transport, FeedNext(u)
      PROVE  Stream(t)'
  <2>1. CASE u = t
    BY <1>0, <1>3, <2>1, StreamFed
  <2>2. CASE u # t
    BY <1>3, <2>2, StreamKept
  <2> QED  BY <2>1, <2>2
<1>4. ASSUME NEW u \in Transport, NetReconnects(u)
      PROVE  Stream(t)'
  <2>1. CASE u = t
    <3>1. wire'[t] = <<>> /\ sent'[t] = <<>> /\ done'[t] = <<>> /\ parser'[t] = Ready
      BY <1>0, <1>4, <2>1 DEF NetReconnects, NewConnection, BeginAnew, Accepted, Become,
                              WireOK, BookOK, IInv, TypeOK
    <3>2. parser'[t].st = "SYNC"
      BY <3>1 DEF Ready
    <3>3. \E x : Layout(x, wire'[t], sent'[t])
                 /\ Hears(x, parser'[t], ota_buf', sent'[t], done'[t])
      BY <3>1, <3>2, StreamBegins
    <3> QED  BY <3>3 DEF Stream
  <2>2. CASE u # t
    <3>1. parser'[t] = parser[t] /\ ota_buf' = ota_buf
      BY <1>0, <1>4, <2>2 DEF NetReconnects, Accepted, Become, IInv, TypeOK
    <3> QED  BY <1>0, <1>4, <2>2, <3>1, StreamSame
             DEF NetReconnects, NewConnection, BeginAnew, WireOK, BookOK
  <2> QED  BY <2>1, <2>2
<1>5. CASE UNCHANGED framingVars
  BY <1>0, <1>5, StreamSame DEF framingVars, parserVars
<1> QED  BY <1>1, <1>2, <1>3, <1>4, <1>5 DEF FramingNext

(* FInv is inductive.                                                    *)
LEMMA FInvInductive ==
  /\ FramingInit => FInv
  /\ FInv /\ [FramingNext]_framingVars => FInv'
<1>1. ASSUME FramingInit PROVE FInv
  <2>1. IInv /\ WireOK
    BY <1>1, InitIInv, EmptySeq DEF FramingInit, WireOK
  <2>2. BookOK
    <3>1. <<>> \in Seq(Command) /\ Len(<<>>) = 0 /\ 1 .. 0 = {}
      BY EmptySeq
    <3> QED  BY <1>1, <3>1 DEF FramingInit, BookOK
  <2>3. ASSUME NEW t \in Transport PROVE Stream(t)
    <3>1. wire[t] = <<>> /\ sent[t] = <<>> /\ done[t] = <<>> /\ parser[t].st = "SYNC"
      BY <1>1 DEF FramingInit, Init, Ready
    <3>2. \E x : Layout(x, wire[t], sent[t])
                 /\ Hears(x, parser[t], ota_buf, sent[t], done[t])
      BY <3>1, StreamBegins
    <3> QED  BY <3>2 DEF Stream
  <2>4. HistoryOK
    <3>1. LongestRemainder \in Nat
      BY ParserAssumption DEF LongestRemainder
    <3> HIDE DEF LongestRemainder
    <3>2. /\ whole = [u \in Transport |-> TRUE] /\ spared = [u \in Transport |-> 0]
          /\ clear = [u \in Transport |-> LongestRemainder]
      BY <1>1 DEF FramingInit
    <3>3. \A u \in Transport : clear[u] >= LongestRemainder /\ spared[u] = 0
      <4>1. \A u \in Transport : clear[u] = LongestRemainder /\ spared[u] = 0
        BY <3>2, Zenon
      <4>2. LongestRemainder >= LongestRemainder
        BY <3>1
      <4> QED  BY <4>1, <4>2, Zenon
    <3>4. \A u \in Transport : whole[u]
      BY <3>2, Zenon
    <3>5. /\ whole \in [Transport -> BOOLEAN] /\ clear \in [Transport -> Nat]
          /\ spared \in [Transport -> Nat]
      BY <3>1, <3>2
    <3> QED  BY <3>3, <3>4, <3>5, FramingAssumption DEF HistoryOK, FramingAssumption
  <2> QED  BY <2>1, <2>2, <2>3, <2>4 DEF FInv
<1>2. ASSUME FInv, [FramingNext]_framingVars PROVE FInv'
  <2>1. WireOK' /\ [Next]_parserVars
    BY <1>2, StepOfParsers DEF FInv
  <2>2. IInv'
    BY <1>2, <2>1, StepIInv DEF FInv
  <2>3. BookOK'
    BY <1>2, BookStep DEF FInv
  <2>4. ASSUME NEW t \in Transport, whole'[t], Alone(t)'
        PROVE  Stream(t)'
    <3>1. CASE \E u \in Transport : FeedNext(u) /\ Restarts
      BY <3>1, StreamAnew
    <3>2. CASE \A u \in Transport : whole'[u] => whole[u]
      <4>1. whole[t] /\ Alone(t)
        BY <2>4, <3>2 DEF Alone
      <4> QED  BY <1>2, <2>4, <4>1, StreamStep DEF FInv
    <3> QED  BY <1>2, <3>1, <3>2, HistoryStep DEF FInv
  <2>5. HistoryOK'
    BY <1>2, HistoryStep DEF FInv
  <2> QED  BY <2>1, <2>2, <2>3, <2>4, <2>5 DEF FInv
<1> QED  BY <1>1, <1>2

(* A connection whose frames are all parsed has completed all of them. *)
LEMMA StreamIsPrefix ==
  ASSUME BookOK, NEW t \in Transport, Stream(t)
  PROVE  /\ IsPrefix(done[t], sent[t])
         /\ wire[t] = <<>> => done[t] = sent[t]
<1> DEFINE s == sent[t]
           d == done[t]
           n == Len(d)
<1>0. /\ s \in Seq(Command) /\ d \in Seq(Command) /\ Len(s) \in Nat /\ n \in Nat
      /\ AreCommands(s)
  BY BookOf
<1>1. PICK at : Layout(at, wire[t], s) /\ Hears(at, parser[t], ota_buf, s, d)
  BY DEF Stream
<1>2. n <= Len(s) /\ \A i \in 1 .. n : d[i] = s[i]
  BY <1>1 DEF Hears
<1>3. IsPrefix(d, s)
  <2>1. \A i \in 1 .. n : d[i] \in Command /\ s[i] \in Command
    BY <1>0, <1>2, ElementOfSeq
  <2>2. /\ SubSeq(d, 1, n) \in Seq(Command) /\ Len(SubSeq(d, 1, n)) = n
        /\ \A i \in 1 .. n : SubSeq(d, 1, n)[i] = d[i]
    BY <1>0, <2>1, FirstOf
  <2>3. /\ SubSeq(s, 1, n) \in Seq(Command) /\ Len(SubSeq(s, 1, n)) = n
        /\ \A i \in 1 .. n : SubSeq(s, 1, n)[i] = s[i]
    BY <1>0, <2>1, FirstOf
  <2> DEFINE a == SubSeq(d, 1, n)
             b == SubSeq(s, 1, n)
  <2>4. a = b
    <3>1. a \in Seq(Command) /\ b \in Seq(Command) /\ Len(a) = Len(b)
          /\ \A i \in 1 .. Len(a) : a[i] = b[i]
      BY <1>2, <2>2, <2>3
    <3> HIDE DEF a, b
    <3> QED  BY <3>1, SeqEqual
  <2> QED  BY <1>2, <2>4 DEF IsPrefix
<1>4. ASSUME wire[t] = <<>> PROVE d = s
  <2>1. Len(wire[t]) = 0
    BY <1>4
  <2>2. n = Len(s)
    <3> SUFFICES ASSUME n < Len(s) PROVE FALSE
      BY <1>0, <1>2
    <3>1. /\ n + 1 \in 1 .. Len(s) /\ n + 1 \in 1 .. Len(s) + 1
          /\ (n + 1) + 1 \in 1 .. Len(s) + 1
      BY <1>0
    <3>2. /\ at[(n + 1) + 1] <= 0 /\ at[n + 1] \in Int
          /\ at[(n + 1) + 1] = at[n + 1] + Len(Encode(s[n + 1]))
      BY <1>1, <2>1, <3>1 DEF Layout
    <3>3. 0 - at[n + 1] < Len(Encode(s[n + 1]))
      BY <1>1 DEF Hears
    <3>4. Len(Encode(s[n + 1])) \in Nat
      <4>1. IsCommand(s[n + 1])
        BY <1>0, <3>1 DEF AreCommands
      <4> QED  BY <4>1, EncodeOf, LenProperties
    <3> QED  BY <3>2, <3>3, <3>4
  <2> QED  BY <1>0, <1>2, <2>2, SeqEqual
<1> QED  BY <1>3, <1>4

(* A TCP connection, and a UART or BLE link that has lost no byte, delivers *)
(* the commands sent on it, in order and unchanged, whatever the other     *)
(* transports lose, for every set of transports, commands and buffer sizes. *)
THEOREM EachHeard == FramingSpec => []EachConnectionHeard
<1>1. FInv => EachConnectionHeard
  BY StreamIsPrefix DEF FInv, HistoryOK, EachConnectionHeard
<1> QED  BY FInvInductive, <1>1, PTL DEF FramingSpec

-----------------------------------------------------------------------------
(* A parser that may be anywhere when the first frame begins.              *)

(* The bytes that it can take before it waits for a sync byte again, when  *)
(* the first of them is one.                                               *)
Left(p) ==
    CASE p.st = "PAYLOAD"  -> p.need - Len(p.payload) + 1
      [] p.st = "OTA_DATA" -> p.olen - p.ogot + 1
      [] p.st = "LEN"      -> MaxPayload + 2
      [] p.st = "OTA_L0"   -> MaxChunk + 3
      [] p.st = "OTA_L1"   -> MaxChunk + 2
      [] OTHER             -> 1

(* No remainder is longer than LongestRemainder. *)
LEMMA LeftBound ==
  ASSUME NEW p \in ParserType, Room(p)
  PROVE  Left(p) \in 1 .. LongestRemainder
<1>1. MaxPayload \in Nat \ {0} /\ MaxChunk \in Nat \ {0}
  BY ParserAssumption
<1>2. /\ p.need \in Nat /\ p.olen \in Nat /\ p.ogot \in Nat /\ p.payload \in Seq(Byte)
      /\ Len(p.payload) \in Nat
  BY LenProperties DEF ParserType
<1> DEFINE R == LongestRemainder
<1>3. R \in Nat /\ MaxPayload + 3 <= R /\ MaxChunk + 3 <= R
  BY <1>1 DEF LongestRemainder
<1> HIDE DEF R
<1>4. CASE p.st = "PAYLOAD"
  <2>1. Left(p) = p.need - Len(p.payload) + 1
    BY <1>4 DEF Left
  <2>2. Len(p.payload) < p.need /\ p.need <= MaxPayload
    BY <1>4 DEF Room
  <2> QED  BY <1>1, <1>2, <1>3, <2>1, <2>2 DEF R
<1>5. CASE p.st = "OTA_DATA"
  <2>1. Left(p) = p.olen - p.ogot + 1
    BY <1>5 DEF Left
  <2>2. p.ogot < p.olen /\ p.olen <= MaxChunk
    BY <1>5 DEF Room
  <2> QED  BY <1>1, <1>2, <1>3, <2>1, <2>2 DEF R
<1>6. CASE p.st \notin {"PAYLOAD", "OTA_DATA"}
  <2>1. Left(p) \in {MaxPayload + 2, MaxChunk + 3, MaxChunk + 2, 1}
    BY <1>6 DEF Left
  <2> QED  BY <1>1, <1>3, <2>1 DEF R
<1> QED  BY <1>4, <1>5, <1>6

(* Each byte makes what is left shorter, or ends it. *)
LEMMA LeftFalls ==
  ASSUME IInv, NEW t \in Transport, NEW b \in Byte, Feed(t, b), parser[t].st # "SYNC",
         parser[t].st = "TYPE" => b = SyncByte
  PROVE  \/ parser'[t].st = "SYNC"
         \/ parser'[t].st # "TYPE" /\ Left(parser'[t]) <= Left(parser[t]) - 1
<1> DEFINE p == parser[t]
           s == Summed(p, b)
           p2 == parser'[t]
           Falls(q) == q.st = "SYNC" \/ (q.st # "TYPE" /\ Left(q) <= Left(p) - 1)
<1>0. /\ p \in ParserType /\ Room(p) /\ b \in Nat /\ p.need \in Nat /\ p.olen \in Nat
      /\ p.ogot \in Nat /\ p.payload \in Seq(Byte) /\ Len(p.payload) \in Nat
      /\ MaxPayload \in Nat \ {0} /\ MaxChunk \in Nat \ {0} /\ Base \in Nat
  <2>1. p \in ParserType /\ Room(p)
    BY OneParser
  <2>2. b \in Nat
    BY ParserAssumption DEF Byte
  <2>3. /\ p.need \in Nat /\ p.olen \in Nat /\ p.ogot \in Nat
        /\ p.payload \in Seq(Byte)
    BY <2>1 DEF ParserType
  <2> QED  BY <2>1, <2>2, <2>3, LenProperties, ParserAssumption
<1>1. ASSUME NEW q, Become(t, q), Falls(q)
      PROVE  Falls(p2)
  BY <1>1, Becomes
<1>s. /\ s \in ParserType
      /\ s.st = p.st /\ s.payload = p.payload /\ s.need = p.need
      /\ s.olen = p.olen /\ s.ogot = p.ogot
  BY <1>0, SummedType
<1> HIDE DEF s
<1>2. CASE AtSync(t, b)
  BY <1>2 DEF AtSync, st
<1>3. CASE AtType(t, b)
  <2> DEFINE d == [p EXCEPT !.type = b, !.csum = b]
             e == [d EXCEPT !.payload = <<>>]
             idle == [e EXCEPT !.st = "SYNC"]
             q == [idle EXCEPT !.need = 0]
  <2>1. b \notin Prefixed /\ b # OTA_DATA /\ b \notin DOMAIN FixedLen
    BY <1>3, CommandsAssumption DEF AtType, st, CommandsAssumption
  <2>2. Become(t, q)
    BY <1>3, <2>1 DEF AtType
  <2>3. d \in ParserType
    BY <1>0 DEF ParserType
  <2> HIDE DEF d
  <2>4. e \in ParserType
    BY <2>3, EmptySeq DEF ParserType
  <2> HIDE DEF e
  <2>5. q.st = "SYNC"
    BY <2>4 DEF ParserType
  <2> HIDE DEF q
  <2> QED  BY <1>1, <2>2, <2>5
<1>4. CASE AtLen(t, b)
  <2> DEFINE e == [s EXCEPT !.need = b]
             q == [e EXCEPT !.st = IF b > MaxPayload THEN "SYNC"
                                   ELSE IF b = 0 THEN "CSUM" ELSE "PAYLOAD"]
  <2>1. Become(t, q) /\ p.st = "LEN" /\ p.payload = <<>>
    BY <1>0, <1>4 DEF AtLen, st, s, Room
  <2>2. e \in ParserType /\ e.need = b /\ e.payload = <<>>
    BY <1>0, <1>s, <2>1 DEF ParserType
  <2> HIDE DEF e
  <2>3. /\ q.need = b /\ q.payload = <<>>
        /\ q.st = IF b > MaxPayload THEN "SYNC" ELSE IF b = 0 THEN "CSUM" ELSE "PAYLOAD"
    BY <2>2 DEF ParserType
  <2> HIDE DEF q
  <2>4. Left(p) = MaxPayload + 2 /\ Len(q.payload) = 0
    BY <2>1, <2>3 DEF Left
  <2>5. CASE b > MaxPayload
    BY <1>1, <2>1, <2>3, <2>5
  <2>6. CASE ~ (b > MaxPayload) /\ b = 0
    <3>1. q.st = "CSUM" /\ Left(q) = 1
      BY <2>3, <2>6 DEF Left
    <3> QED  BY <1>0, <1>1, <2>1, <2>4, <3>1
  <2>7. CASE ~ (b > MaxPayload) /\ b # 0
    <3>1. q.st = "PAYLOAD" /\ Left(q) = b - 0 + 1
      BY <2>3, <2>4, <2>7 DEF Left
    <3>2. Left(q) <= Left(p) - 1
      BY <1>0, <2>4, <2>7, <3>1
    <3> QED  BY <1>1, <2>1, <3>1, <3>2
  <2> QED  BY <2>5, <2>6, <2>7
<1>5. CASE AtPayload(t, b)
  <2> DEFINE e == [s EXCEPT !.payload = Append(@, b)]
             q == IF Len(e.payload) = e.need THEN [e EXCEPT !.st = "CSUM"] ELSE e
  <2>1. Become(t, q) /\ p.st = "PAYLOAD" /\ Len(p.payload) < p.need
    BY <1>0, <1>5 DEF AtPayload, st, s, Room
  <2>2. /\ Append(p.payload, b) \in Seq(Byte)
        /\ Len(Append(p.payload, b)) = Len(p.payload) + 1
    BY <1>0, AppendProperties
  <2>3. /\ e \in ParserType /\ e.payload = Append(p.payload, b)
        /\ e.need = p.need /\ e.st = "PAYLOAD"
    BY <1>s, <2>1, <2>2 DEF ParserType
  <2> HIDE DEF e
  <2>4. Left(p) = p.need - Len(p.payload) + 1
    BY <2>1 DEF Left
  <2>5. CASE Len(e.payload) = e.need
    <3>1. q.st = "CSUM"
      BY <2>3, <2>5 DEF ParserType
    <3> HIDE DEF q
    <3>2. Left(q) = 1
      BY <3>1 DEF Left
    <3>3. Left(q) <= Left(p) - 1
      BY <1>0, <2>1, <2>4, <3>2
    <3> QED  BY <1>1, <2>1, <3>1, <3>3
  <2>6. CASE Len(e.payload) # e.need
    <3>1. q = e
      BY <2>6
    <3> HIDE DEF q
    <3>2. Left(q) = p.need - (Len(p.payload) + 1) + 1
      BY <2>2, <2>3, <3>1 DEF Left
    <3>3. Left(q) <= Left(p) - 1
      BY <1>0, <2>4, <3>2
    <3> QED  BY <1>1, <2>1, <2>3, <3>1, <3>3
  <2> QED  BY <2>5, <2>6
<1>6. CASE AtOtaL0(t, b)
  <2> DEFINE q == [s EXCEPT !.olen = b, !.st = "OTA_L1"]
  <2>1. Become(t, q) /\ p.st = "OTA_L0" /\ q.st = "OTA_L1"
    BY <1>6, <1>s DEF AtOtaL0, st, s, ParserType
  <2> HIDE DEF q
  <2>2. Left(p) = MaxChunk + 3 /\ Left(q) = MaxChunk + 2
    BY <2>1 DEF Left
  <2> QED  BY <1>0, <1>1, <2>1, <2>2
<1>7. CASE AtOtaL1(t, b)
  <2> DEFINE len == p.olen + Base * b
             e == [s EXCEPT !.olen = len, !.ogot = 0]
             q == [e EXCEPT !.st = IF len \in 1 .. MaxChunk THEN "OTA_DATA"
                                                            ELSE "SYNC"]
  <2>1. Become(t, q) /\ p.st = "OTA_L1"
    BY <1>7 DEF AtOtaL1, st, s
  <2>2. len \in Nat
    BY <1>0
  <2> HIDE DEF len
  <2>3. e \in ParserType /\ e.olen = len /\ e.ogot = 0
    BY <1>s, <2>2 DEF ParserType
  <2> HIDE DEF e
  <2>4. /\ q.olen = len /\ q.ogot = 0
        /\ q.st = IF len \in 1 .. MaxChunk THEN "OTA_DATA" ELSE "SYNC"
    BY <2>3 DEF ParserType
  <2> HIDE DEF q
  <2>5. CASE len \notin 1 .. MaxChunk
    BY <1>1, <2>1, <2>4, <2>5
  <2>6. CASE len \in 1 .. MaxChunk
    <3>1. q.st = "OTA_DATA" /\ Left(q) = len - 0 + 1 /\ Left(p) = MaxChunk + 2
      BY <2>1, <2>4, <2>6 DEF Left
    <3>2. Left(q) <= Left(p) - 1
      BY <1>0, <2>2, <2>6, <3>1
    <3> QED  BY <1>1, <2>1, <3>1, <3>2
  <2> QED  BY <2>5, <2>6
<1>8. CASE AtOtaData(t, b)
  <2> DEFINE e == [s EXCEPT !.ogot = @ + 1]
             q == IF e.ogot = e.olen THEN [e EXCEPT !.st = "OTA_CSUM"] ELSE e
  <2>1. Become(t, q) /\ p.st = "OTA_DATA" /\ p.ogot < p.olen
    BY <1>0, <1>8 DEF AtOtaData, st, s, Room
  <2>2. /\ e \in ParserType /\ e.ogot = p.ogot + 1 /\ e.olen = p.olen
        /\ e.st = "OTA_DATA"
    BY <1>0, <1>s, <2>1 DEF ParserType
  <2> HIDE DEF e
  <2>3. Left(p) = p.olen - p.ogot + 1
    BY <2>1 DEF Left
  <2>4. CASE e.ogot = e.olen
    <3>1. q.st = "OTA_CSUM"
      BY <2>2, <2>4 DEF ParserType
    <3> HIDE DEF q
    <3>2. Left(q) = 1
      BY <3>1 DEF Left
    <3>3. Left(q) <= Left(p) - 1
      BY <1>0, <2>1, <2>3, <3>2
    <3> QED  BY <1>1, <2>1, <3>1, <3>3
  <2>5. CASE e.ogot # e.olen
    <3>1. q = e
      BY <2>5
    <3> HIDE DEF q
    <3>2. Left(q) = p.olen - (p.ogot + 1) + 1
      BY <2>2, <3>1 DEF Left
    <3>3. Left(q) <= Left(p) - 1
      BY <1>0, <2>3, <3>2
    <3> QED  BY <1>1, <2>1, <2>2, <3>1, <3>3
  <2> QED  BY <2>4, <2>5
<1>9. ASSUME \/ \E command : Complete(t, command)
             \/ Become(t, [p EXCEPT !.st = "SYNC"])
      PROVE  p2.st = "SYNC"
  <2>1. parser \in [Transport -> ParserType]
    BY DEF IInv, TypeOK, ParserType
  <2>2. CASE parser' = [u \in Transport |-> Ready]
    BY <2>2 DEF Ready
  <2>3. CASE parser' = [parser EXCEPT ![t].st = "SYNC"]
    BY <2>1, <2>3 DEF ParserType
  <2>4. CASE Become(t, [p EXCEPT !.st = "SYNC"])
    BY <2>1, <2>4 DEF Become, ParserType
  <2> QED  BY <1>9, <2>2, <2>3, <2>4 DEF Complete
<1>10. CASE AtCsum(t, b)
  BY <1>9, <1>10 DEF AtCsum
<1>11. CASE AtOtaCsum(t, b)
  BY <1>9, <1>11 DEF AtOtaCsum
<1> QED  BY <1>2, <1>3, <1>4, <1>5, <1>6, <1>7, <1>8, <1>10, <1>11 DEF Feed

-----------------------------------------------------------------------------
(* The frames are laid out one after the other. *)
LEMMA Rises ==
  ASSUME NEW at, NEW w, NEW s, AreCommands(s), Layout(at, w, s)
  PROVE  \A i, j \in 1 .. Len(s) + 1 : i <= j => at[i] <= at[j]
<1> DEFINE n == Len(s)
<1>1. n \in Nat /\ \A i \in 1 .. n + 1 : at[i] \in Int
  BY LenProperties DEF AreCommands, Layout
<1>2. ASSUME NEW i \in 1 .. n
      PROVE  at[i] <= at[i + 1]
  <2>1. i \in 1 .. n + 1 /\ i + 1 \in 1 .. n + 1
    BY <1>1
  <2>2. at[i + 1] = at[i] + Len(Encode(s[i]))
    BY DEF Layout
  <2>3. Len(Encode(s[i])) \in Nat
    <3>1. IsCommand(s[i])
      BY DEF AreCommands
    <3> QED  BY <3>1, EncodeOf, LenProperties
  <2> QED  BY <1>1, <2>1, <2>2, <2>3
<1>3. ASSUME NEW i \in 1 .. n + 1
      PROVE  \A k \in Nat : i + k <= n + 1 => at[i] <= at[i + k]
  <2> DEFINE T == {k \in Nat : i + k <= n + 1 => at[i] <= at[i + k]}
  <2>1. 0 \in T
    BY <1>1
  <2>2. ASSUME NEW k \in Nat, k \in T
        PROVE  k + 1 \in T
    <3> SUFFICES ASSUME i + (k + 1) <= n + 1
                 PROVE  at[i] <= at[i + (k + 1)]
      OBVIOUS
    <3>1. /\ i + k \in 1 .. n /\ i + k \in 1 .. n + 1 /\ (i + k) + 1 = i + (k + 1)
          /\ i + (k + 1) \in 1 .. n + 1
      BY <1>1
    <3>2. at[i] <= at[i + k]
      BY <1>1, <2>2, <3>1
    <3>3. at[i + k] <= at[i + (k + 1)]
      BY <1>2, <3>1
    <3> QED  BY <1>1, <3>1, <3>2, <3>3
  <2> HIDE DEF T
  <2>3. \A k \in Nat : k \in T
    BY <2>1, <2>2, Induction
  <2> QED  BY <2>3 DEF T
<1>4. ASSUME NEW i \in 1 .. n + 1, NEW j \in 1 .. n + 1, i <= j
      PROVE  at[i] <= at[j]
  <2> DEFINE k == j - i
  <2>1. k \in Nat /\ i + k = j /\ i + k <= n + 1
    BY <1>1, <1>4
  <2> HIDE DEF k
  <2>2. at[i] <= at[i + k]
    BY <1>3, <2>1
  <2> QED  BY <2>1, <2>2
<1> QED  BY <1>4

-----------------------------------------------------------------------------
(* How a transport is heard that has lost a byte, from the loss on, by a   *)
(* parser in any state.                                                    *)

(* The clear bytes are those of frames from b + 1 on, the last of those    *)
(* that may be spared.                                                     *)
ClearFrom(b, at, s, clr, spd) ==
    /\ at[spd + 1] - at[b + 1] >= clr
    /\ \A i \in b + 1 .. spd : ~ Misleading(s[i])

Spares(at, s, clr, spd) ==
    /\ clr \in Nat /\ spd \in 0 .. Len(s)
    /\ clr < LongestRemainder => spd = Len(s)
    /\ \E b \in 0 .. spd : ClearFrom(b, at, s, clr, spd)

(* Since the loss, or since a misleading frame, the parser has been taking *)
(* what is left of something else.                                         *)
AstrayFrom(g, at, p, s) ==
    /\ g = 0 \/ Misleading(s[g])
    /\ at[g + 1] <= 0 =>
          /\ Left(p) - at[g + 1] <= LongestRemainder
          /\ p.st # "SYNC"
          /\ p.st = "TYPE" => at[g + 1] = 0

Astray(at, p, s, spd) == \E g \in 0 .. spd : AstrayFrom(g, at, p, s)

(* It looks for a sync byte in the middle of frame j, which is one of      *)
(* those spared and does not mislead it.                                   *)
SkipsIn(j, at, p, s) ==
    /\ at[j] < 0 /\ at[j + 1] > 0 /\ ~ Misleading(s[j])
    /\ \/ p.st = "SYNC"
       \/ p.st = "TYPE" /\ at[j] <= 0 - 2 /\ Encode(s[j])[0 - at[j]] = SyncByte

Skips(at, p, s, spd) == \E j \in 1 .. spd : SkipsIn(j, at, p, s)

(* It reads frame j and has completed all since frame f.                   *)
FollowsAt(f, j, at, p, buf, s, d) ==
    /\ f <= j /\ at[j] <= 0
    /\ j - f <= Len(d) /\ \A m \in 1 .. j - f : d[Len(d) + 1 - m] = s[j - m]
    /\ j = Len(s) + 1 => p.st = "SYNC"
    /\ j <= Len(s) => /\ 0 - at[j] < Len(Encode(s[j]))
                      /\ Reading(p, buf, s[j], 0 - at[j])

Follows(at, p, buf, s, d, spd) ==
    \E f \in 1 .. spd + 1 : \E j \in 1 .. Len(s) + 1 : FollowsAt(f, j, at, p, buf, s, d)

Resumes(at, p, buf, s, d, spd) ==
    Astray(at, p, s, spd) \/ Skips(at, p, s, spd) \/ Follows(at, p, buf, s, d, spd)

Resync(t) ==
    \E at : /\ Layout(at, wire[t], sent[t])
            /\ Spares(at, sent[t], clear[t], spared[t])
            /\ Resumes(at, parser[t], ota_buf, sent[t], done[t], spared[t])

(* The next frame is followed from its first byte. *)
LEMMA FollowsNext ==
  ASSUME NEW at, NEW p, p.st = "SYNC", NEW buf, NEW s, AreCommands(s), NEW d,
         Len(d) \in Nat, NEW spd \in 0 .. Len(s), NEW j \in 1 .. spd + 1, at[j] = 0
  PROVE  Resumes(at, p, buf, s, d, spd)
<1>1. Len(s) \in Nat /\ j \in 1 .. Len(s) + 1
  BY LenProperties DEF AreCommands
<1>2. j <= Len(s) => 0 < Len(Encode(s[j]))
  <2> SUFFICES ASSUME j <= Len(s) PROVE 0 < Len(Encode(s[j]))
    OBVIOUS
  <2>1. IsCommand(s[j])
    <3>1. j \in 1 .. Len(s)
      BY <1>1
    <3> QED  BY <3>1 DEF AreCommands
  <2>2. Len(Encode(s[j])) = Len(Contents(s[j])) + 3 /\ Len(Contents(s[j])) \in Nat
    BY <2>1, EncodeOf
  <2> QED  BY <2>2
<1>3. j <= j /\ j - j = 0 /\ 1 .. 0 = {} /\ 0 - at[j] = 0 /\ at[j] <= 0
  BY <1>1
<1>4. FollowsAt(j, j, at, p, buf, s, d)
  BY <1>2, <1>3 DEF FollowsAt, Reading
<1> QED  BY <1>1, <1>4 DEF Resumes, Follows

(* The loss: no frame has been sent since. *)
LEMMA ResyncBegins ==
  ASSUME NEW w, Len(w) \in Nat, NEW p \in ParserType, Room(p), NEW buf, NEW d,
         Len(d) \in Nat, NEW s, s = <<>>
  PROVE  \E at : Layout(at, w, s) /\ Spares(at, s, 0, 0) /\ Resumes(at, p, buf, s, d, 0)
<1> DEFINE at == [i \in 1 .. 1 |-> Len(w)]
<1>1. Len(s) = 0 /\ at[1] = Len(w) /\ Layout(at, w, s) /\ at[0 + 1] = Len(w)
  <2>1. Layout(at, w, <<>>)
    BY LayoutBegins
  <2>2. 1 \in 1 .. 1 /\ Len(<<>>) = 0 /\ 0 + 1 = 1
    OBVIOUS
  <2> QED  BY <2>1, <2>2
<1> HIDE DEF at
<1>2. Spares(at, s, 0, 0)
  <2>1. ClearFrom(0, at, s, 0, 0)
    BY <1>1 DEF ClearFrom
  <2> QED  BY <1>1, <2>1 DEF Spares
<1>3. CASE Len(w) > 0
  <2>1. AstrayFrom(0, at, p, s)
    BY <1>1, <1>3 DEF AstrayFrom
  <2> QED  BY <1>1, <1>2, <2>1 DEF Resumes, Astray
<1>4. CASE Len(w) = 0 /\ p.st = "SYNC"
  <2>1. AreCommands(s) /\ at[1] = 0 /\ 1 \in 1 .. 0 + 1 /\ 0 \in 0 .. Len(s)
    BY <1>1, <1>4, EmptySeq DEF AreCommands
  <2>2. Resumes(at, p, buf, s, d, 0)
    BY <1>4, <2>1, FollowsNext
  <2> QED  BY <1>1, <1>2, <2>2
<1>5. CASE Len(w) = 0 /\ p.st # "SYNC"
  <2>1. Left(p) \in 1 .. LongestRemainder /\ LongestRemainder \in Nat
    BY LeftBound, ParserAssumption DEF LongestRemainder
  <2>2. at[0 + 1] = 0 /\ Left(p) - 0 <= LongestRemainder
    BY <1>1, <1>5, <2>1
  <2>3. AstrayFrom(0, at, p, s)
    BY <1>5, <2>2 DEF AstrayFrom
  <2> QED  BY <1>1, <1>2, <2>3 DEF Resumes, Astray
<1> QED  BY <1>3, <1>4, <1>5

(* The frame after g that holds the first byte under way. *)
LEMMA Lands ==
  ASSUME NEW at, NEW w, NEW s, AreCommands(s), Layout(at, w, s),
         NEW g \in 0 .. Len(s), at[g + 1] <= 0, Len(w) \in Nat \ {0}
  PROVE  \E j \in g + 1 .. Len(s) : at[j] <= 0 /\ at[j + 1] > 0
<1> DEFINE n == Len(s)
           T == {i \in g + 1 .. n + 1 : at[i] > 0}
<1>1. n \in Nat /\ (\A i \in 1 .. n + 1 : at[i] \in Int) /\ at[n + 1] > 0
  <2>1. n \in Nat /\ at \in [1 .. n + 1 -> Int]
    BY LenProperties DEF AreCommands, Layout
  <2>2. at[n + 1] = Len(w)
    BY DEF Layout
  <2> QED  BY <2>1, <2>2
<1>2. T \subseteq Nat /\ n + 1 \in T
  BY <1>1
<1>3. PICK i \in T : \A m \in T : i <= m
  <2> HIDE DEF T
  <2> QED  BY <1>2, Least
<1>4. i # g + 1 /\ i \in g + 1 .. n + 1 /\ at[i] > 0
  <2>1. i \in g + 1 .. n + 1 /\ at[i] > 0
    OBVIOUS
  <2>2. at[g + 1] \in Int /\ ~ (at[g + 1] > 0)
    <3>1. g + 1 \in 1 .. n + 1
      BY <1>1
    <3> QED  BY <1>1, <3>1
  <2> QED  BY <2>1, <2>2
<1>5. /\ i - 1 \in g + 1 .. n /\ i - 1 \in g + 1 .. n + 1 /\ i - 1 \in 1 .. n + 1
      /\ (i - 1) + 1 = i /\ ~ (i <= i - 1)
  BY <1>1, <1>4
<1>6. ~ (at[i - 1] > 0)
  BY <1>3, <1>5
<1> QED  BY <1>1, <1>4, <1>5, <1>6

(* After enough clear bytes the parser cannot have been astray since       *)
(* before them.                                                            *)
LEMMA Spared ==
  ASSUME NEW at, NEW w, NEW s, AreCommands(s), Layout(at, w, s), NEW clr, NEW spd,
         Spares(at, s, clr, spd), NEW g \in 0 .. spd, g = 0 \/ Misleading(s[g]),
         NEW j \in 1 .. Len(s) + 1, at[j] - at[g + 1] < LongestRemainder
  PROVE  j <= spd \/ spd = Len(s)
<1> DEFINE n == Len(s)
           R == LongestRemainder
<1>0. /\ n \in Nat /\ spd \in 0 .. n /\ clr \in Nat /\ R \in Nat
      /\ clr < R => spd = n
  BY LenProperties, ParserAssumption DEF AreCommands, Spares, LongestRemainder
<1>1. PICK b \in 0 .. spd : ClearFrom(b, at, s, clr, spd)
  BY DEF Spares
<1> SUFFICES ASSUME j > spd, clr >= R
             PROVE  FALSE
  BY <1>0
<1>2. g <= b
  <2> SUFFICES ASSUME g > b PROVE FALSE
    BY <1>0
  <2>1. g \in b + 1 .. spd /\ g # 0
    BY <1>0
  <2> QED  BY <1>1, <2>1 DEF ClearFrom
<1>3. /\ g + 1 \in 1 .. n + 1 /\ b + 1 \in 1 .. n + 1 /\ spd + 1 \in 1 .. n + 1
      /\ g + 1 <= b + 1 /\ spd + 1 <= j
  BY <1>0, <1>2
<1>4. at[g + 1] <= at[b + 1] /\ at[spd + 1] <= at[j]
  BY <1>3, Rises
<1>5. at[spd + 1] - at[b + 1] >= clr
  BY <1>1 DEF ClearFrom
<1>6. \A i \in 1 .. n + 1 : at[i] \in Int
  BY DEF Layout
<1> DEFINE ag == at[g + 1]
           ab == at[b + 1]
           ac == at[spd + 1]
           aj == at[j]
<1>7. /\ ag \in Int /\ ab \in Int /\ ac \in Int /\ aj \in Int
      /\ ag <= ab /\ ac <= aj /\ ac - ab >= clr /\ aj - ag < R
      /\ clr >= R /\ clr \in Nat /\ R \in Nat
  BY <1>0, <1>3, <1>4, <1>5, <1>6
<1> HIDE DEF ag, ab, ac, aj, R
<1>8. ac - ab >= R
  BY <1>7
<1>9. aj - ag >= ac - ab
  BY <1>7
<1>10. aj - ag \in Int /\ ac - ab \in Int
  BY <1>7
<1> QED  BY <1>7, <1>8, <1>9, <1>10

(* The parser waits for a sync byte again, inside or at the end of frame j. *)
LEMMA Catches ==
  ASSUME NEW at, NEW w, NEW s, AreCommands(s), Layout(at, w, s), NEW spd \in 0 .. Len(s),
         NEW j \in 1 .. spd, at[j] < 0, at[j + 1] >= 0,
         NEW p, p.st = "SYNC", NEW buf, NEW d, Len(d) \in Nat
  PROVE  Resumes(at, p, buf, s, d, spd)
<1>1. Len(s) \in Nat /\ j \in 1 .. Len(s) /\ j + 1 \in 1 .. spd + 1 /\ j \in 0 .. spd
      /\ j + 1 \in 1 .. Len(s) + 1
  BY LenProperties DEF AreCommands
<1>2. at[j + 1] \in Int
  BY <1>1 DEF Layout
<1>3. CASE at[j + 1] = 0
  BY <1>1, <1>3, FollowsNext
<1>4. CASE at[j + 1] > 0 /\ Misleading(s[j])
  <2>1. AstrayFrom(j, at, p, s)
    BY <1>2, <1>4 DEF AstrayFrom
  <2> QED  BY <1>1, <2>1 DEF Resumes, Astray
<1>5. CASE at[j + 1] > 0 /\ ~ Misleading(s[j])
  <2>1. SkipsIn(j, at, p, s)
    BY <1>5 DEF SkipsIn
  <2> QED  BY <2>1 DEF Resumes, Skips
<1> QED  BY <1>2, <1>3, <1>4, <1>5

(* A byte of the frame that is followed. *)
LEMMA FrameFed ==
  ASSUME IInv, NEW t \in Transport, NEW c, IsCommand(c),
         NEW k \in 0 .. Len(Encode(c)) - 1, Reading(parser[t], ota_buf, c, k),
         Feed(t, Encode(c)[k + 1])
  PROVE  \/ /\ k + 1 < Len(Encode(c)) /\ cmd' = NoCommand
            /\ Reading(parser'[t], ota_buf', c, k + 1)
         \/ /\ k + 1 = Len(Encode(c)) /\ cmd' = c /\ c \in Command
            /\ AllReady \/ parser'[t].st = "SYNC"
<1>0. Len(Encode(c)) \in Nat
  <2>1. Encode(c) \in Seq(Byte)
    BY EncodeOf
  <2> QED  BY <2>1, LenProperties
<1>1. CASE k < Len(Encode(c)) - 1
  <2>1. k \in 0 .. Len(Encode(c)) - 2 /\ k + 1 < Len(Encode(c))
    BY <1>0, <1>1
  <2>2. Heard(t, c, k)
    BY <2>1, ReadsOn
  <2> QED  BY <2>1, <2>2 DEF Heard
<1>2. CASE k = Len(Encode(c)) - 1
  <2>1. k + 1 = Len(Encode(c))
    BY <1>0, <1>2
  <2>2. c \in Command
    BY DEF IsCommand, Command
  <2>3. cmd' = c /\ (AllReady \/ parser'[t].st = "SYNC")
    BY <1>2, ReadsLast
  <2> QED  BY <2>1, <2>2, <2>3
<1> QED  BY <1>0, <1>1, <1>2

(* A command is sent on a transport that has lost a byte. *)
LEMMA SparesGrow ==
  ASSUME NEW at, NEW up, NEW w, NEW s, AreCommands(s), NEW c, NEW s2, AreCommands(s2),
         Len(s2) = Len(s) + 1, s2[Len(s) + 1] = c, \A i \in 1 .. Len(s) : s2[i] = s[i],
         Layout(up, w, s2), \A i \in 1 .. Len(s) + 1 : up[i] = at[i],
         NEW clr, NEW spd, Spares(at, s, clr, spd), NEW clr2, NEW spd2,
         \/ clr >= LongestRemainder /\ clr2 = clr /\ spd2 = spd
         \/ /\ ~ (clr >= LongestRemainder) /\ spd2 = spd + 1
            /\ clr2 = IF Misleading(c) THEN 0 ELSE clr + Len(Encode(c))
  PROVE  Spares(up, s2, clr2, spd2) /\ spd2 \in {spd, spd + 1}
<1> DEFINE n == Len(s)
           R == LongestRemainder
<1>0. /\ n \in Nat /\ clr \in Nat /\ spd \in 0 .. n /\ R \in Nat
      /\ clr < R => spd = n
  BY LenProperties, ParserAssumption DEF AreCommands, Spares, LongestRemainder
<1>1. PICK b \in 0 .. spd : ClearFrom(b, at, s, clr, spd)
  BY DEF Spares
<1>2. \A i \in 1 .. n + 2 : up[i] \in Int
  <2>1. Len(s2) + 1 = n + 2
    BY <1>0
  <2> QED  BY <2>1 DEF Layout
<1>3. b + 1 \in 1 .. n + 1 /\ spd + 1 \in 1 .. n + 1
  BY <1>0
<1>4. at[spd + 1] - at[b + 1] >= clr /\ \A i \in b + 1 .. spd : ~ Misleading(s[i])
  BY <1>1 DEF ClearFrom
<1>5. up[b + 1] = at[b + 1] /\ up[spd + 1] = at[spd + 1]
  BY <1>3
<1>6. \A i \in b + 1 .. spd : i \in 1 .. n /\ ~ Misleading(s2[i])
  BY <1>0, <1>4
<1> HIDE DEF R
<1>7. CASE clr >= R /\ clr2 = clr /\ spd2 = spd
  <2>1. ClearFrom(b, up, s2, clr, spd)
    BY <1>4, <1>5, <1>6 DEF ClearFrom
  <2>2. spd \in 0 .. Len(s2) /\ ~ (clr < R)
    BY <1>0, <1>7
  <2> QED  BY <1>0, <1>7, <2>1, <2>2 DEF Spares, R
<1>8. CASE /\ ~ (clr >= R) /\ spd2 = spd + 1
           /\ clr2 = IF Misleading(c) THEN 0 ELSE clr + Len(Encode(c))
  <2>1. spd = n /\ spd2 = n + 1 /\ spd2 \in 0 .. Len(s2) /\ spd2 = Len(s2)
        /\ spd2 + 1 = n + 2 /\ n + 1 \in 1 .. Len(s2) /\ (n + 1) + 1 = n + 2
    BY <1>0, <1>8
  <2>2. CASE Misleading(c)
    <3>1. clr2 = 0 /\ spd2 \in 0 .. spd2 /\ spd2 + 1 .. spd2 = {}
      BY <1>0, <1>8, <2>1, <2>2
    <3>2. up[spd2 + 1] - up[spd2 + 1] >= clr2
      BY <1>0, <1>2, <2>1, <3>1
    <3>3. ClearFrom(spd2, up, s2, clr2, spd2)
      BY <3>1, <3>2 DEF ClearFrom
    <3> QED  BY <2>1, <3>1, <3>3 DEF Spares
  <2>3. CASE ~ Misleading(c)
    <3>1. clr2 = clr + Len(Encode(c)) /\ Len(Encode(c)) \in Nat
      <4>1. IsCommand(c)
        BY <2>1 DEF AreCommands
      <4>2. Encode(c) \in Seq(Byte)
        BY <4>1, EncodeOf
      <4> QED  BY <1>8, <2>3, <4>2, LenProperties
    <3>2. up[n + 2] = up[n + 1] + Len(Encode(c))
      BY <2>1 DEF Layout
    <3>3. up[spd2 + 1] - up[b + 1] >= clr2
      <4> DEFINE l == Len(Encode(c))
                 x == up[n + 2]
                 y == up[n + 1]
                 z == up[b + 1]
      <4>1. /\ l \in Nat /\ x = y + l /\ y \in Int /\ z \in Int /\ y - z >= clr
            /\ clr2 = clr + l
        BY <1>0, <1>2, <1>3, <1>4, <1>5, <2>1, <3>1, <3>2
      <4> HIDE DEF l, x, y, z
      <4>2. x - z >= clr2
        BY <1>0, <4>1
      <4> QED  BY <2>1, <4>2 DEF x, z
    <3>4. \A i \in b + 1 .. spd2 : ~ Misleading(s2[i])
      <4>1. \A i \in b + 1 .. spd2 : i \in b + 1 .. spd \/ i = n + 1
        BY <1>0, <2>1
      <4> QED  BY <1>6, <2>1, <2>3, <4>1
    <3>5. b \in 0 .. spd2 /\ clr2 \in Nat
      BY <1>0, <2>1, <3>1
    <3>6. ClearFrom(b, up, s2, clr2, spd2)
      BY <3>3, <3>4 DEF ClearFrom
    <3> QED  BY <2>1, <3>5, <3>6 DEF Spares
  <2> QED  BY <2>1, <2>2, <2>3
<1> QED  BY <1>7, <1>8 DEF R

(* How it resumes is not disturbed by what comes after.                    *)
LEMMA ResyncGrows ==
  ASSUME WireOK, BookOK, HistoryOK, NEW t \in Transport, Resync(t), NEW c \in Commands[t],
         Send(t, c)
  PROVE  Resync(t)'
<1> DEFINE w == wire[t]
           s == sent[t]
           d == done[t]
           p == parser[t]
           n == Len(s)
           clr == clear[t]
           spd == spared[t]
           clr2 == clear'[t]
           spd2 == spared'[t]
<1>0. s \in Seq(Command) /\ n \in Nat /\ AreCommands(s) /\ w \in Seq(Byte)
  BY BookOf DEF WireOK
<1>1. IsCommand(c) /\ c \in Command
  BY CommandsAssumption DEF CommandsAssumption, IsCommand, Command
<1>2. PICK at : /\ Layout(at, w, s) /\ Spares(at, s, clr, spd)
                /\ Resumes(at, p, ota_buf, s, d, spd)
  BY DEF Resync
<1>3. PICK up : /\ Layout(up, w \o Encode(c), Append(s, c))
                /\ \A i \in 1 .. n + 1 : up[i] = at[i]
  BY <1>0, <1>1, <1>2, LayoutGrows
<1>4. /\ wire'[t] = w \o Encode(c) /\ sent'[t] = Append(s, c) /\ done'[t] = d
      /\ parser' = parser /\ ota_buf' = ota_buf
  BY DEF Send, Transmit, WireOK, BookOK, parserVars
<1> DEFINE s2 == Append(s, c)
<1>5. /\ Len(s2) = n + 1 /\ s2[n + 1] = c /\ s2 \in Seq(Command)
      /\ \A i \in 1 .. n : s2[i] = s[i]
  BY <1>0, <1>1, AppendProperties
<1> HIDE DEF s2
<1>6. AreCommands(s2)
  <2>1. \A i \in 1 .. n + 1 : i \in 1 .. n \/ i = n + 1
    BY <1>0
  <2> QED  BY <1>0, <1>1, <1>5, <2>1 DEF AreCommands
<1>7. \/ clr >= LongestRemainder /\ clr2 = clr /\ spd2 = spd
      \/ /\ ~ (clr >= LongestRemainder) /\ spd2 = spd + 1
         /\ clr2 = IF Misleading(c) THEN 0 ELSE clr + Len(Encode(c))
  <2>1. clear \in [Transport -> Nat] /\ spared \in [Transport -> Nat]
    BY DEF HistoryOK
  <2>2. CASE clr >= LongestRemainder
    BY <2>2 DEF Send, Reckon
  <2>3. CASE ~ (clr >= LongestRemainder)
    BY <2>1, <2>3 DEF Send, Reckon
  <2> QED  BY <2>2, <2>3
<1>8. Spares(up, s2, clr2, spd2) /\ spd2 \in {spd, spd + 1}
  <2> DEFINE w2 == w \o Encode(c)
  <2>1. Layout(up, w2, s2)
    BY <1>3 DEF s2
  <2>2. Spares(at, s, clr, spd)
    BY <1>2
  <2> HIDE DEF w2, w, s, n, clr, spd, clr2, spd2
  <2>3. Len(s2) = Len(s) + 1 /\ s2[Len(s) + 1] = c /\ AreCommands(s)
    BY <1>0, <1>5 DEF n
  <2>4. /\ \A i \in 1 .. Len(s) : s2[i] = s[i]
        /\ \A i \in 1 .. Len(s) + 1 : up[i] = at[i]
    BY <1>3, <1>5 DEF n
  <2> QED  BY <1>6, <1>7, <2>1, <2>2, <2>3, <2>4, SparesGrow
<1>9. /\ spd \in 0 .. n /\ spd2 \in 0 .. n + 1 /\ spd <= spd2
  <2>1. spd \in 0 .. n /\ spd2 \in 0 .. Len(s2)
    BY <1>2, <1>8 DEF Spares
  <2> QED  BY <1>0, <1>5, <1>8, <2>1
<1> HIDE DEF clr, clr2, spd, spd2
<1>10. Resumes(up, p, ota_buf, s2, d, spd2) => Resync(t)'
  BY <1>3, <1>4, <1>8 DEF Resync, s2, clr2, spd2
<1>11. CASE Astray(at, p, s, spd)
  <2>1. PICK g \in 0 .. spd : AstrayFrom(g, at, p, s)
    BY <1>11 DEF Astray
  <2>2. /\ g \in 0 .. spd2 /\ g + 1 \in 1 .. n + 1
        /\ g # 0 => g \in 1 .. n
    BY <1>0, <1>9
  <2>3. up[g + 1] = at[g + 1]
    BY <1>3, <2>2
  <2>4. g = 0 \/ s2[g] = s[g]
    BY <1>5, <2>2
  <2>5. AstrayFrom(g, up, p, s2)
    BY <2>1, <2>3, <2>4 DEF AstrayFrom
  <2> QED  BY <1>10, <2>2, <2>5 DEF Resumes, Astray
<1>12. CASE Skips(at, p, s, spd)
  <2>1. PICK j \in 1 .. spd : SkipsIn(j, at, p, s)
    BY <1>12 DEF Skips
  <2>2. j \in 1 .. spd2 /\ j \in 1 .. n /\ j \in 1 .. n + 1 /\ j + 1 \in 1 .. n + 1
    BY <1>0, <1>9
  <2>3. up[j] = at[j] /\ up[j + 1] = at[j + 1] /\ s2[j] = s[j]
    BY <1>3, <1>5, <2>2
  <2>4. SkipsIn(j, up, p, s2)
    BY <2>1, <2>3 DEF SkipsIn
  <2> QED  BY <1>10, <2>2, <2>4 DEF Resumes, Skips
<1>13. CASE Follows(at, p, ota_buf, s, d, spd)
  <2>1. PICK f \in 1 .. spd + 1, j \in 1 .. n + 1 : FollowsAt(f, j, at, p, ota_buf, s, d)
    BY <1>13 DEF Follows
  <2>2. /\ up[j] = at[j] /\ j \in 1 .. Len(s2) /\ j # Len(s2) + 1
        /\ j \in 1 .. Len(s2) + 1 /\ f \in 1 .. spd2 + 1
    BY <1>0, <1>3, <1>5, <1>9
  <2>3. /\ f <= j /\ at[j] <= 0 /\ j - f <= Len(d)
        /\ \A m \in 1 .. j - f : d[Len(d) + 1 - m] = s2[j - m]
    <3>1. \A m \in 1 .. j - f : j - m \in 1 .. n
      BY <1>0
    <3> QED  BY <1>5, <2>1, <3>1 DEF FollowsAt
  <2>4. /\ 0 - up[j] < Len(Encode(s2[j]))
        /\ Reading(p, ota_buf, s2[j], 0 - up[j])
    <3>1. CASE j <= n
      <4>1. j \in 1 .. n
        BY <3>1
      <4>2. s2[j] = s[j]
        BY <1>5, <4>1
      <4> QED  BY <2>1, <2>2, <3>1, <4>2 DEF FollowsAt
    <3>2. CASE j = n + 1
      <4>1. at[j] = 0
        <5>1. at[j] = Len(w) /\ Len(w) \in Nat
          BY <1>0, <1>2, <3>2, LenProperties DEF Layout
        <5> QED  BY <2>3, <5>1
      <4>2. 0 < Len(Encode(c))
        <5>1. Len(Encode(c)) = Len(Contents(c)) + 3 /\ Len(Contents(c)) \in Nat
          BY <1>1, EncodeOf
        <5> QED  BY <5>1
      <4>3. s2[j] = c /\ p.st = "SYNC" /\ 0 - up[j] = 0
        BY <1>5, <2>1, <2>2, <3>2, <4>1 DEF FollowsAt
      <4> QED  BY <4>2, <4>3 DEF Reading
    <3> QED  BY <1>0, <3>1, <3>2
  <2>5. FollowsAt(f, j, up, p, ota_buf, s2, d)
    BY <2>2, <2>3, <2>4 DEF FollowsAt
  <2> QED  BY <1>10, <2>2, <2>5 DEF Resumes, Follows
<1> QED  BY <1>2, <1>11, <1>12, <1>13 DEF Resumes

(* One byte fewer. *)
LEMMA SparesShift ==
  ASSUME NEW at, NEW down, NEW s, Len(s) \in Nat, NEW clr, NEW spd,
         Spares(at, s, clr, spd),
         \A i \in 1 .. Len(s) + 1 : down[i] = at[i] - 1 /\ at[i] \in Int
  PROVE  Spares(down, s, clr, spd)
<1>1. clr \in Nat /\ spd \in 0 .. Len(s)
  BY DEF Spares
<1>2. PICK b \in 0 .. spd : ClearFrom(b, at, s, clr, spd)
  BY DEF Spares
<1>3. b + 1 \in 1 .. Len(s) + 1 /\ spd + 1 \in 1 .. Len(s) + 1
  BY <1>1
<1>4. /\ down[b + 1] = at[b + 1] - 1 /\ at[b + 1] \in Int
      /\ down[spd + 1] = at[spd + 1] - 1 /\ at[spd + 1] \in Int
      /\ at[spd + 1] - at[b + 1] >= clr
  BY <1>2, <1>3 DEF ClearFrom
<1> DEFINE x == at[spd + 1]
           y == at[b + 1]
<1> HIDE DEF x, y
<1>5. (x - 1) - (y - 1) = x - y
  BY <1>4 DEF x, y
<1>6. down[spd + 1] - down[b + 1] >= clr
  BY <1>4, <1>5 DEF x, y
<1>7. ClearFrom(b, down, s, clr, spd)
  BY <1>2, <1>6 DEF ClearFrom
<1> QED  BY <1>7 DEF Spares

(* A byte inside a frame that does not mislead, to a parser that looks for *)
(* a sync byte.                                                            *)
LEMMA SkipFed ==
  ASSUME IInv, NEW t \in Transport, NEW c, IsCommand(c), ~ Misleading(c),
         NEW k \in 1 .. Len(Encode(c)) - 1,
          NEW b \in Byte, b = Encode(c)[k + 1], Feed(t, b),
         \/ parser[t].st = "SYNC"
         \/ parser[t].st = "TYPE" /\ k >= 2 /\ Encode(c)[k] = SyncByte
  PROVE  \/ parser'[t].st = "SYNC"
         \/ parser'[t].st = "TYPE" /\ b = SyncByte /\ k + 1 < Len(Encode(c))
<1> DEFINE e == Encode(c)
           l == Len(e)
           p == parser[t]
           Types == DOMAIN FixedLen \cup Prefixed \cup {OTA_DATA}
<1>0. l \in Nat /\ k \in 1 .. l - 1 /\ b = e[k + 1]
  <2>1. e \in Seq(Byte)
    BY EncodeOf
  <2> QED  BY <2>1, LenProperties
<1>1. \A i \in 2 .. l : e[i] = SyncByte => i # l /\ e[i + 1] \notin Types
  BY DEF Misleading
<1> HIDE DEF e, l, Types
<1>2. CASE p.st = "SYNC" /\ b = SyncByte
  <2>1. AtSync(t, b)
    BY <1>2, OneState DEF st
  <2>2. Become(t, [p EXCEPT !.st = "TYPE"])
    BY <1>2, <2>1 DEF AtSync
  <2>3. parser'[t].st = "TYPE"
    <3>1. parser'[t] = [p EXCEPT !.st = "TYPE"]
      BY <2>2, Becomes
    <3>2. p \in ParserType
      BY OneParser
    <3> QED  BY <3>1, <3>2 DEF ParserType
  <2>4. k + 1 < l
    <3>1. k + 1 \in 2 .. l
      BY <1>0
    <3>2. k + 1 # l
      BY <1>0, <1>1, <1>2, <3>1
    <3> QED  BY <1>0, <3>1, <3>2
  <2> QED  BY <1>2, <2>3, <2>4 DEF e, l
<1>3. CASE p.st = "SYNC" /\ b # SyncByte
  <2>1. AtSync(t, b)
    BY <1>3, OneState DEF st
  <2>2. Become(t, p)
    BY <1>3, <2>1 DEF AtSync
  <2>3. parser'[t] = p
    BY <2>2, Becomes
  <2> QED  BY <1>3, <2>3
<1>4. CASE p.st = "TYPE" /\ k >= 2 /\ e[k] = SyncByte
  <2>1. k \in 2 .. l /\ b \notin Types
    <3>1. k \in 2 .. l
      BY <1>0, <1>4
    <3> QED  BY <1>0, <1>1, <1>4, <3>1
  <2>2. b \notin Prefixed /\ b # OTA_DATA /\ b \notin DOMAIN FixedLen
    BY <2>1 DEF Types
  <2>3. AtType(t, b)
    BY <1>4, OneState DEF st
  <2> DEFINE q == [p EXCEPT !.type = b, !.csum = b, !.payload = <<>>]
  <2>4. Become(t, [q EXCEPT !.st = "SYNC", !.need = 0])
    BY <2>2, <2>3 DEF AtType
  <2>5. parser'[t] = [q EXCEPT !.st = "SYNC", !.need = 0]
    BY <2>4, Becomes
  <2>6. p \in ParserType
    BY OneParser
  <2> QED  BY <2>5, <2>6 DEF ParserType
<1> QED  BY <1>2, <1>3, <1>4 DEF e

(* A byte after a loss: the parser goes on with what is left, looks for    *)
(* the next sync byte, or reads on.                                        *)
LEMMA ResyncFed ==
  ASSUME IInv, WireOK, BookOK, BookOK', HistoryOK, NEW t \in Transport, Resync(t),
         FeedNext(t), ~ Restarts
  PROVE  Resync(t)'
<1> DEFINE w == wire[t]
           s == sent[t]
           d == done[t]
           d2 == done'[t]
           p == parser[t]
           p2 == parser'[t]
           n == Len(s)
           clr == clear[t]
           spd == spared[t]
           b == Head(w)
           R == LongestRemainder
<1>0. /\ s \in Seq(Command) /\ n \in Nat /\ AreCommands(s) /\ d \in Seq(Command)
      /\ w \in Seq(Byte) /\ w # <<>> /\ Feed(t, b) /\ Len(w) \in Nat \ {0}
      /\ Len(d) \in Nat /\ Len(d2) \in Nat
  <2>1. w \in Seq(Byte) /\ w # <<>> /\ Feed(t, b)
    BY DEF WireOK, FeedNext
  <2>2. Len(w) \in Nat \ {0}
    BY <2>1, EmptySeq
  <2>3. d2 \in Seq(Command)
    BY DEF BookOK
  <2>4. Len(d2) \in Nat
    BY <2>3, LenProperties
  <2> QED  BY <2>1, <2>2, <2>4, BookOf
<1>1. b \in Byte /\ p \in ParserType /\ Room(p)
  BY <1>0, HeadTailProperties, OneParser
<1>2. p2 \in ParserType /\ Room(p2)
  <2>1. IInv'
    BY <1>0, <1>1, FeedKeepsIInv
  <2> QED  BY <2>1 DEF IInv, TypeOK, RoomForNextByte, ParserType, Room
<1>3. R \in Nat /\ Left(p) \in 1 .. R /\ Left(p2) \in 1 .. R
  <2>1. R \in Nat
    BY ParserAssumption DEF LongestRemainder
  <2> QED  BY <1>1, <1>2, <2>1, LeftBound
<1>4. PICK at : /\ Layout(at, w, s) /\ Spares(at, s, clr, spd)
                /\ Resumes(at, p, ota_buf, s, d, spd)
  BY DEF Resync
<1> DEFINE down == [i \in 1 .. n + 1 |-> at[i] - 1]
           v == Tail(w)
<1>5. Layout(down, v, s)
  BY <1>0, <1>4, LayoutShifts
<1>6. /\ wire'[t] = v /\ sent'[t] = s /\ clear'[t] = clr /\ spared'[t] = spd
      /\ cmd' = NoCommand => d2 = d
      /\ cmd' # NoCommand => d2 = Append(d, cmd')
  BY DEF FeedNext, WireOK, BookOK, history
<1>7. /\ spd \in 0 .. n
      /\ \A i \in 1 .. n + 1 : down[i] = at[i] - 1 /\ at[i] \in Int /\ down[i] \in Int
  <2>1. spd \in 0 .. n
    BY <1>4 DEF Spares
  <2>2. \A i \in 1 .. n + 1 : down[i] = at[i] - 1
    OBVIOUS
  <2>3. \A i \in 1 .. n + 1 : at[i] \in Int
    BY <1>4 DEF Layout
  <2> HIDE DEF down, n, spd
  <2> QED  BY <2>1, <2>2, <2>3
<1> HIDE DEF down
<1>8. Spares(down, s, clr, spd)
  <2>1. Spares(at, s, clr, spd)
    BY <1>4
  <2>2. Len(s) \in Nat /\ \A i \in 1 .. Len(s) + 1 : down[i] = at[i] - 1 /\ at[i] \in Int
    BY <1>0, <1>7
  <2> HIDE DEF s, clr, spd, n
  <2> QED  BY <2>1, <2>2, SparesShift
<1>9. Resumes(down, p2, ota_buf', s, d2, spd) => Resync(t)'
  BY <1>5, <1>6, <1>8 DEF Resync
<1> HIDE DEF v, p, p2, b, n, d, d2, clr, spd, R
<1>10. /\ n + 1 \in 1 .. n + 1
       /\ \A j \in 1 .. n : j \in 1 .. n + 1 /\ j + 1 \in 1 .. n + 1
       /\ \A g \in 0 .. spd : g + 1 \in 1 .. n + 1 /\ g + 1 \in 1 .. spd + 1 /\ g \in 0 .. n
       /\ \A j \in 1 .. spd : j \in 1 .. n
  BY <1>0, <1>7
<1>11. ASSUME NEW j \in 1 .. spd, at[j] <= 0, at[j + 1] > 0, p2.st = "SYNC"
       PROVE  Resync(t)'
  <2>1. down[j] < 0 /\ down[j + 1] >= 0
    <3>1. j \in 1 .. n + 1 /\ j + 1 \in 1 .. n + 1
      BY <1>10
    <3> QED  BY <1>7, <1>11, <3>1
  <2>2. spd \in 0 .. Len(s)
    BY <1>7 DEF n
  <2>3. Resumes(down, p2, ota_buf', s, d2, spd)
    BY <1>0, <1>5, <1>11, <2>1, <2>2, Catches
  <2> QED  BY <1>9, <2>3
<1>12. CASE Astray(at, p, s, spd)
  <2>1. PICK g \in 0 .. spd : AstrayFrom(g, at, p, s)
    BY <1>12 DEF Astray
  <2> DEFINE a == at[g + 1]
  <2>2. a \in Int /\ down[g + 1] = a - 1 /\ g \in 0 .. n
    BY <1>7, <1>10
  <2>3. /\ g = 0 \/ Misleading(s[g])
        /\ a <= 0 => Left(p) - a <= R /\ p.st # "SYNC"
        /\ a <= 0 => (p.st = "TYPE" => a = 0)
    BY <2>1 DEF AstrayFrom, R
  <2> HIDE DEF a
  <2>4. AstrayFrom(g, down, p2, s) => Resync(t)'
    BY <1>9 DEF Resumes, Astray
  <2>5. CASE a > 1
    <3>1. ~ (down[g + 1] <= 0)
      BY <2>2, <2>5
    <3> QED  BY <2>3, <2>4, <3>1 DEF AstrayFrom
  <2>6. CASE a = 1 /\ p2.st # "SYNC"
    <3>1. down[g + 1] = 0 /\ Left(p2) - 0 <= R
      BY <1>3, <2>2, <2>6
    <3> QED  BY <2>3, <2>4, <2>6, <3>1 DEF AstrayFrom, R
  <2>7. CASE a = 1 /\ p2.st = "SYNC"
    <3>1. down[g + 1] = 0 /\ g + 1 \in 1 .. spd + 1 /\ spd \in 0 .. Len(s)
      BY <1>7, <1>10, <2>2, <2>7 DEF n
    <3>2. Resumes(down, p2, ota_buf', s, d2, spd)
      BY <1>0, <2>7, <3>1, FollowsNext
    <3> QED  BY <1>9, <3>2
  <2>8. CASE a <= 0
    <3>1. PICK j \in g + 1 .. n : at[j] <= 0 /\ at[j + 1] > 0
      <4>1. g \in 0 .. Len(s) /\ at[g + 1] <= 0
        BY <2>2, <2>8 DEF a, n
      <4> QED  BY <1>0, <1>4, <4>1, Lands DEF n
    <3>2. j \in 1 .. n /\ j \in 1 .. n + 1 /\ at[j] \in Int
      BY <1>7, <1>10, <2>2
    <3>3. p.st = "TYPE" => b = SyncByte
      <4> SUFFICES ASSUME p.st = "TYPE" PROVE b = SyncByte
        OBVIOUS
      <4>1. g + 1 \in 1 .. Len(s) /\ at[g + 1] = 0
        BY <1>0, <2>2, <2>3, <2>8, <3>2 DEF n, a
      <4>2. IsCommand(s[g + 1])
        BY <1>0, <4>1 DEF AreCommands
      <4> DEFINE c == s[g + 1]
      <4>3. /\ Len(Encode(c)) = Len(Contents(c)) + 3 /\ Len(Contents(c)) \in Nat
            /\ Encode(c)[1] = SyncByte
        BY <4>2, EncodeOf
      <4>4. at[g + 1] <= 0 /\ 0 - at[g + 1] = 0 /\ 0 < Len(Encode(c))
        BY <4>1, <4>3
      <4>5. HeadIsIn(at, w, s, g + 1)
        BY <1>0, <1>4, <4>1, <4>4, HeadIn
      <4>6. Head(w) = Encode(c)[0 + 1]
        BY <4>4, <4>5 DEF HeadIsIn
      <4> QED  BY <4>3, <4>6 DEF b
    <3>4. p2.st = "SYNC" \/ (p2.st # "TYPE" /\ Left(p2) <= Left(p) - 1)
      BY <1>0, <1>1, <2>3, <2>8, <3>3, LeftFalls DEF p, p2
    <3>5. CASE p2.st = "SYNC"
      <4>1. at[j] - a < R /\ g + 1 \in 1 .. n + 1
        BY <1>3, <1>10, <2>2, <2>3, <2>8, <3>1, <3>2
      <4>2. j <= spd \/ spd = n
        BY <1>0, <1>4, <2>3, <3>2, <4>1, Spared DEF n, a, R
      <4>3. j \in 1 .. spd
        BY <1>7, <3>2, <4>2
      <4> QED  BY <1>11, <3>1, <3>5, <4>3
    <3>6. CASE p2.st # "SYNC"
      <4>1. down[g + 1] <= 0 /\ Left(p2) - down[g + 1] <= R
        BY <1>3, <2>2, <2>3, <2>8, <3>4, <3>6
      <4>2. AstrayFrom(g, down, p2, s)
        BY <2>3, <3>4, <3>6, <4>1 DEF AstrayFrom, R
      <4> QED  BY <2>4, <4>2
    <3> QED  BY <3>5, <3>6
  <2> QED  BY <2>2, <2>5, <2>6, <2>7, <2>8
<1>13. CASE Skips(at, p, s, spd)
  <2>1. PICK j \in 1 .. spd : SkipsIn(j, at, p, s)
    BY <1>13 DEF Skips
  <2> DEFINE c == s[j]
             l == Len(Encode(c))
             k == 0 - at[j]
  <2>2. /\ j \in 1 .. n /\ j \in 1 .. Len(s) /\ at[j] \in Int /\ at[j + 1] \in Int
        /\ down[j] = at[j] - 1 /\ down[j + 1] = at[j + 1] - 1 /\ at[j + 1] = at[j] + l
    <3>1. j \in 1 .. n /\ j \in 1 .. n + 1 /\ j + 1 \in 1 .. n + 1
      BY <1>10
    <3>2. at[j + 1] = at[j] + Len(Encode(s[j]))
      BY <1>4, <3>1 DEF Layout, n
    <3> QED  BY <1>7, <3>1, <3>2 DEF n
  <2>3. IsCommand(c) /\ l \in Nat
    <3>1. IsCommand(s[j])
      BY <1>0, <2>2 DEF AreCommands
    <3>2. Encode(s[j]) \in Seq(Byte)
      BY <3>1, EncodeOf
    <3> QED  BY <3>1, <3>2, LenProperties
  <2>4. /\ at[j] < 0 /\ at[j + 1] > 0 /\ ~ Misleading(c)
        /\ p.st = "SYNC" \/ (p.st = "TYPE" /\ at[j] <= 0 - 2 /\ Encode(c)[k] = SyncByte)
    BY <2>1 DEF SkipsIn
  <2>k. k = 0 - at[j] /\ k \in Int
    BY <2>2
  <2>s. c = s[j]
    OBVIOUS
  <2> HIDE DEF k, c
  <2>5. k \in 1 .. l - 1 /\ k < l /\ at[j] <= 0
    <3>1. l \in Nat /\ at[j] + l > 0 /\ at[j] < 0 /\ at[j] \in Int
      BY <2>2, <2>3, <2>4
    <3> HIDE DEF l
    <3> QED  BY <2>k, <3>1
  <2>6. b = Encode(c)[k + 1]
    <3>1. 0 - at[j] < Len(Encode(s[j]))
      BY <2>5, <2>k, <2>s
    <3>2. HeadIsIn(at, w, s, j)
      BY <1>0, <1>4, <2>2, <2>5, <3>1, HeadIn
    <3> QED  BY <2>k, <2>s, <3>2 DEF HeadIsIn, b
  <2>7. p.st = "SYNC" \/ (p.st = "TYPE" /\ k >= 2 /\ Encode(c)[k] = SyncByte)
    BY <2>2, <2>4, <2>k
  <2>8. p2.st = "SYNC" \/ (p2.st = "TYPE" /\ b = SyncByte /\ k + 1 < l)
    BY <1>0, <1>1, <2>3, <2>4, <2>5, <2>6, <2>7, SkipFed DEF p, p2
  <2>9. CASE p2.st = "SYNC"
    BY <1>11, <2>4, <2>5, <2>9
  <2>10. CASE p2.st = "TYPE" /\ b = SyncByte /\ k + 1 < l
    <3>1. /\ down[j] < 0 /\ down[j] <= 0 - 2 /\ 0 - down[j] = k + 1
      BY <2>2, <2>5, <2>k
    <3>2. down[j + 1] > 0
      <4>1. /\ l \in Nat /\ k + 1 < l /\ k = 0 - at[j] /\ at[j] \in Int
            /\ down[j + 1] = (at[j] + l) - 1
        BY <2>2, <2>3, <2>10, <2>k
      <4> HIDE DEF l
      <4> QED  BY <4>1
    <3>3. SkipsIn(j, down, p2, s)
      BY <2>4, <2>6, <2>10, <2>s, <3>1, <3>2 DEF SkipsIn
    <3> QED  BY <1>9, <3>3 DEF Resumes, Skips
  <2> QED  BY <2>8, <2>9, <2>10
<1>14. CASE Follows(at, p, ota_buf, s, d, spd)
  <2>1. PICK f \in 1 .. spd + 1 :
               \E j \in 1 .. n + 1 : FollowsAt(f, j, at, p, ota_buf, s, d)
    BY <1>14 DEF Follows, n
  <2>2. PICK j \in 1 .. n + 1 : FollowsAt(f, j, at, p, ota_buf, s, d)
    BY <2>1
  <2>3. j # n + 1 /\ j \in 1 .. n /\ j \in 1 .. Len(s) /\ j <= Len(s)
    <3>1. at[n + 1] = Len(w) /\ at[j] <= 0
      BY <1>4, <2>2 DEF Layout, n, FollowsAt
    <3>2. j # n + 1
      BY <1>0, <3>1
    <3> QED  BY <1>0, <3>2 DEF n
  <2> DEFINE c == s[j]
             k == 0 - at[j]
  <2>4. at[j] <= 0 /\ k < Len(Encode(c)) /\ Reading(p, ota_buf, c, k)
    BY <2>2, <2>3 DEF FollowsAt
  <2>5. HeadIsIn(at, w, s, j)
    BY <1>0, <1>4, <2>3, <2>4, HeadIn
  <2>6. /\ IsCommand(c) /\ k \in 0 .. Len(Encode(c)) - 1 /\ Len(Encode(c)) \in Nat
        /\ b = Encode(c)[k + 1] /\ at[j + 1] = at[j] + Len(Encode(c))
        /\ at[j] \in Int /\ at[j + 1] \in Int
    BY <2>5 DEF HeadIsIn, b
  <2>7. down[j] = at[j] - 1 /\ down[j + 1] = at[j + 1] - 1
    BY <1>7, <1>10, <2>3
  <2>8. /\ f <= j /\ j - f <= Len(d) /\ f \in Int
        /\ \A m \in 1 .. j - f : d[Len(d) + 1 - m] = s[j - m]
    BY <2>2 DEF FollowsAt
  <2>k. k = 0 - at[j] /\ c = s[j]
    OBVIOUS
  <2> HIDE DEF c, k
  <2>9. \/ /\ k + 1 < Len(Encode(c)) /\ cmd' = NoCommand
           /\ Reading(p2, ota_buf', c, k + 1)
        \/ /\ k + 1 = Len(Encode(c)) /\ cmd' = c /\ c \in Command
           /\ AllReady \/ p2.st = "SYNC"
    BY <1>0, <2>4, <2>6, FrameFed DEF p, p2
  <2>10. ASSUME NEW i \in 1 .. n + 1, FollowsAt(f, i, down, p2, ota_buf', s, d2)
         PROVE  Resync(t)'
    <3>1. Follows(down, p2, ota_buf', s, d2, spd)
      BY <2>10 DEF Follows, n
    <3> QED  BY <1>9, <3>1 DEF Resumes
  <2>11. CASE /\ k + 1 < Len(Encode(c)) /\ cmd' = NoCommand
              /\ Reading(p2, ota_buf', c, k + 1)
    <3>1. 0 - down[j] = k + 1 /\ down[j] <= 0
      <4>1. k >= 0 /\ at[j] \in Int /\ k = 0 - at[j]
        BY <2>6, <2>k
      <4> QED  BY <2>7, <4>1
    <3>2. d2 = d
      BY <1>6, <2>11
    <3>3. /\ 0 - down[j] < Len(Encode(s[j]))
          /\ Reading(p2, ota_buf', s[j], 0 - down[j])
      BY <2>11, <2>k, <3>1
    <3>4. j # Len(s) + 1
      BY <2>3 DEF n
    <3>5. FollowsAt(f, j, down, p2, ota_buf', s, d2)
      BY <2>8, <3>1, <3>2, <3>3, <3>4 DEF FollowsAt
    <3> QED  BY <2>10, <3>5
  <2>12. CASE /\ k + 1 = Len(Encode(c)) /\ cmd' = c /\ c \in Command
              /\ AllReady \/ p2.st = "SYNC"
    <3>1. c # NoCommand
      BY <2>12, CommandIsSome
    <3>2. p2.st = "SYNC"
      <4>1. ~ AllReady
        BY <2>12, <3>1 DEF AllReady, Restarts
      <4> QED  BY <2>12, <4>1
    <3> DEFINE e == Append(d, c)
    <3>3. /\ d2 = e /\ Len(e) = Len(d) + 1 /\ e[Len(d) + 1] = c
          /\ \A i \in 1 .. Len(d) : e[i] = d[i]
      <4>1. d \in Seq(Command) /\ c \in Command
        BY <1>0, <2>12
      <4>2. d2 = e
        BY <1>6, <2>12, <3>1
      <4> QED  BY <4>1, <4>2, AppendProperties
    <3> HIDE DEF e
    <3>4. down[j + 1] = 0 /\ down[j + 1] <= 0 /\ 0 - down[j + 1] = 0
      <4> DEFINE l == Len(Encode(c))
      <4>1. l \in Nat /\ at[j + 1] = at[j] + l /\ 0 - at[j] = l - 1 /\ at[j] \in Int
        BY <2>6, <2>12, <2>k
      <4> HIDE DEF l
      <4>2. at[j + 1] = 1
        BY <4>1
      <4> QED  BY <2>7, <4>2
    <3>5. j + 1 \in 1 .. n + 1 /\ f <= j + 1 /\ (j + 1) - f <= Len(e)
      BY <1>0, <2>3, <2>8, <3>3
    <3>6. ASSUME NEW m \in 1 .. (j + 1) - f
          PROVE  e[Len(e) + 1 - m] = s[(j + 1) - m]
      <4>1. CASE m = 1
        <5>1. Len(e) + 1 - m = Len(d) + 1 /\ (j + 1) - m = j
          BY <1>0, <2>3, <3>3, <4>1
        <5> QED  BY <2>k, <3>3, <5>1
      <4>2. CASE m # 1
        <5>1. /\ m - 1 \in 1 .. j - f /\ Len(e) + 1 - m = Len(d) + 1 - (m - 1)
              /\ (j + 1) - m = j - (m - 1) /\ Len(d) + 1 - (m - 1) \in 1 .. Len(d)
          BY <1>0, <2>3, <2>8, <3>3, <4>2
        <5>2. d[Len(d) + 1 - (m - 1)] = s[j - (m - 1)]
          BY <2>8, <5>1
        <5>3. e[Len(d) + 1 - (m - 1)] = d[Len(d) + 1 - (m - 1)]
          BY <3>3, <5>1
        <5> QED  BY <5>1, <5>2, <5>3
      <4> QED  BY <4>1, <4>2
    <3>7. j + 1 <= Len(s) => 0 < Len(Encode(s[j + 1]))
      <4> SUFFICES ASSUME j + 1 <= Len(s) PROVE 0 < Len(Encode(s[j + 1]))
        OBVIOUS
      <4>1. j + 1 \in 1 .. Len(s)
        BY <1>0, <2>3 DEF n
      <4>2. IsCommand(s[j + 1])
        BY <1>0, <4>1 DEF AreCommands
      <4>3. Len(Encode(s[j + 1])) = Len(Contents(s[j + 1])) + 3
            /\ Len(Contents(s[j + 1])) \in Nat
        BY <4>2, EncodeOf
      <4> QED  BY <4>3
    <3>8. FollowsAt(f, j + 1, down, p2, ota_buf', s, e)
      <4>1. j + 1 <= Len(s) => /\ 0 - down[j + 1] < Len(Encode(s[j + 1]))
                               /\ Reading(p2, ota_buf', s[j + 1], 0 - down[j + 1])
        BY <3>2, <3>4, <3>7 DEF Reading
      <4> QED  BY <3>2, <3>4, <3>5, <3>6, <4>1 DEF FollowsAt
    <3> QED  BY <2>10, <3>3, <3>5, <3>8
  <2> QED  BY <2>9, <2>11, <2>12
<1> QED  BY <1>4, <1>12, <1>13, <1>14 DEF Resumes

(* A frame loses bytes: the count begins anew, with bytes under way or     *)
(* without.                                                                *)
LEMMA ResyncLost ==
  ASSUME BookOK, BookOK', HistoryOK, IInv', WireOK', NEW t \in Transport,
         NEW c \in Commands[t], SendCut(t, c)
  PROVE  Resync(t)'
<1>1. parser'[t] \in ParserType /\ Room(parser'[t])
  BY DEF IInv, TypeOK, RoomForNextByte, ParserType, Room
<1>2. Len(wire'[t]) \in Nat
  <2>1. wire'[t] \in Seq(Byte)
    BY DEF WireOK
  <2> QED  BY <2>1, LenProperties
<1>3. Len(done'[t]) \in Nat
  <2>1. done'[t] \in Seq(Command)
    BY DEF BookOK
  <2> QED  BY <2>1, LenProperties
<1>4. sent'[t] = <<>> /\ clear'[t] = 0 /\ spared'[t] = 0
  BY DEF SendCut, BeginAnew, BookOK, HistoryOK
<1>5. \E x : /\ Layout(x, wire'[t], sent'[t])
             /\ Spares(x, sent'[t], 0, 0)
             /\ Resumes(x, parser'[t], ota_buf', sent'[t], done'[t], 0)
  BY <1>1, <1>2, <1>3, <1>4, ResyncBegins
<1> QED  BY <1>4, <1>5 DEF Resync

(* A byte on another transport. *)
LEMMA ResyncKept ==
  ASSUME FInv, NEW t \in Transport, Alone(t), Resync(t), NEW u \in Transport \ {t},
         FeedNext(u), ~ Restarts
  PROVE  Resync(t)'
<1> DEFINE s == sent[t]
           d == done[t]
           p == parser[t]
           spd == spared[t]
<1>0. Len(s) \in Nat /\ BookOK
  BY BookOf DEF FInv
<1>1. /\ wire'[t] = wire[t] /\ sent'[t] = s /\ done'[t] = d /\ parser'[t] = p
      /\ UNCHANGED ota_buf \/ \A x \in Commands[t] : x.type # OTA_DATA
  BY OtherFed
<1>2. clear'[t] = clear[t] /\ spared'[t] = spd
  BY DEF FeedNext, history
<1>3. PICK at : /\ Layout(at, wire[t], s) /\ Spares(at, s, clear[t], spd)
                /\ Resumes(at, p, ota_buf, s, d, spd)
  BY DEF Resync
<1>4. ASSUME NEW f, NEW j \in 1 .. Len(s) + 1, FollowsAt(f, j, at, p, ota_buf, s, d)
      PROVE  FollowsAt(f, j, at, p, ota_buf', s, d)
  <2>1. CASE j <= Len(s)
    <3>1. j \in 1 .. Len(s)
      BY <1>0, <2>1
    <3>2. s[j] \in Commands[t]
      BY <1>0, <3>1 DEF BookOK
    <3>3. Reading(p, ota_buf, s[j], 0 - at[j])
      BY <1>4, <2>1 DEF FollowsAt
    <3>4. Reading(p, ota_buf', s[j], 0 - at[j])
      BY <1>1, <3>2, <3>3, ReadingKept
    <3> QED  BY <1>4, <3>4 DEF FollowsAt
  <2>2. CASE ~ (j <= Len(s))
    BY <1>4, <2>2 DEF FollowsAt
  <2> QED  BY <2>1, <2>2
<1>5. Resumes(at, p, ota_buf', s, d, spd)
  BY <1>3, <1>4 DEF Resumes, Follows
<1> QED  BY <1>1, <1>2, <1>3, <1>5 DEF Resync

(* What a step of another transport leaves alone. *)
LEMMA ResyncSame ==
  ASSUME NEW t, Resync(t), wire'[t] = wire[t], sent'[t] = sent[t], done'[t] = done[t],
         parser'[t] = parser[t], ota_buf' = ota_buf,
         clear'[t] = clear[t], spared'[t] = spared[t]
  PROVE  Resync(t)'
BY DEF Resync

BInv == FInv /\ \A t \in Lossy : ~ whole[t] /\ Alone(t) => Resync(t)

(* A step keeps every transport that has lost a byte, or is its loss. *)
LEMMA ResyncStep ==
  ASSUME BInv, FInv', [FramingNext]_framingVars, NEW t \in Lossy, ~ whole'[t], Alone(t)'
  PROVE  Resync(t)'
<1>0. /\ FInv /\ IInv /\ WireOK /\ BookOK /\ HistoryOK /\ IInv' /\ WireOK' /\ BookOK'
      /\ t \in Transport /\ t \notin Net
  BY DEF BInv, FInv, Lossy
<1>1. \A u \in Transport : FeedNext(u) => ~ Restarts
  BY <1>0 DEF FeedNext
<1>2. Alone(t)
  <2>1. \A u \in Transport : whole'[u] => whole[u]
    BY <1>0, <1>1, HistoryStep
  <2> QED  BY <2>1 DEF Alone
<1>3. ~ whole[t] => Resync(t)
  BY <1>2 DEF BInv
<1>4. ASSUME NEW u \in Transport, NEW c \in Commands[u], Send(u, c)
      PROVE  Resync(t)'
  <2>1. Resync(t)
    BY <1>3, <1>4 DEF Send
  <2>2. CASE u = t
    BY <1>0, <1>4, <2>1, <2>2, ResyncGrows
  <2>3. CASE u # t
    <3>1. clear'[t] = clear[t] /\ spared'[t] = spared[t]
      BY <1>0, <1>4, <2>3 DEF Send, Reckon, HistoryOK
    <3>2. /\ wire'[t] = wire[t] /\ sent'[t] = sent[t] /\ done'[t] = done[t]
          /\ parser'[t] = parser[t] /\ ota_buf' = ota_buf
      BY <1>0, <1>4, <2>3 DEF Send, Transmit, WireOK, BookOK, parserVars
    <3> QED  BY <2>1, <3>1, <3>2, ResyncSame
  <2> QED  BY <2>2, <2>3
<1>5. ASSUME NEW u \in Transport, NEW c \in Commands[u], SendCut(u, c)
      PROVE  Resync(t)'
  <2>1. CASE u = t
    BY <1>0, <1>5, <2>1, ResyncLost
  <2>2. CASE u # t
    <3>1. PICK bytes : Transmit(u, bytes)
      BY <1>5 DEF SendCut
    <3>2. whole'[t] = whole[t] /\ clear'[t] = clear[t] /\ spared'[t] = spared[t]
      BY <1>0, <1>5, <2>2 DEF SendCut, HistoryOK
    <3>3. /\ wire'[t] = wire[t] /\ sent'[t] = sent[t] /\ done'[t] = done[t]
          /\ parser'[t] = parser[t] /\ ota_buf' = ota_buf
      BY <1>0, <1>5, <2>2, <3>1
         DEF SendCut, BeginAnew, Transmit, WireOK, BookOK, parserVars
    <3> QED  BY <1>3, <3>2, <3>3, ResyncSame
  <2> QED  BY <2>1, <2>2
<1>6. ASSUME NEW u \in Transport, FeedNext(u)
      PROVE  Resync(t)'
  <2>1. Resync(t) /\ ~ Restarts
    BY <1>1, <1>3, <1>6 DEF FeedNext, history
  <2>2. CASE u = t
    BY <1>0, <1>6, <2>1, <2>2, ResyncFed
  <2>3. CASE u # t
    BY <1>0, <1>2, <1>6, <2>1, <2>3, ResyncKept
  <2> QED  BY <2>2, <2>3
<1>7. ASSUME NEW u \in Transport, NetReconnects(u)
      PROVE  Resync(t)'
  <2>1. u # t
    BY <1>0, <1>7 DEF NetReconnects, NewConnection
  <2>2. parser'[t] = parser[t] /\ ota_buf' = ota_buf
    BY <1>0, <1>7, <2>1 DEF NetReconnects, Accepted, Become, IInv, TypeOK
  <2>3. whole' = whole /\ clear' = clear /\ spared' = spared
    BY <1>7 DEF NetReconnects, NewConnection, history
  <2>4. wire'[t] = wire[t] /\ sent'[t] = sent[t] /\ done'[t] = done[t]
    BY <1>0, <1>7, <2>1 DEF NetReconnects, NewConnection, BeginAnew, WireOK, BookOK
  <2> QED  BY <1>3, <2>2, <2>3, <2>4, ResyncSame
<1>8. CASE UNCHANGED framingVars
  BY <1>3, <1>8, ResyncSame DEF framingVars, parserVars, history
<1> QED  BY <1>4, <1>5, <1>6, <1>7, <1>8 DEF FramingNext

(* BInv is inductive. *)
LEMMA BInvInductive ==
  /\ FramingInit => BInv
  /\ BInv /\ [FramingNext]_framingVars => BInv'
<1>1. ASSUME FramingInit PROVE BInv
  <2>1. \A t \in Lossy : whole[t]
    <3>1. whole = [u \in Transport |-> TRUE]
      BY <1>1 DEF FramingInit
    <3> QED  BY <3>1, Zenon DEF Lossy
  <2> QED  BY <1>1, <2>1, FInvInductive DEF BInv
<1>2. ASSUME BInv, [FramingNext]_framingVars PROVE BInv'
  <2>1. FInv'
    BY <1>2, FInvInductive DEF BInv
  <2>2. ASSUME NEW t \in Lossy, ~ whole'[t], Alone(t)' PROVE Resync(t)'
    BY <1>2, <2>1, <2>2, ResyncStep
  <2>3. (\A t \in Lossy : ~ whole[t] /\ Alone(t) => Resync(t))'
    BY <2>2 DEF Lossy
  <2> QED  BY <2>1, <2>3 DEF BInv
<1> QED  BY <1>1, <1>2

(* A sequence is a suffix when it is the end of the other, read backwards. *)
LEMMA SuffixIs ==
  ASSUME NEW S, NEW u \in Seq(S), NEW d \in Seq(S), Len(u) <= Len(d),
         \A m \in 1 .. Len(u) : d[Len(d) + 1 - m] = u[Len(u) + 1 - m]
  PROVE  IsSuffix(u, d)
<1> DEFINE a == Len(u)
           z == Len(d)
           x == Reverse(u)
           y == Reverse(d)
<1>1. a \in Nat /\ z \in Nat /\ a <= z
  BY LenProperties
<1>2. /\ x = [i \in 1 .. a |-> u[(a - i) + 1]]
      /\ y = [i \in 1 .. z |-> d[(z - i) + 1]]
  BY DEF Reverse
<1>3. Len(x) = a /\ Len(y) = z
  BY <1>1, <1>2
<1>4. ASSUME NEW m \in 1 .. a
      PROVE  x[m] \in S /\ y[m] = x[m]
  <2>1. /\ m \in 1 .. z /\ (a - m) + 1 \in 1 .. a /\ (a - m) + 1 = a + 1 - m
        /\ (z - m) + 1 = z + 1 - m
    BY <1>1
  <2>2. x[m] = u[a + 1 - m] /\ y[m] = d[z + 1 - m]
    BY <1>2, <2>1
  <2>3. d[z + 1 - m] = u[a + 1 - m] /\ u[a + 1 - m] \in S
    BY <2>1, ElementOfSeq
  <2> QED  BY <2>2, <2>3
<1> HIDE DEF a, z, x, y
<1> DEFINE b == SubSeq(x, 1, a)
           c == SubSeq(y, 1, a)
<1>5. /\ b \in Seq(S) /\ Len(b) = a /\ \A i \in 1 .. a : b[i] = x[i]
  BY <1>1, <1>4, FirstOf
<1>6. /\ c \in Seq(S) /\ Len(c) = a /\ \A i \in 1 .. a : c[i] = y[i]
  BY <1>1, <1>4, FirstOf
<1>7. b = c
  <2> HIDE DEF b, c
  <2> QED  BY <1>4, <1>5, <1>6, SeqEqual
<1>8. IsPrefix(x, y)
  BY <1>1, <1>3, <1>7 DEF IsPrefix
<1> QED  BY <1>8 DEF IsSuffix, x, y

(* When nothing is under way, every command has been completed since those *)
(* that the loss may cost.                                                 *)
LEMMA ResyncEnds ==
  ASSUME IInv, BookOK, NEW t \in Transport, Resync(t), wire[t] = <<>>
  PROVE  IsSuffix(SubSeq(sent[t], spared[t] + 1, Len(sent[t])), done[t])
<1> DEFINE s == sent[t]
           d == done[t]
           p == parser[t]
           n == Len(s)
           spd == spared[t]
           R == LongestRemainder
           u == SubSeq(s, spd + 1, n)
<1>0. /\ s \in Seq(Command) /\ d \in Seq(Command) /\ AreCommands(s)
      /\ n \in Nat /\ Len(d) \in Nat /\ R \in Nat
  BY BookOf, ParserAssumption DEF LongestRemainder
<1>1. PICK at : /\ Layout(at, wire[t], s) /\ Spares(at, s, clear[t], spd)
                /\ Resumes(at, p, ota_buf, s, d, spd)
  BY DEF Resync
<1>2. at[n + 1] = 0 /\ \A i \in 1 .. n + 1 : at[i] \in Int /\ at[i] <= 0
  <2>1. Len(wire[t]) = 0
    OBVIOUS
  <2> QED  BY <1>1, <2>1 DEF Layout
<1>3. spd \in 0 .. n
  BY <1>1 DEF Spares
<1>4. /\ u \in Seq(Command) /\ Len(u) = n - spd
      /\ \A i \in 1 .. n - spd : u[i] = s[spd + i]
  <2>1. \A i \in spd + 1 .. n : s[i] \in Command
    <3>1. \A i \in spd + 1 .. n : i \in 1 .. n
      BY <1>3
    <3> QED  BY <1>0, <3>1, ElementOfSeq
  <2>2. /\ spd + 1 \in Int /\ n \in Int /\ n - (spd + 1) + 1 = n - spd
        /\ (IF spd + 1 <= n THEN n - (spd + 1) + 1 ELSE 0) = n - spd
        /\ \A i \in 1 .. n - spd : (spd + 1) + i - 1 = spd + i
    BY <1>0, <1>3
  <2> HIDE DEF n, s, spd
  <2>3. /\ SubSeq(s, spd + 1, n) \in Seq(Command)
        /\ Len(SubSeq(s, spd + 1, n)) = IF spd + 1 <= n THEN n - (spd + 1) + 1 ELSE 0
        /\ \A i \in 1 .. n - (spd + 1) + 1 :
              SubSeq(s, spd + 1, n)[i] = s[(spd + 1) + i - 1]
    BY <2>1, <2>2, SubSeqProperties
  <2> QED  BY <2>2, <2>3
<1> HIDE DEF u
<1>5. ASSUME n - spd <= Len(d), \A m \in 1 .. n - spd : d[Len(d) + 1 - m] = s[n + 1 - m]
      PROVE  IsSuffix(u, d)
  <2>1. ASSUME NEW m \in 1 .. Len(u)
        PROVE  d[Len(d) + 1 - m] = u[Len(u) + 1 - m]
    <3>1. /\ m \in 1 .. n - spd /\ Len(u) + 1 - m \in 1 .. n - spd
          /\ spd + (Len(u) + 1 - m) = n + 1 - m
      BY <1>0, <1>3, <1>4
    <3>2. u[Len(u) + 1 - m] = s[n + 1 - m]
      BY <1>4, <3>1
    <3> QED  BY <1>5, <3>1, <3>2
  <2>2. Len(u) <= Len(d)
    BY <1>4, <1>5
  <2> HIDE DEF d
  <2> QED  BY <1>0, <1>4, <2>1, <2>2, SuffixIs
<1>6. CASE Astray(at, p, s, spd)
  <2>1. PICK g \in 0 .. spd : AstrayFrom(g, at, p, s)
    BY <1>6 DEF Astray
  <2>2. g + 1 \in 1 .. n + 1 /\ n + 1 \in 1 .. n + 1
    BY <1>0, <1>3
  <2>3. at[g + 1] \in Int /\ Left(p) - at[g + 1] <= R /\ (g = 0 \/ Misleading(s[g]))
    BY <1>2, <2>1, <2>2 DEF AstrayFrom
  <2>4. Left(p) \in Nat \ {0}
    <3>1. p \in ParserType /\ Room(p)
      BY OneParser
    <3> QED  BY <1>0, <3>1, LeftBound
  <2>5. at[n + 1] - at[g + 1] < R
    BY <1>0, <1>2, <2>3, <2>4
  <2>6. n + 1 <= spd \/ spd = n
    BY <1>0, <1>1, <2>2, <2>3, <2>5, Spared
  <2>7. n - spd = 0
    BY <1>0, <1>3, <2>6
  <2> QED  BY <1>0, <1>5, <2>7 DEF u
<1>7. CASE Skips(at, p, s, spd)
  <2>1. PICK j \in 1 .. spd : at[j + 1] > 0
    BY <1>7 DEF Skips, SkipsIn
  <2>2. j + 1 \in 1 .. n + 1
    BY <1>0, <1>3
  <2> QED  BY <1>2, <2>1, <2>2
<1>8. CASE Follows(at, p, ota_buf, s, d, spd)
  <2>1. PICK f \in 1 .. spd + 1 :
               \E j \in 1 .. n + 1 : FollowsAt(f, j, at, p, ota_buf, s, d)
    BY <1>8 DEF Follows
  <2>2. PICK j \in 1 .. n + 1 : FollowsAt(f, j, at, p, ota_buf, s, d)
    BY <2>1
  <2>3. j = n + 1
    <3> SUFFICES ASSUME j \in 1 .. n PROVE FALSE
      BY <1>0
    <3>1. 0 - at[j] < Len(Encode(s[j])) /\ at[j + 1] = at[j] + Len(Encode(s[j]))
      BY <1>1, <2>2 DEF FollowsAt, Layout
    <3>2. j + 1 \in 1 .. n + 1
      BY <1>0
    <3>3. Len(Encode(s[j])) \in Nat
      <4>1. IsCommand(s[j])
        BY <1>0 DEF AreCommands
      <4> QED  BY <4>1, EncodeOf, LenProperties
    <3> QED  BY <1>2, <3>1, <3>2, <3>3
  <2>4. /\ (n + 1) - f <= Len(d)
        /\ \A m \in 1 .. (n + 1) - f : d[Len(d) + 1 - m] = s[(n + 1) - m]
    BY <2>2, <2>3 DEF FollowsAt
  <2>5. n - spd <= (n + 1) - f /\ \A m \in 1 .. n - spd : m \in 1 .. (n + 1) - f
    BY <1>0, <1>3
  <2>6. n - spd <= Len(d)
    BY <1>0, <1>3, <2>4, <2>5
  <2>7. \A m \in 1 .. n - spd : d[Len(d) + 1 - m] = s[n + 1 - m]
    BY <2>4, <2>5
  <2> QED  BY <1>5, <2>6, <2>7 DEF u
<1> QED  BY <1>1, <1>6, <1>7, <1>8 DEF Resumes

(* Without a loss, all commands have been completed. *)
LEMMA WholeEnds ==
  ASSUME BookOK, HistoryOK, NEW t \in Transport, whole[t], Stream(t), wire[t] = <<>>
  PROVE  IsSuffix(SubSeq(sent[t], spared[t] + 1, Len(sent[t])), done[t])
<1> DEFINE s == sent[t]
           u == SubSeq(s, spared[t] + 1, Len(s))
<1>1. s \in Seq(Command) /\ Len(s) \in Nat /\ done[t] = s
  BY BookOf, StreamIsPrefix
<1>2. spared[t] + 1 = 1
  BY DEF HistoryOK
<1>3. \A i \in 1 .. Len(s) : s[i] \in Command
  BY <1>1, ElementOfSeq
<1>4. /\ SubSeq(s, 1, Len(s)) \in Seq(Command) /\ Len(SubSeq(s, 1, Len(s))) = Len(s)
      /\ \A i \in 1 .. Len(s) : SubSeq(s, 1, Len(s))[i] = s[i]
  BY <1>1, <1>3, FirstOf
<1>5. /\ u \in Seq(Command) /\ Len(u) = Len(s)
      /\ \A i \in 1 .. Len(s) : u[i] = s[i]
  BY <1>2, <1>4
<1> HIDE DEF u
<1>6. ASSUME NEW m \in 1 .. Len(u)
      PROVE  s[Len(s) + 1 - m] = u[Len(u) + 1 - m]
  <2>1. Len(s) + 1 - m \in 1 .. Len(s)
    BY <1>1, <1>5
  <2> QED  BY <1>5, <2>1
<1>7. IsSuffix(u, s)
  <2> HIDE DEF s
  <2>1. Len(u) <= Len(s)
    BY <1>1, <1>5
  <2> QED  BY <1>1, <1>5, <1>6, <2>1, SuffixIs
<1> QED  BY <1>1, <1>7 DEF u

(* A UART or BLE frame of which bytes are lost costs the frames up to      *)
(* LongestRemainder bytes in a row that mislead no parser, and none after  *)
(* them, for every set of transports, commands and buffer sizes.           *)
THEOREM CutsCostFew == FramingSpec => []CutCostsFewFrames
<1>1. BInv => CutCostsFewFrames
  <2> SUFFICES ASSUME BInv, NEW t \in Lossy, wire[t] = <<>>, Alone(t)
               PROVE  IsSuffix(SubSeq(sent[t], spared[t] + 1, Len(sent[t])), done[t])
    BY DEF CutCostsFewFrames
  <2>1. IInv /\ BookOK /\ HistoryOK /\ t \in Transport
    BY DEF BInv, FInv, Lossy
  <2>2. CASE whole[t]
    BY <2>1, <2>2, WholeEnds DEF BInv, FInv
  <2>3. CASE ~ whole[t]
    BY <2>1, <2>3, ResyncEnds DEF BInv
  <2> QED  BY <2>2, <2>3
<1> QED  BY BInvInductive, <1>1, PTL DEF FramingSpec
=============================================================================
