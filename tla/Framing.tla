-------------------------------- MODULE Framing --------------------------------
(***************************************************************************)
(* The wire protocol end to end: the daemon's frame (sink.go, ota.go), the *)
(* byte streams of the three transports, and the firmware's parsers        *)
(* (FrameParser) in the tasks that own them.                               *)
(*                                                                         *)
(* net_task starts every client with a fresh parser, and TCP loses nothing *)
(* within a connection.  uart_task and ble_consumer_task keep one parser   *)
(* for ever on transports that lose bytes: the UART has no flow control,   *)
(* gatt_rx_cb keeps of each part of a write what fits into its stream      *)
(* buffer, and a BLE link that drops takes writes with it.  A restart of   *)
(* the board outlasts the bytes on their way to it.                        *)
(***************************************************************************)
EXTENDS FrameParser, SequencesExt

CONSTANTS Net,         \* the transports over TCP; the others are lossy
          Commands,    \* what the daemon sends on each transport
          MaxFrames,   \* bound: frames on each transport since it began or lost bytes
          MaxWire,     \* bound: bytes under way
          MaxCuts      \* bound: frames cut and connections ended, on each transport

ASSUME FramingAssumption ==
    /\ Net \subseteq Transport
    /\ MaxFrames \in [Transport -> Nat] /\ MaxWire \in Nat
    /\ MaxCuts \in [Transport -> Nat]

Lossy == Transport \ Net

VARIABLES wire,      \* bytes under way to the parser
          sent,      \* commands sent since the connection began or bytes were lost
          done,      \* commands completed since then
          cuts,
          whole,     \* history: no byte has been lost since the board started
          clear,     \* history: bytes sent since the loss in frames that mislead nobody
          spared     \* history: how many of the commands sent the loss may cost

history == <<whole, clear, spared>>
framingVars == <<parserVars, wire, sent, done, cuts, history>>

-----------------------------------------------------------------------------
(* frame, otaDataFrame and the length prefix of the others. *)

Contents(c) ==
    CASE c.type = OTA_DATA    -> <<Len(c.payload) % Base, Len(c.payload) \div Base>>
                                   \o c.payload
      [] c.type \in Prefixed  -> <<Len(c.payload)>> \o c.payload
      [] OTHER                -> c.payload

Encode(c) == <<SyncByte, c.type>> \o Contents(c)
               \o <<FoldLeft(Xor, c.type, Contents(c))>>

(* What has a frame: a payload of the length that payload_len has for its  *)
(* type, or one that its length prefix and the firmware's buffer can hold. *)
IsCommand(c) ==
    /\ c \in [type : Byte, payload : Seq(Byte)]
    /\ \/ c.type \in DOMAIN FixedLen /\ Len(c.payload) = FixedLen[c.type]
       \/ c.type \in Prefixed /\ Len(c.payload) <= MaxPayload
       \/ c.type = OTA_DATA /\ Len(c.payload) \in 1 .. MaxChunk

ASSUME CommandsAssumption ==
    /\ OTA_DATA \notin Prefixed
    /\ SyncByte \notin DOMAIN FixedLen \cup Prefixed \cup {OTA_DATA}
    /\ DOMAIN FixedLen \cap (Prefixed \cup {OTA_DATA}) = {}
    /\ MaxPayload < Base /\ MaxChunk < Base * Base
    /\ \A t \in Transport : \A c \in Commands[t] : IsCommand(c)

(* "one OTA at a time, so a single shared chunk buffer". *)
CarriesChunks(t) == \E c \in Commands[t] : c.type = OTA_DATA

ASSUME OneUpdater ==
    \A t, u \in Transport : CarriesChunks(t) /\ CarriesChunks(u) => t = u

-----------------------------------------------------------------------------
(* What a parser that lost its place can still be waiting for: a length,   *)
(* what it announces and the checksum.                                     *)
LongestRemainder == (IF MaxChunk > MaxPayload THEN MaxChunk ELSE MaxPayload) + 3

(* A frame in which such a parser can take a sync byte of the contents for *)
(* the beginning of a frame: one that a type follows, or the last byte.    *)
Misleading(c) ==
    LET e == Encode(c) IN
    \E k \in 2 .. Len(e) :
        /\ e[k] = SyncByte
        /\ k = Len(e) \/ e[k + 1] \in DOMAIN FixedLen \cup Prefixed \cup {OTA_DATA}

FramingInit == /\ Init
               /\ wire = [t \in Transport |-> <<>>]
               /\ sent = [t \in Transport |-> <<>>]
               /\ done = [t \in Transport |-> <<>>]
               /\ cuts = [t \in Transport |-> 0]
               /\ whole  = [t \in Transport |-> TRUE]
               /\ clear  = [t \in Transport |-> LongestRemainder]
               /\ spared = [t \in Transport |-> 0]

Transmit(t, bytes) == /\ Len(wire[t]) + Len(bytes) <= MaxWire
                      /\ wire' = [wire EXCEPT ![t] = @ \o bytes]

(* A loss costs the frames up to LongestRemainder clear bytes in a row.    *)
Reckon(t, c) ==
    IF clear[t] >= LongestRemainder THEN UNCHANGED <<clear, spared>>
    ELSE /\ clear'  = [clear EXCEPT ![t] = IF Misleading(c) THEN 0
                                           ELSE @ + Len(Encode(c))]
         /\ spared' = [spared EXCEPT ![t] = @ + 1]

(* One Write, one frame. *)
Send(t, c) ==
    /\ Len(sent[t]) < MaxFrames[t]
    /\ Transmit(t, Encode(c))
    /\ sent' = [sent EXCEPT ![t] = Append(@, c)]
    /\ Reckon(t, c)
    /\ UNCHANGED <<parserVars, done, cuts, whole>>

Cut(t) == cuts[t] < MaxCuts[t] /\ cuts' = [cuts EXCEPT ![t] = @ + 1]

BeginAnew(t) == /\ sent' = [sent EXCEPT ![t] = <<>>]
                /\ done' = [done EXCEPT ![t] = <<>>]

(* A frame with a hole: its end, its beginning, bytes between them or all  *)
(* of it is lost.                                                          *)
SendCut(t, c) ==
    /\ t \in Lossy
    /\ Cut(t)
    /\ \E i \in 1 .. Len(Encode(c)) : \E j \in i .. Len(Encode(c)) :
          Transmit(t, SubSeq(Encode(c), 1, i - 1)
                        \o SubSeq(Encode(c), j + 1, Len(Encode(c))))
    /\ BeginAnew(t)
    /\ whole'  = [whole EXCEPT ![t] = FALSE]
    /\ clear'  = [clear EXCEPT ![t] = 0]
    /\ spared' = [spared EXCEPT ![t] = 0]
    /\ UNCHANGED parserVars

Restarts == cmd' # NoCommand /\ \A t \in Transport : parser'[t] = Ready

FeedNext(t) ==
    /\ wire[t] # <<>>
    /\ Feed(t, Head(wire[t]))
    /\ UNCHANGED cuts
    /\ IF Restarts
       THEN /\ wire' = [u \in Transport |-> <<>>]
            /\ sent' = [u \in Transport |-> <<>>]
            /\ done' = [u \in Transport |-> <<>>]
            /\ whole'  = [u \in Transport |-> TRUE]
            /\ clear'  = [u \in Transport |-> LongestRemainder]
            /\ spared' = [u \in Transport |-> 0]
       ELSE /\ wire' = [wire EXCEPT ![t] = Tail(@)]
            /\ done' = IF cmd' = NoCommand THEN done
                       ELSE [done EXCEPT ![t] = Append(@, cmd')]
            /\ UNCHANGED <<sent, history>>

NewConnection(t) ==
    /\ t \in Net
    /\ Cut(t)
    /\ wire' = [wire EXCEPT ![t] = <<>>]
    /\ BeginAnew(t)
    /\ UNCHANGED history

NetReconnectsKeepingParser(t) == NewConnection(t) /\ UNCHANGED parserVars

(* The inner loop of net_task, left and entered again. *)
NetReconnects(t) == NewConnection(t) /\ Accepted(t)

FramingNext ==
    \E t \in Transport :
        \/ \E c \in Commands[t] : Send(t, c) \/ SendCut(t, c)
        \/ FeedNext(t) \/ NetReconnects(t)

FramingSpec == FramingInit /\ [][FramingNext]_framingVars

-----------------------------------------------------------------------------
(* ota_buf is shared by the parsers: a transport with chunks on it needs   *)
(* that no other parser has lost its place and stores chunks that it       *)
(* imagines.                                                               *)
Alone(t) == CarriesChunks(t) => \A u \in Transport : whole[u] \/ u = t

(* Every transport delivers the commands sent on it, in order, unchanged   *)
(* and with nothing in between, whatever bytes they hold (a sync byte      *)
(* among them), whatever the other transports do or lose at the same time, *)
(* and wherever the TCP connection before it broke off (frame, feed,       *)
(* net_task): TCP always, the others until they lose a byte themselves.    *)
EachConnectionHeard ==
    \A t \in Transport : (t \in Net \/ whole[t]) /\ Alone(t) =>
        /\ IsPrefix(done[t], sent[t])
        /\ wire[t] = <<>> => done[t] = sent[t]

(* Wherever a UART or BLE frame is cut, the parser that goes on for ever   *)
(* finds its place again: after the loss and LongestRemainder bytes in     *)
(* frames none of which is misleading, every command is completed,         *)
(* misleading ones too (feed, uart_task, ble_consumer_task).  It may take  *)
(* so long, because what looks like a chunk is read to the length that it  *)
(* announces, and a misleading frame starts the count afresh.              *)
CutCostsFewFrames ==
    \A t \in Lossy :
        wire[t] = <<>> /\ Alone(t)
            => IsSuffix(SubSeq(sent[t], spared[t] + 1, Len(sent[t])), done[t])
=============================================================================
