------------------------------ MODULE FrameParser ------------------------------
(***************************************************************************)
(* The firmware's frame parser (main.c, feed): one state per transport, a  *)
(* byte at a time.  The transports run in tasks of their own; what they    *)
(* share is ota_buf, into which every parser streams OTA chunks.           *)
(*                                                                         *)
(* payload[] and its length got are the sequence payload.  A frame that    *)
(* is complete and has the right checksum becomes a command; what commands *)
(* do is the subject of other modules, except that some restart the board. *)
(***************************************************************************)
EXTENDS Naturals, Sequences

CONSTANTS Transport,     \* tasks that own a parser
          Base,          \* values of a byte: 256
          Xor(_, _),     \* ^
          SyncByte,      \* 0xAB
          FixedLen,      \* payload_len, for the types that have one
          CONTROL, CONFIG, OTA_BEGIN, OTA_DATA, OTA_END,  \* TYPE_*
          MaxPayload,    \* sizeof payload: 128
          MaxChunk       \* sizeof ota_buf: 1024

Byte == 0 .. Base - 1

Prefixed == {CONFIG, OTA_BEGIN, OTA_END}  \* types with a length byte

ASSUME ParserAssumption ==
    /\ Base \in Nat \ {0} /\ MaxPayload \in Nat \ {0} /\ MaxChunk \in Nat \ {0}
    /\ \A a, b \in Byte : Xor(a, b) \in Byte
    /\ SyncByte \in Byte /\ OTA_DATA \in Byte
    /\ DOMAIN FixedLen \subseteq Byte
    /\ \A type \in DOMAIN FixedLen : FixedLen[type] \in 1 .. MaxPayload

VARIABLES parser,    \* parser_t of each transport
          ota_buf,
          cmd        \* the command that the last byte completed, if any

parserVars == <<parser, ota_buf, cmd>>

NoCommand == [type |-> "none"]

Ready == [st |-> "SYNC", type |-> 0, payload |-> <<>>, need |-> 0, csum |-> 0,
          olen |-> 0, ogot |-> 0]

Init == /\ parser = [t \in Transport |-> Ready]
        /\ ota_buf = [i \in 1 .. MaxChunk |-> 0]
        /\ cmd = NoCommand

-----------------------------------------------------------------------------
(* feed, one action per state.  None but the last two completes a frame.   *)

st(t) == parser[t].st

Become(t, p) == /\ parser' = [parser EXCEPT ![t] = p]
                /\ cmd' = NoCommand

Summed(p, b) == [p EXCEPT !.csum = Xor(@, b)]

AtSync(t, b) ==
    /\ st(t) = "SYNC"
    /\ Become(t, IF b = SyncByte THEN [parser[t] EXCEPT !.st = "TYPE"]
                                 ELSE parser[t])
    /\ UNCHANGED ota_buf

AtType(t, b) ==
    LET p == [parser[t] EXCEPT !.type = b, !.csum = b, !.payload = <<>>] IN
    /\ st(t) = "TYPE"
    /\ Become(t,
         CASE b \in Prefixed -> [p EXCEPT !.st = "LEN"]
           [] b = OTA_DATA   -> [p EXCEPT !.st = "OTA_L0"]
           [] b \in DOMAIN FixedLen
                             -> [p EXCEPT !.st = "PAYLOAD", !.need = FixedLen[b]]
           [] OTHER          -> [p EXCEPT !.st = "SYNC", !.need = 0])
    /\ UNCHANGED ota_buf

AtLen(t, b) ==
    LET p == [Summed(parser[t], b) EXCEPT !.need = b] IN
    /\ st(t) = "LEN"
    /\ Become(t, [p EXCEPT !.st = IF b > MaxPayload THEN "SYNC"
                                  ELSE IF b = 0 THEN "CSUM" ELSE "PAYLOAD"])
    /\ UNCHANGED ota_buf

AtPayload(t, b) ==
    LET p == [Summed(parser[t], b) EXCEPT !.payload = Append(@, b)] IN
    /\ st(t) = "PAYLOAD"
    /\ Become(t, IF Len(p.payload) = p.need THEN [p EXCEPT !.st = "CSUM"] ELSE p)
    /\ UNCHANGED ota_buf

AtOtaL0(t, b) ==
    /\ st(t) = "OTA_L0"
    /\ Become(t, [Summed(parser[t], b) EXCEPT !.olen = b, !.st = "OTA_L1"])
    /\ UNCHANGED ota_buf

AtOtaL1Unchecked(t, b) ==
    LET len == parser[t].olen + Base * b
        p   == [Summed(parser[t], b) EXCEPT !.olen = len, !.ogot = 0] IN
    /\ st(t) = "OTA_L1"
    /\ Become(t, [p EXCEPT !.st = IF len = 0 THEN "SYNC" ELSE "OTA_DATA"])
    /\ UNCHANGED ota_buf

AtOtaL1(t, b) ==
    LET len == parser[t].olen + Base * b
        p   == [Summed(parser[t], b) EXCEPT !.olen = len, !.ogot = 0] IN
    /\ st(t) = "OTA_L1"
    /\ Become(t, [p EXCEPT !.st = IF len \in 1 .. MaxChunk THEN "OTA_DATA"
                                                           ELSE "SYNC"])
    /\ UNCHANGED ota_buf

AtOtaDataOneMore(t, b) ==
    LET p == [Summed(parser[t], b) EXCEPT !.ogot = @ + 1] IN
    /\ st(t) = "OTA_DATA"
    /\ ota_buf' = [ota_buf EXCEPT ![p.ogot] = b]
    /\ Become(t, IF p.ogot > p.olen THEN [p EXCEPT !.st = "OTA_CSUM"] ELSE p)

AtOtaData(t, b) ==
    LET p == [Summed(parser[t], b) EXCEPT !.ogot = @ + 1] IN
    /\ st(t) = "OTA_DATA"
    /\ ota_buf' = [ota_buf EXCEPT ![p.ogot] = b]
    /\ Become(t, IF p.ogot = p.olen THEN [p EXCEPT !.st = "OTA_CSUM"] ELSE p)

(* A frame ends.  A control frame restarts the board; a configuration or   *)
(* the end of an update does when its contents pass.                       *)
MayRestart(type) == IF type = CONTROL THEN {TRUE}
                    ELSE IF type \in {CONFIG, OTA_END} THEN BOOLEAN
                    ELSE {FALSE}

Complete(t, command) ==
    /\ cmd' = command
    /\ \E restart \in MayRestart(command.type) :
          IF restart THEN parser' = [u \in Transport |-> Ready]
                     ELSE parser' = [parser EXCEPT ![t].st = "SYNC"]
    /\ UNCHANGED ota_buf

AtCsum(t, b) ==
    /\ st(t) = "CSUM"
    /\ IF b = parser[t].csum
       THEN Complete(t, [type |-> parser[t].type, payload |-> parser[t].payload])
       ELSE Become(t, [parser[t] EXCEPT !.st = "SYNC"]) /\ UNCHANGED ota_buf

AtOtaCsum(t, b) ==
    /\ st(t) = "OTA_CSUM"
    /\ IF b = parser[t].csum
       THEN Complete(t, [type    |-> OTA_DATA,
                         payload |-> SubSeq(ota_buf, 1, parser[t].olen)])
       ELSE Become(t, [parser[t] EXCEPT !.st = "SYNC"]) /\ UNCHANGED ota_buf

Feed(t, b) == \/ AtSync(t, b)    \/ AtType(t, b)    \/ AtLen(t, b)
              \/ AtPayload(t, b) \/ AtCsum(t, b)
              \/ AtOtaL0(t, b)   \/ AtOtaL1(t, b)
              \/ AtOtaData(t, b) \/ AtOtaCsum(t, b)

(* net_task starts each client with a parser of its own. *)
Accepted(t) == Become(t, Ready) /\ UNCHANGED ota_buf

Next == \E t \in Transport : Accepted(t) \/ \E b \in Byte : Feed(t, b)

Spec == Init /\ [][Next]_parserVars

-----------------------------------------------------------------------------
States == {"SYNC", "TYPE", "LEN", "PAYLOAD", "CSUM",
           "OTA_L0", "OTA_L1", "OTA_DATA", "OTA_CSUM"}

TypeOK ==
    /\ parser \in [Transport ->
           [st : States, type : Byte, payload : Seq(Byte), need : Nat, csum : Byte,
            olen : Nat, ogot : Nat]]
    /\ ota_buf \in [1 .. MaxChunk -> Byte]

(* Whatever bytes arrive, in whatever chunks, no store falls outside       *)
(* payload[] or ota_buf: while the parser waits for one more byte of       *)
(* contents there is room for it, and what it announces to the handlers is *)
(* what it has received (the length checks of S_LEN and S_OTA_L1 against   *)
(* the counters of S_PAYLOAD and S_OTA_DATA).                              *)
Room(p) ==
    /\ p.st = "LEN"      => p.payload = <<>>
    /\ p.st = "PAYLOAD"  => Len(p.payload) < p.need /\ p.need <= MaxPayload
    /\ p.st = "CSUM"     => Len(p.payload) = p.need
    /\ p.st = "OTA_DATA" => p.ogot < p.olen /\ p.olen <= MaxChunk
    /\ p.st = "OTA_CSUM" => p.olen \in 1 .. MaxChunk

RoomForNextByte == \A t \in Transport : Room(parser[t])
=============================================================================
