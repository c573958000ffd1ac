------------------------------- MODULE MCFraming -------------------------------
(* Framing with bytes of three bits.  Reports have two or three bytes of   *)
(* payload, the longest payload and the longest chunk have three.          *)
EXTENDS Framing

B == INSTANCE Bitwise

CONSTANTS net, uart

MCXor(a, b) == B!^^(a, b)

KEYBOARD == 1
MOUSE    == 0

MCFixedLen == (KEYBOARD :> 2) @@ (MOUSE :> 3) @@ (CONTROL :> 1)

Report(p) == [type |-> KEYBOARD, payload |-> p]
Motion(p) == [type |-> MOUSE, payload |-> p]
Chunk(p)  == [type |-> OTA_DATA, payload |-> p]
End(p)    == [type |-> OTA_END, payload |-> p]

MCMaxFrames == (net :> 1) @@ (uart :> 3)
MCMaxCuts   == (net :> 1) @@ (uart :> 1)

(* A UART that carries an update, next to a TCP connection.  7 is the sync *)
(* byte.  A chunk cut short swallows a motion; the keyboard report looks   *)
(* like the beginning of a chunk to a parser that lost its place.          *)
NetAndUart ==
    (net :> {Report(<<7, 7>>), End(<<7>>)})
      @@ (uart :> {Motion(<<1, 0, 1>>), Chunk(<<0, 0, 0>>), Report(<<7, 5>>)})
=============================================================================
