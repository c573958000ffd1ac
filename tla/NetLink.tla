-------------------------------- MODULE NetLink --------------------------------
(***************************************************************************)
(* The TCP transport, both ends: the daemon's netSink (net.go) and the     *)
(* bridge's net_task (main.c), which serves one client at a time while the *)
(* next one waits in the backlog of the listening socket.                  *)
(*                                                                         *)
(* In the daemon every critical section under s.mu is one action, a dial   *)
(* included: it holds the lock.  Each connection has a goroutine blocked   *)
(* in Read.  A frame is its serial number.                                 *)
(*                                                                         *)
(* TCP is external: in order, reliable while both ends live, and silent    *)
(* when the network is.  An end whose peer has gone learns of it from a    *)
(* FIN, from the answer to its next packet, or from unanswered keepalives. *)
(***************************************************************************)
EXTENDS Naturals, Sequences

CONSTANTS Conn,        \* identities of connections, used again and again
          NoConn,      \* s.conn == nil
          Backlog,     \* connections that may wait to be accepted
          MaxFrames,   \* bound: frames written
          MaxDisturb   \* bound: outages, bridge resets and daemon restarts

ASSUME NetAssumption == /\ NoConn \notin Conn
                        /\ Backlog \in Nat \ {0}
                        /\ MaxFrames \in Nat /\ MaxDisturb \in Nat

VARIABLES ap, station,   \* as in WifiStation
          disturbs,  \* disturbances so far
          conn,      \* s.conn
          recent,    \* s.lastDial was less than half a second ago
          client,    \* the daemon's socket: "none", "open" or "closed"
          reader,    \* the goroutine readUntilClosed(c)
          server,    \* the bridge's end: "none", "queued", "served", "gone"
          fin,       \* the bridge's stack knows that the client has closed
          queue,     \* the backlog
          pipe,      \* frames written and not yet read by the bridge
          sent,      \* frames accepted by write
          lastSeen   \* the last frame that the bridge has read

W == INSTANCE WifiStation

(* The bridge can be reached. *)
up == W!Up

wifi     == <<ap, station>>
world    == <<wifi, disturbs>>
daemon   == <<conn, recent, client, reader, sent>>
bridge   == <<server, queue, lastSeen>>
stream   == <<fin, pipe>>
vars     == <<world, daemon, bridge, stream>>

Init == /\ W!Init /\ disturbs = 0
        /\ conn = NoConn /\ recent = FALSE
        /\ client = [c \in Conn |-> "none"]
        /\ reader = [c \in Conn |-> "none"]
        /\ server = [c \in Conn |-> "none"]
        /\ fin = [c \in Conn |-> FALSE]
        /\ queue = <<>>
        /\ pipe = [c \in Conn |-> <<>>]
        /\ sent = 0 /\ lastSeen = 0

-----------------------------------------------------------------------------
(* ensure: the connection there is, or a new one when the last attempt was *)
(* long enough ago.                                                        *)

Unused(c) == client[c] # "open" /\ reader[c] = "none" /\ server[c] \in {"none", "gone"}

CanConnect == up /\ Len(queue) < Backlog

Dial(c, frames) ==
    /\ conn = NoConn /\ ~recent /\ CanConnect /\ Unused(c)
    /\ recent' = TRUE
    /\ conn' = c
    /\ client' = [client EXCEPT ![c] = "open"]
    /\ reader' = [reader EXCEPT ![c] = "reading"]
    /\ server' = [server EXCEPT ![c] = "queued"]
    /\ queue' = Append(queue, c)
    /\ fin' = [fin EXCEPT ![c] = FALSE]
    /\ pipe' = [pipe EXCEPT ![c] = frames]

DialRefused ==
    /\ conn = NoConn /\ ~recent /\ ~CanConnect
    /\ recent' = TRUE
    /\ UNCHANGED <<conn, client, reader, bridge, stream>>

(* maintain, every half second. *)
Maintain ==
    /\ \/ \E c \in Conn : Dial(c, <<>>)
       \/ DialRefused
    /\ UNCHANGED <<world, sent, lastSeen>>

Elapse ==
    /\ recent /\ recent' = FALSE
    /\ UNCHANGED <<world, conn, client, reader, sent, bridge, stream>>

(* c.Close: what has not reached the bridge may never do so. *)
Prefixes(s) == {SubSeq(s, 1, n) : n \in 0 .. Len(s)}

CloseSocket(c) ==
    IF client[c] = "open"
    THEN /\ client' = [client EXCEPT ![c] = "closed"]
         /\ fin' = [fin EXCEPT ![c] = up]
         /\ \E rest \in Prefixes(pipe[c]) : pipe' = [pipe EXCEPT ![c] = rest]
    ELSE UNCHANGED <<client, stream>>

(* The daemon's stack may report an error on c. *)
Broken(c) == server[c] = "gone" \/ ~up

-----------------------------------------------------------------------------
(* write: ensure, then one frame, all under s.mu. *)

NextFrame == sent < MaxFrames /\ sent' = sent + 1

WriteOk ==
    /\ conn # NoConn /\ NextFrame
    /\ pipe' = IF server[conn] = "gone" THEN pipe
               ELSE [pipe EXCEPT ![conn] = Append(@, sent + 1)]
    /\ UNCHANGED <<world, conn, recent, client, reader, bridge, fin>>

WriteFailsKeepingSocket ==
    /\ conn # NoConn /\ Broken(conn)
    /\ conn' = NoConn
    /\ UNCHANGED <<world, recent, client, reader, sent, bridge, stream>>

WriteFailsKeepingConn ==
    /\ conn # NoConn /\ Broken(conn)
    /\ CloseSocket(conn)
    /\ UNCHANGED <<world, conn, recent, reader, sent, bridge>>

WriteFails ==
    /\ conn # NoConn /\ Broken(conn)
    /\ CloseSocket(conn)
    /\ conn' = NoConn
    /\ UNCHANGED <<world, recent, reader, sent, bridge>>

WriteDials ==
    /\ NextFrame
    /\ \E c \in Conn : Dial(c, <<sent + 1>>)
    /\ UNCHANGED <<world, lastSeen>>

WriteRefused ==
    /\ DialRefused
    /\ UNCHANGED <<world, sent>>

Write == WriteOk \/ WriteFails \/ WriteDials \/ WriteRefused

-----------------------------------------------------------------------------
(* readUntilClosed: forget the connection under the lock, close it after.  *)

ReadFails(c) ==
    /\ reader[c] = "reading"
    /\ client[c] = "closed" \/ Broken(c)
    /\ reader' = [reader EXCEPT ![c] = "failed"]
    /\ UNCHANGED <<world, conn, recent, client, sent, bridge, stream>>

ReaderForgetsAny(c) ==
    /\ reader[c] = "failed"
    /\ conn' = NoConn
    /\ reader' = [reader EXCEPT ![c] = "dropping"]
    /\ UNCHANGED <<world, recent, client, sent, bridge, stream>>

ReaderForgets(c) ==
    /\ reader[c] = "failed"
    /\ conn' = IF conn = c THEN NoConn ELSE conn
    /\ reader' = [reader EXCEPT ![c] = "dropping"]
    /\ UNCHANGED <<world, recent, client, sent, bridge, stream>>

ReaderCloses(c) ==
    /\ reader[c] = "dropping"
    /\ CloseSocket(c)
    /\ reader' = [reader EXCEPT ![c] = "none"]
    /\ UNCHANGED <<world, conn, recent, sent, bridge>>

-----------------------------------------------------------------------------
(* net_task: accept, then feed what recv returns until it returns none.    *)

Serving == {c \in Conn : server[c] = "served"}

AcceptBesides ==
    /\ queue # <<>>
    /\ server' = [server EXCEPT ![Head(queue)] = "served"]
    /\ queue' = Tail(queue)
    /\ UNCHANGED <<world, daemon, lastSeen, stream>>

Accept ==
    /\ queue # <<>> /\ Serving = {}
    /\ server' = [server EXCEPT ![Head(queue)] = "served"]
    /\ queue' = Tail(queue)
    /\ UNCHANGED <<world, daemon, lastSeen, stream>>

Recv(c) ==
    /\ server[c] = "served" /\ pipe[c] # <<>>
    /\ up \/ client[c] # "open"
    /\ lastSeen' = Head(pipe[c])
    /\ pipe' = [pipe EXCEPT ![c] = Tail(@)]
    /\ UNCHANGED <<world, daemon, server, queue, fin>>

RecvEnds(c) ==
    /\ server[c] = "served" /\ pipe[c] = <<>> /\ fin[c]
    /\ server' = [server EXCEPT ![c] = "gone"]
    /\ UNCHANGED <<world, daemon, queue, lastSeen, stream>>

(* Without SO_KEEPALIVE only a FIN ends recv. *)
KeepaliveOff(c) ==
    /\ server[c] = "served" /\ client[c] # "open" /\ fin[c]
    /\ server' = [server EXCEPT ![c] = "gone"]
    /\ pipe' = [pipe EXCEPT ![c] = <<>>]
    /\ UNCHANGED <<world, daemon, queue, lastSeen, fin>>

(* The probes go unanswered, or are answered with a reset. *)
KeepaliveFails(c) ==
    /\ server[c] = "served" /\ ~fin[c]
    /\ ~up \/ client[c] # "open"
    /\ server' = [server EXCEPT ![c] = "gone"]
    /\ pipe' = [pipe EXCEPT ![c] = <<>>]
    /\ UNCHANGED <<world, daemon, queue, lastSeen, fin>>

-----------------------------------------------------------------------------
(* The environment. *)

Disturb == disturbs < MaxDisturb /\ disturbs' = disturbs + 1

Outage ==
    /\ Disturb /\ W!Fades
    /\ UNCHANGED <<daemon, bridge, stream>>

Recover ==
    /\ W!Returns
    /\ UNCHANGED <<disturbs, daemon, bridge, stream>>

Leaves == W!Leaves /\ UNCHANGED <<disturbs, daemon, bridge, stream>>

Wifi == W!WifiStep /\ UNCHANGED <<disturbs, daemon, bridge, stream>>

BridgeResets ==
    /\ Disturb /\ W!Restart
    /\ server' = [c \in Conn |-> IF server[c] = "none" THEN "none" ELSE "gone"]
    /\ queue' = <<>>
    /\ pipe' = [c \in Conn |-> <<>>]
    /\ UNCHANGED <<daemon, lastSeen, fin>>

(* The process ends (Close, or the kernel on exit) and another one starts. *)
DaemonRestarts ==
    /\ Disturb
    /\ conn' = NoConn /\ recent' = FALSE
    /\ client' = [c \in Conn |-> IF client[c] = "open" THEN "closed" ELSE client[c]]
    /\ fin' = [c \in Conn |-> IF client[c] = "open" THEN up ELSE fin[c]]
    /\ reader' = [c \in Conn |-> "none"]
    /\ UNCHANGED <<wifi, sent, bridge, pipe>>

-----------------------------------------------------------------------------
Reader(c) == ReadFails(c) \/ ReaderForgets(c) \/ ReaderCloses(c)

Serve(c) == Recv(c) \/ RecvEnds(c) \/ KeepaliveFails(c)

Next == \/ Maintain \/ Elapse \/ Write
        \/ \E c \in Conn : Reader(c) \/ Serve(c)
        \/ Accept
        \/ Outage \/ Recover \/ Leaves \/ Wifi \/ BridgeResets \/ DaemonRestarts

(* maintain's loop, the clock, blocked calls that can return, and the      *)
(* bridge's tasks.  Nobody needs to type.                                  *)
Fairness == /\ WF_vars(Maintain) /\ WF_vars(Elapse) /\ WF_vars(Accept)
            /\ WF_vars(Wifi)
            /\ \A c \in Conn : WF_vars(Reader(c)) /\ WF_vars(Serve(c))

Spec == Init /\ [][Next]_vars

FairSpec == Spec /\ Fairness

-----------------------------------------------------------------------------
TypeOK ==
    /\ ap \in BOOLEAN /\ station \in {"told", "joining", "joined"}
    /\ disturbs \in 0 .. MaxDisturb
    /\ conn \in Conn \cup {NoConn} /\ recent \in BOOLEAN
    /\ client \in [Conn -> {"none", "open", "closed"}]
    /\ reader \in [Conn -> {"none", "reading", "failed", "dropping"}]
    /\ server \in [Conn -> {"none", "queued", "served", "gone"}]
    /\ fin \in [Conn -> BOOLEAN]
    /\ queue \in Seq(Conn)
    /\ pipe \in [Conn -> Seq(Nat)]
    /\ sent \in 0 .. MaxFrames /\ lastSeen \in 0 .. MaxFrames

(* A socket stays open only while it is the one the sink writes to, or its *)
(* reader is about to close it (write, readUntilClosed): a link that comes *)
(* and goes for days exhausts neither the daemon's descriptors nor the     *)
(* bridge's single client slot.                                            *)
NoSocketLeak ==
    \A c \in Conn : client[c] = "open" => c = conn \/ reader[c] = "dropping"

(* The sink writes only to a connection that is open and watched: a write  *)
(* never goes to a socket that somebody closed, and a drop is never missed *)
(* for want of a reader.                                                   *)
ConnIsWatched ==
    conn # NoConn => client[conn] = "open" /\ reader[conn] \in {"reading", "failed"}

(* The late end of an old connection never costs the new one: s.conn is    *)
(* only given up on its own evidence (readUntilClosed's test s.conn == c). *)
FreshConnKept ==
    [][conn # NoConn /\ conn' # conn
         => \/ reader[conn] = "failed" \/ Broken(conn)
            \/ disturbs' # disturbs]_vars

(* The bridge takes frames in the order in which they were written, across *)
(* reconnections too: an old connection that still holds frames is read to *)
(* its end before the next one is (net_task).  A key-up overtaken by its   *)
(* key-down would leave the key pressed.                                   *)
InOrder == [][lastSeen' # lastSeen => lastSeen' > lastSeen]_vars

(* Once the access point stays in reach the bridge serves the sink's       *)
(* connection again, though nobody types: the station joins again,         *)
(* maintain re-dials, and keepalive frees the single client slot from a    *)
(* peer that left without a word (wifi_event_handler, maintain, net_task). *)
ServedAgain ==
    (<>[]ap) => []<>(conn # NoConn /\ server[conn] = "served")
=============================================================================
