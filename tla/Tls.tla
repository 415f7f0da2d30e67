-------------------------------- MODULE Tls ---------------------------------
(***************************************************************************)
(* runtime/src/tls.c: the TLS client a handler may use for its own outbound *)
(* connections.  The handler (external) makes one call at a time, in any    *)
(* order the header allows, and also tls_connect without tls_global_init.   *)
(* OpenSSL, the resolver and the peer are external: each of their calls may *)
(* fail, write a part, ask to be called again, or wait for a peer that says *)
(* nothing.  FATAL and SIGPIPE end the process.                             *)
(***************************************************************************)
EXTENDS Integers, Sequences, FiniteSets, SequencesExt

CONSTANTS MaxConns,   \* bound: calls of tls_connect
          MaxAddrs,   \* bound: addresses of a host
          Bufs,       \* buffers a handler sends, as byte sequences
          MaxStream,  \* bound: bytes handed to tls_send on a connection
          MaxPeer     \* bound: what the peer sends on a connection

Byte == UNION {Range(b) : b \in Bufs}

ASSUME TlsAssumption ==
    /\ {MaxConns, MaxAddrs, MaxStream, MaxPeer} \subseteq Nat
    /\ Bufs \subseteq Seq(Byte) \ {<<>>}

VARIABLES
    pc,           \* where the call in progress stands; "idle" in the handler, "exit" after FATAL
    initialized,  \* tls_initialized
    calls,        \* calls of tls_connect so far; the connection of a call has its number
    live,         \* tls_conn handles the handler holds
    held,         \* <<kind, c>>: sockets, SSL_CTX, SSL and tls_conn not given back
    ai,           \* addresses left in the loop of tls_connect
    conn, buf, len,       \* the connection and the arguments of the call in progress
    total_sent, pending,  \* tls_send: progress, the write OpenSSL wants repeated
    stream,       \* history: stream[c], bytes of the tls_send calls that returned len
    wire,         \* wire[c]: bytes OpenSSL has taken
    peer,         \* peer[c]: the other direction, bytes sent, read and lost, records
                  \* without data (other) and those of them OpenSSL has heard
    result        \* the last call and what it returned

sending == <<conn, buf, len, total_sent, pending>>
connecting == <<calls, ai>>
data == <<stream, wire, peer>>
vars == <<pc, initialized, connecting, live, held, sending, data, result>>

Conns == 1 .. MaxConns
Calls == {"tls_global_init", "tls_connect", "tls_send", "tls_recv", "tls_close"}
Kinds == {"socket", "SSL_CTX", "SSL", "tls_conn"}
Return(f, c, value) == pc' = "idle" /\ result' = [call |-> f, conn |-> c, value |-> value]
FATAL == pc' = "exit" /\ UNCHANGED result
Goto(l) == pc' = l /\ UNCHANGED result

\* "closed" is a close_notify, "cut" a connection that ends in any other way; a "silent"
\* peer stays connected, and neither sends nor reads any more.
Ends == {"open", "closed", "cut", "silent"}
Peers == [sent: 0 .. MaxPeer, read: 0 .. MaxPeer, lost: 0 .. MaxPeer,
          other: 0 .. MaxPeer, heard: 0 .. MaxPeer, end: Ends]
Unread(p) == p.sent - p.read - p.lost

\* The local variables are gone when a call has returned.
NotSending == conn' = 0 /\ buf' = <<>> /\ len' = 0 /\ total_sent' = 0 /\ pending' = 0

Init ==
    /\ pc = "idle" /\ initialized = FALSE
    /\ calls = 0 /\ ai = 0
    /\ live = {} /\ held = {}
    /\ conn = 0 /\ buf = <<>> /\ len = 0 /\ total_sent = 0 /\ pending = 0
    /\ stream = [c \in Conns |-> <<>>] /\ wire = [c \in Conns |-> <<>>]
    /\ peer = [c \in Conns |-> [sent |-> 0, read |-> 0, lost |-> 0,
                                 other |-> 0, heard |-> 0, end |-> "open"]]
    /\ result = [call |-> "none", conn |-> 0, value |-> 0]

-----------------------------------------------------------------------------
(* tls_global_init and tls_connect.                                          *)

\* The libraries are searched and the symbols resolved once; any one missing is FATAL.
tls_global_init ==
    /\ pc = "idle"
    /\ \/ initialized' = TRUE /\ Return("tls_global_init", 0, 0)
       \/ ~ initialized /\ FATAL /\ UNCHANGED initialized
    /\ UNCHANGED <<connecting, live, held, sending, data>>

\* FATAL before tls_global_init and when getaddrinfo fails.
tls_connect ==
    /\ pc = "idle" /\ calls < MaxConns
    /\ calls' = calls + 1 /\ conn' = calls + 1
    /\ \/ FATAL /\ UNCHANGED ai
       \/ initialized /\ ai' \in 1 .. MaxAddrs /\ Goto("address")
    /\ UNCHANGED <<initialized, live, held, buf, len, total_sent, pending, data>>

\* Seeded fault: a socket whose connect() failed is not closed.
next_address_keeps_socket ==
    /\ pc = "address" /\ ai > 0
    /\ \/ held' = held \cup {<<"socket", calls>>} /\ Goto("handshake") /\ UNCHANGED ai
       \/ held' = held \cup {<<"socket", calls>>} /\ ai' = ai - 1 /\ Goto("address")
    /\ UNCHANGED <<initialized, calls, live, sending, data>>

\* One turn of the loop: connected, or no socket, or a socket that cannot connect
\* and is closed again.
next_address ==
    /\ pc = "address" /\ ai > 0
    /\ \/ held' = held \cup {<<"socket", calls>>} /\ Goto("handshake") /\ UNCHANGED ai
       \/ ai' = ai - 1 /\ Goto("address") /\ UNCHANGED held
    /\ UNCHANGED <<initialized, calls, live, sending, data>>

\* Seeded fault: the loop begins again when no address could be reached.
no_address_left_retries ==
    /\ pc = "address" /\ ai = 0
    /\ ai' = MaxAddrs /\ Goto("address")
    /\ UNCHANGED <<initialized, calls, live, held, sending, data>>

no_address_left ==
    /\ pc = "address" /\ ai = 0
    /\ FATAL
    /\ UNCHANGED <<initialized, connecting, live, held, sending, data>>

\* SSL_CTX_new .. SSL_connect and the handle; FATAL at any of them.
handshake ==
    /\ pc = "handshake"
    /\ \/ FATAL /\ UNCHANGED <<live, held, sending>>
       \/ /\ held' = held \cup {<<kind, calls>> : kind \in Kinds}
          /\ live' = live \cup {calls}
          /\ Return("tls_connect", calls, 0) /\ NotSending
    /\ UNCHANGED <<initialized, connecting, data>>

-----------------------------------------------------------------------------
(* tls_send.                                                                 *)

tls_send(c, b) ==
    /\ pc = "idle" /\ c \in live
    /\ Len(stream[c]) + Len(b) <= MaxStream
    /\ conn' = c /\ buf' = b /\ total_sent' = 0 /\ pending' = 0
    /\ Goto("send")
    /\ UNCHANGED <<initialized, connecting, live, held, len, data>>

\* What SSL_write is called with: buf + total_sent, len - total_sent.
left == SubSeq(buf, total_sent + 1, Len(buf))

\* SSL_write takes n bytes.  After a WANT it expects the same arguments again.
SSL_write_accepts(n) ==
    /\ pc = "send" /\ n \in 1 .. Len(left)
    /\ pending \in {0, Len(left)}
    /\ wire' = [wire EXCEPT ![conn] = @ \o SubSeq(left, 1, n)]
    /\ IF total_sent + n >= Len(buf)
       THEN /\ Return("tls_send", conn, total_sent + n) /\ NotSending
            /\ stream' = [stream EXCEPT ![conn] = @ \o buf]
       ELSE /\ total_sent' = total_sent + n /\ pending' = 0
            /\ Goto("send")
            /\ UNCHANGED <<stream, conn, buf, len>>
    /\ UNCHANGED <<initialized, connecting, live, held, peer>>

\* Seeded fault: a WANT ends the call as if everything had been written.
SSL_write_wants_returns ==
    /\ pc = "send" /\ peer[conn].heard < peer[conn].other
    /\ Return("tls_send", conn, Len(buf)) /\ NotSending
    /\ stream' = [stream EXCEPT ![conn] = @ \o buf]
    /\ UNCHANGED <<initialized, connecting, live, held, wire, peer>>

\* SSL_ERROR_WANT_READ or WANT_WRITE: the loop calls again at once.  The sockets block,
\* so it follows a record of the peer (a renegotiation, a key update).
SSL_write_wants ==
    /\ pc = "send" /\ peer[conn].heard < peer[conn].other
    /\ peer' = [peer EXCEPT ![conn].heard = @ + 1]
    /\ pending' = Len(left)
    /\ Goto("send")
    /\ UNCHANGED <<initialized, connecting, live, held, conn, buf, len, total_sent, stream, wire>>

\* Any other error: -1, and the connection is of no use any more.
SSL_write_fails ==
    /\ pc = "send"
    /\ Return("tls_send", conn, -1) /\ NotSending
    /\ live' = live \ {conn}
    /\ UNCHANGED <<initialized, connecting, held, data>>

\* A write to a connection the peer has given up raises SIGPIPE, which nothing in the
\* runtime ignores.
Broken == peer[conn].end \in {"closed", "cut"}
SIGPIPE ==
    /\ pc \in {"send", "close"} /\ Broken
    /\ FATAL
    /\ UNCHANGED <<initialized, connecting, live, held, sending, data>>

-----------------------------------------------------------------------------
(* tls_recv and tls_close.                                                   *)

tls_recv(c, n) ==
    /\ pc = "idle" /\ c \in live
    /\ conn' = c /\ len' = n
    /\ Goto("recv")
    /\ UNCHANGED <<initialized, connecting, live, held, buf, total_sent, pending, data>>

\* What SSL_read returns and tls_recv passes on.  It waits until there is something.
SSL_read_data(n) ==
    /\ n <= len /\ n <= Unread(peer[conn])
    /\ Return("tls_recv", conn, n)
    /\ peer' = [peer EXCEPT ![conn].read = @ + n]

\* rc == 0 for every end of the connection, with or without close_notify.
SSL_read_end ==
    /\ Unread(peer[conn]) = 0 /\ Broken
    /\ Return("tls_recv", conn, 0)
    /\ UNCHANGED peer

\* -1 for a WANT (a record without data has been handled) and for any error.
SSL_read_wants ==
    /\ peer[conn].heard < peer[conn].other
    /\ Return("tls_recv", conn, -1)
    /\ peer' = [peer EXCEPT ![conn].heard = @ + 1]

SSL_read_fails ==
    /\ peer[conn].end = "cut"
    /\ Return("tls_recv", conn, -1)
    /\ UNCHANGED peer

SSL_read ==
    /\ pc = "recv"
    /\ SSL_read_end \/ SSL_read_wants \/ SSL_read_fails \/ \E n \in 1 .. MaxPeer : SSL_read_data(n)
    /\ NotSending
    /\ UNCHANGED <<initialized, connecting, live, held, stream, wire>>

\* Also of a connection that a failed tls_send left broken; NULL is ignored.
tls_close(c) ==
    /\ pc = "idle" /\ <<"tls_conn", c>> \in held
    /\ conn' = c
    /\ Goto("close")
    /\ UNCHANGED <<initialized, connecting, live, held, buf, len, total_sent, pending, data>>

\* The close_notify has been tried, and everything is given back.
SSL_shutdown ==
    /\ pc = "close"
    /\ held' = held \ {<<kind, conn>> : kind \in Kinds}
    /\ live' = live \ {conn}
    /\ Return("tls_close", conn, 0) /\ NotSending
    /\ UNCHANGED <<initialized, connecting, data>>

-----------------------------------------------------------------------------

\* The peer sends a byte or a record without data, closes, is cut off (and any of the
\* bytes on their way are lost), or falls silent, also before the handshake is done.
peer_acts(c) ==
    /\ peer[c].end = "open"
    /\ \/ /\ <<"tls_conn", c>> \in held \/ (pc = "handshake" /\ c = conn)
          /\ peer' = [peer EXCEPT ![c].end = "silent"]
       \/ /\ <<"tls_conn", c>> \in held
          /\ \/ /\ peer[c].sent + peer[c].other < MaxPeer
                /\ \/ peer' = [peer EXCEPT ![c].sent = @ + 1]
                   \/ peer' = [peer EXCEPT ![c].other = @ + 1]
             \/ peer' = [peer EXCEPT ![c].end = "closed"]
             \/ \E n \in 0 .. Unread(peer[c]) :
                    peer' = [peer EXCEPT ![c].end = "cut", ![c].lost = n]
    /\ UNCHANGED <<pc, initialized, connecting, live, held, sending, stream, wire, result>>

SSL_write ==
    \/ \E n \in 1 .. MaxStream : SSL_write_accepts(n)
    \/ SSL_write_wants \/ SSL_write_fails

Next ==
    \/ next_address \/ no_address_left \/ handshake
    \/ SSL_write \/ SSL_read \/ SSL_shutdown \/ SIGPIPE
    \/ tls_global_init \/ tls_connect
    \/ \E c \in Conns : \/ \E b \in Bufs : tls_send(c, b)
                        \/ \E n \in 1 .. MaxPeer : tls_recv(c, n)
                        \/ tls_close(c) \/ peer_acts(c)

\* connect() gives up by itself and SSL_read returns what there is.  No socket has a
\* timeout: what needs the peer goes on only while the peer is not silent.
Spec ==
    /\ Init /\ [][Next]_vars
    /\ WF_vars(next_address \/ no_address_left) /\ WF_vars(SSL_read)
    /\ WF_vars((handshake \/ SSL_write \/ SSL_shutdown) /\ peer[conn].end # "silent")
    /\ \A c \in Conns : WF_vars(peer_acts(c))

-----------------------------------------------------------------------------

HandleType ==
    /\ pc \in {"idle", "address", "handshake", "send", "recv", "close", "exit"}
    /\ initialized \in BOOLEAN /\ calls \in 0 .. MaxConns /\ ai \in 0 .. MaxAddrs
    /\ live \subseteq 1 .. calls /\ held \subseteq Kinds \X Conns

SendType ==
    /\ conn \in 0 .. MaxConns /\ buf \in Bufs \cup {<<>>} /\ len \in 0 .. MaxPeer
    /\ total_sent \in 0 .. Len(buf) /\ pending \in 0 .. Len(buf)

DataType ==
    /\ stream \in [Conns -> Seq(Byte)] /\ wire \in [Conns -> Seq(Byte)]
    /\ \A c \in Conns : Len(stream[c]) <= MaxStream

PeerType ==
    /\ peer \in [Conns -> Peers]
    /\ \A c \in Conns : Unread(peer[c]) >= 0 /\ peer[c].heard <= peer[c].other

\* tls_send returns len or -1.
ResultType ==
    /\ result \in [call: {"none"} \cup Calls, conn: 0 .. MaxConns, value: Int]
    /\ result.call = "tls_send" => result.value \in {-1} \cup {Len(b) : b \in Bufs}

\* The values the variables take.
TypeOK == HandleType /\ SendType /\ DataType /\ PeerType /\ ResultType

(* Every byte given to tls_send is written once and in order, however        *)
(* SSL_write cuts and repeats: between calls the wire carries exactly the    *)
(* buffers of the calls that returned len, within a call the bytes counted   *)
(* by total_sent more, and after -1 a prefix of what the handler wanted.     *)
StreamIntact ==
    \A c \in Conns :
        /\ IsPrefix(stream[c], wire[c])
        /\ c \in live /\ (conn = c => pc \notin {"send", "exit"}) => wire[c] = stream[c]
        /\ pc = "send" /\ conn = c => wire[c] = stream[c] \o SubSeq(buf, 1, total_sent)

(* While the process lives, each socket, context and session belongs to a    *)
(* handle that has not been closed or to the tls_connect in progress: none   *)
(* of the sockets tried on the way to a connection is left open, and         *)
(* tls_close gives back everything, also after a failed send.                *)
NoLeak ==
    \A h \in held : \/ <<"tls_conn", h[2]>> \in held
                    \/ pc \in {"handshake", "exit"} /\ h = <<"socket", calls>>

(* No call hangs but for a silent peer: every one returns or ends the        *)
(* process, whatever OpenSSL answers, unless the peer of its connection      *)
(* stays connected and says nothing.                                         *)
HangsOnlyOnSilence ==
    pc \notin {"idle", "exit"} ~> pc \in {"idle", "exit"} \/ peer[conn].end = "silent"

\* "Returns 0 if the connection was cleanly shut down by the peer" (tls.h:72).
ZeroIsClean ==
    [][pc = "recv" /\ pc' = "idle" /\ result'.value = 0 => peer[conn].end = "closed"]_vars

\* "Returns -1 on a transient read condition (retry is appropriate)" (tls.h:73).
MinusOneIsTransient ==
    [][pc = "recv" /\ pc' = "idle" /\ result'.value = -1 => peer[conn].end # "cut"]_vars

\* "Returns -1 if the connection was closed" (tls.h:62): tls_send returns.
ClosedSendReturns == [][pc = "send" => pc' # "exit"]_vars
=============================================================================
