----------------------------- MODULE TlsProofs ------------------------------
(***************************************************************************)
(* Proofs about Tls: any number of connections and addresses, any buffers,  *)
(* every way of OpenSSL to cut, repeat and refuse the writes.               *)
(***************************************************************************)
EXTENDS Tls, SequenceTheorems, TLAPS

-----------------------------------------------------------------------------
(* The inductive invariant.                                                  *)

Opening == pc \in {"address", "handshake"}

\* A connection no handle stands for yet has carried nothing.
Unopened ==
    /\ Opening => calls \in Conns /\ calls \notin live
    /\ \A c \in Conns : c > calls \/ (Opening /\ c = calls) => wire[c] = stream[c]

\* Within tls_send: the handle is good, bytes are left and the stream has room.
Sending ==
    pc = "send" =>
        /\ conn \in live /\ buf \in Bufs /\ total_sent < Len(buf)
        /\ Len(stream[conn]) + Len(buf) <= MaxStream

\* Reading and closing are about a connection.
Talking == pc \in {"recv", "close"} => conn \in Conns

IInv == TypeOK /\ Unopened /\ Sending /\ Talking /\ StreamIntact /\ NoLeak
-----------------------------------------------------------------------------
(* Sequences of bytes.                                                       *)

LEMMA BufFacts ==
    ASSUME NEW b \in Bufs
    PROVE  b \in Seq(Byte) /\ Len(b) \in Nat \ {0}
  BY TlsAssumption, EmptySeq, LenProperties

\* What was there before is a prefix of what is there afterwards.
LEMMA PrefixGrows ==
    ASSUME NEW S, NEW s \in Seq(S), NEW t \in Seq(S)
    PROVE  IsPrefix(s, s \o t)
<1>1. Len(s) <= Len(s \o t)
  BY ConcatProperties, LenProperties
<1>2. SubSeq(s, 1, Len(s)) = SubSeq(s \o t, 1, Len(s))
  <2>1. CASE Len(s) = 0
    BY <2>1, SubSeqEmpty
  <2>2. CASE Len(s) # 0
    <3>1. 1 \in 1 .. Len(s) /\ Len(s) \in 1 .. Len(s)
      BY <2>2, LenProperties
    <3> QED
      BY <3>1, SubSeqOfConcat1
  <2> QED
    BY <2>1, <2>2
<1> QED
  BY <1>1, <1>2 DEF IsPrefix

\* Appending in two steps.
LEMMA AppendTwice ==
    ASSUME NEW s \in Seq(Byte), NEW t \in Seq(Byte), NEW u \in Seq(Byte)
    PROVE  (s \o t) \o u = s \o (t \o u)
  BY ConcatAssociative

LEMMA PrefixRefl ==
    ASSUME NEW S, NEW s \in Seq(S)
    PROVE  IsPrefix(s, s)
  BY LenProperties DEF IsPrefix

\* SSL_write is given the rest of the buffer; the n bytes it takes follow the ones
\* that total_sent counts.
LEMMA TakenFollow ==
    ASSUME NEW b \in Seq(Byte), NEW sent \in 0 .. Len(b) - 1, NEW n \in 1 .. Len(b) - sent
    PROVE  LET rest == SubSeq(b, sent + 1, Len(b)) IN
           /\ rest \in Seq(Byte) /\ Len(rest) = Len(b) - sent
           /\ SubSeq(rest, 1, n) \in Seq(Byte)
           /\ SubSeq(b, 1, sent) \in Seq(Byte)
           /\ SubSeq(b, 1, sent) \o SubSeq(rest, 1, n) = SubSeq(b, 1, sent + n)
<1> DEFINE rest == SubSeq(b, sent + 1, Len(b))
<1>0. Len(b) \in Nat /\ \A i \in 1 .. Len(b) : b[i] \in Byte
  BY LenProperties, ElementOfSeq
<1>1. rest \in Seq(Byte) /\ Len(rest) = Len(b) - sent
  BY <1>0, SubSeqProperties
<1>2. SubSeq(rest, 1, n) = SubSeq(b, sent + 1, sent + n)
  <2>1. /\ sent + 1 \in 1 .. Len(b) /\ Len(b) \in 1 .. Len(b)
        /\ 1 \in 1 .. Len(b) - (sent + 1) + 1 /\ n \in 1 .. Len(b) - (sent + 1) + 1
    BY <1>0
  <2>2. SubSeq(rest, 1, n) = SubSeq(b, sent + 1 + 1 - 1, sent + 1 + n - 1)
    BY <2>1, SubSeqOfSubSeq
  <2> QED
    BY <2>2, <1>0
<1>3. SubSeq(b, sent + 1, sent + n) \in Seq(Byte) /\ SubSeq(b, 1, sent) \in Seq(Byte)
  BY <1>0, SubSeqProperties
<1>4. SubSeq(b, 1, sent) \o SubSeq(b, sent + 1, sent + n) = SubSeq(b, 1, sent + n)
  <2>1. /\ 1 \in 1 .. Len(b) + 1 /\ sent \in 1 - 1 .. Len(b)
        /\ sent + n \in sent .. Len(b)
    BY <1>0
  <2> QED
    BY <2>1, ConcatAdjacentSubSeq
<1> QED
  BY <1>1, <1>2, <1>3, <1>4
-----------------------------------------------------------------------------
(* The initial states and the steps that write nothing.                      *)

LEMMA ReturnType ==
    ASSUME NEW f \in Calls, NEW c \in 0 .. MaxConns, NEW v \in Int, Return(f, c, v),
           f = "tls_send" => v = -1 \/ \E b \in Bufs : v = Len(b)
    PROVE  ResultType'
  BY DEF Return, ResultType

\* What is left alone keeps its type.
LEMMA SameTypes ==
    ASSUME TypeOK
    PROVE  /\ UNCHANGED sending => SendType'
           /\ UNCHANGED <<stream, wire>> => DataType'
           /\ UNCHANGED peer => PeerType'
           /\ UNCHANGED result => ResultType'
  BY DEF TypeOK, SendType, DataType, PeerType, ResultType, sending

LEMMA InitInvariant == Init => IInv
<1> SUFFICES ASSUME Init PROVE IInv
  OBVIOUS
<1>0. /\ <<>> \in Seq(Byte) /\ Len(<<>>) = 0 /\ IsPrefix(<<>>, <<>>)
  BY EmptySeq, PrefixRefl
<1>1. HandleType
  <2>1. calls \in 0 .. MaxConns /\ ai \in 0 .. MaxAddrs
    BY TlsAssumption DEF Init
  <2> QED
    BY <2>1 DEF Init, HandleType
<1>2. SendType
  BY <1>0, TlsAssumption DEF Init, SendType
<1>3. DataType
  BY <1>0, TlsAssumption DEF Init, DataType
<1>4. PeerType
  BY TlsAssumption DEF Init, PeerType, Peers, Ends, Unread
<1>5. ResultType
  BY TlsAssumption DEF Init, ResultType
<1>6. TypeOK
  BY <1>1, <1>2, <1>3, <1>4, <1>5 DEF TypeOK, DataType
<1> QED
  BY <1>0, <1>6 DEF Init, IInv, Unopened, Opening, Sending, Talking, StreamIntact, NoLeak, Conns

\* A step outside tls_send that touches neither the wire nor the stream.
LEMMA ElsewhereKeepsStream ==
    ASSUME IInv, UNCHANGED <<stream, wire>>, live' \subseteq live,
           pc \notin {"send", "exit"}, pc' # "send"
    PROVE  StreamIntact'
  BY DEF IInv, StreamIntact

LEMMA GlobalInitStep == ASSUME IInv, tls_global_init PROVE IInv'
<1> USE DEF tls_global_init, Return, FATAL, IInv, connecting, data, sending
<1>1. TypeOK'
  <2>1. HandleType'
    BY DEF TypeOK, HandleType
  <2>2. ResultType'
    BY ReturnType, SameTypes, TlsAssumption DEF Calls
  <2> QED
    BY <2>1, <2>2, SameTypes DEF TypeOK
<1>2. Unopened' /\ Sending' /\ Talking'
  BY DEF Unopened, Opening, Sending, Talking
<1>3. StreamIntact'
  BY ElsewhereKeepsStream
<1>4. NoLeak'
  BY DEF NoLeak
<1> QED
  BY <1>1, <1>2, <1>3, <1>4

LEMMA ConnectStep == ASSUME IInv, tls_connect PROVE IInv'
<1> USE DEF tls_connect, Goto, FATAL, IInv, data, sending
<1>1. TypeOK'
  <2>1. HandleType'
    BY TlsAssumption DEF TypeOK, HandleType, Conns
  <2>2. SendType'
    BY TlsAssumption DEF TypeOK, SendType, HandleType
  <2> QED
    BY <2>1, <2>2, SameTypes DEF TypeOK
<1>2. Unopened' /\ Sending' /\ Talking'
  BY TlsAssumption DEF Unopened, Opening, Sending, Talking, TypeOK, HandleType, Conns
<1>3. StreamIntact'
  BY ElsewhereKeepsStream
<1>4. NoLeak'
  BY DEF NoLeak
<1> QED
  BY <1>1, <1>2, <1>3, <1>4

LEMMA NextAddressStep == ASSUME IInv, next_address PROVE IInv'
<1> USE DEF next_address, Goto, IInv, data, sending
<1>1. TypeOK'
  <2>1. HandleType'
    BY TlsAssumption DEF TypeOK, HandleType, Conns, Unopened, Opening, Kinds
  <2>2. ResultType'
    BY SameTypes
  <2> QED
    BY <2>1, <2>2, SameTypes DEF TypeOK
<1>2. Unopened' /\ Sending' /\ Talking'
  BY DEF Unopened, Opening, Sending, Talking
<1>3. StreamIntact'
  BY ElsewhereKeepsStream
<1>4. NoLeak'
  BY DEF NoLeak
<1> QED
  BY <1>1, <1>2, <1>3, <1>4

LEMMA NoAddressLeftStep == ASSUME IInv, no_address_left PROVE IInv'
<1> USE DEF no_address_left, FATAL, IInv, connecting, data, sending
<1>1. TypeOK'
  <2>1. HandleType'
    BY DEF TypeOK, HandleType
  <2>2. ResultType'
    BY SameTypes
  <2> QED
    BY <2>1, <2>2, SameTypes DEF TypeOK
<1>2. Unopened' /\ Sending' /\ Talking'
  BY DEF Unopened, Opening, Sending, Talking
<1>3. StreamIntact'
  BY ElsewhereKeepsStream
<1>4. NoLeak'
  BY DEF NoLeak
<1> QED
  BY <1>1, <1>2, <1>3, <1>4

\* The new handle's wire is as empty as its stream: nothing was written before.
LEMMA HandshakeStep == ASSUME IInv, handshake PROVE IInv'
<1> USE DEF handshake, Return, FATAL, IInv, connecting, data, sending
<1>0. calls \in Conns /\ calls \notin live /\ calls \in 1 .. calls /\ wire[calls] = stream[calls]
  BY TlsAssumption DEF Unopened, Opening, TypeOK, HandleType, Conns
<1>1. ResultType'
  BY <1>0, ReturnType, SameTypes, TlsAssumption DEF Calls, Conns
<1>2. HandleType'
  <2>1. held' \subseteq Kinds \X Conns
    BY <1>0 DEF TypeOK, HandleType
  <2>2. live' \subseteq 1 .. calls
    BY <1>0 DEF TypeOK, HandleType
  <2> QED
    BY <2>1, <2>2 DEF TypeOK, HandleType
<1>3. TypeOK'
  <2>1. SendType'
    BY EmptySeq, TlsAssumption DEF TypeOK, SendType, NotSending
  <2> QED
    BY <1>1, <1>2, <2>1, SameTypes DEF TypeOK
<1>4. Unopened' /\ Sending' /\ Talking'
  BY TlsAssumption DEF Unopened, Opening, Sending, Talking, TypeOK, HandleType, Conns
<1>5. StreamIntact'
  BY <1>0 DEF StreamIntact
<1>6. NoLeak'
  <2>1. SUFFICES ASSUME NEW h \in held', held' = held \cup {<<kind, calls>> : kind \in Kinds}
                 PROVE  <<"tls_conn", h[2]>> \in held'
    BY DEF NoLeak
  <2>2. <<"tls_conn", calls>> \in held'
    BY <2>1 DEF Kinds
  <2>3. CASE h \in held
    BY <2>1, <2>2, <2>3 DEF NoLeak
  <2>4. CASE h \in {<<kind, calls>> : kind \in Kinds}
    BY <2>2, <2>4
  <2> QED
    BY <2>1, <2>3, <2>4
<1> QED
  BY <1>3, <1>4, <1>5, <1>6
-----------------------------------------------------------------------------
(* tls_send.                                                                 *)

LEMMA SendStep ==
    ASSUME IInv, NEW c \in Conns, NEW b \in Bufs, tls_send(c, b)
    PROVE  IInv'
<1> USE DEF tls_send, Goto, IInv, connecting, data
<1>0. /\ b \in Seq(Byte) /\ Len(b) \in Nat \ {0} /\ SubSeq(b, 1, 0) = <<>>
      /\ \A d \in Conns : stream[d] \o <<>> = stream[d]
  BY BufFacts, SubSeqEmpty, ConcatEmptySeq DEF TypeOK, DataType
<1>1. HandleType' /\ SendType'
  BY <1>0, TlsAssumption DEF TypeOK, HandleType, SendType, Conns
<1>2. TypeOK'
  BY <1>1, SameTypes DEF TypeOK
<1>3. Unopened' /\ Sending' /\ Talking'
  BY <1>0 DEF Unopened, Opening, Sending, Talking
<1>4. StreamIntact'
  BY <1>0 DEF StreamIntact
<1>5. NoLeak'
  BY DEF NoLeak
<1> QED
  BY <1>2, <1>3, <1>4, <1>5

\* The bytes taken are the next ones of the buffer; with the last of them the buffer
\* becomes part of the stream.
LEMMA WriteStep ==
    ASSUME IInv, NEW n \in 1 .. MaxStream, SSL_write_accepts(n)
    PROVE  IInv'
<1> USE DEF IInv
<1> DEFINE taken == SubSeq(left, 1, n)
           before == SubSeq(buf, 1, total_sent)
<1>0. /\ conn \in live /\ conn \in Conns /\ buf \in Bufs /\ buf \in Seq(Byte) /\ Len(buf) \in Nat \ {0}
      /\ total_sent \in 0 .. Len(buf) - 1 /\ Len(stream[conn]) + Len(buf) <= MaxStream
      /\ stream[conn] \in Seq(Byte) /\ wire[conn] \in Seq(Byte)
  <2>1. /\ conn \in live /\ buf \in Bufs /\ total_sent < Len(buf)
        /\ Len(stream[conn]) + Len(buf) <= MaxStream
    BY DEF SSL_write_accepts, Sending
  <2>2. conn \in Conns
    BY <2>1, TlsAssumption DEF TypeOK, HandleType, Conns
  <2>3. buf \in Seq(Byte) /\ Len(buf) \in Nat \ {0}
    BY <2>1, BufFacts
  <2> QED
    BY <2>1, <2>2, <2>3 DEF TypeOK, SendType, DataType
<1>1. n \in 1 .. Len(buf) - total_sent
  BY <1>0, TakenFollow DEF SSL_write_accepts, left
<1>2. /\ taken \in Seq(Byte) /\ before \in Seq(Byte)
      /\ before \o taken = SubSeq(buf, 1, total_sent + n)
  BY <1>0, <1>1, TakenFollow DEF left
<1>3. wire[conn] = stream[conn] \o before
  BY <1>0 DEF SSL_write_accepts, StreamIntact
<1>4. wire[conn] \o taken = stream[conn] \o SubSeq(buf, 1, total_sent + n)
  <2> HIDE DEF taken, before
  <2>1. stream[conn] \in Seq(Byte) /\ before \in Seq(Byte) /\ taken \in Seq(Byte)
    BY <1>0, <1>2
  <2>2. (stream[conn] \o before) \o taken = stream[conn] \o (before \o taken)
    BY <2>1, AppendTwice, Zenon
  <2> QED
    BY <2>2, <1>2, <1>3
<1>5. /\ wire' = [wire EXCEPT ![conn] = wire[conn] \o taken]
      /\ wire' \in [Conns -> Seq(Byte)]
      /\ UNCHANGED <<initialized, calls, ai, live, held, peer>>
  <2>1. wire[conn] \o taken \in Seq(Byte)
    BY <1>0, <1>2, ConcatProperties
  <2> QED
    BY <2>1, <1>0 DEF SSL_write_accepts, TypeOK, DataType, connecting
<1>6. CASE total_sent + n >= Len(buf)
  <2>1. total_sent + n = Len(buf) /\ SubSeq(buf, 1, total_sent + n) = buf
    BY <1>0, <1>1, <1>6, SubSeqFull
  <2>2. /\ Return("tls_send", conn, Len(buf)) /\ NotSending
        /\ stream' = [stream EXCEPT ![conn] = stream[conn] \o buf]
    BY <1>6, <2>1 DEF SSL_write_accepts
  <2>3. /\ stream' \in [Conns -> Seq(Byte)]
        /\ \A c \in Conns : Len(stream'[c]) <= MaxStream
        /\ wire'[conn] = stream'[conn]
    <3>1. stream[conn] \o buf \in Seq(Byte) /\ Len(stream[conn] \o buf) <= MaxStream
      BY <1>0, ConcatProperties
    <3> QED
      BY <3>1, <2>1, <2>2, <1>0, <1>4, <1>5 DEF TypeOK, DataType
  <2>4. ResultType'
    BY <2>2, <1>0, ReturnType, TlsAssumption DEF Calls, Conns
  <2>5. TypeOK'
    <3>1. HandleType'
      BY <2>2, <1>5 DEF TypeOK, HandleType, Return
    <3>2. SendType'
      BY <2>2, EmptySeq, TlsAssumption DEF SendType, NotSending
    <3>3. DataType' /\ PeerType'
      BY <2>3, <1>5, SameTypes DEF DataType
    <3> QED
      BY <3>1, <3>2, <3>3, <2>4 DEF TypeOK
  <2>6. Unopened' /\ Sending' /\ Talking'
    BY <1>0, <1>5, <2>2, <2>3, TlsAssumption
       DEF Unopened, Opening, Sending, Talking, Return, TypeOK, Conns
  <2>7. StreamIntact'
    <3>1. \A c \in Conns : c # conn => wire'[c] = wire[c] /\ stream'[c] = stream[c]
      BY <1>5, <2>2 DEF TypeOK, DataType
    <3>2. IsPrefix(stream'[conn], wire'[conn])
      BY <2>3, <1>0, PrefixRefl
    <3> QED
      BY <3>1, <3>2, <2>2, <2>3, <1>0, <1>5 DEF StreamIntact, Return, SSL_write_accepts
  <2>8. NoLeak'
    BY <1>5, <2>2 DEF NoLeak, Return, SSL_write_accepts
  <2> QED
    BY <2>5, <2>6, <2>7, <2>8
<1>7. CASE ~ (total_sent + n >= Len(buf))
  <2>1. /\ total_sent' = total_sent + n /\ pending' = 0 /\ Goto("send")
        /\ UNCHANGED <<stream, conn, buf, len>>
    BY <1>7 DEF SSL_write_accepts
  <2>2. HandleType' /\ SendType'
    BY <2>1, <1>0, <1>1, <1>5, <1>7 DEF TypeOK, HandleType, SendType, Goto
  <2>3. TypeOK'
    <3>1. DataType'
      BY <2>1, <1>5 DEF TypeOK, DataType
    <3> QED
      BY <2>1, <2>2, <3>1, <1>5, SameTypes DEF TypeOK, Goto
  <2>4. Unopened' /\ Talking'
    BY <1>0, <1>5, <2>1, TlsAssumption
       DEF SSL_write_accepts, Unopened, Opening, Talking, Goto, TypeOK, HandleType, DataType, Conns
  <2>5. Sending'
    BY <1>0, <1>1, <1>5, <1>7, <2>1 DEF Sending
  <2>6. StreamIntact'
    <3>1. \A c \in Conns : c # conn => wire'[c] = wire[c]
      BY <1>5 DEF TypeOK, DataType
    <3>2. wire'[conn] = stream[conn] \o SubSeq(buf, 1, total_sent + n)
      BY <1>0, <1>4, <1>5 DEF TypeOK, DataType
    <3>3. IsPrefix(stream[conn], wire'[conn])
      <4>1. SubSeq(buf, 1, total_sent + n) \in Seq(Byte)
        BY <1>2, ConcatProperties
      <4> QED
        BY <4>1, <3>2, <1>0, PrefixGrows
    <3> QED
      BY <3>1, <3>2, <3>3, <2>1, <1>0, <1>5 DEF StreamIntact, Goto, SSL_write_accepts
  <2>7. NoLeak'
    BY <1>5, <2>1 DEF NoLeak, Goto, SSL_write_accepts
  <2> QED
    BY <2>3, <2>4, <2>5, <2>6, <2>7
<1> QED
  BY <1>6, <1>7

\* One more of the records without data has been heard.
LEMMA RecordHeard ==
    ASSUME PeerType, NEW c \in Conns, peer[c].heard < peer[c].other,
           peer' = [peer EXCEPT ![c].heard = @ + 1]
    PROVE  PeerType'
<1>1. peer[c] \in Peers
  BY DEF PeerType
<1>2. peer[c].heard + 1 \in 0 .. MaxPeer /\ peer[c].heard + 1 <= peer[c].other
  BY <1>1, TlsAssumption DEF Peers
<1>3. peer' = [peer EXCEPT ![c] = [peer[c] EXCEPT !.heard = peer[c].heard + 1]]
  OBVIOUS
<1> QED
  BY <1>1, <1>2, <1>3 DEF PeerType, Peers, Unread

LEMMA WriteWantsStep == ASSUME IInv, SSL_write_wants PROVE IInv'
<1> USE DEF SSL_write_wants, Goto, IInv, connecting
<1>0. Len(left) \in 0 .. Len(buf)
  <2>1. buf \in Seq(Byte) /\ Len(buf) \in Nat /\ total_sent \in 0 .. Len(buf) - 1
    BY BufFacts DEF Sending, TypeOK, SendType
  <2>2. Len(left) = Len(buf) - total_sent
    <3>1. 1 \in 1 .. Len(buf) - total_sent
      BY <2>1
    <3> QED
      BY <2>1, <3>1, TakenFollow DEF left
  <2> QED
    BY <2>1, <2>2
<1>1. HandleType' /\ SendType'
  BY <1>0 DEF TypeOK, HandleType, SendType
<1>2. TypeOK'
  <2>1. conn \in Conns
    BY TlsAssumption DEF Sending, TypeOK, HandleType, Conns
  <2>2. PeerType'
    <3>1. PeerType /\ peer[conn].heard < peer[conn].other
          /\ peer' = [peer EXCEPT ![conn].heard = @ + 1]
      BY DEF TypeOK
    <3> QED
      BY ONLY <2>1, <3>1, RecordHeard
  <2> QED
    BY <1>1, <2>2, SameTypes DEF TypeOK
<1>3. Unopened' /\ Sending' /\ Talking'
  BY DEF Unopened, Opening, Sending, Talking
<1>4. StreamIntact'
  BY DEF StreamIntact
<1>5. NoLeak'
  BY DEF NoLeak
<1> QED
  BY <1>2, <1>3, <1>4, <1>5

\* The connection is of no use any more; what it carried stays a prefix.
LEMMA WriteFailsStep == ASSUME IInv, SSL_write_fails PROVE IInv'
<1> USE DEF SSL_write_fails, IInv, connecting, data
<1>0. conn \in 0 .. MaxConns
  BY DEF TypeOK, SendType
<1>1. TypeOK'
  <2>1. HandleType'
    BY DEF TypeOK, HandleType, Return
  <2>2. SendType'
    BY EmptySeq, TlsAssumption DEF SendType, NotSending
  <2>3. ResultType'
    BY <1>0, ReturnType DEF Calls
  <2> QED
    BY <2>1, <2>2, <2>3, SameTypes DEF TypeOK
<1>2. Unopened' /\ Sending' /\ Talking'
  BY DEF Unopened, Opening, Sending, Talking, Return
<1>3. StreamIntact'
  BY DEF StreamIntact, Return
<1>4. NoLeak'
  BY DEF NoLeak, Return
<1> QED
  BY <1>1, <1>2, <1>3, <1>4
\* The process is gone.
LEMMA SigpipeStep == ASSUME IInv, SIGPIPE PROVE IInv'
<1> USE DEF SIGPIPE, FATAL, IInv, connecting, data, sending
<1>1. TypeOK'
  <2>1. HandleType'
    BY DEF TypeOK, HandleType
  <2> QED
    BY <2>1, SameTypes DEF TypeOK
<1>2. Unopened' /\ Sending' /\ Talking'
  BY DEF Unopened, Opening, Sending, Talking
<1>3. StreamIntact'
  BY DEF StreamIntact
<1>4. NoLeak'
  BY DEF NoLeak
<1> QED
  BY <1>1, <1>2, <1>3, <1>4
-----------------------------------------------------------------------------
(* tls_recv, tls_close and the peer.                                         *)

\* tls_recv and tls_close begin.
LEMMA CallStep ==
    ASSUME IInv, NEW c \in Conns, tls_close(c) \/ \E n \in 1 .. MaxPeer : tls_recv(c, n)
    PROVE  IInv'
<1> USE DEF tls_recv, tls_close, Goto, IInv, connecting, data
<1>1. TypeOK'
  <2>1. HandleType'
    BY DEF TypeOK, HandleType
  <2>2. SendType'
    BY TlsAssumption DEF TypeOK, SendType, Conns
  <2> QED
    BY <2>1, <2>2, SameTypes DEF TypeOK
<1>2. Unopened' /\ Sending' /\ Talking'
  BY DEF Unopened, Opening, Sending, Talking
<1>3. StreamIntact'
  BY ElsewhereKeepsStream
<1>4. NoLeak'
  BY DEF NoLeak
<1> QED
  BY <1>1, <1>2, <1>3, <1>4

\* What SSL_read gives is what there is.
LEMMA ReadStep == ASSUME IInv, SSL_read PROVE IInv'
<1> USE DEF IInv, connecting
<1>0. /\ pc = "recv" /\ conn \in Conns /\ NotSending
      /\ UNCHANGED <<initialized, connecting, live, held, stream, wire>>
  BY DEF SSL_read, Talking
<1>1. peer[conn] \in Peers /\ Unread(peer[conn]) >= 0 /\ peer[conn].heard <= peer[conn].other
  BY <1>0 DEF TypeOK, PeerType
<1>2. (\E v \in Int : Return("tls_recv", conn, v)) /\ PeerType'
  <2>1. CASE \E n \in 1 .. MaxPeer : SSL_read_data(n)
    <3>1. PICK n \in 1 .. MaxPeer : SSL_read_data(n)
      BY <2>1
    <3>2. n \in Int /\ n <= Unread(peer[conn])
          /\ peer' = [peer EXCEPT ![conn] = [peer[conn] EXCEPT !.read = peer[conn].read + n]]
      BY <3>1, TlsAssumption DEF SSL_read_data
    <3>3. peer[conn].read + n \in 0 .. MaxPeer
      <4> DEFINE q == peer[conn]
      <4>1. /\ q.sent \in 0 .. MaxPeer /\ q.read \in 0 .. MaxPeer /\ q.lost \in 0 .. MaxPeer
            /\ n <= q.sent - q.read - q.lost /\ n \in 1 .. MaxPeer
        BY <1>1, <3>1, <3>2 DEF Peers, Unread
      <4>2. MaxPeer \in Nat
        BY TlsAssumption
      <4> HIDE DEF q
      <4>3. q.read + n \in 0 .. MaxPeer
        BY <4>1, <4>2
      <4> QED
        BY <4>3 DEF q
    <3>4. Unread([peer[conn] EXCEPT !.read = peer[conn].read + n]) >= 0
      BY <1>1, <3>2 DEF Peers, Unread
    <3> QED
      BY <1>0, <1>1, <3>1, <3>2, <3>3, <3>4 DEF TypeOK, PeerType, Peers, SSL_read_data
  <2>2. CASE SSL_read_wants
    <3>1. PeerType /\ peer[conn].heard < peer[conn].other
          /\ peer' = [peer EXCEPT ![conn].heard = @ + 1] /\ Return("tls_recv", conn, -1)
      BY <2>2 DEF SSL_read_wants, TypeOK
    <3>2. conn \in Conns
      BY <1>0
    <3>3. PeerType'
      BY ONLY <3>1, <3>2, RecordHeard
    <3> QED
      BY <3>1, <3>3
  <2>3. CASE SSL_read_end \/ SSL_read_fails
    BY <2>3, SameTypes DEF SSL_read_end, SSL_read_fails
  <2> QED
    BY <2>1, <2>2, <2>3 DEF SSL_read
<1>3. TypeOK'
  <2>1. HandleType'
    BY <1>0, <1>2 DEF TypeOK, HandleType, Return
  <2>2. SendType'
    BY <1>0, EmptySeq, TlsAssumption DEF SendType, NotSending
  <2>3. ResultType'
    BY <1>0, <1>2, ReturnType, TlsAssumption DEF Calls, Conns
  <2> QED
    BY <1>0, <1>2, <2>1, <2>2, <2>3, SameTypes DEF TypeOK
<1>4. Unopened' /\ Sending' /\ Talking'
  BY <1>0, <1>2 DEF Unopened, Opening, Sending, Talking, Return
<1>5. StreamIntact'
  BY <1>0, <1>2, ElsewhereKeepsStream DEF Return
<1>6. NoLeak'
  BY <1>0, <1>2 DEF NoLeak, Return
<1> QED
  BY <1>3, <1>4, <1>5, <1>6

LEMMA ShutdownStep == ASSUME IInv, SSL_shutdown PROVE IInv'
<1> USE DEF SSL_shutdown, IInv, connecting, data
<1>1. TypeOK'
  <2>1. HandleType'
    BY DEF TypeOK, HandleType, Return
  <2>2. SendType'
    BY EmptySeq, TlsAssumption DEF SendType, NotSending
  <2>3. ResultType'
    BY ReturnType, TlsAssumption DEF Calls, Conns, Talking
  <2> QED
    BY <2>1, <2>2, <2>3, SameTypes DEF TypeOK
<1>2. Unopened' /\ Sending' /\ Talking'
  BY DEF Unopened, Opening, Sending, Talking, Return
<1>3. StreamIntact'
  BY ElsewhereKeepsStream DEF Return
<1>4. NoLeak'
  <2> SUFFICES ASSUME NEW h \in held' PROVE <<"tls_conn", h[2]>> \in held'
    BY DEF NoLeak
  <2>1. h \in held /\ <<"tls_conn", h[2]>> \in held
    BY DEF NoLeak
  <2>2. h = <<h[1], h[2]>> /\ h[1] \in Kinds
    BY <2>1 DEF TypeOK, HandleType
  <2>3. h[2] # conn
    BY <2>2
  <2> QED
    BY <2>1, <2>3
<1> QED
  BY <1>1, <1>2, <1>3, <1>4

LEMMA PeerStep == ASSUME IInv, NEW c \in Conns, peer_acts(c) PROVE IInv'
<1> USE DEF IInv, connecting
<1>0. UNCHANGED <<pc, initialized, connecting, live, held, sending, stream, wire, result>>
  BY DEF peer_acts
<1>1. PeerType'
  <2> DEFINE p == peer[c]
  <2>1. p \in Peers /\ Unread(p) >= 0 /\ p.heard <= p.other
    BY DEF TypeOK, PeerType
  <2>2. ASSUME NEW q \in Peers, Unread(q) >= 0, q.heard <= q.other,
               peer' = [peer EXCEPT ![c] = q]
        PROVE  PeerType'
    BY <2>2 DEF TypeOK, PeerType
  <2>3. ASSUME NEW e \in Ends, peer' = [peer EXCEPT ![c].end = e]
        PROVE  PeerType'
    <3>1. [p EXCEPT !.end = e] \in Peers /\ Unread([p EXCEPT !.end = e]) >= 0
      BY <2>1 DEF Peers, Unread
    <3> QED
      BY <2>1, <2>2, <2>3, <3>1 DEF Peers
  <2>4. CASE p.sent + p.other < MaxPeer /\ peer' = [peer EXCEPT ![c].sent = @ + 1]
    <3>0. p.sent + 1 \in 0 .. MaxPeer
      <4>1. p.sent \in Nat /\ p.other \in Nat /\ p.sent + p.other < MaxPeer
        BY <2>1, <2>4 DEF Peers
      <4> QED
        BY <4>1, TlsAssumption
    <3>1. [p EXCEPT !.sent = p.sent + 1] \in Peers
      BY <2>1, <3>0 DEF Peers
    <3>2. Unread([p EXCEPT !.sent = p.sent + 1]) >= 0
      BY <2>1 DEF Peers, Unread
    <3> QED
      BY <2>1, <2>2, <2>4, <3>1, <3>2 DEF Peers
  <2>5. CASE p.sent + p.other < MaxPeer /\ peer' = [peer EXCEPT ![c].other = @ + 1]
    <3>0. p.other + 1 \in 0 .. MaxPeer
      <4>1. p.sent \in Nat /\ p.other \in Nat /\ p.sent + p.other < MaxPeer
        BY <2>1, <2>5 DEF Peers
      <4> QED
        BY <4>1, TlsAssumption
    <3>1. [p EXCEPT !.other = p.other + 1] \in Peers
      BY <2>1, <3>0 DEF Peers
    <3>2. Unread([p EXCEPT !.other = p.other + 1]) >= 0 /\ p.heard <= p.other + 1
      BY <2>1 DEF Peers, Unread
    <3>3. [p EXCEPT !.other = p.other + 1].heard = p.heard
          /\ [p EXCEPT !.other = p.other + 1].other = p.other + 1
      BY <2>1 DEF Peers
    <3> QED
      BY <2>2, <2>5, <3>1, <3>2, <3>3
  <2>6. ASSUME NEW n \in 0 .. Unread(p), peer' = [peer EXCEPT ![c].end = "cut", ![c].lost = n],
               p.end = "open"
        PROVE  PeerType'
    <3>1. n \in 0 .. MaxPeer
      BY <2>1, <2>6, TlsAssumption DEF Peers, Unread
    <3> DEFINE q == [p EXCEPT !.end = "cut", !.lost = n]
    <3>2. q \in Peers /\ q.sent = p.sent /\ q.read = p.read /\ q.lost = n
          /\ q.heard = p.heard /\ q.other = p.other
      BY <2>1, <3>1 DEF Peers, Ends
    <3>3. p.sent - p.read - n >= 0
      <4>1. /\ p.sent \in Int /\ p.read \in Int /\ p.lost \in Int /\ p.lost >= 0
            /\ n \in Int /\ n <= p.sent - p.read - p.lost
        BY <2>1, <2>6 DEF Peers, Unread
      <4> QED
        BY <4>1
    <3>4. peer' = [peer EXCEPT ![c] = q]
      BY <2>6 DEF TypeOK, PeerType
    <3> HIDE DEF q
    <3> QED
      BY <2>1, <2>2, <3>2, <3>3, <3>4 DEF Unread
  <2> QED
    BY <2>3, <2>4, <2>5, <2>6 DEF peer_acts, Ends
<1>2. TypeOK'
  <2>1. HandleType'
    BY <1>0 DEF TypeOK, HandleType
  <2> QED
    BY <1>0, <1>1, <2>1, SameTypes DEF TypeOK
<1>3. Unopened' /\ Sending' /\ Talking'
  BY <1>0 DEF Unopened, Opening, Sending, Talking, sending
<1>4. StreamIntact' /\ NoLeak'
  BY <1>0 DEF StreamIntact, NoLeak, sending
<1> QED
  BY <1>1, <1>2, <1>3, <1>4
-----------------------------------------------------------------------------

LEMMA NextInvariant == IInv /\ [Next]_vars => IInv'
<1> SUFFICES ASSUME IInv, [Next]_vars PROVE IInv'
  OBVIOUS
<1>1. CASE next_address \/ no_address_left \/ handshake \/ SSL_write
  BY <1>1, NextAddressStep, NoAddressLeftStep, HandshakeStep, WriteStep, WriteWantsStep, WriteFailsStep
     DEF SSL_write
<1>2. CASE tls_global_init \/ tls_connect \/ SSL_read \/ SSL_shutdown \/ SIGPIPE
  BY <1>2, GlobalInitStep, ConnectStep, ReadStep, ShutdownStep, SigpipeStep
<1>3. ASSUME NEW c \in Conns,
             \/ \E b \in Bufs : tls_send(c, b)
             \/ \E n \in 1 .. MaxPeer : tls_recv(c, n)
             \/ tls_close(c) \/ peer_acts(c)
      PROVE  IInv'
  BY <1>3, SendStep, CallStep, PeerStep
<1>4. CASE UNCHANGED vars
  <2>1. TypeOK'
    BY <1>4, SameTypes DEF vars, connecting, data, IInv, TypeOK, HandleType
  <2> QED
    BY <2>1, <1>4 DEF vars, connecting, sending, data, IInv, Unopened, Opening, Sending, Talking,
                      StreamIntact, NoLeak
<1> QED
  BY <1>1, <1>2, <1>3, <1>4 DEF Next

\* All of the above hold in every state the TLS client reaches.
THEOREM Invariance == Spec => []IInv
  BY InitInvariant, NextInvariant, PTL DEF Spec

\* The wire carries exactly what tls_send was given, in order and once, for every
\* way in which SSL_write cuts, repeats and refuses the writes.
THEOREM BytesArriveOnce == Spec => []StreamIntact
<1>1. IInv => StreamIntact
  BY DEF IInv
<1> QED
  BY <1>1, Invariance, PTL

\* No socket, context or session outlives its handle, however many addresses a host
\* has and whichever of them fail.
THEOREM ResourcesGivenBack == Spec => []NoLeak
<1>1. IInv => NoLeak
  BY DEF IInv
<1> QED
  BY <1>1, Invariance, PTL
=============================================================================
