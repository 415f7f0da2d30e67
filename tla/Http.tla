-------------------------------- MODULE Http --------------------------------
(***************************************************************************)
(* One call of http() in runtime/src/runtime.c after the request is sent:   *)
(* the loop that receives the answer into the buffer and parses status      *)
(* line, headers and body as bytes arrive.  TCP may split the answer        *)
(* anywhere, and the connection may fail before any recv().                 *)
(*                                                                         *)
(* A buffer cell holds a symbol: a line-break byte, ':' or ' ', or a token  *)
(* that stands for a run of other bytes (a header name, a value).  Indices  *)
(* are zero-based as in the code: response[i] is cell i.  A recv() that     *)
(* EINTR interrupts is retried and changes nothing: a stuttering step.      *)
(***************************************************************************)
EXTENDS Integers, Sequences

CONSTANTS RecvBufSize,   \* recv_buf_size
          Slack,         \* free cells the caller leaves behind the whole answer
          Statuses,      \* status lines the service may send
          HeaderLists,   \* sequences of header kinds
          Bodies,        \* response bodies
          Numeral        \* Numeral[n + 1]: the token for the number n

CR == "\r"
LF == "\n"
COLON == ":"
NULL == -1

HeaderKinds == {"length", "id", "arn"}

ASSUME HttpAssumption ==
    /\ RecvBufSize \in Nat /\ Slack \in Nat
    /\ Statuses \subseteq {"ok", "gone1.0", "gone1.1", "bareLF", "blank"}
    /\ HeaderLists \subseteq Seq(HeaderKinds)
    /\ Bodies \subseteq Seq(STRING) /\ \A b \in Bodies : Len(b) < Len(Numeral)
    /\ Numeral \in Seq(STRING)
    /\ \A k \in DOMAIN Numeral : Numeral[k] \notin {CR, LF, COLON}
    /\ \A k, l \in DOMAIN Numeral : Numeral[k] = Numeral[l] => k = l

VARIABLES
    answer,               \* what the service sends, as a structured value
    total_bytes_received, remain, content_length,
    parse_point, line_start, delimiter, body_start,
    awsRequestId,         \* first cell and length of the id, or NULL data
    midway,               \* recv() returned but the iteration has not parsed yet
    outcome,              \* "running", "returned", "exit0" or "fatal"
    broken                \* history: a recv() returned 0 or an error

parser == <<line_start, delimiter, body_start, content_length, awsRequestId>>
vars == <<answer, total_bytes_received, remain, parse_point, parser, midway,
          outcome, broken>>

-----------------------------------------------------------------------------
(* The service's side: how an answer looks on the wire.                      *)

StatusLine(status) ==
    CASE status = "ok"        -> <<"HTTP/1.1", " ", "200", CR, LF>>
      [] status = "gone1.0"   -> <<"HTTP/1.0", " ", "410", CR, LF>>
      [] status = "gone1.1"   -> <<"HTTP/1.1", " ", "410", CR, LF>>
      [] status = "bareLF"    -> <<"HTTP/1.1", " ", "200", LF>>
      [] status = "blank"     -> <<CR, LF>>

\* The ARN header has colons in its value.
HeaderLine(h, body) ==
    CASE h = "length" -> <<"Content-Length", COLON, " ", Numeral[Len(body) + 1], CR, LF>>
      [] h = "id"     -> <<"Lambda-Runtime-Aws-Request-Id", COLON, " ", "uuid", CR, LF>>
      [] h = "arn"    -> <<"Lambda-Runtime-Invoked-Function-Arn", COLON, " ",
                           "arn", COLON, "name", CR, LF>>

\* HeaderLines(a)[n]: the first n of them.
HeaderLines(a) ==
    LET lines[n \in 0 .. Len(a.headers)] ==
            IF n = 0 THEN <<>> ELSE lines[n - 1] \o HeaderLine(a.headers[n], a.body)
    IN  lines

Wire(a) == StatusLine(a.status) \o HeaderLines(a)[Len(a.headers)] \o <<CR, LF>> \o a.body

Answers == {a \in [status: Statuses, headers: HeaderLists, body: Bodies] :
               Len(Wire(a)) + Slack <= RecvBufSize}

-----------------------------------------------------------------------------

response(i) == Wire(answer)[i + 1]

\* Cells i .. j - 1.
Cells(i, j) == SubSeq(Wire(answer), i + 1, j)

Init ==
    /\ answer \in Answers
    /\ total_bytes_received = 0
    /\ remain = RecvBufSize
    /\ content_length = -1
    /\ parse_point = 0 /\ line_start = 0
    /\ delimiter = NULL /\ body_start = NULL
    /\ awsRequestId = [data |-> NULL, len |-> 0]
    /\ midway = FALSE
    /\ outcome = "running"
    /\ broken = FALSE

\* The loop reads on: there is room, and every received cell is parsed.
Waiting ==
    /\ ~ midway /\ remain # 0
    /\ parse_point < RecvBufSize
    /\ parse_point >= total_bytes_received

\* Body bytes are counted and skipped, header bytes are parsed in the same iteration.
recv(n) ==
    /\ Waiting
    /\ total_bytes_received + n <= Len(Wire(answer))
    /\ total_bytes_received' = total_bytes_received + n
    /\ remain' = remain - n
    /\ IF body_start # NULL
       THEN parse_point' = parse_point + n /\ UNCHANGED midway
       ELSE midway' = TRUE /\ UNCHANGED parse_point
    /\ UNCHANGED <<answer, parser, outcome, broken>>

\* The peer closed, the socket failed or SO_RCVTIMEO expired: FATAL.
recv_fails ==
    /\ Waiting
    /\ broken' = TRUE
    /\ outcome' = "fatal"
    /\ UNCHANGED <<answer, total_bytes_received, remain, parse_point, parser, midway>>

\* Seeded fault: <= in place of <, a cell is parsed before it is received.
Parsing_off_by_one ==
    \/ midway
    \/ remain # 0 /\ parse_point < RecvBufSize /\ parse_point <= total_bytes_received

\* A cell is due for parsing.
Parsing ==
    \/ midway
    \/ remain # 0 /\ parse_point < RecvBufSize /\ parse_point < total_bytes_received

\* FATALs of the loop: buffer overflow and malformed line breaks.
overflow == ~ midway /\ remain # 0 /\ parse_point >= RecvBufSize
EndOfHeaders == parse_point >= 2 /\ response(parse_point - 2) = LF
bad_line_break ==
    /\ Parsing
    /\ response(parse_point) = LF
    /\ \/ parse_point < 3
       \/ response(parse_point - 1) # CR
       \/ EndOfHeaders /\ content_length < 0

fatal ==
    /\ overflow \/ bad_line_break
    /\ outcome' = "fatal"
    /\ UNCHANGED <<answer, total_bytes_received, remain, parse_point, parser, midway, broken>>

\* Any cell but a line break; the LAST colon of a line is its delimiter.
parse_cell ==
    /\ Parsing
    /\ response(parse_point) # LF
    /\ delimiter' = IF response(parse_point) = COLON THEN parse_point ELSE delimiter
    /\ parse_point' = parse_point + 1
    /\ midway' = FALSE
    /\ UNCHANGED <<answer, total_bytes_received, remain, line_start, body_start,
                   content_length, awsRequestId, outcome, broken>>

LineBreak == Parsing /\ response(parse_point) = LF /\ ~ bad_line_break

\* Seeded fault: the bytes of the body that came with the headers are not counted.
end_of_headers_forgets_received ==
    /\ LineBreak /\ EndOfHeaders
    /\ body_start' = parse_point + 1
    /\ remain' = content_length
    /\ parse_point' = total_bytes_received
    /\ midway' = FALSE
    /\ UNCHANGED <<answer, total_bytes_received, line_start, delimiter,
                   content_length, awsRequestId, outcome, broken>>

\* Seeded fault: the line break itself is counted as a byte of the body.
end_of_headers_off_by_one ==
    /\ LineBreak /\ EndOfHeaders
    /\ body_start' = parse_point + 1
    /\ remain' = content_length - (total_bytes_received - parse_point)
    /\ parse_point' = total_bytes_received
    /\ midway' = FALSE
    /\ UNCHANGED <<answer, total_bytes_received, line_start, delimiter,
                   content_length, awsRequestId, outcome, broken>>

\* Seeded fault: parse_point stays on the line break.
end_of_headers_stays ==
    /\ LineBreak /\ EndOfHeaders
    /\ body_start' = parse_point + 1
    /\ remain' = content_length - (total_bytes_received - (parse_point + 1))
    /\ UNCHANGED <<answer, total_bytes_received, parse_point, midway, line_start,
                   delimiter, content_length, awsRequestId, outcome, broken>>

\* Blank line: what is left to receive is the rest of the body.
end_of_headers ==
    /\ LineBreak /\ EndOfHeaders
    /\ body_start' = parse_point + 1
    /\ remain' = content_length - (total_bytes_received - (parse_point + 1))
    /\ parse_point' = total_bytes_received
    /\ midway' = FALSE
    /\ UNCHANGED <<answer, total_bytes_received, line_start, delimiter,
                   content_length, awsRequestId, outcome, broken>>

Shutdown == delimiter = NULL /\ Cells(line_start, line_start + 3) = <<"HTTP/1.0", " ", "410">>

\* HTTP/1.0 410: exit(0).
shutdown ==
    /\ LineBreak /\ ~ EndOfHeaders /\ Shutdown
    /\ outcome' = "exit0"
    /\ UNCHANGED <<answer, total_bytes_received, remain, parse_point, parser, midway, broken>>

\* strncmp(line_start, name ":", delimiter - line_start) = 0
HeaderIs(name) ==
    LET line == Cells(line_start, delimiter)
        lit  == <<name, COLON>>
    IN  delimiter # NULL /\ Len(line) <= Len(lit) /\ line = SubSeq(lit, 1, Len(line))

\* atoi: 0 for what is not a number
atoi(sym) == IF \E k \in DOMAIN Numeral : Numeral[k] = sym
             THEN (CHOOSE k \in DOMAIN Numeral : Numeral[k] = sym) - 1
             ELSE 0

\* End of a status or header line.
end_of_line ==
    /\ LineBreak /\ ~ EndOfHeaders /\ ~ Shutdown
    /\ content_length' = IF HeaderIs("Content-Length") THEN atoi(response(delimiter + 2))
                         ELSE content_length
    /\ awsRequestId' = IF HeaderIs("Lambda-Runtime-Aws-Request-Id")
                       THEN [data |-> delimiter + 2,
                             len  |-> parse_point - (delimiter + 2) - 1]
                       ELSE awsRequestId
    /\ line_start' = parse_point + 1
    /\ delimiter' = NULL
    /\ parse_point' = parse_point + 1
    /\ midway' = FALSE
    /\ UNCHANGED <<answer, total_bytes_received, remain, body_start, outcome, broken>>

\* while (remain) ends; body and buffer length are set and the socket closed.
return ==
    /\ ~ midway /\ remain = 0
    /\ outcome' = "returned"
    /\ UNCHANGED <<answer, total_bytes_received, remain, parse_point, parser, midway, broken>>

Next ==
    /\ outcome = "running"
    /\ \/ \E n \in 1 .. remain : recv(n)
       \/ recv_fails
       \/ fatal
       \/ parse_cell
       \/ end_of_headers
       \/ shutdown
       \/ end_of_line
       \/ return

\* The process runs, and a blocked recv() ends: the service answers or closes,
\* or SO_RCVTIMEO expires.
Spec == Init /\ [][Next]_vars /\ WF_vars(Next)

-----------------------------------------------------------------------------
(* What the caller finds in rt->hb.                                          *)

BodyReceived == IF body_start = NULL THEN <<>> ELSE Cells(body_start, total_bytes_received)

IdReceived == IF awsRequestId.data = NULL THEN <<>>
              ELSE Cells(awsRequestId.data, awsRequestId.data + awsRequestId.len)

SentHeaders == {answer.headers[k] : k \in DOMAIN answer.headers}

TypeOK ==
    /\ answer \in Answers
    /\ total_bytes_received \in 0 .. RecvBufSize
    /\ remain \in 0 .. RecvBufSize
    /\ content_length \in -1 .. RecvBufSize
    /\ parse_point \in 0 .. RecvBufSize
    /\ line_start \in 0 .. RecvBufSize
    /\ delimiter \in {NULL} \cup 0 .. RecvBufSize
    /\ body_start \in {NULL} \cup 0 .. RecvBufSize
    /\ awsRequestId.data \in {NULL} \cup 0 .. RecvBufSize
    /\ awsRequestId.len \in 0 .. RecvBufSize
    /\ midway \in BOOLEAN /\ broken \in BOOLEAN
    /\ outcome \in {"running", "returned", "exit0", "fatal"}

\* What http() reports does not depend on how TCP cut the answer up: it returns
\* only with the complete body and the id the service sent (header order, colons
\* in values and line breaks in the body notwithstanding), exits only for a status
\* line HTTP/1.0 410, and dies only on a malformed answer or a failed connection.
\* What it does with a 410 in an HTTP/1.1 answer is GoneExits, and what becomes of
\* an answer that fills the buffer is ExactFitIsRead.
SegmentationIndependent ==
    /\ outcome = "returned" =>
          /\ answer.status \in {"ok", "gone1.1"} /\ "length" \in SentHeaders
          /\ BodyReceived = answer.body
          /\ IdReceived = IF "id" \in SentHeaders THEN <<"uuid">> ELSE <<>>
    /\ outcome = "exit0" => answer.status = "gone1.0"
    /\ outcome = "fatal" =>
          broken \/ answer.status \in {"bareLF", "blank"} \/ "length" \notin SentHeaders

\* The parser never looks at a cell that recv() has not filled (stale bytes of
\* the previous answer are still there) and stays inside the buffer.
ParsesReceivedBytes ==
    outcome = "running" /\ Parsing => parse_point < total_bytes_received

\* http() ends: no split of the answer makes the loop wait for bytes the service
\* will not send, or spin on remain.
Terminates == <>(outcome # "running")

\* Without a connection failure the answer is used: the call never dies waiting
\* for more bytes of an answer that has arrived in full.
NeverStarves == outcome = "running" /\ Waiting => total_bytes_received < Len(Wire(answer))

\* The comment inside http() on a 410: "Lambda is shutting down the container.
\* Exit cleanly": such an answer is never handed to the caller as an invocation.
GoneExits == outcome = "returned" => answer.status \notin {"gone1.0", "gone1.1"}

\* The comment above http() on recv_buf_size: "it must be at least as large as the
\* response headers + body combined": an answer that fits, were it exactly, is read.
ExactFitIsRead ==
    outcome = "returned" /\ answer.status = "ok" /\ "length" \in SentHeaders =>
        body_start # NULL /\ BodyReceived = answer.body

\* The two comments together, about the answers http() returns with.
CommentsHold == GoneExits /\ ExactFitIsRead
=============================================================================
