------------------------------ MODULE Runtime ------------------------------
(***************************************************************************)
(* The life of a bootstrap process and the Lambda service it talks to:      *)
(* start-up (_start of the shim), the event loop (lambda_event_loop, or     *)
(* start_lambda for a handler in C) and the calls of runtime.c it makes.    *)
(* An http() exchange is a request on a fresh connection, then the          *)
(* service's answer or a failure of the connection at any point; module     *)
(* Http justifies taking the answer as a whole.                             *)
(*                                                                         *)
(* The Lambda service is external: it hands out invocations, may decide to  *)
(* shut an idle process down with 410, ends an invocation that overruns     *)
(* and then kills the process, and starts a new process when one is gone.   *)
(***************************************************************************)
EXTENDS Integers, FiniteSets

CONSTANTS Ids,          \* invocations; also stands for their events
          NoInv,        \* not an invocation: a NULL slice
          Loops,        \* the event loops to run: "shim", "start_lambda"
          Need,         \* Need[i]: request memory the handler allocates for i
          ReqCapacity,  \* size of req_arena
          MaxStarts     \* bound: processes the service starts

ASSUME RuntimeAssumption ==
    /\ NoInv \notin Ids
    /\ Loops \subseteq {"shim", "start_lambda"}
    /\ Need \in [Ids -> Nat]
    /\ ReqCapacity \in Nat
    /\ MaxStarts \in Nat

VARIABLES
    loop,          \* the event loop of the deployed binary
    \* the process
    pc,            \* where the process is
    awsRequestId,  \* hb->awsRequestId: the id parsed from the last answer
    body,          \* hb->body: the event in the receive buffer
    response,      \* response_buffer: the event its content was computed from
    req_used,      \* cursor - base of req_arena
    \* the open connection
    request,       \* [op, id, payload] sent by http()
    answer,        \* what the service sent back
    \* the service
    phase, result, \* as in Invocations
    starts, killing,
    \* history
    failed,        \* invocations whose handler reported or hit a failure
    ended          \* why the process last ended

process == <<pc, awsRequestId, body, response, req_used>>
connection == <<request, answer>>
service == <<phase, result, starts, killing>>
vars == <<loop, process, connection, service, failed, ended>>

NoRequest == [op |-> "none", id |-> NoInv, payload |-> NoInv]
NoAnswer == [kind |-> "none", id |-> NoInv]

Running == {i \in Ids : phase[i] = "running"}

Init ==
    /\ loop \in Loops
    /\ pc = "down"
    /\ awsRequestId = NoInv /\ body = NoInv /\ response = NoInv
    /\ req_used = 0
    /\ request = NoRequest /\ answer = NoAnswer
    /\ phase = [i \in Ids |-> "pending"]
    /\ result = [i \in Ids |-> NoInv]
    /\ starts = 0 /\ killing = FALSE
    /\ failed = {} /\ ended = "no"

-----------------------------------------------------------------------------
(* The process.                                                              *)

exit(why) ==
    /\ pc' = "exited"
    /\ ended' = why

\* _start: both arenas, lambpie_init, freeze; each of them may exit(1).  The memory
\* of the process is new.
start ==
    /\ pc = "boot"
    /\ \/ pc' = "runtime_init" /\ UNCHANGED ended
       \/ loop = "shim" /\ exit("init_failed")
    /\ awsRequestId' = NoInv /\ body' = NoInv /\ response' = NoInv
    /\ req_used' = 0
    /\ UNCHANGED <<connection, service, failed>>

\* FATAL without AWS_LAMBDA_RUNTIME_API, an address or memory for the buffers.
runtime_init ==
    /\ pc = "runtime_init"
    /\ \/ pc' = "next" /\ UNCHANGED ended
       \/ exit("init_failed")
    /\ UNCHANGED <<awsRequestId, body, response, req_used, connection, service, failed>>

\* Seeded fault: http() keeps the request id of the previous answer.
http_send_keeps_id(op, id, payload) ==
    /\ request' = [op |-> op, id |-> id, payload |-> payload]
    /\ answer' = NoAnswer
    /\ body' = NoInv
    /\ UNCHANGED awsRequestId

\* http() sends, then forgets what the previous answer left in hb.
http_send(op, id, payload) ==
    /\ request' = [op |-> op, id |-> id, payload |-> payload]
    /\ answer' = NoAnswer
    /\ awsRequestId' = NoInv
    /\ body' = NoInv

\* Seeded fault: the request is not sent before the answer is awaited.
get_next_request_sends_nothing ==
    /\ pc = "next"
    /\ pc' = "polling"
    /\ UNCHANGED <<connection, awsRequestId, body, response, req_used, service, failed,
                   ended>>

\* get_next_request: GET /next, no receive timeout
get_next_request ==
    /\ pc = "next"
    /\ pc' = "polling"
    /\ http_send("next", NoInv, NoInv)
    /\ UNCHANGED <<response, req_used, service, failed, ended>>

\* Seeded fault: an answer without an id is ignored and the wait goes on.
next_answered_waits_for_id ==
    /\ pc = "polling" /\ answer.kind = "invocation"
    /\ awsRequestId' = answer.id
    /\ body' = answer.id
    /\ pc' = "handle"
    /\ UNCHANGED <<response, req_used, connection, service, failed, ended>>

\* http() returned to get_next_request: the id is set only if its header came,
\* and without it the process dies.
next_answered ==
    /\ pc = "polling" /\ answer.kind \in {"invocation", "no_id"}
    /\ awsRequestId' = IF answer.kind = "invocation" THEN answer.id ELSE awsRequestId
    /\ body' = answer.id
    /\ IF awsRequestId' = NoInv THEN exit("fatal") ELSE pc' = "handle" /\ UNCHANGED ended
    /\ UNCHANGED <<response, req_used, connection, service, failed>>

\* 410: exit(0) inside http(), for any request
shutdown ==
    /\ pc \in {"polling", "posting"} /\ answer.kind = "gone"
    /\ exit("shutdown")
    /\ UNCHANGED <<awsRequestId, body, response, req_used, connection, service, failed>>

\* Seeded fault: the request arena is not reset.
arena_reset_skipped(used) == used

\* arena_reset(&req_arena): what is in use afterwards
arena_reset(used) == 0

\* The closure of the shim: lambpie_handle, set_position, arena_reset.
shim_handle ==
    /\ pc = "handle" /\ loop = "shim"
    /\ req_used + Need[body] <= ReqCapacity
    /\ response' = body
    /\ req_used' = arena_reset(req_used + Need[body])
    /\ pc' = "respond"
    /\ UNCHANGED <<awsRequestId, body, connection, service, failed, ended>>

\* The handler does not return: in compiled code arena_alloc finds the arena
\* exhausted or json_get_int calls exit(1); any handler may fault.
handle_dies ==
    /\ pc = "handle"
    /\ \/ loop = "shim" /\ req_used + Need[body] > ReqCapacity /\ exit("exhausted")
       \/ exit("crashed")
    /\ failed' = failed \cup {body}
    /\ UNCHANGED <<awsRequestId, body, response, req_used, connection, service>>

\* Seeded fault: the sign of the length is not looked at, and what the response
\* buffer holds is sent.
c_handle_ignores_sign ==
    /\ pc = "handle" /\ loop = "start_lambda"
    /\ \/ response' = body /\ UNCHANGED failed
       \/ UNCHANGED response /\ failed' = failed \cup {body}
    /\ pc' = "respond"
    /\ UNCHANGED <<awsRequestId, body, req_used, connection, service, ended>>

\* start_lambda: the handler in C returns a length, or a negative value.
c_handle ==
    /\ pc = "handle" /\ loop = "start_lambda"
    /\ \/ /\ response' = body
          /\ pc' = "respond"
          /\ UNCHANGED failed
       \/ /\ pc' = "report"
          /\ failed' = failed \cup {body}
          /\ UNCHANGED response
    /\ UNCHANGED <<awsRequestId, body, req_used, connection, service, ended>>

\* The path is built from hb->awsRequestId before http() clears it.
send_response ==
    /\ pc = "respond"
    /\ pc' = "posting"
    /\ http_send("response", awsRequestId, response)
    /\ UNCHANGED <<response, req_used, service, failed, ended>>

\* FATAL without a current request id
send_error_response ==
    /\ pc = "report"
    /\ IF awsRequestId = NoInv
       THEN exit("fatal") /\ UNCHANGED <<awsRequestId, body, connection>>
       ELSE pc' = "posting" /\ http_send("error", awsRequestId, NoInv) /\ UNCHANGED ended
    /\ UNCHANGED <<response, req_used, service, failed>>

\* The ACK came, whatever its status: the loop goes round.
post_answered ==
    /\ pc = "posting" /\ answer.kind = "ack"
    /\ pc' = "next"
    /\ UNCHANGED <<awsRequestId, body, response, req_used, connection, service, failed, ended>>

\* The connection cannot be made, breaks, or (POST only) stays silent for 30 s.
http_fails ==
    /\ pc \in {"polling", "posting"}
    /\ exit("fatal")
    /\ UNCHANGED <<awsRequestId, body, response, req_used, connection, service, failed>>

-----------------------------------------------------------------------------
(* The Lambda service (external).                                            *)

svc_start ==
    /\ pc = "down" /\ starts < MaxStarts
    /\ pc' = "boot"
    /\ starts' = starts + 1
    /\ UNCHANGED <<awsRequestId, body, response, req_used, connection, phase, result, killing,
                   failed, ended>>

\* Answers GET /next; an answer may lack the id header.
svc_next(i) ==
    /\ request.op = "next" /\ answer = NoAnswer /\ ~ killing
    /\ phase[i] = "pending" /\ Running = {}
    /\ phase' = [phase EXCEPT ![i] = "running"]
    /\ answer' \in {[kind |-> k, id |-> i] : k \in {"invocation", "no_id"}}
    /\ UNCHANGED <<process, request, result, starts, killing, failed, ended>>

svc_gone ==
    /\ request.op = "next" /\ answer = NoAnswer
    /\ answer' = [kind |-> "gone", id |-> NoInv]
    /\ UNCHANGED <<process, request, service, failed, ended>>

\* Takes a POST, even from a process that has given up on it; a POST for an
\* invocation that is over is refused, which http() does not look at.
svc_post ==
    /\ request.op \in {"response", "error"} /\ answer = NoAnswer
    /\ IF request.id \in Running
       THEN phase' = [phase EXCEPT ![request.id] =
                         IF request.op = "response" THEN "succeeded" ELSE "errored"]
       ELSE UNCHANGED phase
    /\ IF request.id \in Running /\ request.op = "response"
       THEN result' = [result EXCEPT ![request.id] = request.payload]
       ELSE UNCHANGED result
    /\ answer' = [kind |-> "ack", id |-> NoInv]
    /\ UNCHANGED <<process, request, starts, killing, failed, ended>>

\* The function's time limit: the invocation is over, the process will be killed.
svc_overrun(i) ==
    /\ phase[i] = "running" /\ ~ killing
    /\ phase' = [phase EXCEPT ![i] = "lost"]
    /\ killing' = TRUE
    /\ UNCHANGED <<process, connection, result, starts, failed, ended>>

svc_kill ==
    /\ killing /\ pc \notin {"down", "exited"}
    /\ exit("killed")
    /\ UNCHANGED <<awsRequestId, body, response, req_used, connection, service, failed>>

\* The service notices that the process is gone.
svc_reap ==
    /\ pc = "exited"
    /\ pc' = "down"
    /\ phase' = [i \in Ids |-> IF phase[i] = "running" THEN "lost" ELSE phase[i]]
    /\ request' = NoRequest /\ answer' = NoAnswer
    /\ killing' = FALSE
    /\ UNCHANGED <<awsRequestId, body, response, req_used, result, starts, failed, ended>>

-----------------------------------------------------------------------------

ProcessStep ==
    /\ \/ start \/ runtime_init \/ get_next_request \/ next_answered \/ shutdown
       \/ shim_handle \/ c_handle \/ handle_dies
       \/ send_response \/ send_error_response \/ post_answered
    /\ UNCHANGED loop

ServiceDuty ==
    /\ svc_start \/ (\E i \in Ids : svc_next(i)) \/ svc_post \/ svc_kill \/ svc_reap
    /\ UNCHANGED loop

Mishap ==
    /\ http_fails \/ svc_gone \/ (\E i \in Ids : svc_overrun(i))
    /\ UNCHANGED loop

Next == ProcessStep \/ ServiceDuty \/ Mishap

\* The process is scheduled and the handler terminates; the service answers what
\* it is asked, kills and reaps; a POST that is never answered times out.
\* Connection failures, shutdowns and overruns may or may not happen.
Fairness ==
    /\ WF_vars(ProcessStep)
    /\ WF_vars(ServiceDuty)
    /\ WF_vars(pc = "posting" /\ http_fails /\ UNCHANGED loop)

Spec == Init /\ [][Next]_vars /\ Fairness

-----------------------------------------------------------------------------

\* The values the variables take.
TypeOK ==
    /\ loop \in Loops
    /\ pc \in {"down", "boot", "runtime_init", "next", "polling", "handle", "respond",
               "report", "posting", "exited"}
    /\ {awsRequestId, body, response} \subseteq Ids \cup {NoInv}
    /\ req_used \in 0 .. ReqCapacity
    /\ request \in [op: {"none", "next", "response", "error"}, id: Ids \cup {NoInv},
                    payload: Ids \cup {NoInv}]
    /\ answer \in [kind: {"none", "invocation", "no_id", "gone", "ack"}, id: Ids \cup {NoInv}]
    /\ phase \in [Ids -> {"pending", "running", "succeeded", "errored", "lost"}]
    /\ result \in [Ids -> Ids \cup {NoInv}]
    /\ starts \in 0 .. MaxStarts /\ killing \in BOOLEAN
    /\ failed \subseteq Ids
    /\ ended \in {"no", "init_failed", "fatal", "shutdown", "exhausted", "crashed", "killed"}

\* Every invocation gets its own result, once, and its end is final, whatever the
\* process's deaths, late or refused POSTs and answers without an id.
Inv == INSTANCE Invocations
InvocationsSpec == Inv!Spec

\* No invocation dies of another's memory: lambpie_handle runs out of request
\* memory only if the invocation alone needs more than the arena holds.
ExhaustionIsOwn ==
    pc = "exited" /\ ended = "exhausted" => Need[body] > ReqCapacity

\* A handler that fails without dying is reported: its invocation never counts
\* as a success, and no later invocation is charged with the error.
FailureNotSuccess ==
    \A i \in Ids : (phase[i] = "succeeded" => i \notin failed)
                /\ (phase[i] = "errored" => i \in failed)

\* A POST in flight is for an invocation that has not been answered yet, and a
\* response was computed from its event: no id or response buffer of an earlier
\* exchange is used, although one hb serves them all and not every answer has an id.
PostsAreCurrent ==
    request.op \in {"response", "error"} /\ answer = NoAnswer =>
        /\ request.id \in Ids /\ phase[request.id] \in {"running", "lost"}
        /\ request.op = "response" => request.payload = request.id

\* An invocation that was handed out ends: it is answered or the process is lost.
EveryInvocationEnds == \A i \in Ids : phase[i] = "running" ~> phase[i] # "running"

\* The loop keeps serving: a pending invocation is handed out as long as the
\* service has a process to hand it to.
PendingIsServed ==
    \A i \in Ids : phase[i] = "pending" ~>
                       (phase[i] # "pending" \/ (starts = MaxStarts /\ pc = "down"))
=============================================================================
