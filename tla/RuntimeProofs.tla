--------------------------- MODULE RuntimeProofs ---------------------------
(***************************************************************************)
(* Proofs about Runtime for every set of invocations, every memory need and *)
(* arena size, any number of processes and both event loops.                *)
(***************************************************************************)
EXTENDS Runtime, TLAPS

-----------------------------------------------------------------------------
(* The inductive invariant.  The properties speak of the moment a POST is    *)
(* taken or a process has died; that they hold then is decided by what the   *)
(* process had in hb, in its buffers and in its arena all along.             *)

Unanswered == {"running", "lost"}

\* Nothing of an invocation is left in the request arena when the next one begins.
ArenaEmpty == req_used = 0

\* While the poll is out, hb has no id, and the answer brings an invocation that no
\* handler has touched.
PollIsFresh ==
    pc = "polling" =>
        /\ awsRequestId = NoInv
        /\ answer.kind = "invocation" =>
              answer.id \in Ids \ failed /\ phase[answer.id] \in Unanswered

\* From the answer to the POST, hb holds one unanswered invocation, the response
\* buffer follows it once the handler is through, and failed tells which way it went.
HandlesCurrent ==
    pc \in {"handle", "respond", "report"} =>
        /\ awsRequestId \in Ids /\ body = awsRequestId
        /\ phase[awsRequestId] \in Unanswered
        /\ awsRequestId \in failed <=> pc = "report"
        /\ pc = "respond" => response = awsRequestId

\* A POST the service has not taken yet, perhaps of a process that is gone by now.
PostIsOwn ==
    request.op \in {"response", "error"} /\ answer = NoAnswer =>
        /\ pc \in {"posting", "exited"}
        /\ request.id \in Ids /\ phase[request.id] \in Unanswered
        /\ request.op = "response" => request.payload = request.id
        /\ request.id \in failed <=> request.op = "error"

PendingUntouched == \A i \in Ids : phase[i] = "pending" => i \notin failed

OneRunning == \A i, j \in Running : i = j

IInv ==
    /\ TypeOK /\ ArenaEmpty /\ PollIsFresh /\ HandlesCurrent /\ PostIsOwn
    /\ PendingUntouched /\ OneRunning
    /\ ExhaustionIsOwn /\ FailureNotSuccess
-----------------------------------------------------------------------------
(* Every step keeps the invariant.                                           *)

LEMMA InitIInv == Init => IInv
<1> SUFFICES ASSUME Init PROVE IInv
  OBVIOUS
<1> USE RuntimeAssumption DEF Init, NoRequest, NoAnswer
<1>1. TypeOK
  <2>1. /\ request \in [op: {"none", "next", "response", "error"}, id: Ids \cup {NoInv},
                        payload: Ids \cup {NoInv}]
        /\ answer \in [kind: {"none", "invocation", "no_id", "gone", "ack"}, id: Ids \cup {NoInv}]
    OBVIOUS
  <2>2. req_used \in 0 .. ReqCapacity /\ starts \in 0 .. MaxStarts
    OBVIOUS
  <2>3. killing \in BOOLEAN
    BY Zenon
  <2> QED
    BY <2>1, <2>2, <2>3 DEF TypeOK
<1>2. ArenaEmpty /\ PollIsFresh /\ HandlesCurrent /\ PostIsOwn
  BY DEF ArenaEmpty, PollIsFresh, HandlesCurrent, PostIsOwn
<1>3. PendingUntouched /\ OneRunning /\ ExhaustionIsOwn /\ FailureNotSuccess
  BY DEF PendingUntouched, OneRunning, Running, ExhaustionIsOwn, FailureNotSuccess
<1> QED
  BY <1>1, <1>2, <1>3 DEF IInv

\* Start-up, and the ways a process ends outside the handler: nothing of the service
\* changes, and the process leaves the states in which it holds an invocation.
LEMMA LifeCycleStep ==
    ASSUME IInv, UNCHANGED loop,
           start \/ runtime_init \/ shutdown \/ http_fails \/ svc_start \/ svc_kill
    PROVE  IInv'
<1> USE RuntimeAssumption
    DEF IInv, TypeOK, ArenaEmpty, PollIsFresh, HandlesCurrent, PostIsOwn, PendingUntouched,
        OneRunning, ExhaustionIsOwn, FailureNotSuccess, Running, connection, service
<1>1. CASE start
  BY <1>1 DEF start, exit
<1>2. CASE runtime_init
  BY <1>2 DEF runtime_init, exit
<1>3. CASE shutdown \/ http_fails \/ svc_kill
  BY <1>3 DEF shutdown, http_fails, svc_kill, exit
<1>4. CASE svc_start
  BY <1>4 DEF svc_start
<1> QED
  BY <1>1, <1>2, <1>3, <1>4

\* The poll and its answer: the id in hb is that of the answer, or there is none
\* because http() has cleared it before.
LEMMA PollStep ==
    ASSUME IInv, UNCHANGED loop, get_next_request \/ next_answered
    PROVE  IInv'
<1> USE RuntimeAssumption DEF IInv, TypeOK, connection, service
<1>1. CASE get_next_request
  <2> USE <1>1 DEF get_next_request, http_send, NoAnswer
  <2>1. TypeOK' /\ ArenaEmpty' /\ PendingUntouched' /\ OneRunning'
    BY DEF ArenaEmpty, PendingUntouched, OneRunning, Running
  <2>2. PollIsFresh' /\ HandlesCurrent' /\ PostIsOwn'
    BY DEF PollIsFresh, HandlesCurrent, PostIsOwn
  <2>3. ExhaustionIsOwn' /\ FailureNotSuccess'
    BY DEF ExhaustionIsOwn, FailureNotSuccess
  <2> QED
    BY <2>1, <2>2, <2>3
<1>2. CASE next_answered
  <2> USE <1>2 DEF next_answered, exit
  <2>1. TypeOK' /\ ArenaEmpty' /\ PendingUntouched' /\ OneRunning'
    BY DEF ArenaEmpty, PendingUntouched, OneRunning, Running
  <2>2. HandlesCurrent'
    BY DEF PollIsFresh, HandlesCurrent, Unanswered
  <2>3. PollIsFresh' /\ PostIsOwn'
    BY DEF PollIsFresh, PostIsOwn
  <2>4. ExhaustionIsOwn' /\ FailureNotSuccess'
    BY DEF ExhaustionIsOwn, FailureNotSuccess
  <2> QED
    BY <2>1, <2>2, <2>3, <2>4
<1> QED
  BY <1>1, <1>2

\* The handler returns, fails or dies.  Its invocation is neither pending nor
\* answered, so marking it failed contradicts nothing the service has recorded.
LEMMA HandleStep ==
    ASSUME IInv, UNCHANGED loop, shim_handle \/ c_handle \/ handle_dies
    PROVE  IInv'
<1> USE RuntimeAssumption DEF IInv, TypeOK, HandlesCurrent, connection, service
<1>1. pc = "handle" /\ awsRequestId \in Ids \ failed /\ body = awsRequestId
      /\ phase[body] \in Unanswered
  BY DEF shim_handle, c_handle, handle_dies
<1>2. CASE shim_handle
  <2> USE <1>1, <1>2 DEF shim_handle, arena_reset
  <2>1. TypeOK' /\ ArenaEmpty' /\ PendingUntouched' /\ OneRunning'
    BY DEF ArenaEmpty, PendingUntouched, OneRunning, Running
  <2>2. PollIsFresh' /\ HandlesCurrent' /\ PostIsOwn'
    BY DEF PollIsFresh, PostIsOwn
  <2>3. ExhaustionIsOwn' /\ FailureNotSuccess'
    BY DEF ExhaustionIsOwn, FailureNotSuccess
  <2> QED
    BY <2>1, <2>2, <2>3
<1>3. CASE c_handle
  <2> USE <1>1, <1>3 DEF c_handle
  <2>1. TypeOK' /\ ArenaEmpty' /\ OneRunning'
    BY DEF ArenaEmpty, OneRunning, Running
  <2>2. PollIsFresh' /\ HandlesCurrent' /\ PostIsOwn'
    BY DEF PollIsFresh, PostIsOwn
  <2>3. PendingUntouched' /\ ExhaustionIsOwn' /\ FailureNotSuccess'
    BY DEF PendingUntouched, ExhaustionIsOwn, FailureNotSuccess, Unanswered
  <2> QED
    BY <2>1, <2>2, <2>3
<1>4. CASE handle_dies
  <2> USE <1>1, <1>4 DEF handle_dies, exit
  <2>1. TypeOK' /\ ArenaEmpty' /\ OneRunning'
    BY DEF ArenaEmpty, OneRunning, Running
  <2>2. PollIsFresh' /\ HandlesCurrent' /\ PostIsOwn'
    BY DEF PollIsFresh, PostIsOwn
  <2>3. ExhaustionIsOwn'
    BY DEF ArenaEmpty, ExhaustionIsOwn
  <2>4. PendingUntouched' /\ FailureNotSuccess'
    BY DEF PendingUntouched, FailureNotSuccess, Unanswered
  <2> QED
    BY <2>1, <2>2, <2>3, <2>4
<1> QED
  BY <1>2, <1>3, <1>4

\* A POST is sent for the invocation in hb, and its answer ends the turn.
LEMMA PostStep ==
    ASSUME IInv, UNCHANGED loop, send_response \/ send_error_response \/ post_answered
    PROVE  IInv'
<1> USE RuntimeAssumption DEF IInv, TypeOK, connection, service
<1>1. CASE send_response \/ send_error_response
  <2> USE <1>1 DEF send_response, send_error_response, http_send, exit, NoAnswer
  <2>1. TypeOK' /\ ArenaEmpty' /\ PendingUntouched' /\ OneRunning'
    BY DEF ArenaEmpty, PendingUntouched, OneRunning, Running
  <2>2. PostIsOwn'
    BY DEF HandlesCurrent, PostIsOwn
  <2>3. PollIsFresh' /\ HandlesCurrent' /\ ExhaustionIsOwn' /\ FailureNotSuccess'
    BY DEF PollIsFresh, HandlesCurrent, ExhaustionIsOwn, FailureNotSuccess
  <2> QED
    BY <2>1, <2>2, <2>3
<1>2. CASE post_answered
  BY <1>2 DEF post_answered, NoAnswer, ArenaEmpty, PollIsFresh, HandlesCurrent, PostIsOwn,
     PendingUntouched, OneRunning, Running, ExhaustionIsOwn, FailureNotSuccess
<1> QED
  BY <1>1, <1>2

\* The service hands out an invocation, or a 410.
LEMMA SvcNextStep ==
    ASSUME IInv, UNCHANGED loop, svc_gone \/ \E i \in Ids : svc_next(i)
    PROVE  IInv'
<1> USE RuntimeAssumption DEF IInv, TypeOK, NoAnswer, process, service
<1>1. CASE svc_gone
  BY <1>1 DEF svc_gone, ArenaEmpty, PollIsFresh, HandlesCurrent, PostIsOwn,
     PendingUntouched, OneRunning, Running, ExhaustionIsOwn, FailureNotSuccess
<1>2. ASSUME NEW i \in Ids, svc_next(i) PROVE IInv'
  <2> USE <1>2 DEF svc_next, Running
  <2>1. TypeOK' /\ ArenaEmpty' /\ ExhaustionIsOwn'
    BY DEF ArenaEmpty, ExhaustionIsOwn
  <2>2. PollIsFresh' /\ HandlesCurrent' /\ PostIsOwn'
    BY DEF PollIsFresh, HandlesCurrent, PostIsOwn, PendingUntouched, Unanswered
  <2>3. PendingUntouched' /\ OneRunning' /\ FailureNotSuccess'
    BY DEF PendingUntouched, OneRunning, FailureNotSuccess
  <2> QED
    BY <2>1, <2>2, <2>3
<1> QED
  BY <1>1, <1>2

\* The service takes a POST, gives an invocation up, or notices that the process is gone.
LEMMA SvcEndStep ==
    ASSUME IInv, UNCHANGED loop, svc_post \/ svc_reap \/ \E i \in Ids : svc_overrun(i)
    PROVE  IInv'
<1> USE RuntimeAssumption DEF IInv, TypeOK, Running, NoAnswer, NoRequest, process, connection
<1>1. CASE svc_post
  <2> USE <1>1 DEF svc_post
  <2>1. TypeOK' /\ ArenaEmpty' /\ ExhaustionIsOwn'
    BY DEF ArenaEmpty, ExhaustionIsOwn
  <2>2. PollIsFresh' /\ HandlesCurrent' /\ PostIsOwn'
    BY DEF PollIsFresh, HandlesCurrent, PostIsOwn
  <2>3. PendingUntouched' /\ OneRunning'
    BY DEF PendingUntouched, OneRunning
  <2>4. FailureNotSuccess'
    BY DEF PostIsOwn, FailureNotSuccess
  <2> QED
    BY <2>1, <2>2, <2>3, <2>4
<1>2. CASE svc_reap
  <2> USE <1>2 DEF svc_reap
  <2>1. TypeOK' /\ ArenaEmpty' /\ ExhaustionIsOwn'
    BY DEF ArenaEmpty, ExhaustionIsOwn
  <2>2. PollIsFresh' /\ HandlesCurrent' /\ PostIsOwn'
    BY DEF PollIsFresh, HandlesCurrent, PostIsOwn
  <2>3. PendingUntouched' /\ OneRunning' /\ FailureNotSuccess'
    BY DEF PendingUntouched, OneRunning, FailureNotSuccess
  <2> QED
    BY <2>1, <2>2, <2>3
<1>3. ASSUME NEW i \in Ids, svc_overrun(i) PROVE IInv'
  <2> USE <1>3 DEF svc_overrun
  <2>1. TypeOK' /\ ArenaEmpty' /\ ExhaustionIsOwn'
    BY DEF ArenaEmpty, ExhaustionIsOwn
  <2>2. PollIsFresh' /\ HandlesCurrent' /\ PostIsOwn'
    BY DEF PollIsFresh, HandlesCurrent, PostIsOwn, Unanswered
  <2>3. PendingUntouched' /\ OneRunning' /\ FailureNotSuccess'
    BY DEF PendingUntouched, OneRunning, FailureNotSuccess
  <2> QED
    BY <2>1, <2>2, <2>3
<1> QED
  BY <1>1, <1>2, <1>3

LEMMA StutterStep == ASSUME IInv, UNCHANGED vars PROVE IInv'
  BY DEF vars, process, connection, service, IInv, TypeOK, ArenaEmpty, PollIsFresh, HandlesCurrent,
     PostIsOwn, PendingUntouched, OneRunning, Running, ExhaustionIsOwn, FailureNotSuccess

\* The invariant holds in every state of every behaviour.
THEOREM Invariance == Spec => []IInv
<1>1. IInv /\ [Next]_vars => IInv'
  BY LifeCycleStep, PollStep, HandleStep, PostStep, SvcNextStep, SvcEndStep, StutterStep
     DEF Next, ProcessStep, ServiceDuty, Mishap
<1> QED
  BY <1>1, InitIInv, PTL DEF Spec

-----------------------------------------------------------------------------
(* The results.                                                              *)

\* The variables of process, connection and service keep their types; in particular
\* hb never holds anything but the id of an invocation or none.
THEOREM TypeCorrectness == Spec => []TypeOK
  BY Invariance, PTL DEF IInv

\* lambpie_handle runs out of request memory only for an invocation that alone needs
\* more than the arena holds, however many were served before.
THEOREM NoForeignExhaustion == Spec => []ExhaustionIsOwn
  BY Invariance, PTL DEF IInv

\* An invocation whose handler failed never counts as a success, and only such an
\* invocation counts as an error.
THEOREM FailuresAreReported == Spec => []FailureNotSuccess
  BY Invariance, PTL DEF IInv

\* No POST uses an id or a response buffer left from an earlier exchange.
THEOREM NoStalePost == Spec => []PostsAreCurrent
<1>1. IInv => PostsAreCurrent
  BY DEF IInv, PostIsOwn, PostsAreCurrent, Unanswered
<1> QED
  BY <1>1, Invariance, PTL

-----------------------------------------------------------------------------
(* Runtime implements Invocations.                                           *)

\* The service's steps that move an invocation on are steps of Invocations; a POST
\* brings the result of its own event, and at most one invocation is reaped.
LEMMA ServiceRefines ==
    ASSUME IInv,
           \/ svc_post \/ svc_reap
           \/ \E i \in Ids : svc_next(i) \/ svc_overrun(i)
    PROVE  [Inv!Next]_(Inv!vars)
<1> USE DEF IInv, TypeOK, Running
<1>1. ASSUME NEW i \in Ids, svc_next(i) PROVE Inv!Begin(i)
  BY <1>1 DEF svc_next, Inv!Begin
<1>2. ASSUME NEW i \in Ids, svc_overrun(i) PROVE Inv!Fail(i)
  BY <1>2 DEF svc_overrun, Inv!Fail
<1>3. CASE svc_post
  <2>1. CASE request.id \notin Running
    BY <1>3, <2>1 DEF svc_post, Inv!vars
  <2>2. CASE request.id \in Running /\ request.op = "response"
    <3>1. request.payload = request.id
      BY <1>3, <2>2 DEF svc_post, PostIsOwn
    <3>2. Inv!Succeed(request.id)
      BY <1>3, <2>2, <3>1 DEF svc_post, Inv!Succeed
    <3> QED
      BY <2>2, <3>2 DEF Inv!Next
  <2>3. CASE request.id \in Running /\ request.op = "error"
    <3>1. Inv!Fail(request.id)
      BY <1>3, <2>3 DEF svc_post, Inv!Fail
    <3> QED
      BY <2>3, <3>1 DEF Inv!Next
  <2> QED
    BY <1>3, <2>1, <2>2, <2>3 DEF svc_post
<1>4. CASE svc_reap
  <2>1. CASE Running = {}
    <3>1. phase' = phase
      BY <1>4, <2>1 DEF svc_reap
    <3> QED
      BY <1>4, <3>1 DEF svc_reap, Inv!vars
  <2>2. ASSUME NEW i \in Running PROVE Inv!Fail(i)
    <3>1. \A j \in Ids : phase[j] = "running" => j = i
      BY <2>2 DEF OneRunning
    <3>2. phase' = [phase EXCEPT ![i] = "lost"]
      BY <1>4, <2>2, <3>1 DEF svc_reap
    <3> QED
      BY <1>4, <2>2, <3>2 DEF svc_reap, Inv!Fail
  <2> QED
    BY <2>1, <2>2 DEF Inv!Next
<1> QED
  BY <1>1, <1>2, <1>3, <1>4 DEF Inv!Next

\* Every other step leaves the service's record alone.
LEMMA OthersStutter ==
    ASSUME \/ ProcessStep \/ UNCHANGED vars
           \/ svc_start \/ svc_kill \/ http_fails \/ svc_gone
    PROVE  UNCHANGED Inv!vars
  BY DEF ProcessStep, start, runtime_init, get_next_request, next_answered, shutdown, shim_handle,
     c_handle, handle_dies, send_response, send_error_response, post_answered, svc_start, svc_kill,
     http_fails, svc_gone, vars, service, Inv!vars

\* The runtime and the service together keep what Invocations promises: one at a time,
\* each ends once, with its own result, an error or a loss, and the end is final.
THEOREM RuntimeImplementsInvocations == Spec => InvocationsSpec
<1>1. Init => Inv!Init
  BY DEF Init, Inv!Init
<1>2. IInv /\ [Next]_vars => [Inv!Next]_(Inv!vars)
  BY ServiceRefines, OthersStutter DEF Next, ServiceDuty, Mishap
<1> QED
  BY <1>1, <1>2, Invariance, PTL DEF Spec, InvocationsSpec, Inv!Spec
=============================================================================
