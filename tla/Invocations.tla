---------------------------- MODULE Invocations ----------------------------
(***************************************************************************)
(* What a Lambda function built with lambpie promises to whoever invokes    *)
(* it: invocations are handled one at a time; each that was started ends    *)
(* once, with its own result, with an error, or with the loss of the        *)
(* process; and its end is final.  Runtime implements it.                   *)
(***************************************************************************)
CONSTANTS Ids,      \* invocations
          NoInv     \* not an invocation

VARIABLES phase,    \* phase[i]: "pending", "running", "succeeded", "errored" or "lost"
          result    \* result[i]: the event whose output was returned for i

vars == <<phase, result>>

Init ==
    /\ phase = [i \in Ids |-> "pending"]
    /\ result = [i \in Ids |-> NoInv]

Begin(i) ==
    /\ phase[i] = "pending"
    /\ \A j \in Ids : phase[j] # "running"
    /\ phase' = [phase EXCEPT ![i] = "running"]
    /\ UNCHANGED result

Succeed(i) ==
    /\ phase[i] = "running"
    /\ phase' = [phase EXCEPT ![i] = "succeeded"]
    /\ result' = [result EXCEPT ![i] = i]

Fail(i) ==
    /\ phase[i] = "running"
    /\ \E end \in {"errored", "lost"} : phase' = [phase EXCEPT ![i] = end]
    /\ UNCHANGED result

Next == \E i \in Ids : Begin(i) \/ Succeed(i) \/ Fail(i)

Spec == Init /\ [][Next]_vars
=============================================================================
