----------------------------- MODULE MCRuntime -----------------------------
(* Instances of Runtime with three invocations: i1 and i2 together need more *)
(* request memory than there is, i3 alone does.                              *)
EXTENDS Runtime

CONSTANTS i1, i2, i3

MCIds == {i1, i2, i3}
MCNeed == [i \in MCIds |-> IF i = i1 THEN 2 ELSE IF i = i2 THEN 3 ELSE 4]
=============================================================================
