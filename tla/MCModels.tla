------------------------------ MODULE MCModels ------------------------------
(* All service models of three shapes: structures with up to two members,    *)
(* lists, maps, strings and doubles, in any pattern of references, cycles    *)
(* included; one operation, or two of which one may be selected.             *)
EXTENDS Models

Structures(targets) ==
    UNION {[type : {"structure"}, members : [fs -> targets]] :
              fs \in {{}, {"a"}, {"a", "endpoint"}}}
Others(targets) ==
    [type : {"list"}, members : [{"member"} -> targets]]
    \cup [type : {"map"}, members : {[key |-> 3, value |-> s] : s \in targets}]
    \cup [type : {"string", "double"}, members : {<<>>}]

Operation(in, out, err) == [input |-> in, output |-> out, errors |-> err]

ThreeShapes ==
    [model : [shapes : {<<a, b, c>> : a \in Structures(1 .. 3),
                                      b \in Structures(1 .. 3) \cup Others(1 .. 3),
                                      c \in Others({1, 2, 3}) },
              operations : {<<Operation({1}, {2}, {})>>}],
     operations : {All}]

\* Two operations, an error shape, a name that is not defined.
TwoOperations ==
    [model : [shapes : {<<a, b>> : a, b \in Structures(1 .. 3) \cup Others(1 .. 3)},
              operations : {<<Operation({1}, {}, {}), Operation({}, {2}, {1})>>}],
     operations : {All, {1}, {2}, {3}}]

MCInputs == ThreeShapes \cup TwoOperations
=============================================================================
