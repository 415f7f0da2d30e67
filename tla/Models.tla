------------------------------- MODULE Models -------------------------------
(***************************************************************************)
(* scripts/parse_models.py, from a botocore service model to .pie source,   *)
(* and the compiler's pass over that source.  Shape names are numbers in    *)
(* alphabetical order.  A shape has a type and the shapes its members refer  *)
(* to; an operation has the shapes of its input, output and errors.  The    *)
(* order of a JSON object's entries is open, so loops over one take its      *)
(* entries in any order.                                                    *)
(***************************************************************************)
EXTENDS Integers, Sequences, FiniteSets, FiniteSetsExt, SequencesExt

CONSTANTS Inputs,           \* [model, operations]: a service model and --operations
          RecursionLimit    \* frames of _walk the interpreter allows

ASSUME ModelsAssumption ==
    /\ RecursionLimit \in Nat
    /\ \A i \in Inputs :
           /\ IsFiniteSet(DOMAIN i.model.shapes) /\ DOMAIN i.model.shapes \subseteq Nat
           /\ IsFiniteSet(DOMAIN i.model.operations)

All == {}                   \* --operations not given

VARIABLES input, skip_unsupported, format,   \* the command line
          pc,
          pending,    \* selected operations not walked yet
          frames,     \* calls of _walk under way: shapes each has still to visit
          reachable,
          todo,       \* shapes _parse_shapes has not reached
          shapes,     \* its result: shape -> [pie_type, members]
          source      \* the generated .pie items

args == <<input, skip_unsupported, format>>
vars == <<args, pc, pending, frames, reachable, todo, shapes, source>>

\* A type of .pie: <<"str">>, <<"int">> or <<"class", name>>.
_SCALAR_TYPE_MAP ==
    [string |-> <<"str">>, integer |-> <<"int">>, long |-> <<"int">>, boolean |-> <<"int">>,
     blob |-> <<"str">>, timestamp |-> <<"int">>]

model == input.model
Shape(s) == model.shapes[s]
Refs(s) == {Shape(s).members[f] : f \in DOMAIN Shape(s).members}
Supported(s) == Shape(s).type \in DOMAIN _SCALAR_TYPE_MAP \cup {"structure"}

Init ==
    /\ input \in Inputs
    /\ skip_unsupported \in BOOLEAN /\ format \in {"pie", "json"}
    /\ pc = "select"
    /\ pending = {} /\ frames = <<>> /\ reachable = {} /\ todo = {}
    /\ shapes = <<>> /\ source = <<>>

Raise(e) ==
    /\ pc' = e
    /\ UNCHANGED <<args, pending, frames, reachable, todo, shapes, source>>

-----------------------------------------------------------------------------
(* _collect_reachable_shapes                                                 *)

Roots(op) == LET o == model.operations[op] IN o.input \cup o.output \cup o.errors

select_operations ==
    /\ pc = "select"
    /\ IF input.operations \subseteq DOMAIN model.operations
       THEN /\ pending' = IF input.operations = All THEN DOMAIN model.operations
                          ELSE input.operations
            /\ pc' = "walk"
            /\ UNCHANGED <<args, frames, reachable, todo, shapes, source>>
       ELSE Raise("unknown operation")

walk_operation(op) ==
    /\ pc = "walk" /\ frames = <<>> /\ op \in pending
    /\ pending' = pending \ {op}
    /\ frames' = <<Roots(op)>>
    /\ UNCHANGED <<args, pc, reachable, todo, shapes, source>>

\* The caller's loop moves on from shape s, which is entered or not.
Leaving(s) == [frames EXCEPT ![Len(frames)] = @ \ {s}]

\* Seeded fault: a shape is marked when its members have been walked, not before.
_walk_marks_late(s) ==
    /\ pc = "walk" /\ frames # <<>> /\ s \in Last(frames)
    /\ IF s \notin DOMAIN model.shapes THEN Raise("undefined shape")
       ELSE IF Len(frames) = RecursionLimit THEN Raise("RecursionError")
       ELSE /\ frames' = IF s \in reachable THEN Leaving(s) ELSE Append(Leaving(s), Refs(s))
            /\ reachable' = IF Refs(s) \subseteq reachable THEN reachable \cup {s} ELSE reachable
            /\ UNCHANGED <<args, pc, pending, todo, shapes, source>>

\* Seeded fault: the key and element shapes of lists and maps are not walked.
_walk_structures_only(s) ==
    /\ pc = "walk" /\ frames # <<>> /\ s \in Last(frames)
    /\ IF s \in DOMAIN model.shapes
       THEN /\ reachable' = reachable \cup {s}
            /\ frames' = IF s \in reachable \/ Shape(s).type # "structure" THEN Leaving(s)
                         ELSE Append(Leaving(s), Refs(s))
            /\ UNCHANGED <<args, pc, pending, todo, shapes, source>>
       ELSE Raise("undefined shape")

_walk(s) ==
    /\ pc = "walk" /\ frames # <<>> /\ s \in Last(frames)
    /\ IF s \notin reachable /\ s \notin DOMAIN model.shapes THEN Raise("undefined shape")
       ELSE IF s \notin reachable /\ Len(frames) = RecursionLimit THEN Raise("RecursionError")
       ELSE /\ reachable' = reachable \cup {s}
            /\ frames' = IF s \in reachable THEN Leaving(s) ELSE Append(Leaving(s), Refs(s))
            /\ UNCHANGED <<args, pc, pending, todo, shapes, source>>

_walk_returns ==
    /\ pc = "walk" /\ frames # <<>> /\ Last(frames) = {}
    /\ frames' = Front(frames)
    /\ UNCHANGED <<args, pc, pending, reachable, todo, shapes, source>>

walk_done ==
    /\ pc = "walk" /\ frames = <<>> /\ pending = {}
    /\ todo' = reachable
    /\ pc' = "parse"
    /\ UNCHANGED <<args, pending, frames, reachable, shapes, source>>

-----------------------------------------------------------------------------
(* BotocoreModelParser                                                       *)

\* The .pie type of a member; a class is named after its shape.
_resolve_pie_type(s) ==
    IF Shape(s).type = "structure" THEN <<"class", s>> ELSE _SCALAR_TYPE_MAP[Shape(s).type]

\* Members the loop of _parse_structure_shape stops at: a list or a map, unless
\* it is to be skipped, and a scalar of unknown type, always.
Fatal(s) ==
    {f \in DOMAIN Shape(s).members :
        LET t == Shape(Shape(s).members[f]).type
        IN  IF t \in {"list", "map"} THEN ~ skip_unsupported
            ELSE t \notin DOMAIN _SCALAR_TYPE_MAP \cup {"structure"}}

\* Seeded fault: the member of an unsupported shape is kept.
_parse_structure_shape_keeps_all(s) ==
    [pie_type |-> <<"class", s>>,
     members |-> [f \in DOMAIN Shape(s).members |-> <<"class", Shape(s).members[f]>>]]

_parse_structure_shape(s) ==
    LET kept == {f \in DOMAIN Shape(s).members : Supported(Shape(s).members[f])}
    IN  [pie_type |-> <<"class", s>>,
         members |-> [f \in kept |-> _resolve_pie_type(Shape(s).members[f])]]

Entry(s) ==
    IF Shape(s).type = "structure" THEN _parse_structure_shape(s)
    ELSE [pie_type |-> _SCALAR_TYPE_MAP[Shape(s).type], members |-> <<>>]

\* Seeded fault: an unsupported member is skipped without being asked to.
_parse_shapes_forgives ==
    /\ pc = "parse" /\ todo # {}
    /\ LET s == Min(todo) IN
       /\ shapes' = IF Supported(s)
                    THEN [n \in DOMAIN shapes \cup {s} |-> IF n = s THEN Entry(s) ELSE shapes[n]]
                    ELSE shapes
       /\ todo' = todo \ {s}
    /\ UNCHANGED <<args, pc, pending, frames, reachable, source>>

\* One turn of the loop over sorted(reachable).
_parse_shapes ==
    /\ pc = "parse" /\ todo # {}
    /\ LET s == Min(todo) IN
       IF \/ Shape(s).type = "structure" /\ Fatal(s) # {}
          \/ ~ Supported(s) /\ ~ skip_unsupported
       THEN Raise("unsupported")
       ELSE /\ shapes' = IF Supported(s)
                         THEN [n \in DOMAIN shapes \cup {s} |->
                                  IF n = s THEN Entry(s) ELSE shapes[n]]
                         ELSE shapes
            /\ todo' = todo \ {s}
            /\ UNCHANGED <<args, pc, pending, frames, reachable, source>>

-----------------------------------------------------------------------------
(* generate_pie, generate_json                                               *)

structure_shapes == {s \in DOMAIN shapes : shapes[s].pie_type[1] = "class"}

ClassItem(s) ==
    [kind |-> "class", name |-> s, types |-> Range(shapes[s].members), params |-> {}]

\* The parameters and types of an operation's stub.  A shape that was skipped is
\* passed as str and returned as int.
StubItem(op) ==
    LET o == model.operations[op]
        in == o.input \cap structure_shapes
        out == o.output \cap DOMAIN shapes
    IN  [kind |-> "def", name |-> op,
         types |-> {<<"str">>} \cup (UNION {Range(shapes[s].members) : s \in in})
                   \cup {shapes[s].pie_type : s \in (o.input \cap DOMAIN shapes) \ in}
                   \cup (IF out = {} THEN {<<"int">>} ELSE {shapes[s].pie_type : s \in out}),
         params |-> (UNION {DOMAIN shapes[s].members : s \in in})
                    \cup (IF o.input \subseteq in THEN {} ELSE {"request"})]

_parse_operations == IF input.operations = All THEN DOMAIN model.operations
                     ELSE DOMAIN model.operations \cap input.operations

\* Seeded fault: a dictionary's own order instead of sorted().
Sorted_unsorted(S) == {q \in [1 .. Cardinality(S) -> S] : Range(q) = S}

\* The names of S in alphabetical order.
Sorted(S) ==
    {q \in [1 .. Cardinality(S) -> S] :
        Range(q) = S /\ \A i, j \in 1 .. Cardinality(S) : i < j => q[i] < q[j]}

\* Classes in alphabetical order, then stubs.
generate_pie ==
    /\ pc = "parse" /\ todo = {} /\ format = "pie"
    /\ \E classes \in Sorted(structure_shapes), stubs \in Sorted(_parse_operations) :
           source' = [i \in DOMAIN classes |-> ClassItem(classes[i])]
                     \o [i \in DOMAIN stubs |-> StubItem(stubs[i])]
    /\ pc' = "written"
    /\ UNCHANGED <<args, pending, frames, reachable, todo, shapes>>

generate_json ==
    /\ pc = "parse" /\ todo = {} /\ format = "json"
    /\ pc' = "written"
    /\ UNCHANGED <<args, pending, frames, reachable, todo, shapes, source>>

-----------------------------------------------------------------------------
(* The compiler on the generated source, put in front of a handle().         *)

\* ast.parse refuses a function with two parameters of one name; every stub has a
\* parameter endpoint.
Parses(items) == \A i \in DOMAIN items : items[i].kind = "def" => "endpoint" \notin items[i].params

\* visit_ClassDef and visit_FunctionDef resolve annotations where they stand; a
\* class is known once its own fields are resolved.
Known(items, i) == {<<"class", items[j].name>> : j \in {k \in 1 .. i - 1 : items[k].kind = "class"}}
                   \cup {<<"str">>, <<"int">>}

compile ==
    /\ pc = "written" /\ format = "pie"
    /\ Raise(IF ~ Parses(source) THEN "SyntaxError"
             ELSE IF \E i \in DOMAIN source : ~ (source[i].types \subseteq Known(source, i))
             THEN "TypeError" ELSE "compiled")

Next ==
    \/ select_operations
    \/ \E op \in pending : walk_operation(op)
    \/ frames # <<>> /\ \E s \in Last(frames) : _walk(s)
    \/ _walk_returns \/ walk_done \/ _parse_shapes \/ generate_pie \/ generate_json \/ compile

Spec == Init /\ [][Next]_vars

-----------------------------------------------------------------------------

Failures == {"unknown operation", "undefined shape", "RecursionError", "unsupported"}
Ends == Failures \cup {"SyntaxError", "TypeError", "compiled"}

\* Names the model mentions, defined or not.
Names == DOMAIN model.shapes \cup (UNION {Refs(s) : s \in DOMAIN model.shapes})
         \cup (UNION {Roots(op) : op \in DOMAIN model.operations})

\* The values the variables take.
TypeOK ==
    /\ input \in Inputs
    /\ pc \in {"select", "walk", "parse", "written"} \cup Ends
    /\ pending \subseteq DOMAIN model.operations
    /\ frames \in Seq(SUBSET Names)
    /\ todo \subseteq reachable /\ reachable \subseteq DOMAIN model.shapes
    /\ DOMAIN shapes \subseteq reachable

\* Reference: the shapes on a path from a selected operation are the ones in every set
\* that has the roots of these operations and is closed under references.
Closed(S) ==
    /\ \A op \in _parse_operations : Roots(op) \subseteq S
    /\ \A s \in S \cap DOMAIN model.shapes : Refs(s) \subseteq S

Closure == {s \in Names : \A S \in SUBSET Names : Closed(S) => s \in S}

\* "Only structure shapes that are referenced as operation inputs/outputs (and their
\* transitive member shapes) are emitted" (parse_models.py:31-33): the depth-first
\* walk finds exactly the shapes on a path from a selected operation, recursive
\* shapes included, in whatever order the model lists operations and members.
ReachableIsClosure == pc \in {"parse", "written", "unsupported"} => reachable = Closure

\* The recursion of _walk goes no deeper than the model has shapes, so recursive
\* shapes do not exhaust the interpreter's stack.
WalkDepthBounded == Len(frames) <= Cardinality(DOMAIN model.shapes) + 1 /\ pc # "RecursionError"

\* Reference for the outcome of parse(), from the model alone: it raises if a selected
\* operation or a reachable shape does not exist; if any reachable shape has a type
\* .pie lacks, unless these are skipped; and, skipped or not, if a reachable
\* structure has a member of an unknown scalar type.
Unusable ==
    \/ ~ (input.operations \subseteq DOMAIN model.operations)
    \/ ~ (Closure \subseteq DOMAIN model.shapes)
    \/ \E s \in Closure \cap DOMAIN model.shapes :
          \/ ~ Supported(s) /\ ~ skip_unsupported
          \/ /\ Shape(s).type = "structure"
             /\ \E r \in Refs(s) \cap DOMAIN model.shapes : ~ Supported(r) /\ Shape(r).type \notin {"list", "map"}

\* parse() raises exactly for the models and options its branches name, whichever
\* order the walk and the loops over shapes and members take: no error is lost when
\* another shape is skipped, and none is raised for a shape that is not reachable.
\* What it does not raise for under --skip-unsupported is the subject of
\* NoSilentFallback.
RaisesIffUnusable ==
    /\ pc \in Failures => Unusable
    /\ pc = "written" => ~ Unusable

\* Every class a generated class or stub names is generated too: what the walk kept,
\* what --skip-unsupported dropped and what --operations left out agree.
NamesAreGenerated ==
    \A i \in DOMAIN source : source[i].types \subseteq Known(source, Len(source) + 1)

\* "No silent fallbacks.  Every unrecognised shape type raises immediately"
\* (parse_models.py:40): output is written only if the type of every reachable shape
\* is one the tables of the script know.
NoSilentFallback ==
    pc = "written" =>
        \A s \in reachable : Supported(s) \/ Shape(s).type \in {"list", "map"}

\* No structure has a member of a structure whose name does not come before its own,
\* itself included.
Ordered ==
    \A s \in Closure : Shape(s).type = "structure" =>
        \A r \in Refs(s) : Shape(r).type = "structure" => r < s

\* No input structure of a selected operation has a member named endpoint, but of a
\* type that is left out.
EndpointFree ==
    \A op \in _parse_operations : \A s \in model.operations[op].input :
        Shape(s).type = "structure" /\ "endpoint" \in DOMAIN Shape(s).members =>
            ~ Supported(Shape(s).members.endpoint)

\* "Parse a botocore service-2.json model and generate .pie type definitions"
\* (parse_models.py:1): the compiler, which reads classes once from top to bottom,
\* takes the generated definitions exactly for the service models that are Ordered and
\* EndpointFree, whichever members and shapes were skipped on the way.
CompilesIffOrdered ==
    /\ pc = "compiled" => Ordered /\ EndpointFree
    /\ pc = "SyntaxError" => ~ EndpointFree
    /\ pc = "TypeError" => ~ Ordered
=============================================================================
