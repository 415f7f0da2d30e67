------------------------------- MODULE MCPie -------------------------------
(* Small .pie programs: every order of a class, a helper, handle() and a     *)
(* statement, with bodies of up to three operations.                         *)
EXTENDS Pie

Op(op, of) == [op |-> op, of |-> of, cond |-> "once"]
New(c) == Op("new", c)
MaybeNew(c) == [New(c) EXCEPT !.cond = "maybe"]
LoopNew(c) == [New(c) EXCEPT !.cond = "loop"]
Call(f) == Op("call", f)
Read == Op("read", "field")
Variable(x) == {Op("decl", x), Op("assign", x), Op("use", x)}

Class(c, explicit) == [kind |-> "class", name |-> c, explicit |-> explicit, types |-> {}]
ClassOf(c, types) == [kind |-> "class", name |-> c, explicit |-> FALSE, types |-> types]
Import(f) == [kind |-> "import", name |-> f]
MainBlock == [kind |-> "main"]
Block == [kind |-> "block"]
Def(f, ops) == [kind |-> "def", name |-> f, types |-> {}, ops |-> ops]
Handle(c, ops) == [kind |-> "def", name |-> "handle", types |-> {c}, ops |-> ops]
Stmt(op) == [kind |-> "stmt", do |-> op]

Bodies(ops) == {<<>>} \cup {<<a>> : a \in ops} \cup {<<a, b>> : a, b \in ops}

Orders(items) ==
    {[k \in 1 .. Len(items) |-> items[p[k]]] :
        p \in {q \in [1 .. Len(items) -> 1 .. Len(items)] :
                  \A i, j \in 1 .. Len(items) : i # j => q[i] # q[j]}}

\* Helpers that do not allocate, classes without an explicit __init__.
PlainPrograms ==
    LET A == Class("A", FALSE)
    IN  UNION {Orders(<<A, Def("f", f), Handle("A", h), Stmt(s)>>) :
                  f \in {<<>>, <<Read>>},
                  h \in Bodies({MaybeNew("A"), Call("f"), Read}),
                  s \in {New("A"), Call("f")}}
        \cup {<<A, Stmt(New("A"))>>, <<Handle("A", <<Read>>)>>,
              <<Def("f", <<New("A")>>), A, Handle("A", <<>>)>>,
              <<A, Stmt(New("A")), Stmt(New("A")), Handle("A", <<>>)>>,
              <<A, Handle("A", <<New("str"), New("A")>>)>>}

\* A helper that makes an object, called from handle().
HelperPrograms ==
    {<<Class("A", FALSE), Def("f", <<New("A")>>), Handle("A", <<Call("f")>>)>>}

\* Variables of handle() and of the module, loops.
VariablePrograms ==
    LET ops == Variable("x") \cup {LoopNew("A"), Read}
    IN  UNION {Orders(<<Class("A", FALSE), Handle("A", <<a, b, c>>), Stmt(s)>>) :
                  a, b, c \in ops, s \in Variable("x") \cup {New("A")}}
        \cup {<<Class("A", FALSE), Stmt(New("A"))>> \o <<Stmt(a), Stmt(b), Handle("A", <<>>)>> :
                  a, b \in Variable("x")}
        \cup {<<Class("A", FALSE), Stmt(Op("decl", "x")), Stmt(Op("use", "x")), Stmt(Read), Handle("A", <<>>)>>}
        \cup {<<Class("A", FALSE), Handle("A", <<New("A"), Op("decl", "x"), Op("assign", "x"),
                                                a, b, Op("use", "x"), Read>>)>> :
                  a, b \in ops \cup {New("A"), [Op("assign", "x") EXCEPT !.cond = "maybe"]}}

\* Classes with fields of other classes, imports, and other module-level items.
ItemPrograms ==
    UNION {Orders(<<Class("A", FALSE), item, Handle("A", <<>>), Stmt(New("A"))>>) :
              item \in {Class("A", FALSE), Class("str", TRUE), Import("atoi"), Import("qsort"),
                        MainBlock, Block}}
    \cup UNION {Orders(<<Class("A", FALSE), ClassOf("B", fields), Handle(event, <<>>), Stmt(New("B"))>>) :
                  fields \in {{"A"}, {"B"}, {"str"}}, event \in {"A", "B", "bytearray"}}
    \cup Orders(<<Class("A", FALSE), Import("atoi"), Def("f", <<Call("atoi")>>),
                  Handle("A", <<Call("f"), Call("atoi")>>)>>)
    \cup UNION {Orders(<<Class("A", FALSE), Def(f, <<Read>>), item, Handle("A", <<Call(f)>>)>>) :
                  f \in {"f", "atoi", "strlen"}, item \in {Import("atoi"), Import("f"), Def("f", <<>>)}}
    \cup UNION {Orders(<<Class("A", FALSE), Def(f, <<>>), Handle("A", <<Call(f)>>)>>) :
                  f \in {"lambpie_init", "json_open", "g"}}
    \cup {<<Class("A", FALSE), Handle(c, <<Call(f)>>), Handle(d, <<Call(g)>>)>> :
             c, d \in {"A", "B"}, f, g \in {"f", "strlen"}}

\* Those that do not compile, or else set every variable of a function before its use
\* and store every field of the objects of handle().  The others are UnsetPrograms and
\* StalePrograms.
MCPrograms ==
    {p \in PlainPrograms \cup VariablePrograms \cup ItemPrograms :
        Resolvable(p) =>
            /\ FieldsStored(p)
            /\ \A k \in DOMAIN p : p[k].kind = "def" => SetFirst(p[k].ops)}

\* x: A, and then x is used: NoDanglingRead does not hold for it.
UnsetPrograms ==
    {<<Class("A", FALSE), Handle("A", <<Op("decl", "x"), Op("use", "x"), Read>>)>>}

\* B has an explicit __init__, so the cell of an object keeps what was in it: the field
\* of an A that the invocation before made, and NoDanglingRead does not hold.
StalePrograms ==
    {<<Class("A", FALSE), Class("B", TRUE), Handle("A", <<MaybeNew("A"), MaybeNew("B"), Read>>)>>}

MCSlots == [t \in Tags |-> IF t = ARENA_STATIC THEN 1 ELSE 2]
=============================================================================
