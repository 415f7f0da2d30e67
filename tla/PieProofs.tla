----------------------------- MODULE PieProofs ------------------------------
(***************************************************************************)
(* Proofs about Pie: any set of programs, any size of the two arenas.  What *)
(* a program must not do for its memory to be sound is a hypothesis of the   *)
(* theorems, not of the model.                                               *)
(***************************************************************************)
EXTENDS Pie, FiniteSetTheorems, SequenceTheorems, TLAPS

-----------------------------------------------------------------------------
(* What the theorems ask of a program.                                       *)

Defs(p) == {k \in DOMAIN p : p[k].kind = "def"}
Calls(ops) == {ops[j].of : j \in {i \in DOMAIN ops : ops[i].op = "call"}}

\* The functions handle() may run: the least set with handle() in which every function
\* has the ones it calls.
Callable(p) == {"handle"} \cup (UNION {Calls(p[k].ops) : k \in Defs(p)})
CallClosed(p, S) ==
    "handle" \in S /\ \A k \in Defs(p) : p[k].name \in S => Calls(p[k].ops) \subseteq S
Reached(p) ==
    {f \in Callable(p) : \A S \in SUBSET Callable(p) : CallClosed(p, S) => f \in S}

\* No helper that handle() may run makes an object.
HelpersDoNotAllocate ==
    \A p \in Programs : \A k \in Defs(p) :
        p[k].name \in Reached(p) /\ p[k].name # "handle" =>
            \A j \in DOMAIN p[k].ops : p[k].ops[j].op # "new"

\* The objects handle() makes have all their fields stored, and no variable is used before
\* it is set.  The compiler asks for neither: a program that fails one of them is compiled,
\* and reads what an earlier invocation left in the cell, or what was on the stack.
FieldsAreStored == \A p \in Programs : FieldsStored(p)
VariablesAreSet == \A p \in Programs : VariablesSet(p)

\* The program leaves handle() to the event loop: neither handle() nor a module-level
\* statement calls it (a helper cannot: handle() is compiled after it).
HandleIsNotCalled ==
    \A p \in Programs : \A k \in DOMAIN p :
        /\ p[k].kind = "def" /\ p[k].name = "handle" => "handle" \notin Calls(p[k].ops)
        /\ p[k].kind = "stmt" /\ p[k].do.op = "call" => p[k].do.of # "handle"

-----------------------------------------------------------------------------
(* The inductive invariant.  The compiled code first.                        *)

Conditions == {"once", "maybe", "loop"}

\* STRING, with the literals of the model in sight of the provers.
Identifier == STRING \cup BuiltinFunctions \cup C_SIGNATURES \cup OwnFunctions
                     \cup {"handle", "response", EventStruct}

Instruction == [op: {"alloc", "call", "read", "decl", "assign", "use"},
                of: Identifier, tag: Tags, cond: Conditions]

CodeType ==
    /\ body \in Programs
    /\ at \in Nat
    /\ current_arena \in Tags
    /\ functions \subseteq DOMAIN code
    /\ DOMAIN code \subseteq Identifier
    /\ \A f \in DOMAIN code : code[f] \in Seq(Instruction)
    /\ init_stmts \in Seq(Operation)
    /\ handle_node # 0 => handle_node \in Defs(body) /\ body[handle_node].name = "handle"

\* handle() and the entry points are compiled last, and nothing else has their names.
EntryPoints ==
    /\ stage = "compile" => "handle" \notin functions
    /\ stage \notin {"compile", "error"} =>
           /\ "handle" \in functions
           /\ "lambpie_init" \in DOMAIN code /\ "lambpie_handle" \in DOMAIN code
           /\ "lambpie_init" \notin functions /\ "lambpie_handle" \notin functions
           /\ code["lambpie_handle"] = EntryCode

\* Every call finds its function, every use of a variable follows its declaration.
NamesResolved ==
    \A f \in DOMAIN code : \A k \in DOMAIN code[f] :
        /\ code[f][k].op = "call" => code[f][k].of \in functions
        /\ code[f][k].op = "decl" => code[f][k].cond = "once"
        /\ code[f][k].op = "use" =>
               \E j \in 1 .. k - 1 : code[f][j].op = "decl" /\ code[f][j].of = code[f][k].of

\* What handle() may run allocates in handle() only, and there in the request arena.
ReachedCode ==
    \A f \in functions \cap Reached(body) : \A k \in DOMAIN code[f] :
        /\ code[f][k].op = "call" => code[f][k].of \in Reached(body)
        /\ code[f][k].op = "alloc" =>
               /\ f = "handle" /\ code[f][k].tag = ARENA_REQ
               /\ FieldsAreStored => StoresFields(code[f][k].of)

\* A class is explicit because it is built in or because the program says so.
ExplicitClasses ==
    \A c \in DOMAIN classes : classes[c].explicit =>
        c \in BuiltinClasses
        \/ \E i \in DOMAIN body : body[i].kind = "class" /\ body[i].name = c /\ body[i].explicit

CodeInv == CodeType /\ EntryPoints /\ NamesResolved /\ ReachedCode /\ ExplicitClasses

(* Then the process.                                                         *)

Refs == {NoRef, Wild} \cup [tag: Tags, slot: Cell, epoch: Nat]
Locals == UNION {[D -> Refs] : D \in SUBSET Identifier}
Frames == [fn: Identifier, pc: Nat \ {0}, last: Refs, locals: Locals]

\* The references a frame holds.
HeldBy(fr) == {fr.last} \cup {fr.locals[x] : x \in DOMAIN fr.locals}

ProcessType ==
    /\ stage \in {"compile", "error", "init", "idle", "handle", "exhausted", "sigsegv", "crash"}
    /\ used \in [Tags -> Nat] /\ \A t \in Tags : used[t] <= Slots[t]
    /\ frozen \in BOOLEAN
    /\ mem \in [Tags -> [Cell -> Refs]]
    /\ epoch \in Nat
    /\ loaded \in Refs
    /\ stack \in Seq(Frames)
    /\ \A i \in DOMAIN stack : stack[i].fn \in DOMAIN code
    /\ stage = "compile" => stack = <<>>
    /\ stage \in {"init", "handle"} => stack # <<>>

\* A frame has a variable as soon as its declaration was executed.
DeclaredIn(fr) ==
    \A k \in DOMAIN code[fr.fn] :
        k < fr.pc /\ code[fr.fn][k].op = "decl" => code[fr.fn][k].of \in DOMAIN fr.locals
VariablesExist == \A i \in DOMAIN stack : DeclaredIn(stack[i])

\* Until lambpie_init has returned nothing is frozen and there is one generation.
FirstGeneration ==
    stage \in {"compile", "init"} =>
        /\ ~ frozen /\ epoch = 0 /\ loaded.epoch = 0
        /\ \A t \in Tags : \A k \in Cell : mem[t][k].epoch = 0
        /\ \A i \in DOMAIN stack : \A r \in HeldBy(stack[i]) : r.epoch = 0

\* No object, a wild reference, or an object made by the invocation at work.
Current(r) == r \in {NoRef, Wild} \/ (r.tag = ARENA_REQ /\ r.epoch = epoch /\ r.slot \in 1 .. used[ARENA_REQ])

\* An invocation runs only what handle() reaches, and holds only objects of its own.
Serving ==
    stage = "handle" =>
        \A i \in DOMAIN stack :
            /\ stack[i].fn \in (functions \cap Reached(body)) \cup {"lambpie_handle"}
            /\ \A r \in HeldBy(stack[i]) : Current(r)

\* What a field holds is alive as long as its object is, or wild.
Lives(r) == r \in {NoRef, Wild} \/ r.tag = ARENA_STATIC \/ r.epoch = epoch
FieldsAlive ==
    FieldsAreStored /\ stage \in {"init", "idle", "handle"} =>
        /\ Lives(loaded)
        /\ \A k \in 1 .. used[ARENA_REQ] : Lives(mem[ARENA_REQ][k])

ProcessInv == ProcessType /\ VariablesExist /\ FirstGeneration /\ Serving /\ FieldsAlive

IInv == CodeInv /\ ProcessInv /\ NoFault

-----------------------------------------------------------------------------
(* Programs and sequences.                                                   *)

\* What the kind of an item says about its fields.
LEMMA ItemFacts ==
    ASSUME NEW p \in Programs, NEW k \in DOMAIN p
    PROVE  /\ p \in Seq(ModuleItem) /\ k \in Nat \ {0} /\ k <= Len(p)
           /\ p[k].kind = "def" => p[k].name \in STRING /\ p[k].ops \in Seq(Operation)
           /\ p[k].kind = "import" => p[k].name \in STRING
           /\ p[k].kind = "class" => p[k].name \in STRING /\ p[k].explicit \in BOOLEAN
           /\ p[k].kind = "stmt" => p[k].do \in Operation
<1>1. p \in Seq(ModuleItem)
  BY PieAssumption
<1>2. p[k] \in ModuleItem /\ k \in Nat \ {0} /\ k <= Len(p)
  BY <1>1, ElementOfSeq, LenProperties
<1>3. /\ p[k].kind = "def" => p[k].name \in STRING /\ p[k].ops \in Seq(Operation)
      /\ p[k].kind = "import" => p[k].name \in STRING
      /\ p[k].kind = "class" => p[k].name \in STRING /\ p[k].explicit \in BOOLEAN
      /\ p[k].kind = "stmt" => p[k].do \in Operation
  BY <1>2 DEF ModuleItem
<1> QED
  BY <1>1, <1>2, <1>3

\* What handle() reaches contains handle() and is closed under calls.
LEMMA ReachedIsClosed ==
    ASSUME NEW p
    PROVE  /\ "handle" \in Reached(p)
           /\ \A k \in Defs(p) : p[k].name \in Reached(p) => Calls(p[k].ops) \subseteq Reached(p)
<1>1. "handle" \in Reached(p)
  BY DEF Reached, Callable, CallClosed
<1>2. ASSUME NEW k \in Defs(p), p[k].name \in Reached(p), NEW g \in Calls(p[k].ops)
      PROVE  g \in Reached(p)
  <2>1. g \in Callable(p)
    BY DEF Callable
  <2>2. ASSUME NEW S \in SUBSET Callable(p), CallClosed(p, S) PROVE g \in S
    BY <1>2, <2>2 DEF Reached, CallClosed
  <2> QED
    BY <2>1, <2>2 DEF Reached
<1> QED
  BY <1>1, <1>2

LEMMA EmitType ==
    ASSUME NEW ops \in Seq(Operation), NEW t \in Tags
    PROVE  /\ Emit(ops, t) \in Seq(Instruction)
           /\ DOMAIN Emit(ops, t) = DOMAIN ops
<1>1. \A k \in DOMAIN ops : ops[k] \in Operation
  BY ElementOfSeq, LenProperties
<1>2. \A k \in DOMAIN ops : Emit(ops, t)[k] \in Instruction
  BY <1>1 DEF Emit, Instruction, Operation, Conditions, Identifier
<1>3. DOMAIN ops = 1 .. Len(ops) /\ Len(ops) \in Nat
  BY LenProperties
<1>4. Emit(ops, t) \in [1 .. Len(ops) -> Instruction] /\ DOMAIN Emit(ops, t) = DOMAIN ops
  BY <1>2, <1>3 DEF Emit
<1> QED
  BY <1>3, <1>4, SeqDef

\* The code of a body whose names are resolved.
LEMMA EmitResolved ==
    ASSUME NEW ops \in Seq(Operation), NEW t \in Tags, NEW fs, Resolved(ops, fs),
           NEW k \in DOMAIN Emit(ops, t)
    PROVE  LET c == Emit(ops, t) IN
           /\ c[k].op = "call" => ops[k].op = "call" /\ c[k].of = ops[k].of /\ c[k].of \in fs
           /\ c[k].op = "alloc" => /\ ops[k].op = "new" /\ c[k].of = ops[k].of
                                   /\ c[k].of \in DOMAIN classes /\ c[k].tag = t
           /\ c[k].op = "decl" => c[k].cond = "once"
           /\ c[k].op = "use" =>
                  \E j \in 1 .. k - 1 : c[j].op = "decl" /\ c[j].of = c[k].of
<1> DEFINE c == Emit(ops, t)
<1>1. DOMAIN c = DOMAIN ops /\ k \in DOMAIN ops /\ k \in Nat /\ k <= Len(ops) /\ DOMAIN ops = 1 .. Len(ops) /\ Len(ops) \in Nat
  BY EmitType, LenProperties
<1>2. \A j \in DOMAIN ops :
          /\ c[j].of = ops[j].of /\ c[j].tag = t /\ c[j].cond = ops[j].cond
          /\ c[j].op = IF ops[j].op = "new" THEN "alloc" ELSE ops[j].op
  BY <1>1 DEF Emit
<1>3. ops[k] \in Operation
  BY <1>1, ElementOfSeq
<1>4. ops[k].op \in {"new", "call", "read", "decl", "assign", "use"} /\ (ops[k].op = "decl" => ops[k].cond = "once")
  BY <1>3 DEF Operation
<1>5. /\ ops[k].op = "new" => ops[k].of \in DOMAIN classes
      /\ ops[k].op = "call" => ops[k].of \in fs
      /\ ops[k].op = "use" => ops[k].of \in Declared(ops, k)
  BY <1>1, <1>4 DEF Resolved
<1>6. ASSUME ops[k].op = "use" PROVE \E j \in 1 .. k - 1 : c[j].op = "decl" /\ c[j].of = c[k].of
  <2>1. PICK j \in 1 .. k - 1 : ops[j].op = "decl" /\ ops[j].of = ops[k].of
    BY <1>5, <1>6 DEF Declared
  <2>2. j \in DOMAIN ops
    BY <1>1
  <2> QED
    BY <1>1, <1>2, <2>1, <2>2
<1>7. /\ c[k].op = "call" => ops[k].op = "call" /\ c[k].of = ops[k].of /\ c[k].of \in fs
      /\ c[k].op = "alloc" => /\ ops[k].op = "new" /\ c[k].of = ops[k].of
                              /\ c[k].of \in DOMAIN classes /\ c[k].tag = t
      /\ c[k].op = "decl" => c[k].cond = "once"
      /\ c[k].op = "use" => ops[k].op = "use"
  BY <1>1, <1>2, <1>4, <1>5
<1> QED
  BY <1>6, <1>7

-----------------------------------------------------------------------------
(* Initial states.                                                           *)

LEMMA InitIInv == Init => IInv
<1> SUFFICES ASSUME Init PROVE IInv
  OBVIOUS
<1> USE DEF Init
<1>1. CodeType
  <2>1. <<>> \in Seq(Instruction) /\ <<>> \in Seq(Operation)
    BY EmptySeq
  <2>2. BuiltinFunctions \subseteq Identifier
    BY DEF Identifier
  <2> QED
    BY <2>1, <2>2 DEF CodeType, Tags
<1>2. EntryPoints
  BY DEF EntryPoints, BuiltinFunctions
<1>3. NamesResolved /\ ReachedCode
  <2>1. \A f \in DOMAIN code : DOMAIN code[f] = {}
    BY EmptySeq, LenProperties
  <2> QED
    BY <2>1, <1>1 DEF NamesResolved, ReachedCode, CodeType
<1>4. ExplicitClasses
  BY DEF ExplicitClasses
<1>5. NoRef \in Refs /\ NoRef.epoch = 0
  BY DEF NoRef, Refs
<1>6. stack \in Seq(Frames) /\ DOMAIN stack = {}
  BY EmptySeq, LenProperties
<1>7. ProcessType
  <2>1. used \in [Tags -> Nat] /\ mem \in [Tags -> [Cell -> Refs]]
    BY <1>5
  <2>2. \A t \in Tags : used[t] <= Slots[t]
    BY PieAssumption
  <2> QED
    BY <1>5, <1>6, <2>1, <2>2 DEF ProcessType
<1>8. VariablesExist /\ FirstGeneration /\ Serving /\ FieldsAlive /\ NoFault
  BY <1>5, <1>6 DEF VariablesExist, FirstGeneration, Serving, FieldsAlive, NoFault
<1> QED
  BY <1>1, <1>2, <1>3, <1>4, <1>7, <1>8 DEF IInv, CodeInv, ProcessInv

-----------------------------------------------------------------------------
(* The compiler's steps.                                                     *)

\* The compiler leaves the process alone: it does not run yet.
LEMMA ProcessWaits ==
    ASSUME IInv, stage = "compile", UNCHANGED process
    PROVE  ProcessInv' /\ NoFault'
<1> USE DEF IInv, ProcessInv
<1>1. stack = <<>> /\ DOMAIN stack = {}
  BY EmptySeq, LenProperties DEF ProcessType
<1>2. ProcessType'
  BY <1>1 DEF ProcessType, process
<1>3. VariablesExist' /\ FirstGeneration' /\ Serving' /\ FieldsAlive' /\ NoFault'
  BY <1>1 DEF VariablesExist, FirstGeneration, Serving, FieldsAlive, NoFault, process
<1> QED
  BY <1>2, <1>3

\* An error ends the compilation, and dying the process; nothing else changes.
LEMMA StopKeeps ==
    ASSUME IInv, NEW how \in {"error", "exhausted", "crash"},
           how # "error" => stage \in {"init", "handle"},
           stage' = how, UNCHANGED <<compiler, stack, used, frozen, mem, epoch, loaded>>
    PROVE  IInv'
<1> USE DEF IInv, CodeInv, ProcessInv
<1>1. CodeType' /\ NamesResolved' /\ ExplicitClasses'
  BY DEF CodeType, NamesResolved, ExplicitClasses, compiler
<1>2. ReachedCode'
  BY DEF ReachedCode, StoresFields, compiler
<1>3. EntryPoints'
  BY DEF EntryPoints, compiler
<1>4. ProcessType' /\ VariablesExist'
  BY DEF ProcessType, VariablesExist, DeclaredIn, compiler
<1>5. FirstGeneration' /\ Serving' /\ FieldsAlive' /\ NoFault'
  BY DEF FirstGeneration, Serving, FieldsAlive, NoFault
<1> QED
  BY <1>1, <1>2, <1>3, <1>4, <1>5

LEMMA FailStep ==
    ASSUME IInv, stage = "compile", fail
    PROVE  IInv'
  BY StopKeeps DEF fail

LEMMA ClassStep ==
    ASSUME IInv, visit_ClassDef
    PROVE  IInv'
<1> USE DEF IInv
<1>1. CASE fail
  BY <1>1, FailStep DEF visit_ClassDef
<1>2. CASE ~ fail
  <2>1. /\ stage = "compile" /\ at \in DOMAIN body /\ Item.kind = "class"
        /\ classes' = [c \in DOMAIN classes \cup {Item.name} |->
                          IF c = Item.name
                          THEN [explicit |-> Item.explicit, flat |-> Item.types \subseteq {"str"}]
                          ELSE classes[c]]
        /\ at' = at + 1
        /\ UNCHANGED <<body, functions, current_arena, handle_node, init_stmts, code, process>>
    BY <1>2 DEF visit_ClassDef
  <2>2. CodeType' /\ EntryPoints' /\ NamesResolved'
    BY <2>1 DEF CodeInv, CodeType, EntryPoints, NamesResolved, process
  <2>3. ReachedCode'
    BY <2>1 DEF CodeInv, ReachedCode, EntryPoints
  <2>4. ExplicitClasses'
    <3>1. Item = body[at] /\ body' = body
      BY <2>1 DEF Item
    <3> SUFFICES ASSUME NEW c \in DOMAIN classes', classes'[c].explicit
                 PROVE  \/ c \in BuiltinClasses
                        \/ \E i \in DOMAIN body : /\ body[i].kind = "class"
                                                  /\ body[i].name = c /\ body[i].explicit
      BY <3>1 DEF ExplicitClasses
    <3>2. CASE c = Item.name
      BY <2>1, <3>1, <3>2
    <3>3. CASE c # Item.name
      BY <2>1, <3>3 DEF CodeInv, ExplicitClasses
    <3> QED
      BY <3>2, <3>3
  <2> QED
    BY <2>1, <2>2, <2>3, <2>4, ProcessWaits DEF CodeInv
<1> QED
  BY <1>1, <1>2

\* A function that the compiler enters with its code keeps the code sound.
LEMMA DefineKeeps ==
    ASSUME IInv, stage = "compile", NEW f \in Identifier, f # "handle", f \notin functions,
           NEW instrs \in Seq(Instruction),
           \A k \in DOMAIN instrs :
               /\ instrs[k].op = "call" => instrs[k].of \in functions \cup {f}
               /\ instrs[k].op = "decl" => instrs[k].cond = "once"
               /\ instrs[k].op = "use" =>
                      \E j \in 1 .. k - 1 : instrs[j].op = "decl" /\ instrs[j].of = instrs[k].of,
           f \in Reached(body) =>
               \A k \in DOMAIN instrs :
                   /\ instrs[k].op = "call" => instrs[k].of \in Reached(body)
                   /\ instrs[k].op # "alloc",
           functions' = functions \cup {f}, code' = Define(f, instrs), at' = at + 1,
           UNCHANGED <<body, classes, current_arena, handle_node, init_stmts, process>>
    PROVE  IInv'
<1> USE DEF IInv, CodeInv
<1>1. /\ DOMAIN code' = DOMAIN code \cup {f}
      /\ code'[f] = instrs
      /\ \A g \in DOMAIN code : g # f => code'[g] = code[g]
  BY DEF Define
<1>2. CodeType'
  BY <1>1 DEF CodeType
<1>3. EntryPoints'
  BY DEF EntryPoints, process
<1>4. NamesResolved'
  BY <1>1 DEF NamesResolved
<1>5. ReachedCode'
  <2> SUFFICES ASSUME NEW g \in functions' \cap Reached(body), NEW k \in DOMAIN code'[g]
               PROVE  /\ code'[g][k].op = "call" => code'[g][k].of \in Reached(body)
                      /\ code'[g][k].op # "alloc"
    BY DEF ReachedCode
  <2>1. CASE g = f
    BY <1>1, <2>1
  <2>2. CASE g # f
    <3>1. g \in functions /\ code'[g] = code[g] /\ g # "handle"
      BY <1>1, <2>2 DEF CodeType, EntryPoints
    <3> QED
      BY <3>1 DEF ReachedCode
  <2> QED
    BY <2>1, <2>2
<1>6. ExplicitClasses'
  BY DEF ExplicitClasses
<1> QED
  BY <1>2, <1>3, <1>4, <1>5, <1>6, ProcessWaits

LEMMA ImportStep ==
    ASSUME IInv, visit_ImportFrom
    PROVE  IInv'
<1> USE DEF IInv
<1>0. stage = "compile" /\ at \in DOMAIN body /\ Item.kind = "import" /\ Item = body[at]
  BY DEF visit_ImportFrom, Item
<1>1. CASE fail
  BY <1>0, <1>1, FailStep
<1>2. CASE ~ fail
  <2>1. /\ Item.name \in C_SIGNATURES \cup functions
        /\ functions' = functions \cup {Item.name}
        /\ code' = IF Item.name \in functions THEN code ELSE Define(Item.name, <<>>)
        /\ at' = at + 1
        /\ UNCHANGED <<body, classes, current_arena, handle_node, init_stmts, process>>
    BY <1>2 DEF visit_ImportFrom
  <2>2. CASE Item.name \in functions
    <3>1. functions' = functions /\ code' = code
      BY <2>1, <2>2
    <3>2. CodeInv'
      BY <1>0, <2>1, <3>1, SMTT(30) DEF CodeInv, CodeType, EntryPoints, NamesResolved, ReachedCode,
                              StoresFields, ExplicitClasses, process
    <3> QED
      BY <1>0, <2>1, <3>2, ProcessWaits
  <2>3. CASE Item.name \notin functions
    <3>1. Item.name \in Identifier /\ Item.name # "handle"
      BY <2>1, <2>3 DEF C_SIGNATURES, Identifier
    <3>2. <<>> \in Seq(Instruction) /\ DOMAIN <<>> = {}
      BY EmptySeq, LenProperties
    <3>3. code' = Define(Item.name, <<>>)
      BY <2>1, <2>3
    <3> HIDE DEF IInv
    <3> QED
      BY <1>0, <2>1, <2>3, <3>1, <3>2, <3>3, DefineKeeps
  <2> QED
    BY <2>2, <2>3
<1> QED
  BY <1>1, <1>2

\* A helper: here it matters that a helper handle() may run has no allocation.
LEMMA FunctionStep ==
    ASSUME HelpersDoNotAllocate, IInv, visit_FunctionDef
    PROVE  IInv'
<1>0. /\ stage = "compile" /\ at \in DOMAIN body /\ Item.kind = "def" /\ Item = body[at]
      /\ Item.name # "handle" /\ body \in Programs /\ current_arena \in Tags
  BY DEF visit_FunctionDef, Item, IInv, CodeInv, CodeType
<1>1. CASE fail
  BY <1>0, <1>1, FailStep
<1>2. CASE ~ fail
  <2> DEFINE ops == Item.ops
             instrs == Emit(ops, current_arena)
  <2>1. /\ Item.name \notin functions
        /\ Resolved(ops, functions \cup {Item.name})
        /\ functions' = functions \cup {Item.name}
        /\ code' = Define(Item.name, instrs)
        /\ at' = at + 1
        /\ UNCHANGED <<body, classes, current_arena, handle_node, init_stmts, process>>
    BY <1>0, <1>2 DEF visit_FunctionDef, FunctionArena
  <2>2. Item.name \in Identifier /\ ops \in Seq(Operation)
    BY <1>0, ItemFacts DEF Identifier
  <2>3. instrs \in Seq(Instruction)
    BY <1>0, <2>2, EmitType
  <2>4. \A k \in DOMAIN instrs :
            /\ instrs[k].op = "call" => ops[k].op = "call" /\ instrs[k].of = ops[k].of
            /\ instrs[k].op = "call" => instrs[k].of \in functions \cup {Item.name}
            /\ instrs[k].op = "alloc" => ops[k].op = "new"
            /\ instrs[k].op = "decl" => instrs[k].cond = "once"
            /\ instrs[k].op = "use" =>
                   \E j \in 1 .. k - 1 : instrs[j].op = "decl" /\ instrs[j].of = instrs[k].of
    <3> HIDE DEF ops
    <3> QED
      BY <1>0, <2>1, <2>2, EmitResolved
  <2>5. DOMAIN instrs = DOMAIN ops
    BY <1>0, <2>2, EmitType
  <2>6. ASSUME Item.name \in Reached(body), NEW k \in DOMAIN instrs
        PROVE  /\ instrs[k].op = "call" => instrs[k].of \in Reached(body)
               /\ instrs[k].op # "alloc"
    <3>1. at \in Defs(body)
      BY <1>0 DEF Defs
    <3>2. Calls(ops) \subseteq Reached(body)
      BY <1>0, <2>6, <3>1, ReachedIsClosed
    <3>3. ops[k].op = "call" => ops[k].of \in Calls(ops)
      BY <2>5, <2>6 DEF Calls
    <3>4. ops[k].op # "new"
      BY <1>0, <2>5, <2>6, <3>1 DEF HelpersDoNotAllocate
    <3> QED
      BY <2>4, <3>2, <3>3, <3>4
  <2>7. Item.name \in Reached(body) =>
            \A k \in DOMAIN instrs :
                /\ instrs[k].op = "call" => instrs[k].of \in Reached(body)
                /\ instrs[k].op # "alloc"
    BY <2>6
  <2> HIDE DEF ops, instrs
  <2>8. \A k \in DOMAIN instrs :
            /\ instrs[k].op = "call" => instrs[k].of \in functions \cup {Item.name}
            /\ instrs[k].op = "decl" => instrs[k].cond = "once"
            /\ instrs[k].op = "use" =>
                   \E j \in 1 .. k - 1 : instrs[j].op = "decl" /\ instrs[j].of = instrs[k].of
    BY <2>4
  <2> QED
    BY <1>0, <2>1, <2>2, <2>3, <2>7, <2>8, DefineKeeps
<1> QED
  BY <1>1, <1>2

\* Steps that only keep an item for later, or skip it.
LEMMA KeepItemStep ==
    ASSUME IInv, skip_main_block \/ defer_handle \/ collect_init
    PROVE  IInv'
<1> USE DEF IInv, CodeInv
<1>1. /\ stage = "compile" /\ at \in DOMAIN body /\ at' = at + 1
      /\ UNCHANGED <<body, classes, functions, current_arena, code, process>>
  BY DEF skip_main_block, defer_handle, collect_init
<1>2. init_stmts' \in Seq(Operation)
  <2>1. CASE collect_init
    <3>1. Item.do \in Operation
      BY <2>1, ItemFacts DEF collect_init, Item, CodeType
    <3> QED
      BY <2>1, <3>1, AppendProperties DEF collect_init, CodeType
  <2>2. CASE ~ collect_init
    BY <2>2 DEF skip_main_block, defer_handle, CodeType
  <2> QED
    BY <2>1, <2>2
<1>3. handle_node' # 0 => handle_node' \in Defs(body) /\ body[handle_node'].name = "handle"
  BY DEF skip_main_block, defer_handle, collect_init, Item, Defs, CodeType
<1>4. CodeType'
  BY <1>1, <1>2, <1>3 DEF CodeType
<1>5. EntryPoints' /\ NamesResolved' /\ ExplicitClasses'
  BY <1>1 DEF EntryPoints, NamesResolved, ExplicitClasses, process
<1>6. ReachedCode'
  BY <1>1 DEF ReachedCode, StoresFields
<1> QED
  BY <1>1, <1>4, <1>5, <1>6, ProcessWaits

\* A new frame holds what it was called with.
LEMMA FrameFacts ==
    ASSUME NEW f \in Identifier, NEW r \in Refs
    PROVE  /\ Frame(f, r) \in Frames
           /\ Frame(f, r).fn = f /\ Frame(f, r).pc = 1
           /\ HeldBy(Frame(f, r)) = {r}
<1>1. [x \in {} |-> NoRef] \in [{} -> Refs]
  OBVIOUS
<1>2. [x \in {} |-> NoRef] \in Locals
  BY <1>1, Zenon DEF Locals
<1>3. Frame(f, r) \in Frames
  BY <1>2 DEF Frame, Frames
<1>4. /\ Frame(f, r).fn = f /\ Frame(f, r).pc = 1 /\ Frame(f, r).last = r
      /\ DOMAIN Frame(f, r).locals = {}
  BY DEF Frame
<1> QED
  BY <1>3, <1>4 DEF HeldBy

LEMMA EntryCodeFacts ==
    /\ EntryCode \in Seq(Instruction) /\ DOMAIN EntryCode = 1 .. 3
    /\ EntryCode[1].op = "alloc" /\ EntryCode[1].tag = ARENA_REQ /\ EntryCode[1].of = EventStruct
    /\ EntryCode[2].op = "call" /\ EntryCode[2].of = "handle"
    /\ EntryCode[3].op = "read"
<1>1. "handle" \in Identifier /\ "response" \in Identifier /\ EventStruct \in Identifier
  BY DEF Identifier
<1>2. \A k \in 1 .. 3 : EntryCode[k] \in Instruction
  BY <1>1 DEF EntryCode, Instruction, Conditions, Tags
<1> QED
  BY <1>2 DEF EntryCode

\* The entry points are built and lambpie_init is called.
LEMMA SynthesizeStep ==
    ASSUME IInv, synthesize_lambda_entry
    PROVE  IInv'
<1>0. stage = "compile" /\ body \in Programs
  BY DEF synthesize_lambda_entry, IInv, CodeInv, CodeType
<1>1. CASE fail
  BY <1>0, <1>1, FailStep
<1>2. CASE ~ fail
  <2> DEFINE hops == body[handle_node].ops
             hcode == Emit(hops, ARENA_REQ)
             icode == Emit(init_stmts, ARENA_STATIC)
  <2>1. /\ handle_node # 0
        /\ Resolved(hops, functions \cup {"handle"})
        /\ Resolved(init_stmts, functions \cup {"handle"})
        /\ functions \cap OwnFunctions = {}
        /\ functions' = functions \cup {"handle"}
        /\ current_arena' = ARENA_REQ
        /\ at' = 0
        /\ stage' = "init"
        /\ stack' = <<Frame("lambpie_init", NoRef)>>
        /\ UNCHANGED <<body, classes, handle_node, init_stmts, used, frozen, mem, epoch, loaded>>
    BY <1>2 DEF synthesize_lambda_entry
  <2>2. code' = [f \in DOMAIN code \cup {"handle", "lambpie_init", "lambpie_handle"} |->
                    CASE f = "handle" -> hcode
                      [] f = "lambpie_init" -> icode
                      [] f = "lambpie_handle" -> EntryCode
                      [] OTHER -> code[f]]
    BY <1>2 DEF synthesize_lambda_entry, FunctionArena
  <2>3. /\ DOMAIN code' = DOMAIN code \cup {"handle", "lambpie_init", "lambpie_handle"}
        /\ code'["handle"] = hcode /\ code'["lambpie_init"] = icode
        /\ code'["lambpie_handle"] = EntryCode
        /\ \A f \in DOMAIN code :
               f \notin {"handle", "lambpie_init", "lambpie_handle"} => code'[f] = code[f]
    <3> HIDE DEF hcode, icode
    <3> QED
      BY <2>2
  <2>4. /\ "lambpie_init" \notin functions /\ "lambpie_handle" \notin functions
        /\ "handle" \notin functions /\ functions \subseteq DOMAIN code
    BY <1>0, <2>1 DEF OwnFunctions, IInv, CodeInv, EntryPoints, CodeType
  <2>5. handle_node \in Defs(body) /\ body[handle_node].name = "handle"
    BY <2>1 DEF IInv, CodeInv, CodeType
  <2>6. hops \in Seq(Operation) /\ init_stmts \in Seq(Operation)
    BY <1>0, <2>5, ItemFacts DEF Defs, IInv, CodeInv, CodeType
  <2>7. ARENA_REQ \in Tags /\ ARENA_STATIC \in Tags
    BY DEF Tags
  <2>8. /\ hcode \in Seq(Instruction) /\ DOMAIN hcode = DOMAIN hops
        /\ icode \in Seq(Instruction)
    BY <2>6, <2>7, EmitType
  <2>9. "handle" \in Identifier /\ "lambpie_init" \in Identifier /\ "lambpie_handle" \in Identifier
    BY DEF Identifier, OwnFunctions
  <2>10. CodeType'
    <3> HIDE DEF hcode, icode
    <3>1. DOMAIN code' \subseteq Identifier /\ functions' \subseteq DOMAIN code'
      BY <2>1, <2>3, <2>4, <2>9 DEF IInv, CodeInv, CodeType
    <3>2. \A f \in DOMAIN code' : code'[f] \in Seq(Instruction)
      BY <2>3, <2>8, EntryCodeFacts DEF IInv, CodeInv, CodeType
    <3> QED
      BY <2>1, <2>5, <2>6, <2>7, <3>1, <3>2, <1>0 DEF CodeType
  <2>11. EntryPoints'
    BY <2>1, <2>3, <2>4 DEF EntryPoints
  <2>12. \A k \in DOMAIN hcode :
            /\ hcode[k].op = "call" => hops[k].op = "call" /\ hcode[k].of = hops[k].of
                                       /\ hcode[k].of \in functions'
            /\ hcode[k].op = "alloc" => /\ hops[k].op = "new" /\ hcode[k].of = hops[k].of
                                        /\ hcode[k].of \in DOMAIN classes
                                        /\ hcode[k].tag = ARENA_REQ
            /\ hcode[k].op = "decl" => hcode[k].cond = "once"
            /\ hcode[k].op = "use" =>
                   \E j \in 1 .. k - 1 : hcode[j].op = "decl" /\ hcode[j].of = hcode[k].of
    <3> HIDE DEF hops
    <3> QED
      BY <2>1, <2>6, <2>7, EmitResolved
  <2>13. \A k \in DOMAIN icode :
            /\ icode[k].op = "call" => icode[k].of \in functions'
            /\ icode[k].op = "decl" => icode[k].cond = "once"
            /\ icode[k].op = "use" =>
                   \E j \in 1 .. k - 1 : icode[j].op = "decl" /\ icode[j].of = icode[k].of
    BY <2>1, <2>6, <2>7, EmitResolved
  <2>14. \A k \in DOMAIN EntryCode :
            /\ EntryCode[k].op = "call" => EntryCode[k].of \in functions'
            /\ EntryCode[k].op \notin {"decl", "use"}
    BY <2>1, EntryCodeFacts
  <2>15. NamesResolved'
    <3> HIDE DEF hops, hcode, icode
    <3> SUFFICES ASSUME NEW f \in DOMAIN code', NEW k \in DOMAIN code'[f]
                 PROVE  /\ code'[f][k].op = "call" => code'[f][k].of \in functions'
                        /\ code'[f][k].op = "decl" => code'[f][k].cond = "once"
                        /\ code'[f][k].op = "use" =>
                               \E j \in 1 .. k - 1 : /\ code'[f][j].op = "decl"
                                                     /\ code'[f][j].of = code'[f][k].of
      BY DEF NamesResolved
    <3>1. CASE f = "handle"
      BY <2>3, <2>12, <3>1
    <3>2. CASE f = "lambpie_init"
      BY <2>3, <2>13, <3>2
    <3>3. CASE f = "lambpie_handle"
      BY <2>3, <2>14, <3>3
    <3>4. CASE f \notin {"handle", "lambpie_init", "lambpie_handle"}
      BY <2>1, <2>3, <3>4 DEF IInv, CodeInv, NamesResolved
    <3> QED
      BY <3>1, <3>2, <3>3, <3>4
  <2>16. ReachedCode'
    <3> HIDE DEF hcode, icode
    <3> SUFFICES ASSUME NEW f \in functions' \cap Reached(body), NEW k \in DOMAIN code'[f]
                 PROVE  /\ code'[f][k].op = "call" => code'[f][k].of \in Reached(body)
                        /\ code'[f][k].op = "alloc" =>
                               /\ f = "handle" /\ code'[f][k].tag = ARENA_REQ
                               /\ FieldsAreStored => StoresFields(code'[f][k].of)
      BY <2>1 DEF ReachedCode, StoresFields
    <3>1. CASE f = "handle"
      <4>1. Calls(hops) \subseteq Reached(body)
        BY <2>5, ReachedIsClosed
      <4>2. hops[k].op = "call" => hops[k].of \in Calls(hops)
        BY <2>3, <2>8, <3>1 DEF Calls
      <4>3. ASSUME FieldsAreStored, hcode[k].op = "alloc"
            PROVE  StoresFields(hcode[k].of)
        <5>1. k \in DOMAIN hcode /\ k \in DOMAIN hops
          BY <2>3, <2>8, <3>1
        <5>2. hops[k].op = "new" /\ hcode[k].of = hops[k].of /\ hops[k].of \in DOMAIN classes
          BY <2>12, <4>3, <5>1
        <5>3. /\ hops[k].of \notin BuiltinClasses
              /\ \A i \in DOMAIN body :
                     body[i].kind = "class" /\ body[i].name = hops[k].of => ~ body[i].explicit
          <6>1. body[handle_node].kind = "def" /\ handle_node \in DOMAIN body
            BY <2>5 DEF Defs
          <6>2. FieldsStored(body) /\ IsHandle(body, handle_node)
            BY <1>0, <2>5, <4>3, <6>1 DEF FieldsAreStored, IsHandle
          <6> QED
            BY <5>1, <5>2, <6>1, <6>2 DEF FieldsStored
        <5>4. ~ classes[hops[k].of].explicit
          BY <5>2, <5>3 DEF IInv, CodeInv, ExplicitClasses
        <5> QED
          BY <5>2, <5>4 DEF StoresFields
      <4> QED
        BY <2>3, <2>12, <3>1, <4>1, <4>2, <4>3
    <3>2. CASE f # "handle"
      <4>1. f \in functions /\ code'[f] = code[f]
        BY <2>1, <2>3, <2>4, <3>2
      <4> QED
        BY <2>1, <4>1 DEF IInv, CodeInv, ReachedCode, StoresFields
    <3> QED
      BY <3>1, <3>2
  <2>17. ExplicitClasses'
    BY <2>1 DEF IInv, CodeInv, ExplicitClasses
  <2>18. NoRef \in Refs /\ NoRef.epoch = 0
    BY DEF NoRef, Refs
  <2>19. /\ stack' \in Seq(Frames) /\ DOMAIN stack' = {1} /\ stack' # <<>>
         /\ stack'[1].fn = "lambpie_init" /\ stack'[1].pc = 1 /\ HeldBy(stack'[1]) = {NoRef}
    <3> DEFINE fr == Frame("lambpie_init", NoRef)
    <3>1. fr \in Frames /\ fr.fn = "lambpie_init" /\ fr.pc = 1 /\ HeldBy(fr) = {NoRef}
      BY <2>9, <2>18, FrameFacts
    <3> HIDE DEF fr
    <3>2. stack' = <<fr>>
      BY <2>1 DEF fr
    <3>3. stack' \in Seq(Frames) /\ DOMAIN stack' = {1} /\ stack'[1] = fr /\ stack' # <<>>
      BY <3>1, <3>2
    <3> QED
      BY <3>1, <3>3
  <2>20. ProcessType'
    BY <1>0, <2>1, <2>3, <2>19 DEF IInv, ProcessInv, ProcessType
  <2>21. VariablesExist'
    <3>1. DOMAIN code'["lambpie_init"] \subseteq Nat \ {0}
      BY <2>3, <2>8, LenProperties
    <3> QED
      BY <2>19, <3>1 DEF VariablesExist, DeclaredIn
  <2>22. FirstGeneration'
    BY <1>0, <2>1, <2>18, <2>19 DEF IInv, ProcessInv, FirstGeneration
  <2>23. Serving' /\ NoFault'
    BY <2>1 DEF Serving, NoFault
  <2>24. FieldsAlive'
    <3>1. \A k \in 1 .. used[ARENA_REQ] : k \in Cell
      BY <2>7, PieAssumption DEF IInv, ProcessInv, ProcessType, Cell
    <3> QED
      BY <1>0, <2>1, <2>7, <3>1 DEF IInv, ProcessInv, FirstGeneration, FieldsAlive, Lives
  <2> QED
    BY <2>10, <2>11, <2>15, <2>16, <2>17, <2>20, <2>21, <2>22, <2>23, <2>24
    DEF IInv, CodeInv, ProcessInv
<1> QED
  BY <1>1, <1>2

LEMMA CompileKeeps ==
    ASSUME HelpersDoNotAllocate, IInv, CompileStep
    PROVE  IInv'
<1>1. CASE visit_block
  BY <1>1, FailStep DEF visit_block
<1> QED
  BY <1>1, ClassStep, ImportStep, FunctionStep, KeepItemStep, SynthesizeStep DEF CompileStep

-----------------------------------------------------------------------------
(* The run.                                                                  *)

\* A reference, and a frame, as the invariant wants them when u objects are in the
\* request arena.
GoodRef(r, u) ==
    /\ stage = "init" => r.epoch = 0
    /\ stage = "handle" =>
           r \in {NoRef, Wild} \/ (r.tag = ARENA_REQ /\ r.epoch = epoch /\ r.slot \in 1 .. u)

GoodFrame(fr, u) ==
    /\ fr \in Frames /\ fr.fn \in DOMAIN code /\ DeclaredIn(fr)
    /\ stage = "handle" => fr.fn \in (functions \cap Reached(body)) \cup {"lambpie_handle"}
    /\ \A r \in HeldBy(fr) : GoodRef(r, u)

LEMMA FramesAreGood ==
    ASSUME IInv, Executing, NEW i \in DOMAIN stack
    PROVE  GoodFrame(stack[i], used[ARENA_REQ])
<1>1. stack[i] \in Frames
  BY ElementOfSeq, LenProperties DEF IInv, ProcessInv, ProcessType
<1> QED
  BY <1>1 DEF IInv, ProcessInv, ProcessType, VariablesExist, FirstGeneration, Serving,
              Executing, GoodFrame, GoodRef, Current

LEMMA GoodGrows ==
    ASSUME NEW u \in Nat, NEW v \in Nat, u <= v, NEW fr, GoodFrame(fr, u)
    PROVE  GoodFrame(fr, v)
  BY DEF GoodFrame, GoodRef

\* The invariant after a step of the running code.
LEMMA StepKeeps ==
    ASSUME IInv, Executing, UNCHANGED <<compiler, stage, frozen, epoch>>,
           used' \in [Tags -> Nat], \A t \in Tags : used'[t] <= Slots[t],
           mem' \in [Tags -> [Cell -> Refs]], loaded' \in Refs,
           stage = "init" =>
               loaded'.epoch = 0 /\ \A t \in Tags : \A k \in Cell : mem'[t][k].epoch = 0,
           FieldsAreStored =>
               /\ Lives(loaded')
               /\ \A k \in 1 .. used'[ARENA_REQ] : Lives(mem'[ARENA_REQ][k]),
           stack' \in Seq(Frames), stack' # <<>>,
           \A i \in DOMAIN stack' : GoodFrame(stack'[i], used'[ARENA_REQ])
    PROVE  IInv'
<1>1. stage \in {"init", "handle"} /\ stage' = stage
  BY DEF Executing
<1>2. CodeType' /\ NamesResolved' /\ ExplicitClasses'
  BY DEF CodeType, NamesResolved, ExplicitClasses, compiler, IInv, CodeInv
<1>3. ReachedCode'
  BY DEF ReachedCode, StoresFields, compiler, IInv, CodeInv
<1>4. EntryPoints'
  BY <1>1 DEF EntryPoints, compiler, IInv, CodeInv
<1>5. ProcessType'
  BY <1>1 DEF ProcessType, compiler, IInv, ProcessInv, GoodFrame
<1>6. VariablesExist'
  BY DEF VariablesExist, DeclaredIn, GoodFrame, compiler
<1>7. FirstGeneration'
  BY <1>1 DEF FirstGeneration, GoodFrame, GoodRef, IInv, ProcessInv
<1>8. Serving'
  BY <1>1 DEF Serving, GoodFrame, GoodRef, Current, compiler
<1>9. FieldsAlive'
  BY DEF FieldsAlive, Lives
<1>10. NoFault'
  BY <1>1 DEF NoFault
<1> QED
  BY <1>2, <1>3, <1>4, <1>5, <1>6, <1>7, <1>8, <1>9, <1>10 DEF IInv, CodeInv, ProcessInv

\* What the step reads.
LEMMA TopFacts ==
    ASSUME IInv, InstrLeft
    PROVE  /\ Executing
           /\ stack \in Seq(Frames) /\ stack # <<>>
           /\ Len(stack) \in DOMAIN stack /\ DOMAIN stack = 1 .. Len(stack) /\ Len(stack) \in Nat
           /\ Top \in Frames /\ GoodFrame(Top, used[ARENA_REQ])
           /\ Top.pc \in DOMAIN code[Top.fn] /\ Top.pc \in Nat \ {0}
           /\ Instr = code[Top.fn][Top.pc] /\ Instr \in Instruction
<1>1. Executing /\ stack \in Seq(Frames) /\ stack # <<>>
  BY DEF InstrLeft, Executing, IInv, ProcessInv, ProcessType
<1>2. Len(stack) \in DOMAIN stack /\ DOMAIN stack = 1 .. Len(stack) /\ Len(stack) \in Nat
  BY <1>1, EmptySeq, LenProperties
<1>3. Top \in Frames /\ GoodFrame(Top, used[ARENA_REQ])
  BY <1>1, <1>2, FramesAreGood DEF Top, GoodFrame
<1>4. code[Top.fn] \in Seq(Instruction) /\ Top.pc \in Nat \ {0}
  BY <1>3 DEF GoodFrame, Frames, IInv, CodeInv, CodeType
<1>5. Top.pc \in DOMAIN code[Top.fn]
  BY <1>4, LenProperties DEF InstrLeft
<1>6. Instr = code[Top.fn][Top.pc] /\ Instr \in Instruction
  BY <1>4, <1>5, ElementOfSeq, LenProperties DEF Instr
<1> QED
  BY <1>1, <1>2, <1>3, <1>4, <1>5, <1>6

\* The top frame is replaced by a good one.
LEMMA TopReplaced ==
    ASSUME IInv, InstrLeft, NEW v \in Nat, used[ARENA_REQ] <= v,
           NEW fr, GoodFrame(fr, v), NEW s, s = [stack EXCEPT ![Len(stack)] = fr]
    PROVE  /\ s \in Seq(Frames) /\ s # <<>> /\ DOMAIN s = DOMAIN stack
           /\ \A i \in DOMAIN s : GoodFrame(s[i], v)
<1>1. /\ Executing /\ stack \in Seq(Frames) /\ stack # <<>>
      /\ Len(stack) \in DOMAIN stack /\ DOMAIN stack = 1 .. Len(stack) /\ Len(stack) \in Nat
  BY TopFacts
<1>2. fr \in Frames
  BY DEF GoodFrame
<1>3. s \in Seq(Frames) /\ DOMAIN s = DOMAIN stack /\ s # <<>>
  BY <1>1, <1>2, ExceptSeq, EmptySeq
<1>4. ARENA_REQ \in Tags /\ used[ARENA_REQ] \in Nat
  BY DEF Tags, IInv, ProcessInv, ProcessType
<1>5. ASSUME NEW i \in DOMAIN s PROVE GoodFrame(s[i], v)
  <2>1. s[i] = IF i = Len(stack) THEN fr ELSE stack[i]
    BY <1>1, <1>3
  <2>2. GoodFrame(stack[i], v)
    BY <1>1, <1>3, <1>4, FramesAreGood, GoodGrows
  <2> QED
    BY <2>1, <2>2
<1> QED
  BY <1>3, <1>5

LEMMA LocalsFacts ==
    ASSUME NEW l \in Locals
    PROVE  DOMAIN l \subseteq Identifier /\ \A x \in DOMAIN l : l[x] \in Refs
  BY DEF Locals

\* The top frame moves on, with the object r at hand.
LEMMA MovedIsGood ==
    ASSUME IInv, InstrLeft, NEW v \in Nat, used[ARENA_REQ] <= v,
           NEW fr \in Frames, fr.fn = Top.fn, fr.locals = Top.locals, GoodRef(fr.last, v),
           fr.pc \in {Top.pc, Top.pc + 1}, Instr.op # "decl"
    PROVE  GoodFrame(fr, v)
<1>1. /\ Top \in Frames /\ GoodFrame(Top, used[ARENA_REQ])
      /\ Top.pc \in Nat \ {0} /\ Instr = code[Top.fn][Top.pc]
  BY TopFacts
<1>2. GoodFrame(Top, v)
  BY <1>1, GoodGrows DEF IInv, ProcessInv, ProcessType, Tags
<1>3. DeclaredIn(fr)
  <2> SUFFICES ASSUME NEW k \in DOMAIN code[Top.fn], k < fr.pc, code[Top.fn][k].op = "decl"
               PROVE  code[Top.fn][k].of \in DOMAIN Top.locals
    BY DEF DeclaredIn
  <2>1. k \in Nat
    BY <1>1, LenProperties DEF GoodFrame, IInv, CodeInv, CodeType
  <2>2. k < Top.pc
    BY <1>1, <2>1
  <2> QED
    BY <1>1, <2>2 DEF GoodFrame, DeclaredIn
<1>4. \A q \in HeldBy(fr) : GoodRef(q, v)
  BY <1>2 DEF HeldBy, GoodFrame
<1> QED
  BY <1>2, <1>3, <1>4 DEF GoodFrame

LEMMA TopMoves ==
    ASSUME IInv, InstrLeft, NEW v \in Nat, used[ARENA_REQ] <= v,
           NEW r \in Refs, GoodRef(r, v), NEW next \in {Top.pc, Top.pc + 1}, Instr.op # "decl"
    PROVE  GoodFrame([Top EXCEPT !.pc = next, !.last = r], v)
<1> DEFINE fr == [Top EXCEPT !.pc = next, !.last = r]
<1>1. Top \in Frames /\ Top.pc \in Nat \ {0}
  BY TopFacts
<1> HIDE DEF fr
<1>2. fr \in Frames
  <2>1. next \in Nat \ {0}
    BY <1>1
  <2> QED
    BY <1>1, <2>1 DEF Frames, fr
<1>3. fr.fn = Top.fn /\ fr.locals = Top.locals
  BY <1>1 DEF Frames, fr
<1>4. fr.pc = next /\ fr.last = r
  BY <1>1 DEF Frames, fr
<1>5. GoodFrame(fr, v)
  BY <1>2, <1>3, <1>4, MovedIsGood
<1> QED
  BY <1>5 DEF fr

\* What the invariant says of the memory while code runs.
LEMMA MemoryFacts ==
    ASSUME IInv, Executing
    PROVE  /\ used \in [Tags -> Nat] /\ \A t \in Tags : used[t] <= Slots[t]
           /\ ARENA_REQ \in Tags /\ used[ARENA_REQ] \in Nat
           /\ mem \in [Tags -> [Cell -> Refs]] /\ loaded \in Refs /\ epoch \in Nat
           /\ stage = "init" =>
                  /\ loaded.epoch = 0 /\ epoch = 0 /\ ~ frozen
                  /\ \A t \in Tags : \A k \in Cell : mem[t][k].epoch = 0
           /\ FieldsAreStored =>
                  /\ Lives(loaded)
                  /\ \A k \in 1 .. used[ARENA_REQ] : Lives(mem[ARENA_REQ][k])
<1>1. stage \in {"init", "handle"} /\ ARENA_REQ \in Tags
  BY DEF Executing, Tags
<1> QED
  BY <1>1 DEF IInv, ProcessInv, ProcessType, FirstGeneration, FieldsAlive

\* A step that changes the top frame and, with a field read, what was loaded.
LEMMA TopStep ==
    ASSUME IInv, InstrLeft, UNCHANGED <<compiler, stage, used, frozen, mem, epoch>>,
           NEW fr, GoodFrame(fr, used[ARENA_REQ]), stack' = [stack EXCEPT ![Len(stack)] = fr],
           loaded' \in Refs, stage = "init" => loaded'.epoch = 0,
           FieldsAreStored => Lives(loaded')
    PROVE  IInv'
<1>1. Executing
  BY TopFacts
<1>2. /\ used \in [Tags -> Nat] /\ \A t \in Tags : used[t] <= Slots[t]
      /\ ARENA_REQ \in Tags /\ used[ARENA_REQ] \in Nat
      /\ mem \in [Tags -> [Cell -> Refs]]
      /\ stage = "init" => \A t \in Tags : \A k \in Cell : mem[t][k].epoch = 0
      /\ FieldsAreStored => \A k \in 1 .. used[ARENA_REQ] : Lives(mem[ARENA_REQ][k])
  BY <1>1, MemoryFacts
<1>3. /\ stack' \in Seq(Frames) /\ stack' # <<>>
      /\ \A i \in DOMAIN stack' : GoodFrame(stack'[i], used[ARENA_REQ])
  <2>1. used[ARENA_REQ] <= used[ARENA_REQ]
    BY <1>2
  <2> QED
    BY <1>2, <2>1, TopReplaced, Zenon
<1>4. mem' = mem /\ used' = used
  OBVIOUS
<1> QED
  BY <1>1, <1>2, <1>3, <1>4, StepKeeps

LEMMA NextPcFacts ==
    ASSUME NEW next \in NextPc
    PROVE  next \in {Top.pc, Top.pc + 1}
  BY DEF NextPc

\* An object at hand is one that Top holds.
LEMMA TopHolds ==
    ASSUME IInv, InstrLeft
    PROVE  /\ Top.last \in Refs /\ GoodRef(Top.last, used[ARENA_REQ])
           /\ \A x \in DOMAIN Top.locals :
                  Top.locals[x] \in Refs /\ GoodRef(Top.locals[x], used[ARENA_REQ])
<1>1. Top \in Frames /\ GoodFrame(Top, used[ARENA_REQ])
  BY TopFacts
<1>2. Top.last \in Refs /\ Top.locals \in Locals
  BY <1>1 DEF Frames
<1> QED
  BY <1>1, <1>2, LocalsFacts DEF GoodFrame, HeldBy

LEMMA ReadStep ==
    ASSUME IInv, run_read
    PROVE  IInv'
<1>1. InstrLeft /\ Instr.op = "read" /\ Executing
  BY TopFacts DEF run_read
<1>2. CASE die("crash")
  <2>1. stage \in {"init", "handle"}
    BY <1>1 DEF Executing
  <2> QED
    BY <1>2, <2>1, StopKeeps DEF die
<1>3. CASE /\ loaded' = IF Top.last \in {NoRef, Wild} THEN Top.last
                        ELSE mem[Top.last.tag][Top.last.slot]
           /\ Advance(Top.last)
           /\ UNCHANGED <<compiler, stage, used, frozen, mem, epoch>>
  <2>1. PICK next \in NextPc :
            stack' = [stack EXCEPT ![Len(stack)] = [@ EXCEPT !.pc = next, !.last = Top.last]]
    BY <1>3 DEF Advance
  <2>2. Top.last \in Refs /\ GoodRef(Top.last, used[ARENA_REQ])
    BY <1>1, TopHolds
  <2>3. used[ARENA_REQ] \in Nat /\ used[ARENA_REQ] <= used[ARENA_REQ]
    BY <1>1, MemoryFacts
  <2>4. GoodFrame([Top EXCEPT !.pc = next, !.last = Top.last], used[ARENA_REQ])
    BY <1>1, <2>2, <2>3, NextPcFacts, TopMoves
  <2>5. stack' = [stack EXCEPT ![Len(stack)] = [Top EXCEPT !.pc = next, !.last = Top.last]]
    BY <2>1 DEF Top
  <2>6. /\ loaded' \in Refs
        /\ stage = "init" => loaded'.epoch = 0
        /\ FieldsAreStored => Lives(loaded')
    <3>1. CASE Top.last \in {NoRef, Wild}
      BY <1>3, <3>1 DEF Refs, NoRef, Wild, Lives
    <3>2. CASE Top.last \notin {NoRef, Wild}
      <4>1. loaded' = mem[Top.last.tag][Top.last.slot]
        BY <1>3, <3>2
      <4>2. Top.last.tag \in Tags /\ Top.last.slot \in Cell
        BY <2>2, <3>2 DEF Refs
      <4>3. loaded' \in Refs /\ (stage = "init" => loaded'.epoch = 0)
        BY <1>1, <4>1, <4>2, MemoryFacts
      <4>4. CASE stage = "init"
        BY <1>1, <4>3, <4>4, MemoryFacts DEF Lives
      <4>5. CASE stage = "handle"
        <5>1. Top.last.tag = ARENA_REQ /\ Top.last.slot \in 1 .. used[ARENA_REQ]
          BY <2>2, <3>2, <4>5 DEF GoodRef
        <5> QED
          BY <1>1, <4>1, <4>3, <4>5, <5>1, MemoryFacts
      <4> QED
        BY <1>1, <4>3, <4>4, <4>5 DEF Executing
    <3> QED
      BY <3>1, <3>2
  <2> QED
    BY <1>1, <1>3, <2>4, <2>5, <2>6, TopStep
<1> QED
  BY <1>2, <1>3 DEF run_read

LEMMA UseStep ==
    ASSUME IInv, run_use
    PROVE  IInv'
<1>1. /\ InstrLeft /\ Instr.op = "use" /\ loaded' = loaded
      /\ UNCHANGED <<compiler, stage, used, frozen, mem, epoch>>
  BY DEF run_use
<1> DEFINE r == Top.locals[Instr.of]
<1>2. PICK next \in NextPc :
          stack' = [stack EXCEPT ![Len(stack)] = [@ EXCEPT !.pc = next, !.last = r]]
  BY DEF run_use, Advance
<1>3. /\ Executing /\ GoodFrame(Top, used[ARENA_REQ])
      /\ Top.pc \in DOMAIN code[Top.fn] /\ Top.pc \in Nat \ {0}
      /\ Instr = code[Top.fn][Top.pc]
  BY <1>1, TopFacts
<1>4. Instr.of \in DOMAIN Top.locals
  <2>1. PICK j \in 1 .. Top.pc - 1 :
            code[Top.fn][j].op = "decl" /\ code[Top.fn][j].of = Instr.of
    BY <1>1, <1>3 DEF GoodFrame, IInv, CodeInv, NamesResolved
  <2>2. j \in DOMAIN code[Top.fn] /\ j < Top.pc
    BY <1>3, LenProperties DEF GoodFrame, IInv, CodeInv, CodeType
  <2> QED
    BY <1>3, <2>1, <2>2 DEF GoodFrame, DeclaredIn
<1>5. r \in Refs /\ GoodRef(r, used[ARENA_REQ])
  BY <1>1, <1>4, TopHolds
<1>6. used[ARENA_REQ] \in Nat /\ used[ARENA_REQ] <= used[ARENA_REQ]
  BY <1>3, MemoryFacts
<1> HIDE DEF r
<1>7. GoodFrame([Top EXCEPT !.pc = next, !.last = r], used[ARENA_REQ])
  BY <1>1, <1>5, <1>6, NextPcFacts, TopMoves
<1>8. stack' = [stack EXCEPT ![Len(stack)] = [Top EXCEPT !.pc = next, !.last = r]]
  BY <1>2 DEF Top
<1> QED
  BY <1>1, <1>3, <1>7, <1>8, TopStep, MemoryFacts

\* The branch around an instruction: a declaration is never skipped.
LEMMA SkipStep ==
    ASSUME IInv, run_skip
    PROVE  IInv'
<1> DEFINE fr == [Top EXCEPT !.pc = Top.pc + 1]
<1>1. /\ InstrLeft /\ Instr.cond # "once" /\ loaded' = loaded
      /\ UNCHANGED <<compiler, stage, used, frozen, mem, epoch>>
  BY DEF run_skip
<1>2. stack' = [stack EXCEPT ![Len(stack)] = fr]
  BY DEF run_skip, Top
<1>3. /\ Executing /\ Top \in Frames /\ Top.pc \in Nat \ {0}
      /\ GoodFrame(Top, used[ARENA_REQ]) /\ Top.pc \in DOMAIN code[Top.fn]
      /\ Instr = code[Top.fn][Top.pc]
  BY <1>1, TopFacts
<1>4. Instr.op # "decl"
  BY <1>1, <1>3 DEF GoodFrame, IInv, CodeInv, NamesResolved
<1> HIDE DEF fr
<1>5. fr \in Frames
  BY <1>3 DEF Frames, fr
<1>6. fr.fn = Top.fn /\ fr.locals = Top.locals /\ fr.last = Top.last /\ fr.pc = Top.pc + 1
  BY <1>3 DEF Frames, fr
<1>7. used[ARENA_REQ] \in Nat /\ GoodRef(Top.last, used[ARENA_REQ])
  BY <1>1, <1>3, MemoryFacts, TopHolds
<1>8. GoodFrame(fr, used[ARENA_REQ])
  BY <1>1, <1>4, <1>5, <1>6, <1>7, MovedIsGood
<1> QED
  BY <1>1, <1>2, <1>3, <1>8, TopStep, MemoryFacts

\* A declaration brings its variable into being, and nothing is forgotten.
LEMMA BindStep ==
    ASSUME IInv, InstrLeft, NEW b \in Refs, GoodRef(b, used[ARENA_REQ]), Bind(b)
    PROVE  IInv'
<1> DEFINE l == [x \in DOMAIN Top.locals \cup {Instr.of} |->
                    IF x = Instr.of THEN b ELSE Top.locals[x]]
           fr == [Top EXCEPT !.pc = Top.pc + 1, !.locals = l]
<1>1. /\ InstrLeft /\ loaded' = loaded
      /\ UNCHANGED <<compiler, stage, used, frozen, mem, epoch>>
  BY DEF Bind
<1>2. stack' = [stack EXCEPT ![Len(stack)] = fr]
  BY DEF Bind, Top
<1>3. /\ Executing /\ Top \in Frames /\ Top.pc \in Nat \ {0}
      /\ GoodFrame(Top, used[ARENA_REQ]) /\ Top.pc \in DOMAIN code[Top.fn]
      /\ Instr = code[Top.fn][Top.pc] /\ Instr \in Instruction
  BY <1>1, TopFacts
<1>4. Top.locals \in Locals /\ Instr.of \in Identifier
  BY <1>3 DEF Frames, Instruction
<1>5. DOMAIN Top.locals \cup {Instr.of} \subseteq Identifier
  BY <1>4, LocalsFacts
<1>6. \A x \in DOMAIN l : l[x] \in Refs /\ GoodRef(l[x], used[ARENA_REQ])
  BY <1>1, TopHolds
<1>7. DOMAIN l = DOMAIN Top.locals \cup {Instr.of}
  OBVIOUS
<1>8. l \in Locals
  <2>1. l \in [DOMAIN Top.locals \cup {Instr.of} -> Refs]
    BY <1>6
  <2> HIDE DEF l
  <2> QED
    BY <1>5, <2>1, Zenon DEF Locals
<1> HIDE DEF fr, l
<1>9. fr \in Frames
  <2>1. Top.pc + 1 \in Nat \ {0}
    BY <1>3
  <2> QED
    BY <1>3, <1>8, <2>1 DEF Frames, fr
<1>10. fr.fn = Top.fn /\ fr.last = Top.last
  BY <1>3 DEF Frames, fr
<1>11. fr.pc = Top.pc + 1 /\ fr.locals = l
  BY <1>3 DEF Frames, fr
<1>12. DeclaredIn(fr)
  <2> SUFFICES ASSUME NEW k \in DOMAIN code[Top.fn], k < Top.pc + 1, code[Top.fn][k].op = "decl"
               PROVE  code[Top.fn][k].of \in DOMAIN l
    BY <1>10, <1>11 DEF DeclaredIn
  <2>1. k \in Nat
    BY <1>3, LenProperties DEF GoodFrame, IInv, CodeInv, CodeType
  <2>2. k = Top.pc \/ k < Top.pc
    BY <1>3, <2>1
  <2>3. CASE k < Top.pc
    BY <1>3, <1>7, <2>3 DEF GoodFrame, DeclaredIn
  <2> QED
    BY <1>3, <1>7, <2>2, <2>3
<1>13. \A r \in HeldBy(fr) : GoodRef(r, used[ARENA_REQ])
  BY <1>1, <1>6, <1>10, <1>11, TopHolds DEF HeldBy
<1>14. GoodFrame(fr, used[ARENA_REQ])
  BY <1>3, <1>9, <1>10, <1>12, <1>13 DEF GoodFrame
<1> QED
  BY <1>1, <1>2, <1>3, <1>14, TopStep, MemoryFacts

LEMMA DeclStep ==
    ASSUME IInv, run_decl
    PROVE  IInv'
<1>1. Wild \in Refs /\ GoodRef(Wild, used[ARENA_REQ])
  BY DEF Refs, GoodRef, Wild
<1> QED
  BY <1>1, BindStep DEF run_decl

LEMMA StoreStep ==
    ASSUME IInv, run_store
    PROVE  IInv'
<1>1. Top.last \in Refs /\ GoodRef(Top.last, used[ARENA_REQ])
  BY TopHolds DEF run_store
<1> QED
  BY <1>1, BindStep DEF run_store

\* What an invocation allocates comes from the request arena.
LEMMA HandleAllocates ==
    ASSUME IInv, InstrLeft, stage = "handle", Instr.op = "alloc"
    PROVE  Instr.tag = ARENA_REQ /\ (FieldsAreStored => StoresFields(Instr.of))
<1>1. /\ GoodFrame(Top, used[ARENA_REQ]) /\ Top.pc \in DOMAIN code[Top.fn]
      /\ Instr = code[Top.fn][Top.pc]
  BY TopFacts
<1>2. CASE Top.fn = "lambpie_handle"
  <2>1. code[Top.fn] = EntryCode
    BY <1>2 DEF IInv, CodeInv, EntryPoints
  <2>2. Instr.tag = ARENA_REQ /\ Instr.of = EventStruct
    BY <1>1, <2>1, EntryCodeFacts
  <2> QED
    BY <2>2 DEF StoresFields
<1>3. CASE Top.fn \in functions \cap Reached(body)
  BY <1>1, <1>3 DEF IInv, CodeInv, ReachedCode
<1> QED
  BY <1>1, <1>2, <1>3 DEF GoodFrame

LEMMA AllocStep ==
    ASSUME IInv, run_alloc
    PROVE  IInv'
<1> DEFINE t == Instr.tag
           r == [tag |-> t, slot |-> used[t] + 1, epoch |-> IF t = ARENA_REQ THEN epoch ELSE 0]
           v == used'[ARENA_REQ]
<1>1. /\ InstrLeft /\ Instr.op = "alloc" /\ Executing /\ Instr \in Instruction
      /\ t \in Tags /\ ARENA_REQ \in Tags
  BY TopFacts DEF run_alloc, Instruction, Tags
<1>2. stage \in {"init", "handle"}
  BY <1>1 DEF Executing
<1>3. stage = "handle" => t = ARENA_REQ /\ (FieldsAreStored => StoresFields(Instr.of))
  BY <1>1, HandleAllocates
<1>4. ~ (StoresFields(Instr.of) /\ t = ARENA_STATIC /\ frozen)
  BY <1>1, <1>2, <1>3, MemoryFacts DEF ARENA_STATIC, ARENA_REQ
<1>5. CASE used[t] = Slots[t]
  BY <1>2, <1>5, StopKeeps DEF run_alloc, die
<1>6. CASE used[t] # Slots[t]
  <2>1. /\ used' = [used EXCEPT ![t] = @ + 1]
        /\ mem' = IF StoresFields(Instr.of)
                  THEN [mem EXCEPT ![t][used[t] + 1] = Top.last]
                  ELSE mem
        /\ Advance(r)
        /\ UNCHANGED <<compiler, stage, frozen, epoch, loaded>>
    BY <1>4, <1>6 DEF run_alloc
  <2>2. /\ used \in [Tags -> Nat] /\ \A g \in Tags : used[g] <= Slots[g] /\ Slots[g] \in Nat
        /\ mem \in [Tags -> [Cell -> Refs]] /\ epoch \in Nat /\ loaded \in Refs
    BY <1>1, MemoryFacts, PieAssumption
  <2>3. used[t] \in Nat /\ used[t] + 1 <= Slots[t] /\ used[t] + 1 \in Cell
    <3>0. used[t] \in Nat /\ used[t] <= Slots[t] /\ Slots[t] \in Nat
      BY <1>1, <2>2
    <3>1. used[t] \in Nat /\ used[t] + 1 <= Slots[t] /\ Slots[t] \in Nat
      BY <1>6, <3>0
    <3> QED
      BY <1>1, <3>1 DEF Cell, Tags
  <2>4. /\ used' \in [Tags -> Nat] /\ \A g \in Tags : used'[g] <= Slots[g]
        /\ used[ARENA_REQ] <= v /\ v \in Nat /\ used[ARENA_REQ] \in Nat
        /\ t = ARENA_REQ => v = used[ARENA_REQ] + 1
        /\ t # ARENA_REQ => v = used[ARENA_REQ]
    BY <1>1, <2>1, <2>2, <2>3
  <2>5. r \in Refs
    BY <1>1, <2>2, <2>3 DEF Refs
  <2>6. GoodRef(r, v)
    <3>1. stage = "init" => r.epoch = 0
      BY <1>1, MemoryFacts
    <3>2. stage = "handle" => r.tag = ARENA_REQ /\ r.epoch = epoch /\ r.slot \in 1 .. v
      BY <1>3, <2>4
    <3> HIDE DEF r, v
    <3> QED
      BY <3>1, <3>2 DEF GoodRef
  <2>7. Top.last \in Refs /\ GoodRef(Top.last, used[ARENA_REQ])
    BY <1>1, TopHolds
  <2>8. /\ mem' \in [Tags -> [Cell -> Refs]]
        /\ \A g \in Tags : \A k \in Cell :
               mem'[g][k] = mem[g][k]
               \/ (g = t /\ k = used[t] + 1 /\ StoresFields(Instr.of) /\ mem'[g][k] = Top.last)
        /\ StoresFields(Instr.of) => mem'[t][used[t] + 1] = Top.last
    <3>1. CASE ~ StoresFields(Instr.of)
      BY <2>1, <2>2, <3>1
    <3>2. CASE StoresFields(Instr.of)
      <4>1. mem' = [mem EXCEPT ![t] = [mem[t] EXCEPT ![used[t] + 1] = Top.last]]
        BY <2>1, <3>2
      <4>2. mem[t] \in [Cell -> Refs]
        BY <1>1, <2>2
      <4> DEFINE m == [mem[t] EXCEPT ![used[t] + 1] = Top.last]
      <4>3. /\ m \in [Cell -> Refs] /\ m[used[t] + 1] = Top.last
            /\ \A k \in Cell : k # used[t] + 1 => m[k] = mem[t][k]
        BY <2>3, <2>7, <4>2
      <4> HIDE DEF m
      <4>4. mem' = [mem EXCEPT ![t] = m]
        BY <4>1 DEF m
      <4>5. mem' \in [Tags -> [Cell -> Refs]] /\ mem'[t] = m /\ \A g \in Tags : g # t => mem'[g] = mem[g]
        BY <1>1, <2>2, <4>3, <4>4
      <4> QED
        BY <3>2, <4>3, <4>5
    <3> QED
      BY <3>1, <3>2
  <2>9. stage = "init" => loaded'.epoch = 0 /\ \A g \in Tags : \A k \in Cell : mem'[g][k].epoch = 0
    BY <1>1, <2>1, <2>7, <2>8, MemoryFacts DEF GoodRef
  <2>10. ASSUME FieldsAreStored
         PROVE  /\ Lives(loaded')
                /\ \A k \in 1 .. v : Lives(mem'[ARENA_REQ][k])
    <3>1. Lives(loaded')
      BY <1>1, <2>1, <2>10, MemoryFacts
    <3> SUFFICES ASSUME NEW k \in 1 .. v PROVE Lives(mem'[ARENA_REQ][k])
      BY <3>1
    <3>2. k \in Cell
      BY <1>1, <2>2, <2>4 DEF Cell
    <3>3. CASE stage = "init"
      BY <1>1, <2>9, <3>2, <3>3, MemoryFacts DEF Lives
    <3>4. CASE stage = "handle"
      <4>1. t = ARENA_REQ /\ StoresFields(Instr.of) /\ v = used[ARENA_REQ] + 1
        BY <1>3, <2>4, <2>10, <3>4
      <4>2. CASE k = used[ARENA_REQ] + 1
        <5>1. mem'[ARENA_REQ][k] = Top.last
          BY <2>8, <4>1, <4>2
        <5> QED
          BY <2>7, <3>4, <5>1 DEF GoodRef, Lives
      <4>3. CASE k # used[ARENA_REQ] + 1
        <5>1. k \in 1 .. used[ARENA_REQ]
          BY <2>4, <4>1, <4>3
        <5>2. mem'[ARENA_REQ][k] = mem[ARENA_REQ][k]
          BY <1>1, <2>8, <3>2, <4>1, <4>3
        <5>3. Lives(mem[ARENA_REQ][k])
          BY <1>1, <2>10, <5>1, MemoryFacts
        <5> QED
          BY <5>2, <5>3
      <4> QED
        BY <4>2, <4>3
    <3> QED
      BY <1>2, <3>3, <3>4
  <2> HIDE DEF r
  <2>11. PICK next \in NextPc :
            stack' = [stack EXCEPT ![Len(stack)] = [@ EXCEPT !.pc = next, !.last = r]]
    BY <2>1 DEF Advance
  <2>12. stack' = [stack EXCEPT ![Len(stack)] = [Top EXCEPT !.pc = next, !.last = r]]
    BY <2>11 DEF Top
  <2>13. GoodFrame([Top EXCEPT !.pc = next, !.last = r], v)
    BY <1>1, <2>4, <2>5, <2>6, NextPcFacts, TopMoves
  <2>14. /\ stack' \in Seq(Frames) /\ stack' # <<>>
         /\ \A i \in DOMAIN stack' : GoodFrame(stack'[i], v)
    BY <1>1, <2>4, <2>12, <2>13, TopReplaced, Zenon
  <2> QED
    BY <1>1, <2>1, <2>2, <2>4, <2>8, <2>9, <2>10, <2>14, StepKeeps
<1> QED
  BY <1>5, <1>6

LEMMA CallStep ==
    ASSUME IInv, run_call
    PROVE  IInv'
<1> DEFINE u == used[ARENA_REQ]
           g == Frame(Instr.of, Top.last)
<1>1. /\ InstrLeft /\ Instr.op = "call"
      /\ UNCHANGED <<compiler, stage, used, frozen, mem, epoch, loaded>>
  BY DEF run_call
<1>2. PICK next \in NextPc :
          stack' = Append([stack EXCEPT ![Len(stack)] = [@ EXCEPT !.pc = next]], g)
  BY DEF run_call
<1> DEFINE fr == [Top EXCEPT !.pc = next]
           s == [stack EXCEPT ![Len(stack)] = fr]
<1>3. stack' = Append(s, g)
  BY <1>2 DEF Top
<1>4. /\ Executing /\ Top \in Frames /\ GoodFrame(Top, u) /\ Top.pc \in Nat \ {0}
      /\ Top.pc \in DOMAIN code[Top.fn] /\ Instr = code[Top.fn][Top.pc] /\ Instr \in Instruction
  BY <1>1, TopFacts
<1>5. u \in Nat /\ u <= u
  BY <1>4, MemoryFacts
<1>6. Top.last \in Refs /\ GoodRef(Top.last, u)
  BY <1>1, TopHolds
<1>7. GoodFrame(fr, u)
  <2> HIDE DEF fr
  <2>0. next \in {Top.pc, Top.pc + 1}
    BY NextPcFacts
  <2>1. fr \in Frames
    <3>1. next \in Nat \ {0}
      BY <1>4, <2>0
    <3> QED
      BY <1>4, <3>1 DEF Frames, fr
  <2>2. fr.fn = Top.fn /\ fr.locals = Top.locals /\ fr.last = Top.last /\ fr.pc = next
    BY <1>4 DEF Frames, fr
  <2> HIDE DEF u
  <2> QED
    BY <1>1, <1>5, <1>6, <2>0, <2>1, <2>2, MovedIsGood DEF u
<1>8. /\ s \in Seq(Frames) /\ s # <<>> /\ \A i \in DOMAIN s : GoodFrame(s[i], u)
  BY <1>1, <1>5, <1>7, TopReplaced, Zenon
<1>9. Instr.of \in functions /\ Instr.of \in DOMAIN code /\ Instr.of \in Identifier
  BY <1>1, <1>4 DEF GoodFrame, IInv, CodeInv, NamesResolved, CodeType
<1>10. stage = "handle" => Instr.of \in Reached(body)
  <2>1. CASE Top.fn = "lambpie_handle" /\ stage = "handle"
    <3>1. code[Top.fn] = EntryCode
      BY <2>1 DEF IInv, CodeInv, EntryPoints
    <3>2. Instr.of = "handle"
      BY <1>1, <1>4, <3>1, EntryCodeFacts
    <3> QED
      BY <3>2, ReachedIsClosed
  <2>2. CASE Top.fn \in functions \cap Reached(body)
    BY <1>1, <1>4, <2>2 DEF IInv, CodeInv, ReachedCode
  <2> QED
    BY <1>4, <2>1, <2>2 DEF GoodFrame
<1>11. GoodFrame(g, u)
  <2>1. g \in Frames /\ g.fn = Instr.of /\ g.pc = 1 /\ HeldBy(g) = {Top.last}
    BY <1>6, <1>9, FrameFacts
  <2> HIDE DEF g
  <2>2. DOMAIN code[g.fn] \subseteq Nat \ {0}
    BY <1>9, <2>1, LenProperties DEF IInv, CodeInv, CodeType
  <2>3. DeclaredIn(g)
    BY <2>1, <2>2 DEF DeclaredIn
  <2> QED
    BY <1>6, <1>9, <1>10, <2>1, <2>3 DEF GoodFrame
<1> HIDE DEF s, g
<1>12. /\ stack' \in Seq(Frames) /\ stack' # <<>>
       /\ \A i \in DOMAIN stack' : GoodFrame(stack'[i], u)
  <2>1. g \in Frames
    BY <1>11 DEF GoodFrame
  <2>2. /\ stack' \in Seq(Frames) /\ Len(stack') = Len(s) + 1 /\ DOMAIN stack' = 1 .. Len(s) + 1
        /\ \A i \in 1 .. Len(s) : stack'[i] = s[i]
        /\ stack'[Len(s) + 1] = g
        /\ Len(s) \in Nat /\ DOMAIN s = 1 .. Len(s)
    BY <1>3, <1>8, <2>1, AppendProperties, LenProperties
  <2>3. stack' # <<>>
    BY <2>2, EmptySeq
  <2>4. \A i \in DOMAIN stack' : i \in DOMAIN s \/ i = Len(s) + 1
    BY <2>2
  <2> QED
    BY <1>8, <1>11, <2>2, <2>3, <2>4
<1>13. used' = used /\ mem' = mem /\ loaded' = loaded
  BY <1>1
<1> QED
  BY <1>1, <1>4, <1>12, <1>13, StepKeeps, MemoryFacts

LEMMA ReturnStep ==
    ASSUME IInv, run_return
    PROVE  IInv'
<1> DEFINE u == used[ARENA_REQ]
           n == Len(stack) - 1
           s == SubSeq(stack, 1, n)
           fr == [s[n] EXCEPT !.last = Top.last]
<1>1. /\ Executing /\ Len(stack) > 1
      /\ UNCHANGED <<compiler, stage, used, frozen, mem, epoch, loaded>>
  BY DEF run_return
<1>2. stack \in Seq(Frames) /\ Len(stack) \in Nat /\ DOMAIN stack = 1 .. Len(stack) /\ n \in 1 .. Len(stack)
  BY <1>1, LenProperties DEF IInv, ProcessInv, ProcessType
<1>3. s \in Seq(Frames) /\ Len(s) = n /\ DOMAIN s = 1 .. n /\ \A i \in 1 .. n : s[i] = stack[i]
  BY <1>2, SubSeqProperties, LenProperties
<1>4. \A i \in DOMAIN stack : GoodFrame(stack[i], u)
  BY <1>1, FramesAreGood
<1>5. GoodFrame(Top, u) /\ GoodFrame(s[n], u)
  BY <1>2, <1>3, <1>4 DEF Top
<1> HIDE DEF s
<1>6. Top.last \in Refs /\ GoodRef(Top.last, u)
  BY <1>5 DEF GoodFrame, Frames, HeldBy
<1>7. s[n] \in Frames
  BY <1>5 DEF GoodFrame
<1>8. GoodFrame(fr, u)
  <2> HIDE DEF fr, n
  <2>1. fr \in Frames
    BY <1>6, <1>7 DEF Frames, fr
  <2>2. fr.fn = s[n].fn /\ fr.locals = s[n].locals /\ fr.last = Top.last /\ fr.pc = s[n].pc
    BY <1>7 DEF Frames, fr
  <2>3. DeclaredIn(fr)
    BY <1>5, <2>2 DEF DeclaredIn, GoodFrame
  <2>4. \A r \in HeldBy(fr) : GoodRef(r, u)
    BY <1>5, <1>6, <2>2 DEF HeldBy, GoodFrame
  <2> QED
    BY <1>5, <2>1, <2>2, <2>3, <2>4 DEF GoodFrame
<1>9. stack' = [s EXCEPT ![n] = fr]
  BY DEF run_return, s
<1> HIDE DEF fr
<1>10. /\ stack' \in Seq(Frames) /\ stack' # <<>> /\ DOMAIN stack' = 1 .. n
       /\ \A i \in 1 .. n : stack'[i] = IF i = n THEN fr ELSE s[i]
  <2>1. fr \in Frames
    BY <1>8 DEF GoodFrame
  <2>2. stack' \in Seq(Frames) /\ DOMAIN stack' = 1 .. n
    <3>1. n \in DOMAIN s
      BY <1>2, <1>3
    <3> HIDE DEF n
    <3>2. [s EXCEPT ![n] = fr] \in Seq(Frames)
      BY <1>3, <2>1, <3>1, ExceptSeq, Zenon
    <3>3. DOMAIN [s EXCEPT ![n] = fr] = DOMAIN s
      OBVIOUS
    <3> QED
      BY <1>3, <1>9, <3>2, <3>3
  <2>3. stack' # <<>>
    BY <1>2, <2>2, EmptySeq, LenProperties
  <2> QED
    BY <1>3, <1>9, <2>2, <2>3
<1>11. \A i \in DOMAIN stack' : GoodFrame(stack'[i], u)
  <2> SUFFICES ASSUME NEW i \in DOMAIN stack' PROVE GoodFrame(stack'[i], u)
    OBVIOUS
  <2>0. DOMAIN stack' = 1 .. n
    BY <1>10
  <2>1. i \in 1 .. n /\ i \in DOMAIN stack
    BY <1>2, <2>0
  <2> HIDE DEF n, u
  <2>2. stack'[i] = fr \/ stack'[i] = stack[i]
    BY <1>3, <1>10, <2>1
  <2> QED
    BY <1>4, <1>8, <2>1, <2>2
<1>12. used' = used /\ mem' = mem /\ loaded' = loaded
  BY <1>1
<1> QED
  BY <1>1, <1>10, <1>11, <1>12, StepKeeps, MemoryFacts

\* The shim's steps: the code stays, only the stage, the frames and the generation change.
LEMMA CodeStays ==
    ASSUME IInv, UNCHANGED compiler, stage \in {"init", "idle", "handle"},
           stage' \in {"init", "idle", "handle"}
    PROVE  CodeInv'
<1>1. CodeType' /\ NamesResolved' /\ ExplicitClasses'
  BY DEF CodeType, NamesResolved, ExplicitClasses, compiler, IInv, CodeInv
<1>2. ReachedCode'
  BY DEF ReachedCode, StoresFields, compiler, IInv, CodeInv
<1>3. EntryPoints'
  BY DEF EntryPoints, compiler, IInv, CodeInv
<1> QED
  BY <1>1, <1>2, <1>3 DEF CodeInv

LEMMA InitDoneStep ==
    ASSUME IInv, init_done
    PROVE  IInv'
<1>1. /\ stage = "init" /\ stage' = "idle" /\ stack' = <<>> /\ frozen' = TRUE
      /\ loaded' = NoRef /\ UNCHANGED <<compiler, used, mem, epoch>>
  BY DEF init_done
<1>2. CodeInv'
  BY <1>1, CodeStays
<1>3. stack' \in Seq(Frames) /\ DOMAIN stack' = {}
  BY <1>1, EmptySeq, LenProperties
<1>4. ProcessType'
  BY <1>1, <1>3 DEF IInv, ProcessInv, ProcessType, Refs
<1>5. VariablesExist' /\ FirstGeneration' /\ Serving' /\ NoFault'
  BY <1>1, <1>3 DEF VariablesExist, FirstGeneration, Serving, NoFault
<1>6. FieldsAlive'
  BY <1>1 DEF IInv, ProcessInv, FieldsAlive, Lives
<1> QED
  BY <1>2, <1>4, <1>5, <1>6 DEF IInv, ProcessInv

LEMMA HandleEventStep ==
    ASSUME IInv, handle_event
    PROVE  IInv'
<1> DEFINE fr == Frame("lambpie_handle", NoRef)
<1>1. /\ stage = "idle" /\ stage' = "handle" /\ stack' = <<fr>>
      /\ UNCHANGED <<compiler, used, frozen, mem, epoch, loaded>>
  BY DEF handle_event
<1>2. CodeInv'
  BY <1>1, CodeStays
<1>3. fr \in Frames /\ fr.fn = "lambpie_handle" /\ fr.pc = 1 /\ HeldBy(fr) = {NoRef}
  <2>1. "lambpie_handle" \in Identifier /\ NoRef \in Refs
    BY DEF Identifier, OwnFunctions, Refs
  <2> QED
    BY <2>1, FrameFacts
<1> HIDE DEF fr
<1>4. stack' \in Seq(Frames) /\ DOMAIN stack' = {1} /\ stack'[1] = fr /\ stack' # <<>>
  BY <1>1, <1>3
<1>5. "lambpie_handle" \in DOMAIN code /\ code["lambpie_handle"] = EntryCode
  BY <1>1 DEF IInv, CodeInv, EntryPoints
<1>6. ProcessType'
  BY <1>1, <1>3, <1>4, <1>5 DEF IInv, ProcessInv, ProcessType, compiler
<1>7. VariablesExist'
  <2>1. code' = code
    BY <1>1 DEF compiler
  <2> QED
    BY <1>3, <1>4, <1>5, <2>1, EntryCodeFacts DEF VariablesExist, DeclaredIn
<1>8. FirstGeneration' /\ NoFault'
  BY <1>1 DEF FirstGeneration, NoFault
<1>9. Serving'
  BY <1>3, <1>4 DEF Serving, Current
<1>10. FieldsAlive'
  BY <1>1 DEF IInv, ProcessInv, FieldsAlive, Lives
<1> QED
  BY <1>2, <1>6, <1>7, <1>8, <1>9, <1>10 DEF IInv, ProcessInv

\* The reset empties the request arena before the next generation begins.
LEMMA HandleDoneStep ==
    ASSUME IInv, handle_done
    PROVE  IInv'
<1>1. /\ stage = "handle" /\ stage' = "idle" /\ stack' = <<>> /\ loaded' = NoRef
      /\ used' = [used EXCEPT ![ARENA_REQ] = 0] /\ epoch' = epoch + 1
      /\ UNCHANGED <<compiler, frozen, mem>>
  BY DEF handle_done
<1>2. CodeInv'
  BY <1>1, CodeStays
<1>3. stack' \in Seq(Frames) /\ DOMAIN stack' = {}
  BY <1>1, EmptySeq, LenProperties
<1>4. used' \in [Tags -> Nat] /\ used'[ARENA_REQ] = 0 /\ \A t \in Tags : used'[t] <= Slots[t]
  BY <1>1, PieAssumption DEF IInv, ProcessInv, ProcessType, Tags
<1>5. ProcessType'
  BY <1>1, <1>3, <1>4 DEF IInv, ProcessInv, ProcessType, Refs
<1>6. VariablesExist' /\ FirstGeneration' /\ Serving' /\ NoFault'
  BY <1>1, <1>3 DEF VariablesExist, FirstGeneration, Serving, NoFault
<1>7. FieldsAlive'
  <2>1. 1 .. used'[ARENA_REQ] = {}
    BY <1>4
  <2> QED
    BY <1>1, <2>1 DEF FieldsAlive, Lives
<1> QED
  BY <1>2, <1>5, <1>6, <1>7 DEF IInv, ProcessInv

LEMMA Unchanged ==
    ASSUME IInv, UNCHANGED vars
    PROVE  IInv'
<1> USE DEF vars, compiler, process
<1>1. CodeType' /\ NamesResolved' /\ ExplicitClasses' /\ EntryPoints'
  BY DEF CodeType, NamesResolved, ExplicitClasses, EntryPoints, IInv, CodeInv
<1>2. ReachedCode'
  BY DEF ReachedCode, StoresFields, IInv, CodeInv
<1>3. ProcessType' /\ VariablesExist'
  BY DEF ProcessType, VariablesExist, DeclaredIn, IInv, ProcessInv
<1>4. FirstGeneration' /\ Serving' /\ FieldsAlive' /\ NoFault'
  BY DEF FirstGeneration, Serving, Current, FieldsAlive, Lives, NoFault, IInv, ProcessInv
<1> QED
  BY <1>1, <1>2, <1>3, <1>4 DEF IInv, CodeInv, ProcessInv

-----------------------------------------------------------------------------
(* The theorems.                                                             *)

\* The inductive invariant holds of every program in which handle() reaches no helper
\* that makes an object.
THEOREM Invariance ==
    ASSUME HelpersDoNotAllocate
    PROVE  Spec => []IInv
<1>1. ASSUME IInv, [Next]_vars PROVE IInv'
  <2>1. CASE CompileStep
    BY <1>1, <2>1, CompileKeeps
  <2>2. CASE RunStep
    BY <1>1, <2>2, AllocStep, CallStep, ReadStep, DeclStep, StoreStep, UseStep, SkipStep, ReturnStep,
       InitDoneStep, HandleEventStep, HandleDoneStep DEF RunStep
  <2>3. CASE UNCHANGED vars
    BY <1>1, <2>3, Unchanged
  <2> QED
    BY <1>1, <2>1, <2>2, <2>3 DEF Next
<1> QED
  BY <1>1, InitIInv, PTL DEF Spec

\* compiler.py fixes the arena of every allocation when it compiles a function (line 359),
\* the shim freezes the static arena when lambpie_init has returned.  As long as no helper
\* that handle() reaches makes an object the two agree: the process never stores into the
\* frozen arena.
THEOREM FrozenArenaIsSpared ==
    ASSUME HelpersDoNotAllocate
    PROVE  Spec => []NoFault
<1>1. IInv => NoFault
  BY DEF IInv
<1> QED
  BY <1>1, Invariance, PTL

-----------------------------------------------------------------------------
(* Variables that are set before they are used: then nothing wild is ever     *)
(* at hand.                                                                   *)

\* What a frame may use is a reference the program made.
TameFrame(fr) ==
    /\ fr.last # Wild
    /\ \A x \in SetBefore(code[fr.fn], fr.pc) : x \in DOMAIN fr.locals /\ fr.locals[x] # Wild

TameCode ==
    /\ \A f \in DOMAIN code : SetFirst(code[f])
    /\ stage = "compile" =>
           /\ SetFirst(init_stmts)
           /\ SetByStatements(body, at) \subseteq SetBefore(init_stmts, Len(init_stmts) + 1)
TameProcess ==
    /\ loaded # Wild
    /\ \A t \in Tags : \A k \in Cell : mem[t][k] # Wild
    /\ \A i \in DOMAIN stack : TameFrame(stack[i])
Tame == TameCode /\ TameProcess

LEMMA SetBeforeIs ==
    ASSUME NEW ops, NEW k, NEW x
    PROVE  x \in SetBefore(ops, k) <=>
               \E i \in 1 .. k - 1 :
                   /\ ops[i].op = "assign" /\ ops[i].cond = "once" /\ ops[i].of = x
                   /\ \A d \in i + 1 .. k - 1 : ~ (ops[d].op = "decl" /\ ops[d].of = x)
  BY DEF SetBefore

LEMMA SetByStatementsIs ==
    ASSUME NEW p, NEW n, NEW x
    PROVE  x \in SetByStatements(p, n) <=>
               \E i \in 1 .. n - 1 :
                   /\ p[i].kind = "stmt" /\ p[i].do.op = "assign" /\ p[i].do.cond = "once"
                   /\ p[i].do.of = x
                   /\ \A d \in i + 1 .. n - 1 :
                          ~ (p[d].kind = "stmt" /\ p[d].do.op = "decl" /\ p[d].do.of = x)
  BY DEF SetByStatements

\* Two bodies that agree on the operations before k.
LEMMA SetBeforeAgrees ==
    ASSUME NEW a, NEW b, NEW k \in Nat,
           \A i \in 1 .. k - 1 :
               /\ a[i].of = b[i].of /\ a[i].cond = b[i].cond
               /\ a[i].op = "assign" <=> b[i].op = "assign"
               /\ a[i].op = "decl" <=> b[i].op = "decl"
    PROVE  SetBefore(a, k) \subseteq SetBefore(b, k)
<1> SUFFICES ASSUME NEW x \in SetBefore(a, k) PROVE x \in SetBefore(b, k)
  OBVIOUS
<1>1. PICK i \in 1 .. k - 1 :
          /\ a[i].op = "assign" /\ a[i].cond = "once" /\ a[i].of = x
          /\ \A d \in i + 1 .. k - 1 : ~ (a[d].op = "decl" /\ a[d].of = x)
  BY SetBeforeIs
<1>2. \A d \in i + 1 .. k - 1 : d \in 1 .. k - 1
  OBVIOUS
<1>3. \A d \in i + 1 .. k - 1 : ~ (b[d].op = "decl" /\ b[d].of = x)
  BY <1>1, <1>2
<1> QED
  BY <1>1, <1>3, SetBeforeIs

\* One operation on: it may have set its variable, or have declared it anew.
LEMMA SetMovesOn ==
    ASSUME NEW ops, NEW k \in Nat \ {0}, NEW x \in SetBefore(ops, k + 1)
    PROVE  /\ ~ (ops[k].op = "decl" /\ ops[k].of = x) \/ ops[k].op = "assign"
           /\ \/ x \in SetBefore(ops, k)
              \/ ops[k].op = "assign" /\ ops[k].cond = "once" /\ ops[k].of = x
<1>1. PICK i \in 1 .. k :
          /\ ops[i].op = "assign" /\ ops[i].cond = "once" /\ ops[i].of = x
          /\ \A d \in i + 1 .. k : ~ (ops[d].op = "decl" /\ ops[d].of = x)
  BY SetBeforeIs
<1>2. CASE i = k
  BY <1>1, <1>2
<1>3. CASE i # k
  <2>1. i \in 1 .. k - 1 /\ k \in i + 1 .. k /\ \A d \in i + 1 .. k - 1 : d \in i + 1 .. k
    BY <1>3
  <2>2. x \in SetBefore(ops, k)
    BY <1>1, <2>1, SetBeforeIs
  <2> QED
    BY <1>1, <2>1, <2>2
<1> QED
  BY <1>2, <1>3

LEMMA EmitSet ==
    ASSUME NEW ops \in Seq(Operation), NEW t \in Tags, SetFirst(ops)
    PROVE  SetFirst(Emit(ops, t))
<1> DEFINE c == Emit(ops, t)
<1>1. DOMAIN c = DOMAIN ops /\ DOMAIN ops = 1 .. Len(ops) /\ Len(ops) \in Nat
  BY EmitType, LenProperties
<1>2. \A i \in DOMAIN ops :
          /\ c[i].of = ops[i].of /\ c[i].cond = ops[i].cond
          /\ c[i].op = IF ops[i].op = "new" THEN "alloc" ELSE ops[i].op
  BY DEF Emit
<1> HIDE DEF c
<1>3. ASSUME NEW k \in DOMAIN ops, c[k].op = "use" PROVE c[k].of \in SetBefore(c, k)
  <2>1. ops[k].op = "use" /\ ops[k].of = c[k].of
    BY <1>2, <1>3
  <2>2. ops[k].of \in SetBefore(ops, k)
    BY <1>3, <2>1 DEF SetFirst
  <2>3. k \in Nat /\ \A i \in 1 .. k - 1 : i \in DOMAIN ops
    BY <1>1
  <2>4. \A i \in 1 .. k - 1 :
            /\ ops[i].of = c[i].of /\ ops[i].cond = c[i].cond
            /\ ops[i].op = "assign" <=> c[i].op = "assign"
            /\ ops[i].op = "decl" <=> c[i].op = "decl"
    BY <1>2, <2>3
  <2>5. SetBefore(ops, k) \subseteq SetBefore(c, k)
    BY <2>3, <2>4, SetBeforeAgrees
  <2> QED
    BY <2>1, <2>2, <2>5
<1> QED
  BY <1>1, <1>3 DEF SetFirst, c

LEMMA NoRefIsTame == NoRef # Wild
  BY DEF NoRef, Wild, ARENA_STATIC, ARENA_REQ

\* A frame that begins has used nothing yet.
LEMMA NewFrameIsTame ==
    ASSUME NEW f, NEW r, r # Wild
    PROVE  TameFrame(Frame(f, r)) /\ TameFrame(Frame(f, r))'
<1>1. /\ Frame(f, r).pc = 1 /\ Frame(f, r).last = r /\ Frame(f, r)' = Frame(f, r)
  BY DEF Frame, NoRef
<1>2. \A ops : SetBefore(ops, 1) = {}
  BY SetBeforeIs
<1> QED
  BY <1>1, <1>2 DEF TameFrame

LEMMA InitTame == Init => Tame
<1> SUFFICES ASSUME Init PROVE Tame
  OBVIOUS
<1>1. \A f \in DOMAIN code : DOMAIN code[f] = {}
  BY EmptySeq, LenProperties DEF Init
<1>2. DOMAIN init_stmts = {} /\ DOMAIN stack = {}
  BY EmptySeq, LenProperties DEF Init
<1>3. SetByStatements(body, at) = {}
  BY SetByStatementsIs DEF Init
<1>4. TameCode
  BY <1>1, <1>2, <1>3 DEF TameCode, SetFirst
<1>5. TameProcess
  BY <1>2, NoRefIsTame DEF Init, TameProcess
<1> QED
  BY <1>4, <1>5 DEF Tame

\* The compiler leaves the process alone.
LEMMA TameWaits ==
    ASSUME IInv, Tame, stage = "compile", UNCHANGED process
    PROVE  TameProcess'
<1>1. stack = <<>> /\ DOMAIN stack = {} /\ DOMAIN stack' = {}
  BY EmptySeq, LenProperties DEF IInv, ProcessInv, ProcessType, process
<1> QED
  BY <1>1 DEF Tame, TameProcess, process

\* An error, and the end of the process.
LEMMA TameStop ==
    ASSUME Tame, NEW how, how # "compile", stage' = how,
           UNCHANGED <<compiler, stack, used, frozen, mem, epoch, loaded>>
    PROVE  Tame'
<1>1. UNCHANGED <<code, stack, mem, loaded>>
  BY DEF compiler
<1>2. TameProcess'
  BY <1>1 DEF Tame, TameProcess, TameFrame
<1> QED
  BY <1>1, <1>2 DEF Tame, TameCode

\* An item that is no statement sets no variable of lambpie_init.
LEMMA NoStatement ==
    ASSUME NEW p, NEW n \in Nat \ {0}, p[n].kind # "stmt"
    PROVE  SetByStatements(p, n + 1) \subseteq SetByStatements(p, n)
<1> SUFFICES ASSUME NEW x \in SetByStatements(p, n + 1) PROVE x \in SetByStatements(p, n)
  OBVIOUS
<1>1. PICK i \in 1 .. n :
          /\ p[i].kind = "stmt" /\ p[i].do.op = "assign" /\ p[i].do.cond = "once"
          /\ p[i].do.of = x
          /\ \A d \in i + 1 .. n :
                 ~ (p[d].kind = "stmt" /\ p[d].do.op = "decl" /\ p[d].do.of = x)
  BY SetByStatementsIs
<1>2. i \in 1 .. n - 1 /\ \A d \in i + 1 .. n - 1 : d \in i + 1 .. n
  BY <1>1
<1> QED
  BY <1>1, <1>2, SetByStatementsIs

\* The compiler's other items.
LEMMA TameItem ==
    ASSUME IInv, Tame, stage = "compile", at \in DOMAIN body, body[at].kind # "stmt",
           at' = at + 1, UNCHANGED <<body, init_stmts, process>>,
           \A f \in DOMAIN code' : SetFirst(code'[f])
    PROVE  Tame'
<1>1. at \in Nat \ {0}
  BY LenProperties, PieAssumption DEF IInv, CodeInv, CodeType
<1>2. SetByStatements(body, at + 1) \subseteq SetByStatements(body, at)
  BY <1>1, NoStatement
<1>3. TameCode'
  BY <1>2 DEF Tame, TameCode, process
<1> QED
  BY <1>3, TameWaits DEF Tame

LEMMA TameDefine ==
    ASSUME Tame, NEW f, NEW instrs, SetFirst(instrs), code' = Define(f, instrs)
    PROVE  \A g \in DOMAIN code' : SetFirst(code'[g])
<1>1. DOMAIN code' = DOMAIN code \cup {f} /\ \A g \in DOMAIN code' : code'[g] = IF g = f THEN instrs ELSE code[g]
  BY DEF Define
<1> QED
  BY <1>1 DEF Tame, TameCode

LEMMA TameItems ==
    ASSUME VariablesAreSet, IInv, Tame,
           visit_ClassDef \/ visit_ImportFrom \/ visit_FunctionDef \/ defer_handle \/ skip_main_block
    PROVE  Tame'
<1>1. stage = "compile" /\ at \in DOMAIN body /\ body[at].kind # "stmt" /\ body \in Programs
  BY DEF visit_ClassDef, visit_ImportFrom, visit_FunctionDef, defer_handle, skip_main_block, Item,
     IInv, CodeInv, CodeType
<1>2. CASE fail
  BY <1>2, TameStop DEF fail
<1>3. CASE ~ fail
  <2>1. at' = at + 1 /\ UNCHANGED <<body, init_stmts, process>>
    BY <1>3 DEF visit_ClassDef, visit_ImportFrom, visit_FunctionDef, defer_handle, skip_main_block
  <2>2. \A f \in DOMAIN code' : SetFirst(code'[f])
    <3>1. CASE code' = code
      BY <3>1 DEF Tame, TameCode
    <3>2. CASE visit_ImportFrom /\ code' # code
      <4>1. code' = Define(Item.name, <<>>)
        BY <1>3, <3>2 DEF visit_ImportFrom
      <4>2. SetFirst(<<>>)
        BY EmptySeq, LenProperties DEF SetFirst
      <4> QED
        BY <4>1, <4>2, TameDefine
    <3>3. CASE visit_FunctionDef
      <4>1. /\ code' = Define(Item.name, Emit(Item.ops, FunctionArena(Item.name)))
            /\ body[at].kind = "def" /\ body[at].name # "handle"
        BY <1>3, <3>3 DEF visit_FunctionDef, Item
      <4>2. FunctionArena(Item.name) \in Tags
        BY <4>1 DEF FunctionArena, Item, IInv, CodeInv, CodeType
      <4>3. Item.ops \in Seq(Operation) /\ SetFirst(Item.ops)
        BY <1>1, <4>1, ItemFacts DEF Item, VariablesAreSet, VariablesSet
      <4>4. SetFirst(Emit(Item.ops, FunctionArena(Item.name)))
        BY <4>2, <4>3, EmitSet
      <4> QED
        BY <4>1, <4>4, TameDefine
    <3> QED
      BY <1>3, <3>1, <3>2, <3>3
      DEF visit_ClassDef, visit_ImportFrom, visit_FunctionDef, defer_handle, skip_main_block
  <2> QED
    BY <1>1, <2>1, <2>2, TameItem
<1> QED
  BY <1>2, <1>3

\* A statement joins lambpie_init.
LEMMA TameStatement ==
    ASSUME VariablesAreSet, IInv, Tame, collect_init
    PROVE  Tame'
<1> DEFINE s == init_stmts
           t == Append(init_stmts, Item.do)
           n == Len(init_stmts)
<1>1. /\ stage = "compile" /\ at \in DOMAIN body /\ body[at].kind = "stmt"
      /\ init_stmts' = t /\ at' = at + 1
      /\ UNCHANGED <<body, code, process>> /\ body \in Programs
  BY DEF collect_init, Item, IInv, CodeInv, CodeType
<1>2. Item.do \in Operation /\ s \in Seq(Operation) /\ at \in Nat \ {0}
  BY <1>1, ItemFacts DEF Item, IInv, CodeInv, CodeType
<1>3. /\ Len(t) = n + 1 /\ n \in Nat /\ DOMAIN t = 1 .. n + 1 /\ DOMAIN s = 1 .. n
      /\ \A i \in 1 .. n : t[i] = s[i]
      /\ t[n + 1] = Item.do
  BY <1>2, AppendProperties, LenProperties
<1>4. SetFirst(s) /\ SetByStatements(body, at) \subseteq SetBefore(s, n + 1)
  BY <1>1 DEF Tame, TameCode
<1> HIDE DEF s, t, n
<1>5. \A k \in 1 .. n + 1 : SetBefore(s, k) \subseteq SetBefore(t, k)
  <2> TAKE k \in 1 .. n + 1
  <2>1. k \in Nat /\ \A i \in 1 .. k - 1 : i \in 1 .. n
    BY <1>3
  <2>2. \A i \in 1 .. k - 1 : t[i] = s[i]
    BY <1>3, <2>1
  <2> QED
    BY <2>1, <2>2, SetBeforeAgrees
<1>6. SetFirst(t)
  <2> SUFFICES ASSUME NEW k \in 1 .. n + 1, t[k].op = "use" PROVE t[k].of \in SetBefore(t, k)
    BY <1>3 DEF SetFirst
  <2>1. CASE k \in 1 .. n
    BY <1>3, <1>4, <1>5, <2>1 DEF SetFirst
  <2>2. CASE k = n + 1
    <3>1. t[k] = body[at].do
      BY <1>3, <2>2 DEF Item
    <3>2. t[k].of \in SetByStatements(body, at)
      BY <1>1, <3>1 DEF VariablesAreSet, VariablesSet
    <3> QED
      BY <1>4, <1>5, <2>2, <3>2
  <2> QED
    BY <1>3, <2>1, <2>2
<1>7. SetByStatements(body, at + 1) \subseteq SetBefore(t, n + 2)
  <2> SUFFICES ASSUME NEW x \in SetByStatements(body, at + 1) PROVE x \in SetBefore(t, n + 2)
    OBVIOUS
  <2>1. PICK i \in 1 .. at :
            /\ body[i].kind = "stmt" /\ body[i].do.op = "assign" /\ body[i].do.cond = "once"
            /\ body[i].do.of = x
            /\ \A d \in i + 1 .. at :
                   ~ (body[d].kind = "stmt" /\ body[d].do.op = "decl" /\ body[d].do.of = x)
    BY <1>2, SetByStatementsIs
  <2>2. x \in SetBefore(t, n + 2) <=>
            \E j \in 1 .. n + 1 :
                /\ t[j].op = "assign" /\ t[j].cond = "once" /\ t[j].of = x
                /\ \A d \in j + 1 .. n + 1 : ~ (t[d].op = "decl" /\ t[d].of = x)
    <3> DEFINE m == n + 2
    <3>1. m - 1 = n + 1
      BY <1>3
    <3> HIDE DEF m
    <3>2. x \in SetBefore(t, m) <=>
              \E j \in 1 .. m - 1 :
                  /\ t[j].op = "assign" /\ t[j].cond = "once" /\ t[j].of = x
                  /\ \A d \in j + 1 .. m - 1 : ~ (t[d].op = "decl" /\ t[d].of = x)
      BY SetBeforeIs
    <3> QED
      BY <3>1, <3>2 DEF m
  <2>3. CASE i = at
    <3>1. t[n + 1].op = "assign" /\ t[n + 1].cond = "once" /\ t[n + 1].of = x
      BY <1>3, <2>1, <2>3 DEF Item
    <3>2. n + 1 \in 1 .. n + 1 /\ (n + 1) + 1 .. n + 1 = {}
      BY <1>3
    <3> QED
      BY <2>2, <3>1, <3>2
  <2>4. CASE i # at
    <3>1. i \in 1 .. at - 1 /\ at \in i + 1 .. at /\ \A d \in i + 1 .. at - 1 : d \in i + 1 .. at
      BY <1>2, <2>1, <2>4
    <3>2. x \in SetByStatements(body, at)
      BY <2>1, <3>1, SetByStatementsIs
    <3>3. x \in SetBefore(t, n + 1)
      BY <1>3, <1>4, <1>5, <3>2
    <3>4. ~ (t[n + 1].op = "decl" /\ t[n + 1].of = x)
      BY <1>1, <1>3, <2>1, <3>1 DEF Item
    <3>5. PICK j \in 1 .. n :
              /\ t[j].op = "assign" /\ t[j].cond = "once" /\ t[j].of = x
              /\ \A d \in j + 1 .. n : ~ (t[d].op = "decl" /\ t[d].of = x)
      BY <1>3, <3>3, SetBeforeIs
    <3>6. j \in 1 .. n + 1 /\ \A d \in j + 1 .. n + 1 : d \in j + 1 .. n \/ d = n + 1
      BY <1>3
    <3>7. \A d \in j + 1 .. n + 1 : ~ (t[d].op = "decl" /\ t[d].of = x)
      BY <3>4, <3>5, <3>6
    <3> QED
      BY <2>2, <3>5, <3>6, <3>7
  <2> QED
    BY <2>3, <2>4
<1>8. TameCode'
  <2>1. Len(t) + 1 = n + 2
    BY <1>3
  <2> QED
    BY <1>1, <1>6, <1>7, <2>1 DEF Tame, TameCode
<1> QED
  BY <1>1, <1>8, TameWaits DEF Tame

LEMMA TameSynthesis ==
    ASSUME VariablesAreSet, IInv, Tame, synthesize_lambda_entry
    PROVE  Tame'
<1>1. stage = "compile" /\ body \in Programs
  BY DEF synthesize_lambda_entry, IInv, CodeInv, CodeType
<1>2. CASE fail
  BY <1>2, TameStop DEF fail
<1>3. CASE ~ fail
  <2> DEFINE hops == body[handle_node].ops
             hcode == Emit(hops, ARENA_REQ)
             icode == Emit(init_stmts, ARENA_STATIC)
  <2>1. /\ handle_node # 0 /\ stage' = "init"
        /\ stack' = <<Frame("lambpie_init", NoRef)>>
        /\ UNCHANGED <<mem, loaded>>
        /\ code' = [f \in DOMAIN code \cup {"handle", "lambpie_init", "lambpie_handle"} |->
                       CASE f = "handle" -> hcode
                         [] f = "lambpie_init" -> icode
                         [] f = "lambpie_handle" -> EntryCode
                         [] OTHER -> code[f]]
    BY <1>3 DEF synthesize_lambda_entry, FunctionArena
  <2>2. handle_node \in Defs(body)
    BY <2>1 DEF IInv, CodeInv, CodeType
  <2>3. hops \in Seq(Operation) /\ init_stmts \in Seq(Operation) /\ ARENA_REQ \in Tags /\ ARENA_STATIC \in Tags
    BY <1>1, <2>2, ItemFacts DEF Defs, IInv, CodeInv, CodeType, Tags
  <2>4. SetFirst(hops) /\ SetFirst(init_stmts)
    BY <1>1, <2>2 DEF Defs, VariablesAreSet, VariablesSet, Tame, TameCode
  <2> HIDE DEF hops
  <2>5. SetFirst(hcode) /\ SetFirst(icode)
    BY <2>3, <2>4, EmitSet
  <2>6. SetFirst(EntryCode)
    BY EntryCodeFacts DEF SetFirst
  <2> HIDE DEF hcode, icode
  <2>7. \A f \in DOMAIN code' : SetFirst(code'[f])
    <3> SUFFICES ASSUME NEW f \in DOMAIN code' PROVE SetFirst(code'[f])
      OBVIOUS
    <3>1. CASE f \in {"handle", "lambpie_init", "lambpie_handle"}
      BY <2>1, <2>5, <2>6, <3>1
    <3>2. CASE f \notin {"handle", "lambpie_init", "lambpie_handle"}
      <4>1. f \in DOMAIN code /\ code'[f] = code[f]
        BY <2>1, <3>2
      <4> QED
        BY <4>1 DEF Tame, TameCode
    <3> QED
      BY <3>1, <3>2
  <2>8. TameCode'
    BY <2>1, <2>7 DEF TameCode
  <2>9. TameProcess'
    <3> DEFINE fr == Frame("lambpie_init", NoRef)
    <3>1. TameFrame(fr)'
      BY NoRefIsTame, NewFrameIsTame
    <3> HIDE DEF fr
    <3>2. DOMAIN stack' = {1} /\ stack'[1] = fr
      BY <2>1 DEF fr
    <3>3. fr' = fr
      BY DEF fr, Frame, NoRef
    <3> QED
      BY <2>1, <3>1, <3>2, <3>3 DEF Tame, TameProcess, TameFrame
  <2> QED
    BY <2>8, <2>9 DEF Tame
<1> QED
  BY <1>2, <1>3

\* What the running code keeps.
LEMMA TameRun ==
    ASSUME Tame, Executing, UNCHANGED <<compiler, stage>>,
           loaded' # Wild, \A t \in Tags : \A k \in Cell : mem'[t][k] # Wild,
           \A i \in DOMAIN stack' : TameFrame(stack'[i])
    PROVE  Tame'
<1>1. code' = code /\ stage' # "compile"
  BY DEF compiler, Executing
<1>2. TameCode'
  BY <1>1 DEF Tame, TameCode
<1>3. TameProcess'
  BY <1>1 DEF TameProcess, TameFrame
<1> QED
  BY <1>2, <1>3 DEF Tame

\* The top frame, in a state of the two invariants.
LEMMA TopIsTame ==
    ASSUME IInv, Tame, InstrLeft
    PROVE  /\ TameFrame(Top) /\ Top.last # Wild
           /\ Top.pc \in Nat \ {0} /\ Top.pc \in DOMAIN code[Top.fn]
           /\ Instr = code[Top.fn][Top.pc] /\ SetFirst(code[Top.fn])
           /\ Executing /\ Top \in Frames
           /\ Instr.op = "decl" => Instr.cond = "once"
<1>1. /\ Len(stack) \in DOMAIN stack /\ Top.pc \in Nat \ {0} /\ Top.pc \in DOMAIN code[Top.fn]
      /\ Instr = code[Top.fn][Top.pc] /\ Executing /\ Top \in Frames
      /\ GoodFrame(Top, used[ARENA_REQ])
  BY TopFacts
<1>2. TameFrame(Top)
  BY <1>1 DEF Tame, TameProcess, Top
<1>3. Top.fn \in DOMAIN code
  BY <1>1 DEF GoodFrame
<1> QED
  BY <1>1, <1>2, <1>3 DEF Tame, TameCode, TameFrame, IInv, CodeInv, NamesResolved

\* The top frame is replaced by a tame one.
LEMMA TopStaysTame ==
    ASSUME IInv, Tame, InstrLeft, NEW fr, TameFrame(fr), NEW s, s = [stack EXCEPT ![Len(stack)] = fr]
    PROVE  \A i \in DOMAIN s : TameFrame(s[i])
<1>1. \A i \in DOMAIN s : i \in DOMAIN stack /\ s[i] = IF i = Len(stack) THEN fr ELSE stack[i]
  OBVIOUS
<1> QED
  BY <1>1 DEF Tame, TameProcess

\* The top frame moves on, past an operation that sets no variable for sure.
LEMMA MovedIsTame ==
    ASSUME IInv, Tame, InstrLeft, Instr.op # "assign" \/ Instr.cond # "once",
           NEW fr, fr.fn = Top.fn, fr.locals = Top.locals, fr.pc \in {Top.pc, Top.pc + 1},
           fr.last # Wild
    PROVE  TameFrame(fr)
<1>1. TameFrame(Top) /\ Top.pc \in Nat \ {0} /\ Instr = code[Top.fn][Top.pc]
  BY TopIsTame
<1>2. SetBefore(code[Top.fn], fr.pc) \subseteq SetBefore(code[Top.fn], Top.pc)
  BY <1>1, SetMovesOn
<1> QED
  BY <1>1, <1>2 DEF TameFrame

LEMMA TopAdvances ==
    ASSUME IInv, Tame, InstrLeft, Instr.op # "assign", NEW r, r # Wild, Advance(r)
    PROVE  \A i \in DOMAIN stack' : TameFrame(stack'[i])
<1>1. PICK next \in NextPc :
          stack' = [stack EXCEPT ![Len(stack)] = [@ EXCEPT !.pc = next, !.last = r]]
  BY DEF Advance
<1> DEFINE fr == [Top EXCEPT !.pc = next, !.last = r]
<1>2. stack' = [stack EXCEPT ![Len(stack)] = fr]
  BY <1>1 DEF Top
<1>3. Top \in Frames
  BY TopIsTame
<1>4. fr.fn = Top.fn /\ fr.locals = Top.locals /\ fr.last = r /\ fr.pc = next
  BY <1>3 DEF Frames
<1> HIDE DEF fr
<1>5. TameFrame(fr)
  BY <1>4, NextPcFacts, MovedIsTame
<1> QED
  BY <1>2, <1>5, TopStaysTame

LEMMA TameAlloc ==
    ASSUME IInv, Tame, run_alloc
    PROVE  Tame'
<1> DEFINE t == Instr.tag
           r == [tag |-> t, slot |-> used[t] + 1, epoch |-> IF t = ARENA_REQ THEN epoch ELSE 0]
<1>1. /\ InstrLeft /\ Instr.op = "alloc" /\ Executing /\ Instr \in Instruction /\ t \in Tags
      /\ Top.last # Wild
  BY TopFacts, TopIsTame DEF run_alloc, Instruction
<1>2. CASE stage' # stage
  BY <1>2, TameStop DEF run_alloc, die
<1>3. CASE stage' = stage
  <2>1. /\ mem' = IF StoresFields(Instr.of)
                  THEN [mem EXCEPT ![t][used[t] + 1] = Top.last]
                  ELSE mem
        /\ Advance(r)
        /\ UNCHANGED <<compiler, stage, loaded>>
    BY <1>1, <1>3 DEF run_alloc, die, Executing
  <2>2. used[t] \in Nat /\ mem \in [Tags -> [Cell -> Refs]]
    BY <1>1, MemoryFacts
  <2>3. r # Wild
    BY <2>2 DEF Wild
  <2>4. \A g \in Tags : \A k \in Cell : mem'[g][k] = mem[g][k] \/ mem'[g][k] = Top.last
    BY <1>1, <2>1, <2>2
  <2>5. \A g \in Tags : \A k \in Cell : mem'[g][k] # Wild
    BY <1>1, <2>4 DEF Tame, TameProcess
  <2> HIDE DEF r
  <2>6. \A i \in DOMAIN stack' : TameFrame(stack'[i])
    BY <1>1, <2>1, <2>3, TopAdvances
  <2> QED
    BY <1>1, <2>1, <2>5, <2>6, TameRun DEF Tame, TameProcess
<1> QED
  BY <1>2, <1>3

LEMMA TameRead ==
    ASSUME IInv, Tame, run_read
    PROVE  Tame'
<1>1. InstrLeft /\ Instr.op = "read" /\ Executing /\ Top.last # Wild /\ Top.last \in Refs
  BY TopIsTame, TopHolds DEF run_read
<1>2. /\ loaded' = IF Top.last \in {NoRef, Wild} THEN Top.last
                    ELSE mem[Top.last.tag][Top.last.slot]
      /\ Advance(Top.last)
      /\ UNCHANGED <<compiler, stage, mem>>
  BY <1>1 DEF run_read
<1>3. loaded' # Wild
  <2>1. CASE Top.last = NoRef
    BY <1>2, <2>1, NoRefIsTame
  <2>2. CASE Top.last # NoRef
    <3>1. Top.last.tag \in Tags /\ Top.last.slot \in Cell
      BY <1>1, <2>2 DEF Refs
    <3> QED
      BY <1>1, <1>2, <2>2, <3>1 DEF Tame, TameProcess
  <2> QED
    BY <2>1, <2>2
<1>4. \A i \in DOMAIN stack' : TameFrame(stack'[i])
  BY <1>1, <1>2, TopAdvances
<1> QED
  BY <1>1, <1>2, <1>3, <1>4, TameRun DEF Tame, TameProcess

LEMMA TameUse ==
    ASSUME IInv, Tame, run_use
    PROVE  Tame'
<1>1. InstrLeft /\ Instr.op = "use" /\ Executing /\ UNCHANGED <<compiler, stage, mem, loaded>>
  BY TopIsTame DEF run_use
<1>2. Instr.of \in SetBefore(code[Top.fn], Top.pc)
  BY <1>1, TopIsTame DEF SetFirst
<1>3. Top.locals[Instr.of] # Wild
  BY <1>1, <1>2, TopIsTame DEF TameFrame
<1>4. Advance(Top.locals[Instr.of])
  BY DEF run_use
<1>5. \A i \in DOMAIN stack' : TameFrame(stack'[i])
  BY <1>1, <1>3, <1>4, TopAdvances
<1> QED
  BY <1>1, <1>5, TameRun DEF Tame, TameProcess

LEMMA TameSkip ==
    ASSUME IInv, Tame, run_skip
    PROVE  Tame'
<1> DEFINE fr == [Top EXCEPT !.pc = Top.pc + 1]
<1>1. /\ InstrLeft /\ Instr.cond # "once" /\ Executing /\ Top \in Frames /\ Top.last # Wild
      /\ UNCHANGED <<compiler, stage, mem, loaded>>
  BY TopIsTame DEF run_skip
<1>2. stack' = [stack EXCEPT ![Len(stack)] = fr]
  BY DEF run_skip, Top
<1>3. fr.fn = Top.fn /\ fr.locals = Top.locals /\ fr.last = Top.last /\ fr.pc = Top.pc + 1
  BY <1>1 DEF Frames
<1> HIDE DEF fr
<1>4. TameFrame(fr)
  BY <1>1, <1>3, MovedIsTame
<1>5. \A i \in DOMAIN stack' : TameFrame(stack'[i])
  BY <1>1, <1>2, <1>4, TopStaysTame
<1> QED
  BY <1>1, <1>5, TameRun DEF Tame, TameProcess

\* An assignment sets its variable; a declaration leaves it unset.
LEMMA TameBind ==
    ASSUME IInv, Tame, InstrLeft, NEW b, Bind(b), Instr.op \in {"decl", "assign"},
           Instr.op = "assign" => b # Wild
    PROVE  Tame'
<1> DEFINE l == [x \in DOMAIN Top.locals \cup {Instr.of} |->
                    IF x = Instr.of THEN b ELSE Top.locals[x]]
           fr == [Top EXCEPT !.pc = Top.pc + 1, !.locals = l]
           ops == code[Top.fn]
<1>1. /\ Executing /\ Top \in Frames /\ Top.last # Wild /\ TameFrame(Top)
      /\ Top.pc \in Nat \ {0} /\ Instr = ops[Top.pc]
  BY TopIsTame
<1>2. stack' = [stack EXCEPT ![Len(stack)] = fr] /\ UNCHANGED <<compiler, stage, mem, loaded>>
  BY DEF Bind, Top
<1>3. /\ DOMAIN l = DOMAIN Top.locals \cup {Instr.of} /\ l[Instr.of] = b
      /\ \A x \in DOMAIN Top.locals : x # Instr.of => l[x] = Top.locals[x]
  OBVIOUS
<1> HIDE DEF l
<1>4. fr.fn = Top.fn /\ fr.locals = l /\ fr.last = Top.last /\ fr.pc = Top.pc + 1
  BY <1>1 DEF Frames
<1> HIDE DEF fr, ops
<1>5. ASSUME NEW x \in SetBefore(ops, Top.pc + 1) PROVE x \in DOMAIN l /\ l[x] # Wild
  <2>1. /\ ~ (Instr.op = "decl" /\ Instr.of = x) \/ Instr.op = "assign"
        /\ x \in SetBefore(ops, Top.pc) \/ (Instr.op = "assign" /\ Instr.of = x)
    BY <1>1, <1>5, SetMovesOn
  <2>2. x \in SetBefore(ops, Top.pc) => x \in DOMAIN Top.locals /\ Top.locals[x] # Wild
    BY <1>1 DEF TameFrame, ops
  <2>3. CASE x = Instr.of
    BY <1>3, <2>1, <2>3
  <2>4. CASE x # Instr.of
    BY <1>3, <2>1, <2>2, <2>4
  <2> QED
    BY <2>3, <2>4
<1>6. TameFrame(fr)
  BY <1>1, <1>4, <1>5 DEF TameFrame, ops
<1>7. \A i \in DOMAIN stack' : TameFrame(stack'[i])
  BY <1>2, <1>6, TopStaysTame
<1> QED
  BY <1>1, <1>2, <1>7, TameRun DEF Tame, TameProcess

LEMMA TameStores ==
    ASSUME IInv, Tame, run_decl \/ run_store
    PROVE  Tame'
<1>1. InstrLeft /\ Instr.op \in {"decl", "assign"} /\ Top.last # Wild
  BY TopIsTame DEF run_decl, run_store
<1> QED
  BY <1>1, TameBind DEF run_decl, run_store

LEMMA TameCall ==
    ASSUME IInv, Tame, run_call
    PROVE  Tame'
<1> DEFINE g == Frame(Instr.of, Top.last)
<1>1. /\ InstrLeft /\ Instr.op = "call" /\ Executing /\ Top \in Frames /\ Top.last # Wild
      /\ UNCHANGED <<compiler, stage, mem, loaded>>
  BY TopIsTame DEF run_call
<1>2. PICK next \in NextPc :
          stack' = Append([stack EXCEPT ![Len(stack)] = [@ EXCEPT !.pc = next]], g)
  BY DEF run_call
<1> DEFINE fr == [Top EXCEPT !.pc = next]
           s == [stack EXCEPT ![Len(stack)] = fr]
<1>3. stack' = Append(s, g)
  BY <1>2 DEF Top
<1>4. fr.fn = Top.fn /\ fr.locals = Top.locals /\ fr.last = Top.last /\ fr.pc = next
  BY <1>1 DEF Frames
<1>5. TameFrame(g)
  BY <1>1, NewFrameIsTame
<1> HIDE DEF fr, g
<1>6. TameFrame(fr)
  BY <1>1, <1>4, NextPcFacts, MovedIsTame
<1>7. \A i \in DOMAIN s : TameFrame(s[i])
  BY <1>1, <1>6, TopStaysTame
<1> DEFINE S == {s[i] : i \in 1 .. Len(stack)} \cup {g}
<1>8. s \in Seq(S) /\ g \in S
  <2>1. DOMAIN stack = 1 .. Len(stack) /\ Len(stack) \in Nat
    BY <1>1, TopFacts
  <2>2. s \in [1 .. Len(stack) -> S]
    BY <2>1
  <2> HIDE DEF s
  <2> QED
    BY <2>1, <2>2, SeqDef
<1> HIDE DEF s, S
<1>9. \A i \in DOMAIN stack' : (i \in DOMAIN s /\ stack'[i] = s[i]) \/ stack'[i] = g
  <2>1. /\ DOMAIN stack' = 1 .. Len(s) + 1 /\ \A i \in 1 .. Len(s) : stack'[i] = s[i]
        /\ stack'[Len(s) + 1] = g
        /\ Len(s) \in Nat /\ DOMAIN s = 1 .. Len(s)
    BY <1>3, <1>8, AppendProperties, LenProperties
  <2> QED
    BY <2>1
<1>10. \A i \in DOMAIN stack' : TameFrame(stack'[i])
  BY <1>5, <1>7, <1>9
<1> QED
  BY <1>1, <1>10, TameRun DEF Tame, TameProcess

LEMMA TameReturn ==
    ASSUME IInv, Tame, run_return
    PROVE  Tame'
<1> DEFINE n == Len(stack) - 1
           s == SubSeq(stack, 1, n)
           fr == [s[n] EXCEPT !.last = Top.last]
<1>1. /\ Executing /\ Len(stack) > 1 /\ UNCHANGED <<compiler, stage, mem, loaded>>
      /\ stack' = [s EXCEPT ![n] = fr]
  BY DEF run_return
<1>2. /\ stack \in Seq(Frames) /\ Len(stack) \in Nat /\ DOMAIN stack = 1 .. Len(stack)
      /\ n \in 1 .. Len(stack) /\ Len(stack) \in DOMAIN stack
  BY <1>1, LenProperties DEF IInv, ProcessInv, ProcessType
<1>3. DOMAIN s = 1 .. n /\ \A i \in 1 .. n : s[i] = stack[i] /\ i \in DOMAIN stack
  BY <1>2, SubSeqProperties, LenProperties
<1>4. \A i \in DOMAIN stack : TameFrame(stack[i]) /\ stack[i] \in Frames
  BY <1>2, ElementOfSeq DEF Tame, TameProcess
<1>5. Top.last # Wild
  BY <1>2, <1>4 DEF Top, TameFrame
<1>6. n \in 1 .. n /\ s[n] \in Frames /\ TameFrame(s[n])
  <2>1. n \in 1 .. n
    BY <1>2
  <2> QED
    BY <1>3, <1>4, <2>1
<1> HIDE DEF s
<1>7. fr.fn = s[n].fn /\ fr.locals = s[n].locals /\ fr.last = Top.last /\ fr.pc = s[n].pc
  BY <1>6 DEF Frames
<1> HIDE DEF fr
<1>8. TameFrame(fr)
  BY <1>5, <1>6, <1>7 DEF TameFrame
<1>9. \A i \in DOMAIN stack' : i \in 1 .. n /\ (stack'[i] = fr \/ stack'[i] = s[i])
  BY <1>1, <1>3
<1> HIDE DEF n
<1>10. \A i \in DOMAIN stack' : TameFrame(stack'[i])
  BY <1>3, <1>4, <1>8, <1>9
<1> QED
  BY <1>1, <1>10, TameRun DEF Tame, TameProcess

\* The shim's steps.
LEMMA TameShim ==
    ASSUME Tame, init_done \/ handle_event \/ handle_done
    PROVE  Tame'
<1> DEFINE fr == Frame("lambpie_handle", NoRef)
<1>1. /\ code' = code /\ mem' = mem /\ stage' # "compile"
      /\ loaded' = loaded \/ loaded' = NoRef
      /\ stack' = <<>> \/ stack' = <<fr>>
  BY DEF init_done, handle_event, handle_done, compiler
<1>2. TameFrame(fr)
  BY NoRefIsTame, NewFrameIsTame
<1> HIDE DEF fr
<1>3. \A i \in DOMAIN stack' : stack'[i] = fr
  BY <1>1
<1>4. \A i \in DOMAIN stack' : TameFrame(stack'[i])
  BY <1>2, <1>3
<1>5. TameProcess'
  BY <1>1, <1>4, NoRefIsTame DEF Tame, TameProcess, TameFrame
<1> QED
  BY <1>1, <1>5 DEF Tame, TameCode

LEMMA TameNext ==
    ASSUME VariablesAreSet, IInv, Tame, [Next]_vars
    PROVE  Tame'
<1>1. CASE CompileStep
  <2>1. CASE visit_block
    BY <2>1, TameStop DEF visit_block, fail
  <2> QED
    BY <1>1, <2>1, TameItems, TameStatement, TameSynthesis DEF CompileStep
<1>2. CASE RunStep
  BY <1>2, TameAlloc, TameCall, TameRead, TameStores, TameUse, TameSkip, TameReturn, TameShim
  DEF RunStep
<1>3. CASE UNCHANGED vars
  BY <1>3 DEF vars, compiler, process, Tame, TameCode, TameProcess, TameFrame
<1> QED
  BY <1>1, <1>2, <1>3 DEF Next

\* README.md:52 promises "no dangling pointers possible" of every program; MCPieUnset and
\* MCPieStale show programs the compiler takes of which it is not so.  Of the programs that
\* store every field of the objects handle() makes, set their variables before they use them
\* and allocate in no helper of handle(), it is: with calls, recursion, branches, loops and
\* variables of any number, no invocation has at hand, or reads from a field, a reference of
\* an invocation before it or an uninitialized one.
THEOREM NothingDangles ==
    ASSUME HelpersDoNotAllocate, FieldsAreStored, VariablesAreSet
    PROVE  Spec => []NoDanglingRead
<1>1. ASSUME IInv, Tame PROVE NoDanglingRead
  <2> SUFFICES ASSUME stage = "handle" PROVE Alive(loaded) /\ Alive(Top.last)
    BY DEF NoDanglingRead
  <2>1. Executing
    BY DEF Executing
  <2>2. Lives(loaded) /\ loaded # Wild
    BY <1>1, <2>1, MemoryFacts DEF Tame, TameProcess
  <2>3. Len(stack) \in DOMAIN stack
    BY <1>1, EmptySeq, LenProperties DEF IInv, ProcessInv, ProcessType
  <2>4. Current(Top.last) /\ Top.last # Wild
    BY <1>1, <2>3 DEF IInv, ProcessInv, Serving, Top, HeldBy, Tame, TameProcess, TameFrame
  <2> QED
    BY <2>2, <2>4 DEF Current, Lives, Alive
<1>2. ASSUME IInv, Tame, [Next]_vars PROVE Tame'
  BY <1>2, TameNext
<1> QED
  BY <1>1, <1>2, InitTame, Invariance, PTL DEF Spec

-----------------------------------------------------------------------------
(* The compiler's walk.                                                      *)

ConvertibleBefore(p, n) ==
    {p[k].name : k \in {j \in 1 .. n - 1 : p[j].kind = "class" /\ p[j].types \subseteq {"str"}}}

\* h is the last handle() before item n, 0 if there is none.
LastHandle(p, n, h) ==
    \/ h = 0 /\ \A j \in 1 .. n - 1 : ~ IsHandle(p, j)
    \/ h \in 1 .. n - 1 /\ IsHandle(p, h) /\ \A j \in h + 1 .. n - 1 : ~ IsHandle(p, j)

\* pos says where the statements ss stand: they are those before item n, in their order.
StatementsAt(p, n, ss, pos) ==
    /\ pos \in [1 .. Len(ss) -> 1 .. n - 1]
    /\ \A i \in 1 .. Len(ss) : p[pos[i]].kind = "stmt" /\ p[pos[i]].do = ss[i]
    /\ \A i, j \in 1 .. Len(ss) : i < j <=> pos[i] < pos[j]
    /\ \A k \in 1 .. n - 1 : p[k].kind = "stmt" => \E i \in 1 .. Len(ss) : pos[i] = k

\* What the compiler has collected is what the items before at define, and they are in order.
Walk ==
    /\ at \in 1 .. Len(body) + 1
    /\ DOMAIN classes = ClassesBefore(body, at)
    /\ \A c \in DOMAIN classes : classes[c].flat <=> c \in ConvertibleBefore(body, at)
    /\ functions = FunctionsBefore(body, at)
    /\ LastHandle(body, at, handle_node)
    /\ init_stmts \in Seq(Operation) /\ \E pos : StatementsAt(body, at, init_stmts, pos)
    /\ \A k \in 1 .. at - 1 : ItemOk(body, k)

CompilerInv ==
    /\ body \in Programs
    /\ stage = "compile" => Walk
    /\ stage = "error" => ~ Resolvable(body)
    /\ stage \notin {"compile", "error"} => Resolvable(body)

\* What the type of a program says of its items.
LEMMA ProgramFacts ==
    ASSUME NEW p \in Programs
    PROVE  /\ Len(p) \in Nat /\ DOMAIN p = 1 .. Len(p)
           /\ \A k \in 1 .. Len(p) :
                  /\ p[k].kind \in {"class", "def", "import", "stmt", "main", "block"}
                  /\ p[k].kind = "def" => p[k].ops \in Seq(Operation)
                  /\ p[k].kind = "stmt" => p[k].do \in Operation
<1>1. p \in Seq(ModuleItem)
  BY PieAssumption
<1>2. /\ Len(p) \in Nat /\ DOMAIN p = 1 .. Len(p)
      /\ \A k \in 1 .. Len(p) : p[k] \in ModuleItem
  BY <1>1, LenProperties, ElementOfSeq
<1>3. \A x \in ModuleItem : x.kind \in {"class", "def", "import", "stmt", "main", "block"}
  BY DEF ModuleItem
<1>4. \A k \in 1 .. Len(p) : /\ p[k].kind = "def" => p[k].ops \in Seq(Operation)
                             /\ p[k].kind = "stmt" => p[k].do \in Operation
  BY <1>2, ItemFacts
<1> QED
  BY <1>2, <1>3, <1>4

\* Resolved is BodyOk with the classes and functions known so far.
LEMMA ResolvedIsBodyOk ==
    ASSUME NEW ops \in Seq(Operation), NEW fs
    PROVE  Resolved(ops, fs) <=> BodyOk(ops, DOMAIN classes, fs)
<1>1. \A k \in DOMAIN ops : ops[k].op \in {"new", "call", "read", "decl", "assign", "use"}
  <2>1. \A k \in DOMAIN ops : ops[k] \in Operation
    BY ElementOfSeq, LenProperties
  <2> QED
    BY <2>1 DEF Operation
<1>2. \A k \in DOMAIN ops : ops[k].of \in Declared(ops, k) <=>
          \E j \in 1 .. k - 1 : ops[j].op = "decl" /\ ops[j].of = ops[k].of
  BY DEF Declared
<1>3. ASSUME NEW k \in DOMAIN ops
      PROVE  (CASE ops[k].op = "new" -> ops[k].of \in DOMAIN classes
                [] ops[k].op = "call" -> ops[k].of \in fs
                [] ops[k].op \in {"use", "assign"} -> ops[k].of \in Declared(ops, k)
                [] OTHER -> TRUE)
             <=> /\ ops[k].op = "new" => ops[k].of \in DOMAIN classes
                 /\ ops[k].op = "call" => ops[k].of \in fs
                 /\ ops[k].op \in {"use", "assign"} => ops[k].of \in Declared(ops, k)
  BY <1>1
<1> QED
  BY <1>2, <1>3 DEF Resolved, BodyOk

\* What stands before the next item: one item more.
LEMMA NextClasses ==
    ASSUME NEW p, NEW n \in Nat, n >= 1
    PROVE  /\ ClassesBefore(p, n + 1) =
                  ClassesBefore(p, n) \cup (IF p[n].kind = "class" THEN {p[n].name} ELSE {})
           /\ ConvertibleBefore(p, n + 1) =
                  ConvertibleBefore(p, n)
                  \cup (IF p[n].kind = "class" /\ p[n].types \subseteq {"str"} THEN {p[n].name} ELSE {})
           /\ FunctionsBefore(p, n + 1) =
                  FunctionsBefore(p, n)
                  \cup (IF p[n].kind \in {"def", "import"} /\ p[n].name # "handle"
                        THEN {p[n].name} ELSE {})
<1>1. \A j : j \in 1 .. (n + 1) - 1 <=> (j \in 1 .. n - 1 \/ j = n)
  OBVIOUS
<1>2. ClassesBefore(p, n + 1) =
                  ClassesBefore(p, n) \cup (IF p[n].kind = "class" THEN {p[n].name} ELSE {})
  <2> DEFINE A == {j \in 1 .. (n + 1) - 1 : p[j].kind = "class"}
             B == {j \in 1 .. n - 1 : p[j].kind = "class"}
  <2>1. \A j : j \in A <=> (j \in B \/ (j = n /\ p[n].kind = "class"))
    BY <1>1
  <2> HIDE DEF A, B
  <2>2. {p[k].name : k \in A} = {p[k].name : k \in B} \cup (IF p[n].kind = "class" THEN {p[n].name} ELSE {})
    BY <2>1
  <2> QED
    BY <2>2 DEF ClassesBefore, A, B
<1>3. ConvertibleBefore(p, n + 1) =
                  ConvertibleBefore(p, n)
                  \cup (IF p[n].kind = "class" /\ p[n].types \subseteq {"str"} THEN {p[n].name} ELSE {})
  <2> DEFINE A == {j \in 1 .. (n + 1) - 1 : p[j].kind = "class" /\ p[j].types \subseteq {"str"}}
             B == {j \in 1 .. n - 1 : p[j].kind = "class" /\ p[j].types \subseteq {"str"}}
  <2>1. \A j : j \in A <=> (j \in B \/ (j = n /\ p[n].kind = "class" /\ p[n].types \subseteq {"str"}))
    BY <1>1
  <2> HIDE DEF A, B
  <2>2. {p[k].name : k \in A} = {p[k].name : k \in B}
            \cup (IF p[n].kind = "class" /\ p[n].types \subseteq {"str"} THEN {p[n].name} ELSE {})
    BY <2>1
  <2> QED
    BY <2>2 DEF ConvertibleBefore, A, B
<1>4. FunctionsBefore(p, n + 1) =
                  FunctionsBefore(p, n)
                  \cup (IF p[n].kind \in {"def", "import"} /\ p[n].name # "handle"
                        THEN {p[n].name} ELSE {})
  <2> DEFINE A == {j \in 1 .. (n + 1) - 1 : p[j].kind \in {"def", "import"} /\ p[j].name # "handle"}
             B == {j \in 1 .. n - 1 : p[j].kind \in {"def", "import"} /\ p[j].name # "handle"}
  <2>1. \A j : j \in A <=> (j \in B \/ (j = n /\ p[n].kind \in {"def", "import"} /\ p[n].name # "handle"))
    BY <1>1
  <2> HIDE DEF A, B
  <2>2. {p[k].name : k \in A} = {p[k].name : k \in B}
            \cup (IF p[n].kind \in {"def", "import"} /\ p[n].name # "handle" THEN {p[n].name} ELSE {})
    BY <2>1
  <2> QED
    BY <2>2 DEF FunctionsBefore, A, B
<1> QED
  BY <1>2, <1>3, <1>4

\* A later handle() takes the place of an earlier one.
LEMMA NextLastHandle ==
    ASSUME NEW p, NEW n \in Nat, n >= 1, NEW h, LastHandle(p, n, h)
    PROVE  LastHandle(p, n + 1, IF IsHandle(p, n) THEN n ELSE h)
<1>1. \A j \in 1 .. (n + 1) - 1 : j \in 1 .. n - 1 \/ j = n
  OBVIOUS
<1>2. n \in 1 .. (n + 1) - 1 /\ n + 1 .. (n + 1) - 1 = {}
  OBVIOUS
<1>3. CASE IsHandle(p, n)
  BY <1>2, <1>3, Zenon DEF LastHandle
<1>4. CASE ~ IsHandle(p, n)
  <2>1. CASE h = 0 /\ \A j \in 1 .. n - 1 : ~ IsHandle(p, j)
    BY <1>1, <1>4, <2>1, Zenon DEF LastHandle
  <2>2. CASE h \in 1 .. n - 1 /\ IsHandle(p, h) /\ \A j \in h + 1 .. n - 1 : ~ IsHandle(p, j)
    <3>1. h \in 1 .. (n + 1) - 1 /\ \A j \in h + 1 .. (n + 1) - 1 : j \in h + 1 .. n - 1 \/ j = n
      <4>1. h \in 1 .. n - 1
        BY <2>2
      <4> QED
        BY <4>1
    <3> QED
      BY <1>4, <2>2, <3>1, Zenon DEF LastHandle
  <2> QED
    BY <2>1, <2>2, Zenon DEF LastHandle
<1> QED
  BY <1>3, <1>4

\* An item that is no statement leaves the statements where they are.
LEMMA StatementsStay ==
    ASSUME NEW p, NEW n \in Nat, n >= 1, p[n].kind # "stmt", NEW ss, Len(ss) \in Nat, NEW pos,
           StatementsAt(p, n, ss, pos)
    PROVE  StatementsAt(p, n + 1, ss, pos)
<1>1. 1 .. n - 1 \subseteq 1 .. (n + 1) - 1 /\ \A j \in 1 .. (n + 1) - 1 : j \in 1 .. n - 1 \/ j = n
  OBVIOUS
<1>2. pos \in [1 .. Len(ss) -> 1 .. (n + 1) - 1]
  <2>1. pos \in [1 .. Len(ss) -> 1 .. n - 1]
    BY DEF StatementsAt
  <2> QED
    BY <1>1, <2>1
<1> QED
  BY <1>1, <1>2, Zenon DEF StatementsAt

\* A statement is appended where it stands.
LEMMA StatementAdded ==
    ASSUME NEW p, NEW n \in Nat, n >= 1, p[n].kind = "stmt", NEW S, NEW ss \in Seq(S), p[n].do \in S,
           NEW pos, StatementsAt(p, n, ss, pos)
    PROVE  \E q : StatementsAt(p, n + 1, Append(ss, p[n].do), q)
<1> DEFINE m == Len(ss)
           x == p[n].do
           tt == Append(ss, x)
           q == [i \in 1 .. m + 1 |-> IF i = m + 1 THEN n ELSE pos[i]]
<1>1. /\ m \in Nat /\ Len(tt) = m + 1 /\ tt[m + 1] = x /\ \A i \in 1 .. m : tt[i] = ss[i]
  BY AppendProperties, LenProperties
<1>2. /\ pos \in [1 .. m -> 1 .. n - 1]
      /\ \A i \in 1 .. m : p[pos[i]].kind = "stmt" /\ p[pos[i]].do = ss[i]
      /\ \A i, j \in 1 .. m : i < j <=> pos[i] < pos[j]
      /\ \A k \in 1 .. n - 1 : p[k].kind = "stmt" => \E i \in 1 .. m : pos[i] = k
  BY Zenon DEF StatementsAt
<1>3. x = p[n].do
  OBVIOUS
<1> HIDE DEF m, tt, x
<1>4. \A i \in 1 .. m : i \in 1 .. m + 1 /\ i # m + 1 /\ i \in Nat
  BY <1>1
<1>5. m + 1 \in 1 .. m + 1 /\ \A i \in 1 .. m + 1 : i \in 1 .. m \/ i = m + 1
  BY <1>1
<1>6. q[m + 1] = n /\ \A i \in 1 .. m : q[i] = pos[i]
  BY <1>4, <1>5
<1>7. q \in [1 .. m + 1 -> 1 .. (n + 1) - 1]
  BY <1>1, <1>2
<1> HIDE DEF q
<1>8. \A i \in 1 .. m + 1 : p[q[i]].kind = "stmt" /\ p[q[i]].do = tt[i]
  <2>1. ASSUME NEW i \in 1 .. m PROVE p[q[i]].kind = "stmt" /\ p[q[i]].do = tt[i]
    <3>1. q[i] = pos[i] /\ tt[i] = ss[i]
      BY <1>1, <1>6, Zenon
    <3> QED
      BY <1>2, <3>1, Zenon
  <2>2. p[q[m + 1]].kind = "stmt" /\ p[q[m + 1]].do = tt[m + 1]
    BY <1>1, <1>3, <1>6, Zenon
  <2> QED
    BY <1>5, <2>1, <2>2, Zenon
<1>9. \A i, j \in 1 .. m + 1 : i < j <=> q[i] < q[j]
  <2>1. ASSUME NEW i \in 1 .. m + 1, NEW j \in 1 .. m + 1 PROVE i < j <=> q[i] < q[j]
    <3>1. CASE i \in 1 .. m /\ j \in 1 .. m
      BY <1>2, <1>6, <3>1
    <3>2. CASE i \in 1 .. m /\ j = m + 1
      <4>1. q[i] \in 1 .. n - 1 /\ q[j] = n
        BY <1>2, <1>6, <3>2
      <4> QED
        BY <3>2, <4>1, <1>1
    <3>3. CASE i = m + 1 /\ j \in 1 .. m
      <4>1. q[j] \in 1 .. n - 1 /\ q[i] = n
        BY <1>2, <1>6, <3>3
      <4> QED
        BY <3>3, <4>1, <1>1
    <3>4. CASE i = m + 1 /\ j = m + 1
      <4>1. q[j] = n /\ q[i] = n
        BY <1>6, <3>4
      <4> QED
        BY <3>4, <4>1, <1>1
    <3> QED
      BY <1>5, <3>1, <3>2, <3>3, <3>4
  <2> QED
    BY <2>1
<1>10. ASSUME NEW k \in 1 .. (n + 1) - 1, p[k].kind = "stmt" PROVE \E i \in 1 .. m + 1 : q[i] = k
  <2>1. CASE k = n
    BY <1>5, <1>6, <2>1, Zenon
  <2>2. CASE k \in 1 .. n - 1
    BY <1>2, <1>4, <1>6, <1>10, <2>2, Zenon
  <2>3. k = n \/ k \in 1 .. n - 1
    OBVIOUS
  <2> QED
    BY <2>1, <2>2, <2>3
<1>11. StatementsAt(p, n + 1, tt, q)
  BY <1>1, <1>7, <1>8, <1>9, <1>10, Zenon DEF StatementsAt
<1> QED
  BY <1>11, Zenon DEF tt, x

\* The statements of the whole module, collected in their order, are resolved exactly if
\* they are in the module.
LEMMA StatementsResolved ==
    ASSUME NEW p, Len(p) \in Nat, NEW ss \in Seq(Operation), NEW pos, StatementsAt(p, Len(p) + 1, ss, pos)
    PROVE  BodyOk(ss, AllClasses(p), AllFunctions(p) \cup {"handle"}) <=> StatementsOk(p)
<1> DEFINE m == Len(ss)
           cs == AllClasses(p)
           fs == AllFunctions(p) \cup {"handle"}
<1>1. m \in Nat /\ DOMAIN ss = 1 .. m /\ (Len(p) + 1) - 1 = Len(p)
  BY LenProperties
<1>2. /\ pos \in [1 .. m -> 1 .. Len(p)]
      /\ \A i \in 1 .. m : p[pos[i]].kind = "stmt" /\ p[pos[i]].do = ss[i]
      /\ \A i, j \in 1 .. m : i < j <=> pos[i] < pos[j]
      /\ \A k \in 1 .. Len(p) : p[k].kind = "stmt" => \E i \in 1 .. m : pos[i] = k
  BY <1>1 DEF StatementsAt
<1>3. ASSUME NEW i \in 1 .. m
      PROVE  (\E j \in 1 .. i - 1 : ss[j].op = "decl" /\ ss[j].of = ss[i].of) <=>
             (\E j \in 1 .. pos[i] - 1 : p[j].kind = "stmt" /\ p[j].do.op = "decl" /\ p[j].do.of = ss[i].of)
  <2>0. pos[i] \in 1 .. Len(p) /\ pos[i] \in Nat
    BY <1>2
  <2>1. ASSUME NEW j \in 1 .. i - 1, ss[j].op = "decl", ss[j].of = ss[i].of
        PROVE  \E k \in 1 .. pos[i] - 1 : p[k].kind = "stmt" /\ p[k].do.op = "decl" /\ p[k].do.of = ss[i].of
    <3>1. j \in 1 .. m /\ j < i
      BY <1>1
    <3>2. pos[j] < pos[i] /\ pos[j] \in 1 .. Len(p)
      BY <1>2, <3>1
    <3>3. pos[j] \in 1 .. pos[i] - 1
      BY <2>0, <3>2
    <3>4. p[pos[j]].kind = "stmt" /\ p[pos[j]].do = ss[j]
      BY <1>2, <3>1, Zenon
    <3> QED
      BY <2>1, <3>3, <3>4, Zenon
  <2>2. ASSUME NEW k \in 1 .. pos[i] - 1, p[k].kind = "stmt", p[k].do.op = "decl", p[k].do.of = ss[i].of
        PROVE  \E j \in 1 .. i - 1 : ss[j].op = "decl" /\ ss[j].of = ss[i].of
    <3>1. k \in 1 .. Len(p) /\ k < pos[i]
      BY <2>0
    <3>2. PICK j \in 1 .. m : pos[j] = k
      BY <1>2, <2>2, <3>1, Zenon
    <3>3. j < i
      BY <1>2, <3>1, <3>2, Zenon
    <3>4. j \in 1 .. i - 1
      BY <3>3, <1>1
    <3>5. p[k].do = ss[j]
      BY <1>2, <3>2, Zenon
    <3> QED
      BY <2>2, <3>4, <3>5, Zenon
  <2> QED
    BY <2>1, <2>2, Zenon
<1>4. ASSUME BodyOk(ss, cs, fs) PROVE StatementsOk(p)
  <2> SUFFICES ASSUME NEW k \in 1 .. Len(p), p[k].kind = "stmt"
               PROVE  /\ p[k].do.op = "new" => p[k].do.of \in cs
                      /\ p[k].do.op = "call" => p[k].do.of \in fs
                      /\ p[k].do.op \in {"use", "assign"} =>
                             \E j \in 1 .. k - 1 :
                                 p[j].kind = "stmt" /\ p[j].do.op = "decl" /\ p[j].do.of = p[k].do.of
    BY Zenon DEF StatementsOk
  <2>1. PICK i \in 1 .. m : pos[i] = k
    BY <1>2, Zenon
  <2>2. p[k].do = ss[i]
    BY <1>2, <2>1, Zenon
  <2>3. /\ ss[i].op = "new" => ss[i].of \in cs
        /\ ss[i].op = "call" => ss[i].of \in fs
        /\ ss[i].op \in {"use", "assign"} =>
               \E j \in 1 .. i - 1 : ss[j].op = "decl" /\ ss[j].of = ss[i].of
    BY <1>1, <1>4, Zenon DEF BodyOk
  <2> HIDE DEF cs, fs, m
  <2> QED
    BY <1>3, <2>1, <2>2, <2>3, Zenon
<1>5. ASSUME StatementsOk(p) PROVE BodyOk(ss, cs, fs)
  <2> SUFFICES ASSUME NEW i \in 1 .. m
               PROVE  /\ ss[i].op = "new" => ss[i].of \in cs
                      /\ ss[i].op = "call" => ss[i].of \in fs
                      /\ ss[i].op \in {"use", "assign"} =>
                             \E j \in 1 .. i - 1 : ss[j].op = "decl" /\ ss[j].of = ss[i].of
    BY <1>1, Zenon DEF BodyOk
  <2>1. pos[i] \in 1 .. Len(p) /\ p[pos[i]].kind = "stmt" /\ p[pos[i]].do = ss[i]
    BY <1>2
  <2>2. /\ p[pos[i]].do.op = "new" => p[pos[i]].do.of \in cs
        /\ p[pos[i]].do.op = "call" => p[pos[i]].do.of \in fs
        /\ p[pos[i]].do.op \in {"use", "assign"} =>
               \E j \in 1 .. pos[i] - 1 :
                   p[j].kind = "stmt" /\ p[j].do.op = "decl" /\ p[j].do.of = p[pos[i]].do.of
    BY <1>5, <2>1, Zenon DEF StatementsOk
  <2> HIDE DEF cs, fs, m
  <2> QED
    BY <1>3, <2>1, <2>2, Zenon
<1> QED
  BY <1>4, <1>5, Zenon

\* No function but the top-level one is named handle.
LEMMA HandleIsApart ==
    ASSUME NEW p, NEW n
    PROVE  "handle" \notin C_SIGNATURES \cup FunctionsBefore(p, n)
  BY DEF C_SIGNATURES, FunctionsBefore, BuiltinFunctions

\* An item in order takes the walk to the next one.
LEMMA WalkOn ==
    ASSUME body \in Programs, Walk, at \in 1 .. Len(body), ItemOk(body, at),
           body' = body, at' = at + 1,
           DOMAIN classes' = ClassesBefore(body, at + 1),
           \A c \in DOMAIN classes' : classes'[c].flat <=> c \in ConvertibleBefore(body, at + 1),
           functions' = FunctionsBefore(body, at + 1),
           handle_node' = IF IsHandle(body, at) THEN at ELSE handle_node,
           init_stmts' = IF Item.kind = "stmt" THEN Append(init_stmts, Item.do) ELSE init_stmts
    PROVE  Walk'
<1>1. Len(body) \in Nat /\ at \in Nat /\ at >= 1 /\ at \in DOMAIN body
  BY ProgramFacts
<1>2. at' \in 1 .. Len(body') + 1
  BY <1>1
<1>3. LastHandle(body', at', handle_node')
  <2>1. LastHandle(body, at, handle_node)
    BY DEF Walk
  <2>2. LastHandle(body, at + 1, IF IsHandle(body, at) THEN at ELSE handle_node)
    BY <1>1, <2>1, NextLastHandle
  <2> QED
    BY <2>2, Zenon
<1>4. init_stmts' \in Seq(Operation) /\ \E pos : StatementsAt(body, at + 1, init_stmts', pos)
  <2>1. PICK pos : StatementsAt(body, at, init_stmts, pos)
    BY DEF Walk
  <2>2. init_stmts \in Seq(Operation) /\ Len(init_stmts) \in Nat
    BY LenProperties DEF Walk
  <2>3. CASE Item.kind = "stmt"
    <3>1. body[at].kind = "stmt" /\ body[at].do \in Operation /\ init_stmts' = Append(init_stmts, body[at].do)
      BY <2>3, ProgramFacts DEF Item
    <3>2. \E q : StatementsAt(body, at + 1, Append(init_stmts, body[at].do), q)
      BY <1>1, <2>1, <2>2, <3>1, StatementAdded, Zenon
    <3>3. Append(init_stmts, body[at].do) \in Seq(Operation)
      BY <2>2, <3>1, AppendProperties, Zenon
    <3> QED
      BY <3>1, <3>2, <3>3, Zenon
  <2>4. CASE Item.kind # "stmt"
    <3>1. body[at].kind # "stmt" /\ init_stmts' = init_stmts
      BY <2>4 DEF Item
    <3>2. StatementsAt(body, at + 1, init_stmts, pos)
      BY <1>1, <2>1, <2>2, <3>1, StatementsStay, Zenon
    <3> QED
      BY <2>2, <3>1, <3>2, Zenon
  <2> QED
    BY <2>3, <2>4
<1>5. \A k \in 1 .. at' - 1 : ItemOk(body', k)
  <2>1. \A k \in 1 .. at' - 1 : k \in 1 .. at - 1 \/ k = at
    BY <1>1
  <2>2. \A k \in 1 .. at - 1 : ItemOk(body, k)
    BY DEF Walk
  <2> QED
    BY <2>1, <2>2, Zenon
<1> QED
  BY <1>2, <1>3, <1>4, <1>5, Zenon DEF Walk

\* The first item out of order ends the compilation, and the program has it.
LEMMA StopsAt ==
    ASSUME NEW k \in 1 .. Len(body), ~ ItemOk(body, k)
    PROVE  ~ Resolvable(body)
  BY DEF Resolvable

\* A compile step ends the compilation of a program that is not resolvable, or goes on.
Walks == /\ body' = body
         /\ \/ stage' = "error" /\ ~ Resolvable(body)
            \/ stage' = "compile" /\ Walk'
            \/ stage' = "init" /\ Resolvable(body)

\* What the walk says of the item it has come to.
LEMMA WalkFacts ==
    ASSUME body \in Programs, Walk, at \in DOMAIN body
    PROVE  /\ at \in 1 .. Len(body) /\ at \in Nat /\ at >= 1 /\ Item = body[at]
           /\ DOMAIN classes = ClassesBefore(body, at)
           /\ functions = FunctionsBefore(body, at)
           /\ \A c \in DOMAIN classes : classes[c].flat <=> c \in ConvertibleBefore(body, at)
           /\ Item.kind \in {"class", "def", "import", "stmt", "main", "block"}
           /\ Item.kind = "def" => Item.ops \in Seq(Operation)
<1>1. at \in 1 .. Len(body) /\ Len(body) \in Nat
  BY ProgramFacts
<1>2. at \in Nat /\ at >= 1
  BY <1>1
<1> QED
  BY <1>1, <1>2, ProgramFacts DEF Walk, Item

\* A class: known types, a new name.
LEMMA ClassWalks ==
    ASSUME body \in Programs, Walk, visit_ClassDef
    PROVE  Walks
<1>1. stage = "compile" /\ at \in DOMAIN body /\ body[at].kind = "class"
  BY DEF visit_ClassDef, Item
<1>2. /\ at \in 1 .. Len(body) /\ at \in Nat /\ at >= 1 /\ Item = body[at]
      /\ DOMAIN classes = ClassesBefore(body, at) /\ functions = FunctionsBefore(body, at)
      /\ \A c \in DOMAIN classes : classes[c].flat <=> c \in ConvertibleBefore(body, at)
  BY <1>1, WalkFacts
<1>3. (Typed(Item) /\ Item.name \notin DOMAIN classes) <=> ItemOk(body, at)
  BY <1>1, <1>2 DEF Typed, ItemOk
<1>4. CASE ~ ItemOk(body, at)
  BY <1>2, <1>3, <1>4, StopsAt DEF visit_ClassDef, fail, Walks, compiler
<1>5. CASE ItemOk(body, at)
  <2>1. /\ classes' = [c \in DOMAIN classes \cup {Item.name} |->
                          IF c = Item.name
                          THEN [explicit |-> Item.explicit, flat |-> Item.types \subseteq {"str"}]
                          ELSE classes[c]]
        /\ at' = at + 1
        /\ UNCHANGED <<body, functions, handle_node, init_stmts, stage>>
    BY <1>3, <1>5 DEF visit_ClassDef, process
  <2>2. Item.name \notin DOMAIN classes
    BY <1>3, <1>5
  <2>3. /\ DOMAIN classes' = ClassesBefore(body, at + 1)
        /\ functions' = FunctionsBefore(body, at + 1)
    BY <1>1, <1>2, <2>1, NextClasses
  <2>4. ConvertibleBefore(body, at + 1) = ConvertibleBefore(body, at)
            \cup (IF Item.types \subseteq {"str"} THEN {Item.name} ELSE {})
    BY <1>1, <1>2, NextClasses
  <2>5. ASSUME NEW c \in DOMAIN classes' PROVE classes'[c].flat <=> c \in ConvertibleBefore(body, at + 1)
    <3>1. CASE c = Item.name
      <4>1. c \notin ConvertibleBefore(body, at)
        BY <1>2, <2>2, <3>1 DEF ConvertibleBefore, ClassesBefore
      <4>2. classes'[c].flat <=> Item.types \subseteq {"str"}
        BY <2>1, <3>1
      <4> QED
        BY <2>4, <3>1, <4>1, <4>2
    <3>2. CASE c # Item.name
      <4>1. classes'[c] = classes[c] /\ c \in DOMAIN classes
        BY <2>1, <3>2
      <4>2. c \in ConvertibleBefore(body, at + 1) <=> c \in ConvertibleBefore(body, at)
        BY <2>4, <3>2
      <4> QED
        BY <1>2, <4>1, <4>2
    <3> QED
      BY <3>1, <3>2
  <2>6. handle_node' = IF IsHandle(body, at) THEN at ELSE handle_node
    BY <1>1, <2>1 DEF IsHandle
  <2>7. init_stmts' = IF Item.kind = "stmt" THEN Append(init_stmts, Item.do) ELSE init_stmts
    BY <1>1, <1>2, <2>1
  <2>8. Walk'
    BY <1>2, <1>5, <2>1, <2>3, <2>5, <2>6, <2>7, WalkOn
  <2> QED
    BY <1>1, <2>1, <2>8 DEF Walks
<1> QED
  BY <1>4, <1>5

\* What the compiler knows of the classes does not change at an item of another kind.
LEMMA ClassesKept ==
    ASSUME body \in Programs, Walk, at \in DOMAIN body, Item.kind # "class", UNCHANGED classes
    PROVE  /\ DOMAIN classes' = ClassesBefore(body, at + 1)
           /\ \A c \in DOMAIN classes' : classes'[c].flat <=> c \in ConvertibleBefore(body, at + 1)
<1>1. body[at].kind # "class" /\ at \in Nat /\ at >= 1
  BY WalkFacts
<1>2. ClassesBefore(body, at + 1) = ClassesBefore(body, at)
      /\ ConvertibleBefore(body, at + 1) = ConvertibleBefore(body, at)
  <2>1. /\ ClassesBefore(body, at + 1) = ClassesBefore(body, at) \cup {}
        /\ ConvertibleBefore(body, at + 1) = ConvertibleBefore(body, at) \cup {}
    BY <1>1, NextClasses
  <2>2. \A S : S \cup {} = S
    OBVIOUS
  <2> QED
    BY <2>1, <2>2, Zenon
<1>3. /\ DOMAIN classes = ClassesBefore(body, at)
      /\ \A c \in DOMAIN classes : classes[c].flat <=> c \in ConvertibleBefore(body, at)
  BY WalkFacts
<1> QED
  BY <1>2, <1>3, Zenon

\* An import: a known function or signature.
LEMMA ImportWalks ==
    ASSUME body \in Programs, Walk, visit_ImportFrom
    PROVE  Walks
<1>1. stage = "compile" /\ at \in DOMAIN body /\ body[at].kind = "import" /\ Item.kind = "import"
  BY DEF visit_ImportFrom, Item
<1>2. at \in 1 .. Len(body) /\ at \in Nat /\ at >= 1 /\ Item = body[at] /\ functions = FunctionsBefore(body, at)
  BY <1>1, WalkFacts
<1>3. (Item.name \in C_SIGNATURES \cup functions) <=> ItemOk(body, at)
  BY <1>1, <1>2 DEF ItemOk
<1>4. CASE ~ ItemOk(body, at)
  BY <1>2, <1>3, <1>4, StopsAt DEF visit_ImportFrom, fail, Walks, compiler
<1>5. CASE ItemOk(body, at)
  <2>1. /\ functions' = functions \cup {Item.name} /\ at' = at + 1
        /\ UNCHANGED <<body, classes, handle_node, init_stmts, stage>>
    BY <1>3, <1>5 DEF visit_ImportFrom, process
  <2>2. Item.name # "handle"
    BY <1>2, <1>3, <1>5, HandleIsApart
  <2>3. functions' = FunctionsBefore(body, at + 1)
    BY <1>1, <1>2, <2>1, <2>2, NextClasses
  <2>4. handle_node' = IF IsHandle(body, at) THEN at ELSE handle_node
    BY <1>1, <2>1 DEF IsHandle
  <2>5. init_stmts' = IF Item.kind = "stmt" THEN Append(init_stmts, Item.do) ELSE init_stmts
    BY <1>1, <2>1
  <2>6. Walk'
    BY <1>1, <1>2, <1>5, <2>1, <2>3, <2>4, <2>5, ClassesKept, WalkOn
  <2> QED
    BY <1>1, <2>1, <2>6 DEF Walks
<1> QED
  BY <1>4, <1>5

\* A helper: known types, a new name, a body that is resolved.
LEMMA FunctionWalks ==
    ASSUME body \in Programs, Walk, visit_FunctionDef
    PROVE  Walks
<1>1. /\ stage = "compile" /\ at \in DOMAIN body /\ body[at].kind = "def" /\ Item.kind = "def"
      /\ Item.name # "handle"
  BY DEF visit_FunctionDef, Item
<1>2. /\ at \in 1 .. Len(body) /\ at \in Nat /\ at >= 1 /\ Item = body[at]
      /\ functions = FunctionsBefore(body, at) /\ DOMAIN classes = ClassesBefore(body, at)
      /\ Item.ops \in Seq(Operation)
  BY <1>1, WalkFacts
<1>3. Resolved(Item.ops, functions \cup {Item.name}) <=>
          BodyOk(Item.ops, DOMAIN classes, functions \cup {Item.name})
  BY <1>2, ResolvedIsBodyOk
<1>4. (/\ Typed(Item) /\ Item.name \notin functions
       /\ Resolved(Item.ops, functions \cup {Item.name})) <=> ItemOk(body, at)
  BY <1>1, <1>2, <1>3 DEF ItemOk, Typed
<1>5. CASE ~ ItemOk(body, at)
  BY <1>2, <1>4, <1>5, StopsAt DEF visit_FunctionDef, fail, Walks, compiler
<1>6. CASE ItemOk(body, at)
  <2>1. /\ functions' = functions \cup {Item.name} /\ at' = at + 1
        /\ UNCHANGED <<body, classes, handle_node, init_stmts, stage>>
    BY <1>4, <1>6 DEF visit_FunctionDef, process
  <2>2. functions' = FunctionsBefore(body, at + 1)
    BY <1>1, <1>2, <2>1, NextClasses
  <2>3. handle_node' = IF IsHandle(body, at) THEN at ELSE handle_node
    BY <1>1, <1>2, <2>1 DEF IsHandle
  <2>4. init_stmts' = IF Item.kind = "stmt" THEN Append(init_stmts, Item.do) ELSE init_stmts
    BY <1>1, <2>1
  <2>5. Walk'
    BY <1>1, <1>2, <1>6, <2>1, <2>2, <2>3, <2>4, ClassesKept, WalkOn
  <2> QED
    BY <1>1, <2>1, <2>5 DEF Walks
<1> QED
  BY <1>5, <1>6

\* handle() and the statements are kept for later, the main block is skipped.
LEMMA KeptForLater ==
    ASSUME body \in Programs, Walk, defer_handle \/ collect_init \/ skip_main_block
    PROVE  Walks
<1>1. /\ stage = "compile" /\ at \in DOMAIN body /\ at' = at + 1
      /\ Item.kind \in {"def", "stmt", "main"} /\ (Item.kind = "def" => Item.name = "handle")
      /\ UNCHANGED <<body, classes, functions, stage>>
      /\ handle_node' = IF Item.kind = "def" THEN at ELSE handle_node
      /\ init_stmts' = IF Item.kind = "stmt" THEN Append(init_stmts, Item.do) ELSE init_stmts
  BY DEF defer_handle, collect_init, skip_main_block, process
<1>2. at \in 1 .. Len(body) /\ at \in Nat /\ at >= 1 /\ Item = body[at] /\ functions = FunctionsBefore(body, at)
  BY <1>1, WalkFacts
<1>3. ItemOk(body, at)
  BY <1>1, <1>2 DEF ItemOk
<1>4. functions' = FunctionsBefore(body, at + 1)
  <2>1. FunctionsBefore(body, at + 1) = FunctionsBefore(body, at) \cup {}
    BY <1>1, <1>2, NextClasses
  <2>2. functions \cup {} = functions
    OBVIOUS
  <2> QED
    BY <1>1, <1>2, <2>1, <2>2, Zenon
<1>5. handle_node' = IF IsHandle(body, at) THEN at ELSE handle_node
  BY <1>1, <1>2 DEF IsHandle
<1>6. Item.kind # "class"
  BY <1>1
<1>7. Walk'
  BY <1>1, <1>2, <1>3, <1>4, <1>5, <1>6, ClassesKept, WalkOn
<1> QED
  BY <1>1, <1>7 DEF Walks

\* A block is never compiled.
LEMMA BlockStops ==
    ASSUME body \in Programs, Walk, visit_block
    PROVE  Walks
<1>1. at \in DOMAIN body /\ Item.kind = "block" /\ fail
  BY DEF visit_block
<1>2. at \in 1 .. Len(body) /\ ~ ItemOk(body, at)
  BY <1>1, WalkFacts DEF ItemOk
<1> QED
  BY <1>1, <1>2, StopsAt DEF fail, Walks, compiler

\* The last handle() is the one the compiler has kept.
LEMMA HandleKept ==
    ASSUME NEW p, Len(p) \in Nat, NEW h, LastHandle(p, Len(p) + 1, h)
    PROVE  HandleOk(p) <=> /\ h # 0 /\ p[h].types \subseteq Convertible(p)
                           /\ BodyOk(p[h].ops, AllClasses(p), AllFunctions(p) \cup {"handle"})
<1>1. (Len(p) + 1) - 1 = Len(p)
  OBVIOUS
<1>2. CASE h = 0 /\ \A j \in 1 .. (Len(p) + 1) - 1 : ~ IsHandle(p, j)
  BY <1>1, <1>2, Zenon DEF HandleOk
<1>3. CASE /\ h \in 1 .. (Len(p) + 1) - 1 /\ IsHandle(p, h)
           /\ \A j \in h + 1 .. (Len(p) + 1) - 1 : ~ IsHandle(p, j)
  <2>1. h \in 1 .. Len(p) /\ h # 0 /\ IsHandle(p, h) /\ \A j \in h + 1 .. Len(p) : ~ IsHandle(p, j)
    BY <1>1, <1>3
  <2>2. ASSUME NEW k \in 1 .. Len(p), IsHandle(p, k), \A j \in k + 1 .. Len(p) : ~ IsHandle(p, j)
        PROVE  k = h
    <3>1. ~ (h \in k + 1 .. Len(p)) /\ ~ (k \in h + 1 .. Len(p))
      BY <2>1, <2>2, Zenon
    <3> QED
      BY <2>1, <3>1
  <2> QED
    BY <2>1, <2>2, Zenon DEF HandleOk
<1> QED
  BY <1>2, <1>3, Zenon DEF LastHandle

\* At the end of the module: handle(), the statements and the reserved names.
LEMMA SynthesisWalks ==
    ASSUME body \in Programs, Walk, synthesize_lambda_entry
    PROVE  Walks
<1> DEFINE h == handle_node
           fs == functions \cup {"handle"}
           n == Len(body)
<1>1. at = n + 1 /\ n \in Nat /\ DOMAIN body = 1 .. n
  BY ProgramFacts DEF synthesize_lambda_entry
<1>2. /\ DOMAIN classes = AllClasses(body) /\ functions = AllFunctions(body)
      /\ LastHandle(body, n + 1, h)
      /\ init_stmts \in Seq(Operation) /\ \E pos : StatementsAt(body, n + 1, init_stmts, pos)
      /\ \A k \in 1 .. at - 1 : ItemOk(body, k)
  BY <1>1 DEF Walk, AllClasses, AllFunctions
<1>3. \A k \in 1 .. n : ItemOk(body, k)
  BY <1>1, <1>2
<1>4. ConvertibleBefore(body, n + 1) = Convertible(body)
  BY <1>1 DEF ConvertibleBefore, Convertible
<1>5. \A c \in DOMAIN classes : classes[c].flat <=> c \in Convertible(body)
  BY <1>1, <1>4 DEF Walk
<1>6. Convertible(body) \subseteq DOMAIN classes
  BY <1>2, <1>1 DEF Convertible, AllClasses, ClassesBefore
<1>7. Resolved(init_stmts, fs) <=> StatementsOk(body)
  <2>1. PICK pos : StatementsAt(body, n + 1, init_stmts, pos)
    BY <1>2
  <2>2. Resolved(init_stmts, fs) <=> BodyOk(init_stmts, DOMAIN classes, fs)
    BY <1>2, ResolvedIsBodyOk
  <2>3. BodyOk(init_stmts, AllClasses(body), AllFunctions(body) \cup {"handle"}) <=> StatementsOk(body)
    BY <1>1, <1>2, <2>1, StatementsResolved, Zenon
  <2> QED
    BY <1>2, <2>2, <2>3, Zenon
<1>8. (/\ h # 0 /\ Typed(body[h]) /\ (\A c \in body[h].types : classes[c].flat)
       /\ Resolved(body[h].ops, fs)) <=> HandleOk(body)
  <2>1. HandleOk(body) <=> /\ h # 0 /\ body[h].types \subseteq Convertible(body)
                           /\ BodyOk(body[h].ops, AllClasses(body), AllFunctions(body) \cup {"handle"})
    BY <1>1, <1>2, HandleKept, Zenon
  <2>2. (Typed(body[h]) /\ \A c \in body[h].types : classes[c].flat) <=> body[h].types \subseteq Convertible(body)
    BY <1>5, <1>6, Zenon DEF Typed
  <2>3. ASSUME h # 0 PROVE Resolved(body[h].ops, fs) <=> BodyOk(body[h].ops, DOMAIN classes, fs)
    <3>1. h \in 1 .. (n + 1) - 1 /\ body[h].kind = "def"
      BY <1>2, <2>3, Zenon DEF LastHandle, IsHandle
    <3>2. h \in 1 .. n
      BY <1>1, <3>1
    <3>3. body[h].ops \in Seq(Operation)
      BY <3>1, <3>2, ProgramFacts
    <3> QED
      BY <3>3, ResolvedIsBodyOk
  <2> QED
    BY <1>2, <2>1, <2>2, <2>3, Zenon
<1>9. (/\ h # 0 /\ Typed(body[h]) /\ (\A c \in body[h].types : classes[c].flat)
       /\ Resolved(body[h].ops, fs) /\ Resolved(init_stmts, fs)
       /\ functions \cap OwnFunctions = {}) <=> Resolvable(body)
  BY <1>2, <1>3, <1>7, <1>8, Zenon DEF Resolvable
<1>10. CASE Resolvable(body)
  <2>1. body' = body /\ stage' = "init"
    BY <1>9, <1>10 DEF synthesize_lambda_entry
  <2> QED
    BY <1>10, <2>1 DEF Walks
<1>11. CASE ~ Resolvable(body)
  <2>1. fail
    BY <1>9, <1>11 DEF synthesize_lambda_entry
  <2> QED
    BY <1>11, <2>1 DEF Walks, fail, compiler
<1> QED
  BY <1>10, <1>11

\* Before the first item the compiler knows builtins.pie.
LEMMA InitWalk == Init => CompilerInv
<1> SUFFICES ASSUME Init PROVE CompilerInv
  OBVIOUS
<1>1. body \in Programs /\ stage = "compile" /\ at = 1
  BY DEF Init
<1>2. 1 .. 1 - 1 = {}
  OBVIOUS
<1>3. at \in 1 .. Len(body) + 1
  BY <1>1, ProgramFacts
<1>4. DOMAIN classes = ClassesBefore(body, at) /\ functions = FunctionsBefore(body, at)
  BY <1>1, <1>2 DEF Init, ClassesBefore, FunctionsBefore
<1>5. \A c \in DOMAIN classes : classes[c].flat <=> c \in ConvertibleBefore(body, at)
  BY <1>1, <1>2 DEF Init, ConvertibleBefore
<1>6. LastHandle(body, at, handle_node)
  BY <1>1, <1>2 DEF Init, LastHandle
<1>7. init_stmts \in Seq(Operation) /\ StatementsAt(body, at, init_stmts, <<>>)
  <2>1. init_stmts = <<>> /\ Len(init_stmts) = 0 /\ 1 .. 0 = {} /\ 1 .. at - 1 = {}
    BY <1>1 DEF Init
  <2>2. <<>> \in [1 .. Len(init_stmts) -> 1 .. at - 1]
    BY <2>1
  <2>3. init_stmts \in Seq(Operation)
    BY <2>1, EmptySeq
  <2> QED
    BY <2>1, <2>2, <2>3, Zenon DEF StatementsAt
<1>8. \A k \in 1 .. at - 1 : ItemOk(body, k)
  BY <1>1, <1>2
<1>9. Walk
  BY <1>3, <1>4, <1>5, <1>6, <1>7, <1>8, Zenon DEF Walk
<1> QED
  BY <1>1, <1>9 DEF CompilerInv

\* A program compiles exactly if it is resolvable: the one pass of visit_Module with what
\* _synthesize_lambda_entry does at its end (compiler.py) accepts the programs Resolvable
\* describes by their text alone, and no other, whatever their length.
THEOREM CompilerAcceptsResolvable == Spec => []CompilesIffResolvable
<1>1. ASSUME CompilerInv, [Next]_vars PROVE CompilerInv'
  <2>1. CASE CompileStep
    <3>1. stage = "compile" /\ Walk /\ body \in Programs
      BY <1>1, <2>1 DEF CompilerInv, CompileStep, visit_ClassDef, visit_ImportFrom, visit_FunctionDef,
         defer_handle, collect_init, skip_main_block, visit_block, synthesize_lambda_entry
    <3>2. Walks
      BY <2>1, <3>1, ClassWalks, ImportWalks, FunctionWalks, KeptForLater, BlockStops, SynthesisWalks
         DEF CompileStep
    <3> QED
      BY <3>1, <3>2 DEF Walks, CompilerInv
  <2>2. CASE RunStep
    <3>1. body' = body /\ stage \notin {"compile", "error"} /\ stage' \notin {"compile", "error"}
      BY <2>2 DEF RunStep, run_alloc, run_call, run_read, run_decl, run_store, Bind, run_use, run_skip, run_return,
         init_done, handle_event, handle_done, die, compiler, InstrLeft, Executing
    <3> QED
      BY <1>1, <3>1 DEF CompilerInv
  <2>3. CASE UNCHANGED vars
    <3>1. UNCHANGED <<body, at, classes, functions, handle_node, init_stmts, stage>>
      BY <2>3 DEF vars, compiler, process
    <3>2. Walk' <=> Walk
      BY <3>1 DEF Walk
    <3> QED
      BY <1>1, <3>1, <3>2 DEF CompilerInv
  <2> QED
    BY <1>1, <2>1, <2>2, <2>3 DEF Next
<1>2. CompilerInv => CompilesIffResolvable
  BY DEF CompilerInv, CompilesIffResolvable
<1> QED
  BY <1>1, <1>2, InitWalk, PTL DEF Spec

-----------------------------------------------------------------------------
(* The request arena: what an invocation may take from it.                    *)

News(ops) == {k \in DOMAIN ops : ops[k].op = "new"}
Looped(ops) == \E k \in News(ops) : ops[k].cond = "loop"

\* The objects the operations before n make, each once.
Made(ops, n) == Cardinality({k \in News(ops) : k < n})

HandleOps == body[handle_node].ops

\* Only handle() and lambpie_handle allocate in the request arena, and only
\* lambpie_handle calls handle().
ArenasFixed ==
    /\ stage = "compile" =>
           /\ current_arena = ARENA_STATIC
           /\ \A k \in DOMAIN init_stmts : init_stmts[k].op = "call" => init_stmts[k].of # "handle"
    /\ \A f \in DOMAIN code \ {"handle", "lambpie_handle"} : \A k \in DOMAIN code[f] :
           code[f][k].op = "alloc" => code[f][k].tag = ARENA_STATIC
    /\ \A f \in DOMAIN code \ {"lambpie_handle"} : \A k \in DOMAIN code[f] :
           code[f][k].op = "call" => code[f][k].of # "handle"
    /\ stage \notin {"compile", "error"} =>
           handle_node # 0 /\ code["handle"] = Emit(HandleOps, ARENA_REQ)

\* So lambpie_init takes nothing from it, and between two events it is empty.
EmptyBetween ==
    /\ stage \in {"compile", "init", "idle"} => used[ARENA_REQ] = 0
    /\ stage = "init" => \A i \in DOMAIN stack : stack[i].fn \notin {"handle", "lambpie_handle"}

\* What may be in it with the frames s: the event, and an object for every operation
\* handle() is past.
Budget(s) ==
    IF Len(s) > 1 THEN 1 + Made(HandleOps, s[2].pc)
    ELSE IF s[1].pc = 1 THEN 0
    ELSE IF s[1].pc = 2 THEN 1
    ELSE 1 + Cardinality(News(HandleOps))

\* lambpie_handle is the first frame of an invocation, handle() the second.
FramesInPlace(s) ==
    /\ \A i \in DOMAIN s : /\ s[i].fn = "lambpie_handle" <=> i = 1
                           /\ s[i].fn = "handle" <=> i = 2
    /\ Len(s) > 1 => s[1].pc = 3

Accounted ==
    stage = "handle" =>
        /\ FramesInPlace(stack)
        /\ ~ Looped(HandleOps) => used[ARENA_REQ] <= Budget(stack)

Recycling == ArenasFixed /\ EmptyBetween /\ Accounted /\ RequestMemoryRecycled

\* Every operation that makes an object counts once.
LEMMA MadeFacts ==
    ASSUME NEW ops \in Seq(Operation)
    PROVE  /\ Cardinality(News(ops)) \in Nat
           /\ \A n \in Nat : Made(ops, n) \in Nat /\ Made(ops, n) <= Cardinality(News(ops))
           /\ \A n, m \in Nat : n <= m => Made(ops, n) <= Made(ops, m)
           /\ Made(ops, 1) = 0
           /\ \A n \in News(ops) : /\ Made(ops, n + 1) = Made(ops, n) + 1
                                   /\ Made(ops, n) + 1 <= Cardinality(News(ops))
<1> DEFINE N == News(ops)
           B(n) == {k \in N : k < n}
<1>1. DOMAIN ops = 1 .. Len(ops) /\ Len(ops) \in Nat
  BY LenProperties
<1>2. IsFiniteSet(1 .. Len(ops))
  BY <1>1, FS_Interval
<1>3. IsFiniteSet(N) /\ N \subseteq Nat \ {0}
  <2>1. N \subseteq 1 .. Len(ops)
    BY <1>1 DEF News
  <2> HIDE DEF N
  <2>2. IsFiniteSet(N)
    BY <1>2, <2>1, FS_Subset
  <2> QED
    BY <1>1, <2>1, <2>2
<1> HIDE DEF N
<1>4. Cardinality(N) \in Nat
  BY <1>3, FS_CardinalityType
<1>5. \A n : IsFiniteSet(B(n)) /\ Cardinality(B(n)) \in Nat /\ Cardinality(B(n)) <= Cardinality(N)
  <2> SUFFICES ASSUME NEW n PROVE IsFiniteSet(B(n)) /\ Cardinality(B(n)) \in Nat /\ Cardinality(B(n)) <= Cardinality(N)
    OBVIOUS
  <2>1. B(n) \in SUBSET N
    OBVIOUS
  <2> HIDE DEF B
  <2> QED
    BY <1>3, <2>1, FS_Subset, FS_CardinalityType
<1>6. ASSUME NEW n \in Nat, NEW m \in Nat, n <= m PROVE Cardinality(B(n)) <= Cardinality(B(m))
  <2>1. ASSUME NEW k \in N, k < n PROVE k < m
    <3>1. k \in Nat
      BY <1>3
    <3> QED
      BY <1>6, <2>1, <3>1
  <2>2. B(n) \in SUBSET B(m)
    BY <2>1, Zenon
  <2> HIDE DEF B
  <2> QED
    BY <1>5, <2>2, FS_Subset
<1>7. Cardinality(B(1)) = 0
  <2>0. \A k \in N : ~ (k < 1)
    <3>1. \A k \in Nat \ {0} : ~ (k < 1)
      OBVIOUS
    <3> QED
      BY <1>3, <3>1, Zenon
  <2>1. B(1) = {}
    BY <2>0, Zenon
  <2> QED
    BY <2>1, FS_EmptySet
<1>8. ASSUME NEW n \in N PROVE Cardinality(B(n + 1)) = Cardinality(B(n)) + 1
  <2>0. \A k \in N : (k < n + 1 <=> k < n \/ k = n) /\ ~ (n < n)
    <3>1. n \in Nat
      BY <1>3
    <3>2. \A k \in Nat : (k < n + 1 <=> k < n \/ k = n) /\ ~ (n < n)
      BY <3>1
    <3> QED
      BY <1>3, <3>2
  <2>1. B(n + 1) = B(n) \cup {n} /\ n \notin B(n)
    BY <2>0
  <2> HIDE DEF B
  <2> QED
    BY <1>5, <2>1, FS_AddElement
<1>9. \A n \in N : n + 1 \in Nat
  BY <1>3
<1>10. \A n : Made(ops, n) = Cardinality(B(n))
  BY DEF Made, N
<1> HIDE DEF B
<1>11. \A n \in N : Cardinality(B(n)) + 1 <= Cardinality(N)
  BY <1>5, <1>8, <1>9
<1> QED
  BY <1>4, <1>5, <1>6, <1>7, <1>8, <1>10, <1>11 DEF N

\* handle() as the compiler has kept it.
LEMMA HandleFacts ==
    ASSUME IInv, Recycling, stage \notin {"compile", "error"}
    PROVE  /\ handle_node \in DOMAIN body /\ body[handle_node].kind = "def"
           /\ body[handle_node].name = "handle" /\ HandleOps \in Seq(Operation)
           /\ "handle" \in DOMAIN code /\ code["handle"] = Emit(HandleOps, ARENA_REQ)
           /\ DOMAIN code["handle"] = DOMAIN HandleOps
<1>1. handle_node \in Defs(body) /\ body[handle_node].name = "handle" /\ body \in Programs
  BY DEF Recycling, ArenasFixed, IInv, CodeInv, CodeType
<1>2. handle_node \in DOMAIN body /\ body[handle_node].kind = "def"
  BY <1>1 DEF Defs
<1>3. HandleOps \in Seq(Operation)
  BY <1>1, <1>2, ItemFacts DEF HandleOps
<1>4. code["handle"] = Emit(HandleOps, ARENA_REQ)
  BY DEF Recycling, ArenasFixed
<1>5. "handle" \in DOMAIN code
  BY DEF IInv, CodeInv, EntryPoints, CodeType
<1>6. DOMAIN code["handle"] = DOMAIN HandleOps
  BY <1>3, <1>4, EmitType DEF Tags
<1> QED
  BY <1>1, <1>2, <1>3, <1>4, <1>5, <1>6

\* Initially there is no code and nothing is allocated.
LEMMA InitRecycling == Init => Recycling
<1> SUFFICES ASSUME Init PROVE Recycling
  OBVIOUS
<1> USE DEF Init
<1>1. DOMAIN init_stmts = {} /\ \A f \in DOMAIN code : DOMAIN code[f] = {}
  BY EmptySeq, LenProperties
<1>2. ArenasFixed
  BY <1>1 DEF ArenasFixed
<1>3. EmptyBetween
  BY DEF EmptyBetween, Tags
<1> QED
  BY <1>2, <1>3 DEF Recycling, Accounted, RequestMemoryRecycled

\* No code calls handle() as long as it is not compiled.
LEMMA NoCallYet ==
    ASSUME IInv, stage = "compile", NEW f \in DOMAIN code, NEW k \in DOMAIN code[f],
           code[f][k].op = "call"
    PROVE  code[f][k].of # "handle"
  BY DEF IInv, CodeInv, NamesResolved, EntryPoints

\* An item compiled or kept: what it allocates, it allocates in the static arena.
LEMMA ItemRecycles ==
    ASSUME IInv, IInv', Recycling, stage = "compile", UNCHANGED <<current_arena, process>>,
           \A f \in DOMAIN code' :
               \/ f \in DOMAIN code /\ code'[f] = code[f]
               \/ \A k \in DOMAIN code'[f] : code'[f][k].op = "alloc" => code'[f][k].tag = ARENA_STATIC,
           \A k \in DOMAIN init_stmts' : init_stmts'[k].op = "call" => init_stmts'[k].of # "handle"
    PROVE  Recycling'
<1>1. stage' = "compile" /\ used' = used
  BY DEF process
<1>2. \A f \in DOMAIN code' : \A k \in DOMAIN code'[f] :
          code'[f][k].op = "call" => code'[f][k].of # "handle"
  BY <1>1 DEF IInv, CodeInv, NamesResolved, EntryPoints
<1>3. \A f \in DOMAIN code' \ {"handle", "lambpie_handle"} : \A k \in DOMAIN code'[f] :
          code'[f][k].op = "alloc" => code'[f][k].tag = ARENA_STATIC
  BY DEF Recycling, ArenasFixed
<1>4. ArenasFixed'
  BY <1>1, <1>2, <1>3 DEF Recycling, ArenasFixed
<1>5. EmptyBetween'
  BY <1>1 DEF Recycling, EmptyBetween
<1>6. Accounted' /\ RequestMemoryRecycled'
  BY <1>1 DEF Accounted, RequestMemoryRecycled
<1> QED
  BY <1>4, <1>5, <1>6 DEF Recycling

\* An error ends it.
LEMMA FailRecycles ==
    ASSUME Recycling, fail
    PROVE  Recycling'
<1>1. stage' = "error" /\ UNCHANGED <<compiler, used>>
  BY DEF fail
<1>2. ArenasFixed'
  BY <1>1 DEF Recycling, ArenasFixed, compiler
<1> QED
  BY <1>1, <1>2 DEF Recycling, EmptyBetween, Accounted, RequestMemoryRecycled

\* The items are compiled with the static arena in force.
LEMMA ItemsRecycle ==
    ASSUME HandleIsNotCalled, IInv, IInv', Recycling,
           visit_ClassDef \/ visit_ImportFrom \/ visit_FunctionDef \/ defer_handle \/ collect_init
           \/ skip_main_block \/ visit_block
    PROVE  Recycling'
<1>0. /\ stage = "compile" /\ at \in DOMAIN body /\ Item = body[at] /\ body \in Programs
      /\ current_arena = ARENA_STATIC
  BY DEF visit_ClassDef, visit_ImportFrom, visit_FunctionDef, defer_handle, collect_init,
         skip_main_block, visit_block, Item, IInv, CodeInv, CodeType, Recycling, ArenasFixed
<1>1. CASE fail
  BY <1>1, FailRecycles
<1>2. CASE ~ fail
  <2>1. UNCHANGED <<current_arena, process>>
    BY <1>2 DEF visit_ClassDef, visit_ImportFrom, visit_FunctionDef, defer_handle, collect_init,
           skip_main_block, visit_block
  <2>2. \A k \in DOMAIN init_stmts' : init_stmts'[k].op = "call" => init_stmts'[k].of # "handle"
    <3>0. \A k \in DOMAIN init_stmts : init_stmts[k].op = "call" => init_stmts[k].of # "handle"
      BY <1>0 DEF Recycling, ArenasFixed
    <3>1. CASE collect_init
      <4>1. Item.kind = "stmt" /\ init_stmts' = Append(init_stmts, Item.do)
        BY <3>1 DEF collect_init
      <4>2. Item.do \in Operation /\ (Item.do.op = "call" => Item.do.of # "handle")
        BY <1>0, <4>1, ItemFacts DEF HandleIsNotCalled
      <4>3. init_stmts \in Seq(Operation)
        BY DEF IInv, CodeInv, CodeType
      <4>4. /\ \A k \in 1 .. Len(init_stmts) : init_stmts'[k] = init_stmts[k]
            /\ DOMAIN init_stmts = 1 .. Len(init_stmts) /\ Len(init_stmts) \in Nat
            /\ DOMAIN init_stmts' = 1 .. Len(init_stmts) + 1
            /\ init_stmts'[Len(init_stmts) + 1] = Item.do
        BY <4>1, <4>2, <4>3, AppendProperties, LenProperties
      <4>5. \A k \in DOMAIN init_stmts' : k \in DOMAIN init_stmts \/ k = Len(init_stmts) + 1
        BY <4>4
      <4> QED
        BY <3>0, <4>2, <4>4, <4>5
    <3>2. CASE ~ collect_init
      <4>1. init_stmts' = init_stmts
        BY <1>2, <3>2 DEF visit_ClassDef, visit_ImportFrom, visit_FunctionDef, defer_handle,
               skip_main_block, visit_block
      <4> QED
        BY <3>0, <4>1
    <3> QED
      BY <3>1, <3>2
  <2>3. ASSUME NEW f \in DOMAIN code'
        PROVE  \/ f \in DOMAIN code /\ code'[f] = code[f]
               \/ \A k \in DOMAIN code'[f] : code'[f][k].op = "alloc" => code'[f][k].tag = ARENA_STATIC
    <3>1. CASE visit_FunctionDef
      <4> DEFINE instrs == Emit(Item.ops, ARENA_STATIC)
      <4>1. Item.kind = "def" /\ code' = Define(Item.name, instrs)
        BY <1>0, <1>2, <3>1 DEF visit_FunctionDef, FunctionArena
      <4>2. Item.ops \in Seq(Operation)
        BY <1>0, <4>1, ItemFacts
      <4>3. \A k \in DOMAIN instrs : instrs[k].tag = ARENA_STATIC
        BY DEF Emit
      <4> HIDE DEF instrs
      <4> QED
        BY <4>1, <4>3 DEF Define
    <3>2. CASE visit_ImportFrom
      <4>1. code' = code \/ code' = Define(Item.name, <<>>)
        BY <1>2, <3>2 DEF visit_ImportFrom
      <4>2. DOMAIN <<>> = {}
        BY EmptySeq, LenProperties
      <4> QED
        BY <4>1, <4>2 DEF Define
    <3>3. CASE ~ visit_FunctionDef /\ ~ visit_ImportFrom
      <4>1. code' = code
        BY <1>2, <3>3 DEF visit_ClassDef, defer_handle, collect_init, skip_main_block, visit_block
      <4> QED
        BY <4>1
    <3> QED
      BY <3>1, <3>2, <3>3
  <2> QED
    BY <1>0, <2>1, <2>2, <2>3, ItemRecycles
<1> QED
  BY <1>1, <1>2

\* handle() is compiled for the request arena, lambpie_init for the static one.
LEMMA SynthesisRecycles ==
    ASSUME HandleIsNotCalled, IInv, Recycling, synthesize_lambda_entry
    PROVE  Recycling'
<1>0. stage = "compile" /\ body \in Programs
  BY DEF synthesize_lambda_entry, IInv, CodeInv, CodeType
<1>1. CASE fail
  BY <1>1, FailRecycles
<1>2. CASE ~ fail
  <2> DEFINE hops == body[handle_node].ops
             hcode == Emit(hops, ARENA_REQ)
             icode == Emit(init_stmts, ARENA_STATIC)
  <2>1. /\ handle_node # 0
        /\ Resolved(hops, functions \cup {"handle"})
        /\ Resolved(init_stmts, functions \cup {"handle"})
        /\ stage' = "init" /\ stack' = <<Frame("lambpie_init", NoRef)>>
        /\ UNCHANGED <<body, handle_node, used>>
    BY <1>2 DEF synthesize_lambda_entry
  <2>2. code' = [f \in DOMAIN code \cup {"handle", "lambpie_init", "lambpie_handle"} |->
                    CASE f = "handle" -> hcode
                      [] f = "lambpie_init" -> icode
                      [] f = "lambpie_handle" -> EntryCode
                      [] OTHER -> code[f]]
    BY <1>2 DEF synthesize_lambda_entry, FunctionArena
  <2>3. /\ DOMAIN code' = DOMAIN code \cup {"handle", "lambpie_init", "lambpie_handle"}
        /\ code'["handle"] = hcode /\ code'["lambpie_init"] = icode
        /\ \A f \in DOMAIN code :
               f \notin {"handle", "lambpie_init", "lambpie_handle"} => code'[f] = code[f]
    <3> HIDE DEF hcode, icode
    <3> QED
      BY <2>2
  <2>4. handle_node \in Defs(body) /\ body[handle_node].name = "handle"
    BY <2>1 DEF IInv, CodeInv, CodeType
  <2>5. hops \in Seq(Operation) /\ init_stmts \in Seq(Operation)
    BY <1>0, <2>4, ItemFacts DEF Defs, IInv, CodeInv, CodeType
  <2>6. ARENA_REQ \in Tags /\ ARENA_STATIC \in Tags
    BY DEF Tags
  <2>7. "handle" \notin Calls(hops)
    BY <1>0, <2>4 DEF HandleIsNotCalled, Defs
  <2>8. \A k \in DOMAIN hcode : hcode[k].op = "call" => hcode[k].of # "handle"
    <3>1. \A k \in DOMAIN hcode : hcode[k].op = "call" => hops[k].op = "call" /\ hcode[k].of = hops[k].of
      BY <2>1, <2>5, <2>6, EmitResolved
    <3>2. DOMAIN hcode = DOMAIN hops
      BY <2>5, <2>6, EmitType
    <3> HIDE DEF hcode, hops
    <3> QED
      BY <2>7, <3>1, <3>2 DEF Calls
  <2>9. \A k \in DOMAIN icode : /\ icode[k].op = "call" => icode[k].of # "handle"
                                /\ icode[k].tag = ARENA_STATIC
    <3>1. \A k \in DOMAIN icode : icode[k].op = "call" => init_stmts[k].op = "call" /\ icode[k].of = init_stmts[k].of
      BY <2>1, <2>5, <2>6, EmitResolved
    <3>2. DOMAIN icode = DOMAIN init_stmts
      BY <2>5, <2>6, EmitType
    <3>3. \A k \in DOMAIN init_stmts : init_stmts[k].op = "call" => init_stmts[k].of # "handle"
      BY <1>0 DEF Recycling, ArenasFixed
    <3>4. \A k \in DOMAIN icode : icode[k].tag = ARENA_STATIC
      BY DEF Emit
    <3> HIDE DEF icode
    <3> QED
      BY <3>1, <3>2, <3>3, <3>4
  <2> HIDE DEF hcode, icode
  <2>10. \A f \in DOMAIN code' \ {"handle", "lambpie_handle"} : \A k \in DOMAIN code'[f] :
            code'[f][k].op = "alloc" => code'[f][k].tag = ARENA_STATIC
    <3> SUFFICES ASSUME NEW f \in DOMAIN code' \ {"handle", "lambpie_handle"}, NEW k \in DOMAIN code'[f],
                        code'[f][k].op = "alloc"
                 PROVE  code'[f][k].tag = ARENA_STATIC
      OBVIOUS
    <3>1. CASE f = "lambpie_init"
      BY <2>3, <2>9, <3>1
    <3>2. CASE f # "lambpie_init"
      <4>1. f \in DOMAIN code \ {"handle", "lambpie_handle"} /\ code'[f] = code[f]
        BY <2>3, <3>2
      <4> QED
        BY <4>1 DEF Recycling, ArenasFixed
    <3> QED
      BY <3>1, <3>2
  <2>11. \A f \in DOMAIN code' \ {"lambpie_handle"} : \A k \in DOMAIN code'[f] :
            code'[f][k].op = "call" => code'[f][k].of # "handle"
    <3> SUFFICES ASSUME NEW f \in DOMAIN code' \ {"lambpie_handle"}, NEW k \in DOMAIN code'[f],
                        code'[f][k].op = "call"
                 PROVE  code'[f][k].of # "handle"
      OBVIOUS
    <3>1. CASE f = "lambpie_init"
      BY <2>3, <2>9, <3>1
    <3>2. CASE f = "handle"
      BY <2>3, <2>8, <3>2
    <3>3. CASE f \notin {"lambpie_init", "handle"}
      <4>1. f \in DOMAIN code /\ code'[f] = code[f]
        BY <2>3, <3>3
      <4> QED
        BY <1>0, <4>1, NoCallYet
    <3> QED
      BY <3>1, <3>2, <3>3
  <2>12. handle_node' # 0 /\ code'["handle"] = Emit(HandleOps', ARENA_REQ)
    BY <2>1, <2>3 DEF HandleOps, hcode
  <2>13. ArenasFixed'
    BY <2>1, <2>10, <2>11, <2>12 DEF ArenasFixed
  <2>14. EmptyBetween'
    <3>1. used'[ARENA_REQ] = 0
      BY <1>0, <2>1 DEF Recycling, EmptyBetween
    <3>2. DOMAIN stack' = {1} /\ stack'[1].fn = "lambpie_init"
      BY <2>1 DEF Frame
    <3> QED
      BY <3>1, <3>2 DEF EmptyBetween
  <2> QED
    BY <2>1, <2>13, <2>14 DEF Recycling, Accounted, RequestMemoryRecycled
<1> QED
  BY <1>1, <1>2

\* A sequence over S is one over every larger set.
LEMMA SeqGrows ==
    ASSUME NEW S, NEW T, NEW q \in Seq(S)
    PROVE  q \in Seq(S \cup T)
<1>1. DOMAIN q = 1 .. Len(q) /\ Len(q) \in Nat /\ \A i \in 1 .. Len(q) : q[i] \in S
  BY LenProperties, ElementOfSeq
<1>2. q \in [1 .. Len(q) -> S \cup T]
  BY <1>1, LenProperties
<1> QED
  BY <1>1, <1>2, SeqDef

\* lambpie_handle has no branch.
LEMMA EntryOnce ==
    \A k \in DOMAIN EntryCode : EntryCode[k].cond = "once"
<1>1. DOMAIN EntryCode = 1 .. 3
  BY EntryCodeFacts
<1>2. EntryCode[1].cond = "once" /\ EntryCode[2].cond = "once" /\ EntryCode[3].cond = "once"
  BY DEF EntryCode
<1> QED
  BY <1>1, <1>2

\* An invocation with one frame is in lambpie_handle, with two in handle(), and with more
\* in a function that allocates nothing.
LEMMA WhereItRuns ==
    ASSUME IInv, Recycling, InstrLeft, stage = "handle"
    PROVE  /\ Len(stack) = 1 => /\ Top.pc \in 1 .. 3 /\ Instr = EntryCode[Top.pc]
                                /\ Top = stack[1] /\ Top.fn = "lambpie_handle"
           /\ Len(stack) = 2 => /\ Top.pc \in DOMAIN HandleOps /\ Top = stack[2] /\ Top.fn = "handle"
                                /\ Instr.op = "alloc" => HandleOps[Top.pc].op = "new"
                                /\ Instr.cond = HandleOps[Top.pc].cond
           /\ Len(stack) > 2 => Instr.op # "alloc" /\ Top.fn \notin {"handle", "lambpie_handle"}
<1>1. /\ Executing /\ Len(stack) \in DOMAIN stack /\ DOMAIN stack = 1 .. Len(stack) /\ Len(stack) \in Nat
      /\ GoodFrame(Top, used[ARENA_REQ]) /\ Top.pc \in DOMAIN code[Top.fn]
      /\ Instr = code[Top.fn][Top.pc] /\ Instr \in Instruction
  BY TopFacts
<1>2. Top = stack[Len(stack)] /\ FramesInPlace(stack)
  BY DEF Top, Recycling, Accounted
<1>3. (Top.fn = "lambpie_handle" <=> Len(stack) = 1) /\ (Top.fn = "handle" <=> Len(stack) = 2)
  BY <1>1, <1>2 DEF FramesInPlace
<1>0. /\ Len(stack) = 1 => Len(stack) # 2 /\ ~ (Len(stack) > 2)
      /\ Len(stack) = 2 => Len(stack) # 1 /\ ~ (Len(stack) > 2)
      /\ Len(stack) > 2 => Len(stack) # 1 /\ Len(stack) # 2
  <2>1. \A m \in Nat : /\ m = 1 => m # 2 /\ ~ (m > 2)
                       /\ m = 2 => m # 1 /\ ~ (m > 2)
                       /\ m > 2 => m # 1 /\ m # 2
    OBVIOUS
  <2> QED
    BY <1>1, <2>1, Zenon
<1>4. CASE Len(stack) = 1
  <2>1. code["lambpie_handle"] = EntryCode
    BY DEF IInv, CodeInv, EntryPoints
  <2> QED
    BY <1>0, <1>1, <1>2, <1>3, <1>4, <2>1, EntryCodeFacts
<1>5. CASE Len(stack) = 2
  <2>1. /\ HandleOps \in Seq(Operation) /\ code["handle"] = Emit(HandleOps, ARENA_REQ)
        /\ DOMAIN code["handle"] = DOMAIN HandleOps
    BY HandleFacts
  <2>2. \A k \in DOMAIN HandleOps :
            /\ Emit(HandleOps, ARENA_REQ)[k].op = IF HandleOps[k].op = "new" THEN "alloc" ELSE HandleOps[k].op
            /\ Emit(HandleOps, ARENA_REQ)[k].cond = HandleOps[k].cond
    BY DEF Emit
  <2>3. \A k \in DOMAIN HandleOps : HandleOps[k].op # "alloc"
    <3>1. \A k \in DOMAIN HandleOps : HandleOps[k] \in Operation
      BY <2>1, ElementOfSeq, LenProperties
    <3> QED
      BY <3>1 DEF Operation
  <2>4. Top.pc \in DOMAIN HandleOps /\ Instr = Emit(HandleOps, ARENA_REQ)[Top.pc]
    BY <1>1, <1>3, <1>5, <2>1
  <2>5. /\ Instr.op = "alloc" => HandleOps[Top.pc].op = "new"
        /\ Instr.cond = HandleOps[Top.pc].cond
    BY <2>2, <2>3, <2>4
  <2> QED
    BY <1>0, <1>2, <1>3, <1>5, <2>4, <2>5, Zenon
<1>6. CASE Len(stack) > 2
  <2>1. Top.fn \notin {"handle", "lambpie_handle"}
    BY <1>0, <1>3, <1>6, Zenon
  <2>2. Top.fn \in functions \cap Reached(body)
    BY <1>1, <2>1 DEF GoodFrame
  <2>3. Instr.op # "alloc"
    BY <1>1, <2>1, <2>2 DEF IInv, CodeInv, ReachedCode
  <2> QED
    BY <1>0, <1>6, <2>1, <2>3, Zenon
<1>7. Len(stack) = 1 \/ Len(stack) = 2 \/ Len(stack) > 2
  BY <1>1
<1> QED
  BY <1>1, <1>4, <1>5, <1>6, <1>7

\* The frames after the top one has moved on, and what may be in the arena then.
LEMMA TopAccounted ==
    ASSUME IInv, Recycling, InstrLeft, stage = "handle", Len(stack) = 1 => Instr.op # "call",
           NEW fr, fr.fn = Top.fn, fr.pc = Top.pc + 1 \/ (fr.pc = Top.pc /\ Instr.cond = "loop"),
           NEW s, s = [stack EXCEPT ![Len(stack)] = fr],
           NEW u \in Nat, u = used[ARENA_REQ] \/ (Instr.op = "alloc" /\ u = used[ARENA_REQ] + 1)
    PROVE  FramesInPlace(s) /\ (~ Looped(HandleOps) => u <= Budget(s))
<1> DEFINE n == Len(stack)
           v == used[ARENA_REQ]
<1>1. /\ Executing /\ stack \in Seq(Frames) /\ stack # <<>> /\ n \in DOMAIN stack /\ n \in Nat
      /\ DOMAIN stack = 1 .. n /\ Top.pc \in Nat \ {0} /\ Instr \in Instruction
  BY TopFacts
<1>2. /\ Len(s) = n /\ DOMAIN s = 1 .. n /\ s[n] = fr
      /\ \A i \in 1 .. n : i # n => s[i] = stack[i]
  <2>1. stack \in Seq(Frames \cup {fr}) /\ fr \in Frames \cup {fr}
    BY <1>1, SeqGrows, Zenon
  <2>2. n \in 1 .. Len(stack) 
    BY <1>1
  <2>3. s \in Seq(Frames \cup {fr}) /\ Len(s) = n
    BY <2>1, <2>2, ExceptSeq
  <2>4. DOMAIN s = 1 .. n
    BY <1>1
  <2> QED
    BY <1>1, <2>3, <2>4
<1>3. /\ \A i \in 1 .. n : /\ stack[i].fn = "lambpie_handle" <=> i = 1
                           /\ stack[i].fn = "handle" <=> i = 2
      /\ n > 1 => stack[1].pc = 3
      /\ ~ Looped(HandleOps) => v <= Budget(stack)
  BY <1>1 DEF Recycling, Accounted, FramesInPlace
<1>4. v \in Nat
  BY <1>1, MemoryFacts
<1>5. FramesInPlace(s)
  <2>1. \A i \in 1 .. n : s[i].fn = stack[i].fn
    BY <1>2 DEF Top
  <2>2. n > 1 => 1 \in 1 .. n /\ 1 # n
    BY <1>1
  <2>3. n > 1 => s[1].pc = 3
    BY <1>2, <1>3, <2>2
  <2> HIDE DEF n
  <2> QED
    BY <1>2, <1>3, <2>1, <2>3 DEF FramesInPlace
<1>6. ASSUME ~ Looped(HandleOps) PROVE u <= Budget(s)
  <2> DEFINE N == Cardinality(News(HandleOps))
  <2>0. HandleOps \in Seq(Operation)
    BY HandleFacts
  <2>1. /\ N \in Nat
        /\ \A m \in Nat : Made(HandleOps, m) \in Nat /\ Made(HandleOps, m) <= N
        /\ \A m, k \in Nat : m <= k => Made(HandleOps, m) <= Made(HandleOps, k)
        /\ \A m \in News(HandleOps) : Made(HandleOps, m + 1) = Made(HandleOps, m) + 1
    BY <2>0, MadeFacts
  <2>2. v <= Budget(stack)
    BY <1>3, <1>6
  <2>3. CASE n = 1
    <3>1. Top.pc \in 1 .. 3 /\ Instr = EntryCode[Top.pc] /\ Top = stack[1]
      BY <2>3, WhereItRuns
    <3>2. Top.pc = 1 \/ Top.pc = 3
      BY <2>3, <3>1, EntryCodeFacts
    <3>3. s[1] = fr
      BY <1>2, <2>3
    <3>4. fr.pc = Top.pc + 1
      <4>1. Instr.cond = "once"
        BY <3>1, EntryOnce, EntryCodeFacts
      <4> QED
        BY <4>1
    <3> DEFINE len == Len(s)
    <3>7. len = 1 /\ Len(stack) = len /\ ~ (1 > 1)
      BY <1>2, <2>3
    <3>8. ~ (Len(stack) > 1) /\ ~ (Len(s) > 1)
      BY <3>7, Zenon
    <3>9. 1 + 1 = 2 /\ 3 + 1 = 4 /\ 4 # 1 /\ 4 # 2 /\ 2 # 1 /\ 3 # 1 /\ 3 # 2
      OBVIOUS
    <3>5. CASE Top.pc = 1
      <4>1. Budget(stack) = 0 /\ Budget(s) = 1
        BY <3>1, <3>3, <3>4, <3>5, <3>8, <3>9, Zenon DEF Budget
      <4> QED
        BY <1>4, <2>2, <4>1
    <3>6. CASE Top.pc = 3
      <4>1. Budget(stack) = Budget(s)
        BY <3>1, <3>3, <3>4, <3>6, <3>8, <3>9, Zenon DEF Budget
      <4>2. Instr.op # "alloc"
        BY <3>1, <3>6, EntryCodeFacts
      <4> QED
        BY <2>2, <4>1, <4>2
    <3> QED
      BY <3>2, <3>5, <3>6
  <2>4. CASE n = 2
    <3>1. /\ Top.pc \in DOMAIN HandleOps /\ Top = stack[2]
          /\ Instr.op = "alloc" => HandleOps[Top.pc].op = "new"
          /\ Instr.cond = HandleOps[Top.pc].cond
      BY <2>4, WhereItRuns
    <3>2. Budget(stack) = 1 + Made(HandleOps, Top.pc) /\ Budget(s) = 1 + Made(HandleOps, fr.pc)
      <4>0. 2 > 1
        OBVIOUS
      <4>1. s[2] = fr /\ Len(s) > 1 /\ Len(stack) > 1
        BY <1>2, <2>4, <4>0, Zenon
      <4> QED
        BY <3>1, <4>1 DEF Budget
    <3>3. fr.pc \in Nat /\ Top.pc \in Nat /\ Top.pc <= fr.pc
      BY <1>1
    <3>4. Made(HandleOps, Top.pc) <= Made(HandleOps, fr.pc)
      BY <2>1, <3>3
    <3>5. Made(HandleOps, Top.pc) \in Nat /\ Made(HandleOps, fr.pc) \in Nat
      BY <2>1, <3>3
    <3>6. CASE u = v
      BY <1>4, <2>2, <3>2, <3>4, <3>5, <3>6
    <3>7. CASE Instr.op = "alloc" /\ u = v + 1
      <4>1. Top.pc \in News(HandleOps)
        BY <3>1, <3>7 DEF News
      <4>2. Instr.cond # "loop"
        BY <1>6, <3>1, <4>1 DEF Looped
      <4>3. Made(HandleOps, fr.pc) = Made(HandleOps, Top.pc) + 1
        BY <2>1, <4>1, <4>2
      <4> QED
        BY <1>4, <2>2, <3>2, <3>5, <3>7, <4>3
    <3> QED
      BY <3>6, <3>7
  <2>5. CASE n > 2
    <3>1. u = v
      BY <2>5, WhereItRuns
    <3>2. 2 \in 1 .. n /\ 2 # n /\ n > 1
      BY <1>1, <2>5
    <3>3. s[2] = stack[2] /\ Len(s) > 1
      BY <1>2, <3>2
    <3>4. Budget(s) = Budget(stack)
      BY <3>2, <3>3 DEF Budget
    <3> QED
      BY <2>2, <3>1, <3>4
  <2>6. n = 1 \/ n = 2 \/ n > 2
    BY <1>1
  <2> QED
    BY <2>3, <2>4, <2>5, <2>6
<1> QED
  BY <1>5, <1>6

\* A step of the running code keeps the invariant if it keeps what it is about.
LEMMA RunRecycles ==
    ASSUME Recycling, Executing, UNCHANGED <<compiler, stage>>,
           stage = "init" => /\ used'[ARENA_REQ] = 0
                             /\ \A i \in DOMAIN stack' : stack'[i].fn \notin {"handle", "lambpie_handle"},
           stage = "handle" => /\ FramesInPlace(stack')
                               /\ ~ Looped(HandleOps) => used'[ARENA_REQ] <= Budget(stack')
    PROVE  Recycling'
<1>1. stage \in {"init", "handle"} /\ stage' = stage
  BY DEF Executing
<1>2. ArenasFixed'
  BY <1>1 DEF Recycling, ArenasFixed, HandleOps, compiler
<1>3. EmptyBetween'
  BY <1>1 DEF EmptyBetween
<1>4. HandleOps' = HandleOps
  BY DEF HandleOps, compiler
<1>5. Budget(stack)' = Budget(stack') /\ FramesInPlace(stack)' = FramesInPlace(stack')
  BY <1>4 DEF Budget, FramesInPlace, HandleOps, compiler
<1>6. Accounted'
  BY <1>1, <1>4, <1>5 DEF Accounted
<1> QED
  BY <1>1, <1>2, <1>3, <1>6 DEF Recycling, RequestMemoryRecycled

\* The top frame moves on, with at most one object more.
LEMMA TopRecycles ==
    ASSUME IInv, Recycling, InstrLeft, UNCHANGED <<compiler, stage>>,
           stage = "handle" /\ Len(stack) = 1 => Instr.op # "call",
           NEW fr, fr.fn = Top.fn, fr.pc = Top.pc + 1 \/ (fr.pc = Top.pc /\ Instr.cond = "loop"),
           stack' = [stack EXCEPT ![Len(stack)] = fr], used'[ARENA_REQ] \in Nat,
           \/ used'[ARENA_REQ] = used[ARENA_REQ]
           \/ Instr.op = "alloc" /\ Instr.tag = ARENA_REQ /\ used'[ARENA_REQ] = used[ARENA_REQ] + 1
    PROVE  Recycling'
<1>1. /\ Executing /\ stack \in Seq(Frames) /\ stack # <<>> /\ Len(stack) \in DOMAIN stack
      /\ DOMAIN stack = 1 .. Len(stack) /\ GoodFrame(Top, used[ARENA_REQ])
      /\ Top.pc \in DOMAIN code[Top.fn] /\ Instr = code[Top.fn][Top.pc]
  BY TopFacts
<1>2. ASSUME stage = "init"
      PROVE  /\ used'[ARENA_REQ] = 0
             /\ \A i \in DOMAIN stack' : stack'[i].fn \notin {"handle", "lambpie_handle"}
  <2>1. /\ used[ARENA_REQ] = 0
        /\ \A i \in DOMAIN stack : stack[i].fn \notin {"handle", "lambpie_handle"}
    BY <1>2 DEF Recycling, EmptyBetween
  <2>2. Top.fn \notin {"handle", "lambpie_handle"} /\ Top.fn \in DOMAIN code
    BY <1>1, <2>1 DEF Top, GoodFrame
  <2>3. Instr.op = "alloc" => Instr.tag # ARENA_REQ
    BY <1>1, <2>2 DEF Recycling, ArenasFixed, ARENA_STATIC, ARENA_REQ
  <2>4. used'[ARENA_REQ] = 0
    BY <2>1, <2>3
  <2>5. DOMAIN stack' = DOMAIN stack /\ \A i \in DOMAIN stack : stack'[i] = IF i = Len(stack) THEN fr ELSE stack[i]
    BY <1>1
  <2> QED
    BY <2>1, <2>2, <2>4, <2>5
<1>3. ASSUME stage = "handle"
      PROVE  FramesInPlace(stack') /\ (~ Looped(HandleOps) => used'[ARENA_REQ] <= Budget(stack'))
  BY <1>3, TopAccounted, Zenon
<1> QED
  BY <1>1, <1>2, <1>3, RunRecycles

\* Only in a loop an instruction is executed again.
LEMMA NextPcIs ==
    ASSUME NEW next \in NextPc
    PROVE  next = Top.pc + 1 \/ (next = Top.pc /\ Instr.cond = "loop")
  BY DEF NextPc

\* With one frame the call of handle() is neither skipped nor taken for another step.
LEMMA EntryIsStraight ==
    ASSUME IInv, Recycling, InstrLeft, stage = "handle", Len(stack) = 1
    PROVE  Instr.cond = "once" /\ (Instr.op = "call" => Top.pc = 2 /\ Instr.of = "handle")
<1>1. Top.pc \in 1 .. 3 /\ Instr = EntryCode[Top.pc]
  BY WhereItRuns
<1>2. Instr.cond = "once"
  BY <1>1, EntryOnce, EntryCodeFacts
<1>3. Instr.op = "call" => Top.pc = 2 /\ Instr.of = "handle"
  BY <1>1, EntryCodeFacts
<1> QED
  BY <1>2, <1>3

\* Through a wild reference the process may end.
LEMMA CrashRecycles ==
    ASSUME IInv, Recycling, InstrLeft, die("crash")
    PROVE  Recycling'
<1>1. /\ UNCHANGED <<compiler, used>> /\ stage' = "crash"
      /\ stage \notin {"compile", "error"}
  BY DEF die, InstrLeft, Executing
<1>2. ArenasFixed'
  BY <1>1 DEF Recycling, ArenasFixed, HandleOps, compiler
<1>3. EmptyBetween' /\ Accounted' /\ RequestMemoryRecycled'
  BY <1>1 DEF EmptyBetween, Accounted, RequestMemoryRecycled
<1> QED
  BY <1>2, <1>3 DEF Recycling

\* The steps that move the top frame on.
LEMMA MoveRecycles ==
    ASSUME IInv, IInv', Recycling,
           (run_read /\ ~ die("crash")) \/ run_use \/ run_decl \/ run_store \/ run_skip
    PROVE  Recycling'
<1>1. InstrLeft /\ UNCHANGED <<compiler, stage, used>>
  BY DEF run_read, run_use, run_decl, run_store, Bind, run_skip
<1>2. Top \in Frames /\ Executing
  BY <1>1, TopFacts
<1>3. used'[ARENA_REQ] \in Nat /\ used'[ARENA_REQ] = used[ARENA_REQ]
  BY <1>1, <1>2, MemoryFacts
<1>4. stage = "handle" /\ Len(stack) = 1 => Instr.op # "call"
  <2>1. Instr.op = "call" => Instr.cond # "once"
    BY DEF run_read, run_use, run_decl, run_store, run_skip
  <2> QED
    BY <1>1, <2>1, EntryIsStraight
<1>5. ASSUME NEW r, Advance(r) PROVE Recycling'
  <2>1. PICK next \in NextPc :
            stack' = [stack EXCEPT ![Len(stack)] = [@ EXCEPT !.pc = next, !.last = r]]
    BY <1>5 DEF Advance
  <2> DEFINE fr == [Top EXCEPT !.pc = next, !.last = r]
  <2>2. stack' = [stack EXCEPT ![Len(stack)] = fr]
    BY <2>1 DEF Top
  <2>3. fr.fn = Top.fn /\ fr.pc = next
    BY <1>2 DEF Frames
  <2> HIDE DEF fr
  <2>4. fr.pc = Top.pc + 1 \/ (fr.pc = Top.pc /\ Instr.cond = "loop")
    BY <2>3, NextPcIs
  <2> QED
    BY <1>1, <1>3, <1>4, <2>2, <2>3, <2>4, TopRecycles
<1>6. CASE run_read /\ ~ die("crash")
  BY <1>5, <1>6 DEF run_read
<1>7. CASE run_use
  BY <1>5, <1>7 DEF run_use
<1>8. ASSUME NEW b, Bind(b) PROVE Recycling'
  <2> DEFINE l == [x \in DOMAIN Top.locals \cup {Instr.of} |->
                      IF x = Instr.of THEN b ELSE Top.locals[x]]
             fr == [Top EXCEPT !.pc = Top.pc + 1, !.locals = l]
  <2>1. stack' = [stack EXCEPT ![Len(stack)] = fr]
    BY <1>8 DEF Bind, Top
  <2> HIDE DEF l
  <2>2. fr.fn = Top.fn /\ fr.pc = Top.pc + 1
    BY <1>2 DEF Frames
  <2> HIDE DEF fr
  <2> QED
    BY <1>1, <1>3, <1>4, <2>1, <2>2, TopRecycles
<1>9. CASE run_skip
  <2> DEFINE fr == [Top EXCEPT !.pc = Top.pc + 1]
  <2>1. stack' = [stack EXCEPT ![Len(stack)] = fr]
    BY <1>9 DEF run_skip, Top
  <2>2. fr.fn = Top.fn /\ fr.pc = Top.pc + 1
    BY <1>2 DEF Frames
  <2> HIDE DEF fr
  <2> QED
    BY <1>1, <1>3, <1>4, <2>1, <2>2, TopRecycles
<1> QED
  BY <1>6, <1>7, <1>8, <1>9 DEF run_decl, run_store

\* An invocation that finds the arena full is one that handle() can fill alone.
LEMMA FullByHandleAlone ==
    ASSUME IInv, Recycling, InstrLeft, stage = "handle", Instr.op = "alloc",
           used[ARENA_REQ] = Slots[ARENA_REQ], ~ Looped(HandleOps)
    PROVE  Cardinality(News(HandleOps)) + 1 > Slots[ARENA_REQ]
<1> DEFINE N == Cardinality(News(HandleOps))
<1>0. HandleOps \in Seq(Operation)
  BY HandleFacts
<1>1. /\ N \in Nat /\ \A m \in News(HandleOps) : Made(HandleOps, m) + 1 <= N
      /\ \A n \in Nat : Made(HandleOps, n) \in Nat
  BY <1>0, MadeFacts
<1>2. used[ARENA_REQ] \in Nat /\ used[ARENA_REQ] <= Budget(stack)
  BY MemoryFacts DEF Recycling, Accounted, InstrLeft
<1>3. Len(stack) \in Nat /\ Len(stack) \in DOMAIN stack /\ DOMAIN stack = 1 .. Len(stack) /\ Top.pc \in Nat
  BY TopFacts
<1>4. ~ (Len(stack) > 2)
  BY WhereItRuns
<1>5. CASE Len(stack) = 1
  <2>1. Top = stack[1] /\ Top.pc \in 1 .. 3 /\ Instr = EntryCode[Top.pc]
    BY <1>5, WhereItRuns
  <2>2. Top.pc = 1
    BY <2>1, EntryCodeFacts
  <2>3. ~ (Len(stack) > 1)
    BY <1>3, <1>5
  <2>4. Budget(stack) = 0
    BY <2>1, <2>2, <2>3, Zenon DEF Budget
  <2> QED
    BY <1>1, <1>2, <2>4
<1>6. CASE Len(stack) = 2
  <2>1. Top = stack[2] /\ Top.pc \in News(HandleOps)
    BY <1>6, WhereItRuns DEF News
  <2>2. Len(stack) > 1
    BY <1>3, <1>6
  <2>3. Budget(stack) = 1 + Made(HandleOps, Top.pc)
    BY <2>1, <2>2, Zenon DEF Budget
  <2>4. Made(HandleOps, Top.pc) + 1 <= N /\ Made(HandleOps, Top.pc) \in Nat
    BY <1>1, <1>3, <2>1
  <2> HIDE DEF N
  <2>5. N + 1 > Slots[ARENA_REQ]
    BY <1>1, <1>2, <2>3, <2>4
  <2> QED
    BY <2>5 DEF N
<1>7. Len(stack) = 1 \/ Len(stack) = 2
  BY <1>3, <1>4
<1> QED
  BY <1>5, <1>6, <1>7

\* A constructor: one object more, or the end of the process.
LEMMA AllocRecycles ==
    ASSUME IInv, IInv', Recycling, run_alloc
    PROVE  Recycling'
<1> DEFINE t == Instr.tag
           r == [tag |-> t, slot |-> used[t] + 1, epoch |-> IF t = ARENA_REQ THEN epoch ELSE 0]
<1>1. /\ InstrLeft /\ Instr.op = "alloc" /\ Executing /\ Instr \in Instruction
      /\ t \in Tags /\ ARENA_REQ \in Tags /\ Top \in Frames
  BY TopFacts DEF run_alloc, Instruction, Tags
<1>2. CASE stage' = stage
  <2>1. /\ used' = [used EXCEPT ![t] = @ + 1] /\ Advance(r) /\ UNCHANGED <<compiler, stage>>
    BY <1>1, <1>2 DEF run_alloc, die, Executing
  <2> HIDE DEF r
  <2>2. PICK next \in NextPc :
            stack' = [stack EXCEPT ![Len(stack)] = [@ EXCEPT !.pc = next, !.last = r]]
    BY <2>1 DEF Advance
  <2> DEFINE fr == [Top EXCEPT !.pc = next, !.last = r]
  <2>3. stack' = [stack EXCEPT ![Len(stack)] = fr]
    BY <2>2 DEF Top
  <2>4. fr.fn = Top.fn /\ fr.pc = next
    BY <1>1 DEF Frames
  <2> HIDE DEF fr
  <2>5. fr.pc = Top.pc + 1 \/ (fr.pc = Top.pc /\ Instr.cond = "loop")
    BY <2>4, NextPcIs
  <2>6. used \in [Tags -> Nat] /\ used[ARENA_REQ] \in Nat
    BY <1>1, MemoryFacts
  <2>7. /\ used'[ARENA_REQ] \in Nat
        /\ used'[ARENA_REQ] = used[ARENA_REQ]
           \/ (Instr.tag = ARENA_REQ /\ used'[ARENA_REQ] = used[ARENA_REQ] + 1)
    BY <1>1, <2>1, <2>6
  <2> QED
    BY <1>1, <2>1, <2>3, <2>4, <2>5, <2>7, TopRecycles
<1>3. CASE stage' # stage
  <2>1. /\ UNCHANGED <<compiler, used, frozen>> /\ stage' \in {"exhausted", "sigsegv"}
        /\ stage' = "exhausted" => used[t] = Slots[t]
    BY <1>1, <1>3 DEF run_alloc, die
  <2>2. ArenasFixed'
    BY <1>1, <2>1 DEF Recycling, ArenasFixed, HandleOps, compiler, Executing
  <2>3. EmptyBetween' /\ Accounted'
    BY <2>1 DEF EmptyBetween, Accounted
  <2>4. RequestMemoryRecycled'
    <3> SUFFICES ASSUME stage' = "exhausted", frozen
                 PROVE  \/ \E k \in News(HandleOps) : HandleOps[k].cond = "loop"
                        \/ Cardinality(News(HandleOps)) + 1 > Slots[ARENA_REQ]
      BY <2>1 DEF RequestMemoryRecycled, News, HandleOps, compiler
    <3>1. stage = "handle"
      BY <1>1, MemoryFacts DEF Executing
    <3>2. t = ARENA_REQ
      BY <1>1, <3>1, HandleAllocates
    <3>3. CASE Looped(HandleOps)
      BY <3>3 DEF Looped
    <3>4. CASE ~ Looped(HandleOps)
      BY <1>1, <2>1, <3>1, <3>2, <3>4, FullByHandleAlone
    <3> QED
      BY <3>3, <3>4
  <2> QED
    BY <2>2, <2>3, <2>4 DEF Recycling
<1> QED
  BY <1>2, <1>3

\* A call: of handle() by lambpie_handle, of any other function by the others.
LEMMA CallRecycles ==
    ASSUME IInv, Recycling, run_call
    PROVE  Recycling'
<1> DEFINE n == Len(stack)
           g == Frame(Instr.of, Top.last)
<1>1. InstrLeft /\ Instr.op = "call" /\ UNCHANGED <<compiler, stage, used>>
  BY DEF run_call
<1>2. /\ Executing /\ stack \in Seq(Frames) /\ stack # <<>> /\ n \in DOMAIN stack /\ n \in Nat
      /\ DOMAIN stack = 1 .. n /\ Top \in Frames /\ GoodFrame(Top, used[ARENA_REQ])
      /\ Top.pc \in DOMAIN code[Top.fn] /\ Top.pc \in Nat \ {0} /\ Instr = code[Top.fn][Top.pc]
  BY <1>1, TopFacts
<1>3. PICK next \in NextPc :
          stack' = Append([stack EXCEPT ![Len(stack)] = [@ EXCEPT !.pc = next]], g)
  BY DEF run_call
<1> DEFINE fr == [Top EXCEPT !.pc = next]
           s == [stack EXCEPT ![Len(stack)] = fr]
<1>4. stack' = Append(s, g)
  BY <1>3 DEF Top
<1>5. fr.fn = Top.fn /\ fr.pc = next
  BY <1>2 DEF Frames
<1>6. fr.pc = Top.pc + 1 \/ (fr.pc = Top.pc /\ Instr.cond = "loop")
  BY <1>5, NextPcIs
<1>7. g.fn = Instr.of /\ g.pc = 1
  BY DEF Frame
<1>8. Instr.of \in functions /\ Instr.of # "lambpie_handle" /\ Top.fn \in DOMAIN code
  BY <1>1, <1>2 DEF GoodFrame, IInv, CodeInv, NamesResolved, EntryPoints, Executing
<1>9. Top.fn # "lambpie_handle" => Instr.of # "handle"
  BY <1>1, <1>2, <1>8 DEF Recycling, ArenasFixed
<1> HIDE DEF fr, g
<1>10. /\ Len(s) = n /\ DOMAIN s = 1 .. n /\ s[n] = fr
       /\ \A i \in 1 .. n : i # n => s[i] = stack[i]
       /\ s \in Seq(Frames \cup {fr})
  <2>1. stack \in Seq(Frames \cup {fr}) /\ fr \in Frames \cup {fr}
    BY <1>2, SeqGrows, Zenon
  <2>2. n \in 1 .. Len(stack)
    BY <1>2
  <2>3. s \in Seq(Frames \cup {fr}) /\ Len(s) = n
    BY <2>1, <2>2, ExceptSeq
  <2>4. DOMAIN s = 1 .. n
    BY <1>2
  <2> QED
    BY <1>2, <2>3, <2>4
<1> HIDE DEF s
<1>11. /\ Len(stack') = n + 1 /\ DOMAIN stack' = 1 .. n + 1 /\ stack'[n + 1] = g
       /\ \A i \in 1 .. n : stack'[i] = s[i]
  <2>1. s \in Seq((Frames \cup {fr}) \cup {g}) /\ g \in (Frames \cup {fr}) \cup {g}
    BY <1>10, SeqGrows, Zenon
  <2>2. stack' \in Seq((Frames \cup {fr}) \cup {g})
    BY <1>4, <2>1, AppendProperties
  <2>3. /\ Len(stack') = Len(s) + 1 /\ stack'[Len(s) + 1] = g
        /\ \A i \in 1 .. Len(s) : stack'[i] = s[i]
    BY <1>4, <2>1, AppendProperties
  <2>4. DOMAIN stack' = 1 .. Len(stack')
    BY <2>2, LenProperties
  <2> HIDE DEF n
  <2> QED
    BY <1>10, <2>3, <2>4
<1>12. \A i \in 1 .. n + 1 : i \in 1 .. n \/ i = n + 1
  BY <1>2
<1>13. ASSUME stage = "init"
       PROVE  /\ used'[ARENA_REQ] = 0
              /\ \A i \in DOMAIN stack' : stack'[i].fn \notin {"handle", "lambpie_handle"}
  <2>1. /\ used[ARENA_REQ] = 0
        /\ \A i \in DOMAIN stack : stack[i].fn \notin {"handle", "lambpie_handle"}
    BY <1>13 DEF Recycling, EmptyBetween
  <2>2. Top.fn \notin {"handle", "lambpie_handle"}
    BY <1>2, <2>1 DEF Top
  <2>3. \A i \in 1 .. n : s[i].fn = stack[i].fn
    BY <1>5, <1>10 DEF Top
  <2>4. g.fn \notin {"handle", "lambpie_handle"}
    BY <1>7, <1>8, <1>9, <2>2
  <2> QED
    BY <1>1, <1>2, <1>11, <1>12, <2>1, <2>3, <2>4
<1>14. ASSUME stage = "handle"
       PROVE  FramesInPlace(stack') /\ (~ Looped(HandleOps) => used'[ARENA_REQ] <= Budget(stack'))
  <2>1. FramesInPlace(stack) /\ (~ Looped(HandleOps) => used[ARENA_REQ] <= Budget(stack))
    BY <1>14 DEF Recycling, Accounted
  <2>2. used[ARENA_REQ] \in Nat
    BY <1>2, MemoryFacts
  <2>3. CASE n = 1
    <3>1. Instr.cond = "once" /\ Top.pc = 2 /\ Instr.of = "handle" /\ Top = stack[1] /\ Top.fn = "lambpie_handle"
      BY <1>1, <1>14, <2>3, EntryIsStraight, WhereItRuns
    <3>2. stack'[1] = fr /\ fr.pc = 3 /\ fr.fn = "lambpie_handle"
      BY <1>5, <1>6, <1>10, <1>11, <2>3, <3>1
    <3>3. Len(stack') = 2 /\ DOMAIN stack' = 1 .. 2 /\ stack'[2] = g
      BY <1>11, <2>3
    <3>4. FramesInPlace(stack')
      <4>1. \A i \in 1 .. 2 : i = 1 \/ i = 2
        OBVIOUS
      <4>2. 1 # 2
        OBVIOUS
      <4> QED
        BY <1>7, <3>1, <3>2, <3>3, <4>1, <4>2 DEF FramesInPlace
    <3>5. Budget(stack) = 1
      <4>1. ~ (Len(stack) > 1) /\ 2 # 1
        BY <1>2, <2>3
      <4> QED
        BY <3>1, <4>1, Zenon DEF Budget
    <3>6. Budget(stack') = 1
      <4>1. Made(HandleOps, 1) = 0
        BY <1>14, HandleFacts, MadeFacts
      <4>2. Len(stack') > 1 /\ 1 + 0 = 1
        BY <3>3
      <4> QED
        BY <1>7, <3>3, <4>1, <4>2, Zenon DEF Budget
    <3> QED
      BY <1>1, <2>1, <3>4, <3>5, <3>6
  <2>4. CASE n > 1
    <3>0. n # 1 /\ 1 \in 1 .. n /\ 2 \in 1 .. n /\ n + 1 # 1 /\ n + 1 # 2 /\ Len(s) > 1 /\ Len(stack') > 1
      <4>1. n \in Nat /\ Len(s) = n /\ Len(stack') = n + 1
        BY <1>2, <1>10, <1>11
      <4> HIDE DEF n
      <4>2. n # 1 /\ 1 \in 1 .. n /\ 2 \in 1 .. n /\ n + 1 # 1 /\ n + 1 # 2 /\ n > 1 /\ n + 1 > 1
        BY <2>4, <4>1
      <4> QED
        BY <4>1, <4>2, Zenon
    <3>1. FramesInPlace(s) /\ (~ Looped(HandleOps) => used[ARENA_REQ] <= Budget(s))
      <4>1. s = [stack EXCEPT ![Len(stack)] = fr]
        BY DEF s
      <4> QED
        BY <1>1, <1>5, <1>6, <1>14, <2>2, <3>0, <4>1, TopAccounted, Zenon
    <3>2. Budget(stack') = Budget(s)
      BY <1>11, <3>0, Zenon DEF Budget
    <3>3. Top.fn # "lambpie_handle"
      BY <1>2, <2>1, <3>0 DEF Top, FramesInPlace
    <3>4. g.fn # "handle" /\ g.fn # "lambpie_handle"
      BY <1>7, <1>8, <1>9, <3>3
    <3>5. \A i \in DOMAIN stack' : /\ stack'[i].fn = "lambpie_handle" <=> i = 1
                                   /\ stack'[i].fn = "handle" <=> i = 2
      <4> SUFFICES ASSUME NEW i \in DOMAIN stack'
                   PROVE  /\ stack'[i].fn = "lambpie_handle" <=> i = 1
                          /\ stack'[i].fn = "handle" <=> i = 2
        OBVIOUS
      <4>1. CASE i \in 1 .. n
        BY <1>10, <1>11, <3>1, <4>1, Zenon DEF FramesInPlace
      <4>2. CASE i = n + 1
        BY <1>11, <3>0, <3>4, <4>2, Zenon
      <4> QED
        BY <1>11, <1>12, <4>1, <4>2, Zenon
    <3>6. stack'[1].pc = 3
      BY <1>11, <3>0, <3>1, Zenon DEF FramesInPlace
    <3>7. FramesInPlace(stack')
      BY <3>5, <3>6, Zenon DEF FramesInPlace
    <3> QED
      BY <1>1, <3>1, <3>2, <3>7
  <2>5. n = 1 \/ n > 1
    BY <1>2
  <2> QED
    BY <2>3, <2>4, <2>5
<1> QED
  BY <1>1, <1>2, <1>13, <1>14, RunRecycles

\* A return: handle() has at most made what its body can make.
LEMMA ReturnRecycles ==
    ASSUME IInv, IInv', Recycling, run_return
    PROVE  Recycling'
<1> DEFINE n == Len(stack) - 1
           s == SubSeq(stack, 1, n)
           fr == [s[n] EXCEPT !.last = Top.last]
<1>1. Executing /\ Len(stack) > 1 /\ UNCHANGED <<compiler, stage, used>>
  BY DEF run_return
<1>2. stack \in Seq(Frames) /\ Len(stack) \in Nat /\ DOMAIN stack = 1 .. Len(stack) /\ n \in 1 .. Len(stack) /\ n \in Nat
  BY <1>1, LenProperties DEF IInv, ProcessInv, ProcessType
<1>3. s \in Seq(Frames) /\ Len(s) = n /\ DOMAIN s = 1 .. n /\ \A i \in 1 .. n : s[i] = stack[i]
  BY <1>2, SubSeqProperties, LenProperties
<1>4. s[n] \in Frames
  <2>1. n \in 1 .. n
    BY <1>2
  <2> HIDE DEF n, s
  <2> QED
    BY <1>3, <2>1, ElementOfSeq
<1>5. fr.fn = s[n].fn /\ fr.pc = s[n].pc
  <2> HIDE DEF s, n
  <2> QED
    BY <1>4 DEF Frames
<1>6. stack' = [s EXCEPT ![n] = fr]
  BY DEF run_return
<1> HIDE DEF fr, s
<1>7. /\ DOMAIN stack' = 1 .. n /\ Len(stack') = n
      /\ \A i \in 1 .. n : stack'[i].fn = stack[i].fn /\ stack'[i].pc = stack[i].pc
  <2>1. DOMAIN stack' = 1 .. n
    BY <1>3, <1>6
  <2>2. stack' \in Seq(Frames)
    BY DEF IInv, ProcessInv, ProcessType
  <2>3. Len(stack') = n
    <3>1. DOMAIN stack' = 1 .. Len(stack') /\ Len(stack') \in Nat
      BY <2>2, LenProperties
    <3>2. \A a, b \in Nat : 1 .. a = 1 .. b => a = b
      <4> SUFFICES ASSUME NEW a \in Nat, NEW b \in Nat, a # b, 1 .. a = 1 .. b PROVE FALSE
        OBVIOUS
      <4>1. a \in 1 .. a \/ a = 0
        OBVIOUS
      <4>2. b \in 1 .. b \/ b = 0
        OBVIOUS
      <4> QED
        BY <4>1, <4>2
    <3> HIDE DEF n
    <3> QED
      BY <1>2, <2>1, <3>1, <3>2, Zenon
  <2>4. ASSUME NEW i \in 1 .. n PROVE stack'[i].fn = stack[i].fn /\ stack'[i].pc = stack[i].pc
    <3>1. stack'[i] = IF i = n THEN fr ELSE s[i]
      BY <1>3, <1>6
    <3>2. s[i] = stack[i]
      BY <1>3
    <3> QED
      BY <1>5, <3>1, <3>2
  <2> QED
    BY <2>1, <2>3, <2>4
<1>8. \A i \in 1 .. n : i \in DOMAIN stack
  BY <1>2
<1>9. ASSUME stage = "init"
      PROVE  /\ used'[ARENA_REQ] = 0
             /\ \A i \in DOMAIN stack' : stack'[i].fn \notin {"handle", "lambpie_handle"}
  BY <1>1, <1>7, <1>8, <1>9 DEF Recycling, EmptyBetween
<1>10. ASSUME stage = "handle"
       PROVE  FramesInPlace(stack') /\ (~ Looped(HandleOps) => used'[ARENA_REQ] <= Budget(stack'))
  <2>1. FramesInPlace(stack) /\ (~ Looped(HandleOps) => used[ARENA_REQ] <= Budget(stack))
    BY <1>10 DEF Recycling, Accounted
  <2>2. stack[1].pc = 3 /\ 1 \in 1 .. n
    BY <1>1, <1>2, <2>1 DEF FramesInPlace
  <2>3. stack'[1].pc = 3
    BY <1>7, <2>2
  <2>4. FramesInPlace(stack')
    <3> HIDE DEF n
    <3> QED
      BY <1>7, <1>8, <2>1, <2>3 DEF FramesInPlace
  <2>5. Budget(stack) = 1 + Made(HandleOps, stack[2].pc)
    BY <1>1, Zenon DEF Budget
  <2>6. used[ARENA_REQ] \in Nat
    BY <1>1, MemoryFacts
  <2>7. CASE n = 1
    <3>1. ~ (Len(stack') > 1) /\ 3 # 1 /\ 3 # 2
      <4>1. ~ (1 > 1) /\ 3 # 1 /\ 3 # 2
        OBVIOUS
      <4>2. Len(stack') = 1
        BY <1>7, <2>7, Zenon
      <4> QED
        BY <4>1, <4>2, Zenon
    <3>2. Budget(stack') = 1 + Cardinality(News(HandleOps))
      BY <2>3, <3>1, Zenon DEF Budget
    <3>3. 2 \in DOMAIN stack
      BY <1>2, <2>7
    <3>4. stack[2].pc \in Nat
      <4>1. stack[2] \in Frames
        BY <1>2, <3>3, ElementOfSeq
      <4> QED
        BY <4>1 DEF Frames
    <3>5. /\ Made(HandleOps, stack[2].pc) <= Cardinality(News(HandleOps))
          /\ Made(HandleOps, stack[2].pc) \in Nat /\ Cardinality(News(HandleOps)) \in Nat
      BY <1>10, <3>4, HandleFacts, MadeFacts
    <3>6. ~ Looped(HandleOps) => used[ARENA_REQ] <= Budget(stack')
      BY <2>1, <2>5, <2>6, <3>2, <3>5
    <3> QED
      BY <1>1, <2>4, <3>6
  <2>8. CASE n > 1
    <3>1. 2 \in 1 .. n /\ Len(stack') > 1
      BY <1>2, <1>7, <2>8
    <3>2. stack'[2].pc = stack[2].pc
      BY <1>7, <3>1
    <3>3. Budget(stack') = Budget(stack)
      BY <2>5, <3>1, <3>2, Zenon DEF Budget
    <3> QED
      BY <1>1, <2>1, <2>4, <3>3
  <2>9. n = 1 \/ n > 1
    BY <1>2, <2>2
  <2> QED
    BY <2>7, <2>8, <2>9
<1> QED
  BY <1>1, <1>9, <1>10, RunRecycles

\* The shim's steps: an invocation begins and ends with an empty request arena.
LEMMA ShimRecycles ==
    ASSUME IInv, Recycling, init_done \/ handle_event \/ handle_done
    PROVE  Recycling'
<1>1. /\ UNCHANGED compiler /\ stage \in {"init", "idle", "handle"} /\ stage' \in {"idle", "handle"}
  BY DEF init_done, handle_event, handle_done
<1>2. ArenasFixed'
  BY <1>1 DEF Recycling, ArenasFixed, HandleOps, compiler
<1>3. used'[ARENA_REQ] = 0
  <2>1. CASE init_done \/ handle_event
    BY <2>1 DEF init_done, handle_event, Recycling, EmptyBetween
  <2>2. CASE handle_done
    <3>1. used \in [Tags -> Nat] /\ ARENA_REQ \in Tags
      BY DEF IInv, ProcessInv, ProcessType, Tags
    <3> QED
      BY <2>2, <3>1 DEF handle_done
  <2> QED
    BY <2>1, <2>2
<1>4. EmptyBetween'
  BY <1>1, <1>3 DEF EmptyBetween
<1>5. Accounted'
  <2> SUFFICES ASSUME stage' = "handle" PROVE FramesInPlace(stack)' /\ (used[ARENA_REQ] <= Budget(stack))'
    BY DEF Accounted
  <2>1. stack' = <<Frame("lambpie_handle", NoRef)>>
    BY DEF init_done, handle_event, handle_done
  <2>2. Len(stack') = 1 /\ DOMAIN stack' = {1} /\ stack'[1].fn = "lambpie_handle" /\ stack'[1].pc = 1
    BY <2>1 DEF Frame
  <2>3. ~ (Len(stack') > 1) /\ 1 # 2
    BY <2>2
  <2>4. FramesInPlace(stack)'
    BY <2>2, <2>3 DEF FramesInPlace
  <2>5. Budget(stack)' = 0
    BY <2>2, <2>3, Zenon DEF Budget
  <2> QED
    BY <1>3, <2>4, <2>5
<1> QED
  BY <1>1, <1>2, <1>4, <1>5 DEF Recycling, RequestMemoryRecycled

\* A stuttering step.
LEMMA UnchangedRecycles ==
    ASSUME Recycling, UNCHANGED vars
    PROVE  Recycling'
<1> USE DEF vars, compiler, process
<1>1. ArenasFixed' /\ EmptyBetween' /\ RequestMemoryRecycled'
  BY DEF Recycling, ArenasFixed, EmptyBetween, RequestMemoryRecycled, HandleOps
<1>2. Accounted'
  BY DEF Recycling, Accounted, FramesInPlace, Budget, HandleOps
<1> QED
  BY <1>1, <1>2 DEF Recycling

\* The shim's arena_reset gives an invocation the whole request arena again: if no helper
\* makes an object and handle() is left to the event loop, an invocation runs out of
\* request memory only if one run of handle() can make more objects than fit beside the
\* event.  An object for every operation of handle() that makes one, however many events
\* came before, whatever it calls and however deep.
THEOREM RequestArenaIsRecycled ==
    ASSUME HelpersDoNotAllocate, HandleIsNotCalled
    PROVE  Spec => []RequestMemoryRecycled
<1>1. ASSUME IInv, IInv', Recycling, [Next]_vars PROVE Recycling'
  <2>1. CASE CompileStep
    BY <1>1, <2>1, ItemsRecycle, SynthesisRecycles DEF CompileStep
  <2>2. CASE RunStep
    <3>1. run_read => InstrLeft
      BY DEF run_read
    <3> QED
      BY <1>1, <2>2, <3>1, CrashRecycles, AllocRecycles, CallRecycles, MoveRecycles, ReturnRecycles,
         ShimRecycles DEF RunStep
  <2>3. CASE UNCHANGED vars
    BY <1>1, <2>3, UnchangedRecycles
  <2> QED
    BY <1>1, <2>1, <2>2, <2>3 DEF Next
<1>2. Recycling => RequestMemoryRecycled
  BY DEF Recycling
<1> QED
  BY <1>1, <1>2, InitRecycling, Invariance, PTL DEF Spec
=============================================================================
