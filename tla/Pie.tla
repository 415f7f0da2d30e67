-------------------------------- MODULE Pie --------------------------------
(***************************************************************************)
(* A .pie program from source to execution: the compiler's walk over the    *)
(* module (compiler.py), which fixes the arena of every allocation at       *)
(* compile time, and the run of the compiled entry points lambpie_init and  *)
(* lambpie_handle under the shim, which freezes and resets the arenas at    *)
(* run time.  The question is whether the two agree.                        *)
(*                                                                         *)
(* A program is a sequence of module-level items: a class with the classes  *)
(* its fields name (and the generated __init__ that stores every field, or  *)
(* an explicit one, which cannot assign attributes and stores nothing), a   *)
(* function with the classes its annotations name, an import from C, a      *)
(* statement, an if __name__ block, or another if or while block.  A method *)
(* is a function item Class_method behind its class.  A body is a sequence  *)
(* of operations: "new" of a class, "call" of a function, "read" of a       *)
(* field, and "decl", "assign" and "use" of a variable (x: A is a "decl",   *)
(* x: A = value a "decl", the value and an "assign"); a "maybe" one is the  *)
(* body of an if, a "loop" one that of a while.  Every object, with the     *)
(* strings it owns, is one arena cell with one field that holds a reference. *)
(***************************************************************************)
EXTENDS Integers, Sequences, FiniteSets

CONSTANTS Programs,        \* programs to compile and run
          Slots,           \* Slots[tag]: objects an arena holds
          MaxInvocations   \* bound: events the process is sent

\* An operation of a body.  A declaration stands in no branch or loop, and no call names
\* what the compiler makes for itself (the allocator; a class's generated ___init__ has a
\* name of its class and its own, and is left out of the inputs as well).
Operation ==
    {o \in [op: {"new", "call", "read", "decl", "assign", "use"},
            of: STRING, cond: {"once", "maybe", "loop"}] :
        /\ o.op = "decl" => o.cond = "once"
        /\ o.op = "call" => o.of # "lambpie_arena_alloc"}

ModuleItem ==
    [kind: {"class"}, name: STRING, explicit: BOOLEAN, types: SUBSET STRING]
    \cup [kind: {"def"}, name: STRING, types: SUBSET STRING, ops: Seq(Operation)]
    \cup [kind: {"import"}, name: STRING]
    \cup [kind: {"stmt"}, do: Operation]
    \cup [kind: {"main", "block"}]

ARENA_STATIC == 0
ARENA_REQ == 1
Tags == {ARENA_STATIC, ARENA_REQ}
C_SIGNATURES == {"printf", "atoi", "strlen", "free"}

\* builtins.pie, which main() puts in front of every program.
BuiltinClasses == {"str", "bytearray"}
BuiltinFunctions == {"malloc", "free", "strlen", "memcpy"}

\* Functions the compiler itself puts into the module: the module refuses another one
\* of such a name.
OwnFunctions == {"lambpie_arena_alloc", "json_get_str", "json_get_int", "json_open",
                 "json_write_str", "json_write_int", "json_close",
                 "lambpie_init", "lambpie_handle"}

ASSUME PieAssumption ==
    /\ Programs \subseteq Seq(ModuleItem)
    /\ Slots \in [Tags -> Nat]
    /\ MaxInvocations \in Nat

NoRef == [tag |-> ARENA_STATIC, slot |-> 0, epoch |-> 0]   \* NULL

\* What an uninitialized variable holds: whatever was on the stack.
Wild == [tag |-> ARENA_REQ, slot |-> 0, epoch |-> 0]

VARIABLES
    \* the compiler
    body,            \* the module's items
    at,              \* next item, 0 when the compilation is over
    classes,         \* class_layouts: name -> has an explicit __init__, has str and int fields only
    functions,       \* functions in global_scope, the imported ones too
    current_arena,
    handle_node, init_stmts,
    code,            \* function -> instructions
    \* the process
    stage,           \* "compile", "error", "init", "idle", "handle", or how it died
    stack,           \* frames [fn, pc, last, locals]; last: the object last made, used or returned
    used,            \* objects allocated in each arena
    frozen,
    mem,             \* mem[tag][slot]: the field of the object there
    epoch,           \* resets of the request arena so far
    loaded           \* the reference the last field read gave

compiler == <<body, at, classes, functions, current_arena, handle_node, init_stmts, code>>
process == <<stage, stack, used, frozen, mem, epoch, loaded>>
vars == <<compiler, process>>

Frame(f, r) == [fn |-> f, pc |-> 1, last |-> r, locals |-> [x \in {} |-> NoRef]]

Cell == 1 .. Slots[ARENA_STATIC] \cup 1 .. Slots[ARENA_REQ]

Init ==
    /\ body \in Programs
    /\ at = 1
    /\ classes = [c \in BuiltinClasses |-> [explicit |-> TRUE, flat |-> FALSE]]
    /\ functions = BuiltinFunctions
    /\ current_arena = ARENA_STATIC
    /\ handle_node = 0
    /\ init_stmts = <<>>
    /\ code = [f \in BuiltinFunctions |-> <<>>]
    /\ stage = "compile"
    /\ stack = <<>>
    /\ used = [t \in Tags |-> 0]
    /\ frozen = FALSE
    /\ mem = [t \in Tags |-> [k \in Cell |-> NoRef]]
    /\ epoch = 0
    /\ loaded = NoRef

-----------------------------------------------------------------------------
(* The compiler: visit_Module and _synthesize_lambda_entry.                  *)

\* local_scope before operation k: the variables declared so far in the body.
Declared(ops, k) == {ops[j].of : j \in {i \in 1 .. k - 1 : ops[i].op = "decl"}}

\* Seeded fault: the variables of module-level statements are seen everywhere.
Resolved_module_scope(ops, fs) ==
    \A k \in DOMAIN ops :
        CASE ops[k].op = "new" -> ops[k].of \in DOMAIN classes
          [] ops[k].op = "call" -> ops[k].of \in fs
          [] ops[k].op \in {"use", "assign"} ->
                 ops[k].of \in Declared(init_stmts \o ops, Len(init_stmts) + k)
          [] OTHER -> TRUE

\* visit_Name and visit_Assign find every name an operation uses: a class, a function,
\* or a variable declared before it in the same body.
Resolved(ops, fs) ==
    \A k \in DOMAIN ops :
        CASE ops[k].op = "new" -> ops[k].of \in DOMAIN classes
          [] ops[k].op = "call" -> ops[k].of \in fs
          [] ops[k].op \in {"use", "assign"} -> ops[k].of \in Declared(ops, k)
          [] OTHER -> TRUE

\* visit_Call, visit_Attribute: an allocation is tagged with the current arena.
Emit(ops, arena) ==
    [k \in DOMAIN ops |->
        [op |-> IF ops[k].op = "new" THEN "alloc" ELSE ops[k].op,
         of |-> ops[k].of, tag |-> arena, cond |-> ops[k].cond]]

\* Seeded fault: the top-level handle() is not told apart from a helper.
FunctionArena_always_current(name) == current_arena

\* visit_FunctionDef switches to the request arena for the top-level handle() only.
FunctionArena(name) == IF name = "handle" THEN ARENA_REQ ELSE current_arena

\* _get_type: the annotations of a function name known classes.  For handle() these
\* are its event and its response class.
Typed(def) == def.types \subseteq DOMAIN classes

Define(f, instrs) == [g \in DOMAIN code \cup {f} |-> IF g = f THEN instrs ELSE code[g]]

fail ==
    /\ stage' = "error"
    /\ UNCHANGED <<compiler, stack, used, frozen, mem, epoch, loaded>>

Item == body[at]

\* A field of a class that is not known yet, its own class too, is a TypeError, and
\* set_body refuses a class that is already defined.
visit_ClassDef ==
    /\ stage = "compile" /\ at \in DOMAIN body /\ Item.kind = "class"
    /\ IF Typed(Item) /\ Item.name \notin DOMAIN classes
       THEN /\ classes' = [c \in DOMAIN classes \cup {Item.name} |->
                              IF c = Item.name
                              THEN [explicit |-> Item.explicit, flat |-> Item.types \subseteq {"str"}]
                              ELSE classes[c]]
            /\ at' = at + 1
            /\ UNCHANGED <<body, functions, current_arena, handle_node, init_stmts, code, process>>
       ELSE fail

\* from C import name: a known function is kept, otherwise the compiler must know the
\* signature.
visit_ImportFrom ==
    /\ stage = "compile" /\ at \in DOMAIN body /\ Item.kind = "import"
    /\ IF Item.name \in C_SIGNATURES \cup functions
       THEN /\ functions' = functions \cup {Item.name}
            /\ code' = IF Item.name \in functions THEN code ELSE Define(Item.name, <<>>)
            /\ at' = at + 1
            /\ UNCHANGED <<body, classes, current_arena, handle_node, init_stmts, process>>
       ELSE fail

\* The block is skipped, whatever stands in it.
skip_main_block ==
    /\ stage = "compile" /\ at \in DOMAIN body /\ Item.kind = "main"
    /\ at' = at + 1
    /\ UNCHANGED <<body, classes, functions, current_arena, handle_node, init_stmts, code, process>>

\* Any other if or while block is visited outside a function: there is no builder, or
\* the one a function has left at a terminated block.
visit_block ==
    /\ stage = "compile" /\ at \in DOMAIN body /\ Item.kind = "block"
    /\ fail

\* Helper functions are compiled where they stand, with the tag in force there.  The
\* module refuses a second function of the same name.
visit_FunctionDef ==
    /\ stage = "compile" /\ at \in DOMAIN body
    /\ Item.kind = "def" /\ Item.name # "handle"
    /\ IF /\ Typed(Item)
          /\ Item.name \notin functions
          /\ Resolved(Item.ops, functions \cup {Item.name})
       THEN /\ functions' = functions \cup {Item.name}
            /\ code' = Define(Item.name, Emit(Item.ops, FunctionArena(Item.name)))
            /\ at' = at + 1
            /\ UNCHANGED <<body, classes, current_arena, handle_node, init_stmts, process>>
       ELSE fail

\* The top-level handle() is kept for later.
defer_handle ==
    /\ stage = "compile" /\ at \in DOMAIN body
    /\ Item.kind = "def" /\ Item.name = "handle"
    /\ handle_node' = at
    /\ at' = at + 1
    /\ UNCHANGED <<body, classes, functions, current_arena, init_stmts, code, process>>

\* Module-level statements become the body of lambpie_init.
collect_init ==
    /\ stage = "compile" /\ at \in DOMAIN body /\ Item.kind = "stmt"
    /\ init_stmts' = Append(init_stmts, Item.do)
    /\ at' = at + 1
    /\ UNCHANGED <<body, classes, functions, current_arena, handle_node, code, process>>

EventStruct == "event struct"   \* not the name of a class

\* lambpie_handle: the event struct on the request arena, handle(), the fields of
\* the response it returned.
EntryCode ==
    << [op |-> "alloc", of |-> EventStruct, tag |-> ARENA_REQ, cond |-> "once"],
       [op |-> "call", of |-> "handle", tag |-> ARENA_REQ, cond |-> "once"],
       [op |-> "read", of |-> "response", tag |-> ARENA_REQ, cond |-> "once"] >>

\* _synthesize_lambda_entry: handle() first, then lambpie_init with the static
\* arena, then lambpie_handle with the request arena.  A missing handle(), an unknown
\* event or response class or one with fields JSON has no code for, an unresolved
\* name, or a function of the program with the name of one that is made here, ends the
\* compilation.
synthesize_lambda_entry ==
    /\ stage = "compile" /\ at = Len(body) + 1
    /\ IF /\ handle_node # 0
          /\ Typed(body[handle_node])
          /\ \A c \in body[handle_node].types : classes[c].flat
          /\ Resolved(body[handle_node].ops, functions \cup {"handle"})
          /\ Resolved(init_stmts, functions \cup {"handle"})
          /\ functions \cap OwnFunctions = {}
       THEN /\ functions' = functions \cup {"handle"}
            /\ code' = [f \in DOMAIN code \cup {"handle", "lambpie_init", "lambpie_handle"} |->
                           CASE f = "handle" ->
                                    Emit(body[handle_node].ops, FunctionArena("handle"))
                             [] f = "lambpie_init" -> Emit(init_stmts, ARENA_STATIC)
                             [] f = "lambpie_handle" -> EntryCode
                             [] OTHER -> code[f]]
            /\ current_arena' = ARENA_REQ
            /\ at' = 0
            /\ stage' = "init"
            /\ stack' = <<Frame("lambpie_init", NoRef)>>
            /\ UNCHANGED <<body, classes, handle_node, init_stmts,
                           used, frozen, mem, epoch, loaded>>
       ELSE fail

-----------------------------------------------------------------------------
(* The run: compiled code under the shim's _start and event loop.            *)

Executing == stage \in {"init", "handle"}
Top == stack[Len(stack)]
InstrLeft == Executing /\ Top.pc <= Len(code[Top.fn])
Instr == code[Top.fn][Top.pc]

\* Where the top frame goes on: the body of a while may be run again.
NextPc == IF Instr.cond = "loop" THEN {Top.pc, Top.pc + 1} ELSE {Top.pc + 1}

\* The top frame moves on; its last object becomes r.
Advance(r) ==
    \E next \in NextPc :
        stack' = [stack EXCEPT ![Len(stack)] = [@ EXCEPT !.pc = next, !.last = r]]

die(how) ==
    /\ stage' = how
    /\ UNCHANGED <<compiler, stack, used, frozen, mem, epoch, loaded>>

\* The generated __init__ stores the fields, as lambpie_handle does for the event.
StoresFields(c) == c = EventStruct \/ ~ classes[c].explicit

\* A constructor: lambpie_arena_alloc(tag), then __init__.  Only a store into the
\* frozen arena faults; an allocation that stores nothing goes unnoticed.
run_alloc ==
    /\ InstrLeft /\ Instr.op = "alloc"
    /\ LET t == Instr.tag
           r == [tag |-> t, slot |-> used[t] + 1,
                 epoch |-> IF t = ARENA_REQ THEN epoch ELSE 0]
       IN  IF used[t] = Slots[t]
           THEN die("exhausted")
           ELSE IF StoresFields(Instr.of) /\ t = ARENA_STATIC /\ frozen
           THEN die("sigsegv")
           ELSE /\ used' = [used EXCEPT ![t] = @ + 1]
                /\ mem' = IF StoresFields(Instr.of)
                          THEN [mem EXCEPT ![t][used[t] + 1] = Top.last]
                          ELSE mem
                /\ Advance(r)
                /\ UNCHANGED <<compiler, stage, frozen, epoch, loaded>>

run_call ==
    /\ InstrLeft /\ Instr.op = "call"
    /\ \E next \in NextPc :
           stack' = Append([stack EXCEPT ![Len(stack)] = [@ EXCEPT !.pc = next]],
                           Frame(Instr.of, Top.last))
    /\ UNCHANGED <<compiler, stage, used, frozen, mem, epoch, loaded>>

\* Loads the field of the object at hand; there is none yet in an empty frame.  Through
\* a wild reference it loads anything, or ends the process.
run_read ==
    /\ InstrLeft /\ Instr.op = "read"
    /\ \/ /\ loaded' = IF Top.last \in {NoRef, Wild} THEN Top.last
                        ELSE mem[Top.last.tag][Top.last.slot]
          /\ Advance(Top.last)
          /\ UNCHANGED <<compiler, stage, used, frozen, mem, epoch>>
       \/ Top.last = Wild /\ die("crash")

\* The variable an instruction names holds r from now on.
Bind(r) ==
    /\ stack' = [stack EXCEPT ![Len(stack)] =
                    [@ EXCEPT !.pc = Top.pc + 1,
                              !.locals = [x \in DOMAIN Top.locals \cup {Instr.of} |->
                                             IF x = Instr.of THEN r ELSE Top.locals[x]]]]
    /\ UNCHANGED <<compiler, stage, used, frozen, mem, epoch, loaded>>

\* alloca: the variable exists, and nothing has been stored in it.
run_decl == InstrLeft /\ Instr.op = "decl" /\ Bind(Wild)

\* The value of a declaration, or of an assignment, is stored.
run_store == InstrLeft /\ Instr.op = "assign" /\ Bind(Top.last)

run_use ==
    /\ InstrLeft /\ Instr.op = "use"
    /\ Advance(Top.locals[Instr.of])
    /\ UNCHANGED <<compiler, stage, used, frozen, mem, epoch, loaded>>

\* The branch around the body of an if or a while is taken.
run_skip ==
    /\ InstrLeft /\ Instr.cond # "once"
    /\ stack' = [stack EXCEPT ![Len(stack)].pc = @ + 1]
    /\ UNCHANGED <<compiler, stage, used, frozen, mem, epoch, loaded>>

\* Seeded fault: the request arena is reset when handle() returns, before
\* lambpie_handle has read the response.
run_return_resets ==
    /\ Executing /\ ~ InstrLeft /\ Len(stack) > 1
    /\ stack' = [SubSeq(stack, 1, Len(stack) - 1) EXCEPT ![Len(stack) - 1] =
                    [@ EXCEPT !.last = Top.last]]
    /\ IF Top.fn = "handle"
       THEN used' = [used EXCEPT ![ARENA_REQ] = 0] /\ epoch' = epoch + 1
       ELSE UNCHANGED <<used, epoch>>
    /\ UNCHANGED <<compiler, stage, frozen, mem, loaded>>

run_return ==
    /\ Executing /\ ~ InstrLeft /\ Len(stack) > 1
    /\ stack' = [SubSeq(stack, 1, Len(stack) - 1) EXCEPT ![Len(stack) - 1] =
                    [@ EXCEPT !.last = Top.last]]
    /\ UNCHANGED <<compiler, stage, used, frozen, mem, epoch, loaded>>

\* lambpie_init returns: arena_freeze(&static_arena).
init_done ==
    /\ stage = "init" /\ ~ InstrLeft /\ Len(stack) = 1
    /\ frozen' = TRUE
    /\ stage' = "idle"
    /\ stack' = <<>>
    /\ loaded' = NoRef
    /\ UNCHANGED <<compiler, used, mem, epoch>>

\* An event arrives: the shim calls lambpie_handle.
handle_event ==
    /\ stage = "idle" /\ epoch < MaxInvocations
    /\ stage' = "handle"
    /\ stack' = <<Frame("lambpie_handle", NoRef)>>
    /\ UNCHANGED <<compiler, used, frozen, mem, epoch, loaded>>

\* Seeded fault: the request arena is not reset.
handle_done_no_reset ==
    /\ stage = "handle" /\ ~ InstrLeft /\ Len(stack) = 1
    /\ epoch' = epoch + 1
    /\ stage' = "idle"
    /\ stack' = <<>>
    /\ loaded' = NoRef
    /\ UNCHANGED <<compiler, used, frozen, mem>>

\* lambpie_handle returns: arena_reset(&req_arena).  The objects of the invocation
\* are dead; their cells keep their contents.
handle_done ==
    /\ stage = "handle" /\ ~ InstrLeft /\ Len(stack) = 1
    /\ used' = [used EXCEPT ![ARENA_REQ] = 0]
    /\ epoch' = epoch + 1
    /\ stage' = "idle"
    /\ stack' = <<>>
    /\ loaded' = NoRef
    /\ UNCHANGED <<compiler, frozen, mem>>

CompileStep ==
    \/ visit_ClassDef \/ visit_ImportFrom \/ visit_FunctionDef \/ defer_handle \/ collect_init
    \/ skip_main_block \/ visit_block
    \/ synthesize_lambda_entry

RunStep ==
    \/ run_alloc \/ run_call \/ run_read \/ run_decl \/ run_store \/ run_use \/ run_skip \/ run_return
    \/ init_done \/ handle_event \/ handle_done

Next == CompileStep \/ RunStep

Spec == Init /\ [][Next]_vars

-----------------------------------------------------------------------------

(* What a program may mention, read off its text p.                          *)

IsHandle(p, k) == p[k].kind = "def" /\ p[k].name = "handle"

\* The classes and functions before item n.
ClassesBefore(p, n) ==
    BuiltinClasses \cup {p[k].name : k \in {j \in 1 .. n - 1 : p[j].kind = "class"}}
FunctionsBefore(p, n) ==
    BuiltinFunctions \cup {p[k].name : k \in {j \in 1 .. n - 1 : p[j].kind \in {"def", "import"}
                                                             /\ p[j].name # "handle"}}
AllClasses(p) == ClassesBefore(p, Len(p) + 1)
AllFunctions(p) == FunctionsBefore(p, Len(p) + 1)

\* Classes lambpie_handle can convert from and to JSON.
Convertible(p) ==
    {p[k].name : k \in {j \in 1 .. Len(p) : p[j].kind = "class" /\ p[j].types \subseteq {"str"}}}

\* A body makes objects of the classes cs, calls the functions fs, and uses a variable
\* behind its declaration in the same body.
BodyOk(ops, cs, fs) ==
    \A k \in DOMAIN ops :
        /\ ops[k].op = "new" => ops[k].of \in cs
        /\ ops[k].op = "call" => ops[k].of \in fs
        /\ ops[k].op \in {"use", "assign"} =>
               \E j \in 1 .. k - 1 : ops[j].op = "decl" /\ ops[j].of = ops[k].of

\* Classes and helpers use what stands before them, a helper also itself, and are
\* defined once; an import is known; a block is no item.
ItemOk(p, k) ==
    /\ p[k].kind = "class" => /\ p[k].types \subseteq ClassesBefore(p, k)
                              /\ p[k].name \notin ClassesBefore(p, k)
    /\ p[k].kind = "import" => p[k].name \in C_SIGNATURES \cup FunctionsBefore(p, k)
    /\ p[k].kind = "def" /\ p[k].name # "handle" =>
           /\ p[k].types \subseteq ClassesBefore(p, k)
           /\ p[k].name \notin FunctionsBefore(p, k)
           /\ BodyOk(p[k].ops, ClassesBefore(p, k), FunctionsBefore(p, k) \cup {p[k].name})
    /\ p[k].kind # "block"

\* The last handle() takes and returns classes that can be converted, and uses any
\* definition of the module, wherever it stands.
HandleOk(p) ==
    \E k \in 1 .. Len(p) :
        /\ IsHandle(p, k) /\ \A j \in k + 1 .. Len(p) : ~ IsHandle(p, j)
        /\ p[k].types \subseteq Convertible(p)
        /\ BodyOk(p[k].ops, AllClasses(p), AllFunctions(p) \cup {"handle"})

\* So do the module-level statements; their variables are those of the statements before.
StatementsOk(p) ==
    \A k \in 1 .. Len(p) : p[k].kind = "stmt" =>
        /\ p[k].do.op = "new" => p[k].do.of \in AllClasses(p)
        /\ p[k].do.op = "call" => p[k].do.of \in AllFunctions(p) \cup {"handle"}
        /\ p[k].do.op \in {"use", "assign"} =>
               \E j \in 1 .. k - 1 :
                   p[j].kind = "stmt" /\ p[j].do.op = "decl" /\ p[j].do.of = p[k].do.of

Resolvable(p) ==
    /\ \A k \in 1 .. Len(p) : ItemOk(p, k)
    /\ HandleOk(p) /\ StatementsOk(p)
    /\ AllFunctions(p) \cap OwnFunctions = {}

(* A program compiles exactly if it has a handle() whose event and response  *)
(* classes can be converted to JSON, classes and helpers use only what stands *)
(* before them (a helper also itself) and are defined once, handle() and the  *)
(* module-level statements, wherever they stand, use any definition of the    *)
(* module (the deferral in visit_Module), and a variable is used only behind  *)
(* its declaration in the same body: those of the module level belong to      *)
(* lambpie_init and are unknown in handle().                                  *)
CompilesIffResolvable ==
    stage # "compile" => (stage = "error" <=> ~ Resolvable(body))

\* No compiled program stores into the static arena once it is frozen (README: the
\* static arena is for init, handle() uses the request arena).
NoFault == stage # "sigsegv"

\* The classes of the objects handle() makes have the generated __init__, which stores
\* every field.
FieldsStored(p) ==
    \A k \in DOMAIN p : IsHandle(p, k) =>
        \A j \in DOMAIN p[k].ops : p[k].ops[j].op = "new" =>
            /\ p[k].ops[j].of \notin BuiltinClasses
            /\ \A i \in DOMAIN p :
                   p[i].kind = "class" /\ p[i].name = p[k].ops[j].of => ~ p[i].explicit

\* The variables that hold a value before operation k: assigned in no branch, and not
\* declared again since.
SetBefore(ops, k) ==
    {ops[j].of : j \in {i \in 1 .. k - 1 :
        /\ ops[i].op = "assign" /\ ops[i].cond = "once"
        /\ \A d \in i + 1 .. k - 1 : ~ (ops[d].op = "decl" /\ ops[d].of = ops[i].of)}}
SetFirst(ops) == \A k \in DOMAIN ops : ops[k].op = "use" => ops[k].of \in SetBefore(ops, k)

\* The same of the module-level statements before item n.
SetByStatements(p, n) ==
    {p[j].do.of : j \in {i \in 1 .. n - 1 :
        /\ p[i].kind = "stmt" /\ p[i].do.op = "assign" /\ p[i].do.cond = "once"
        /\ \A d \in i + 1 .. n - 1 :
               ~ (p[d].kind = "stmt" /\ p[d].do.op = "decl" /\ p[d].do.of = p[i].do.of)}}

\* Every variable is set before it is used.
VariablesSet(p) ==
    \A k \in DOMAIN p :
        /\ p[k].kind = "def" => SetFirst(p[k].ops)
        /\ p[k].kind = "stmt" /\ p[k].do.op = "use" => p[k].do.of \in SetByStatements(p, k)

Alive(r) == r # Wild /\ (r = NoRef \/ r.tag = ARENA_STATIC \/ r.epoch = epoch)

\* No object at hand and no reference read from a field is wild or of an earlier
\* generation of the request arena ("no dangling pointers possible", README.md:52).
NoDanglingRead == stage = "handle" => Alive(loaded) /\ Alive(Top.last)

\* Request memory is recycled: an invocation runs out of it only if handle()
\* alone, with the event, can make more objects than the arena holds, in a loop or not.
RequestMemoryRecycled ==
    stage = "exhausted" /\ frozen =>
        LET ops == body[handle_node].ops
            news == {k \in DOMAIN ops : ops[k].op = "new"}
        IN  \/ \E k \in news : ops[k].cond = "loop"
            \/ Cardinality(news) + 1 > Slots[ARENA_REQ]
=============================================================================
