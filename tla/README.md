# A TLA+ verification project for lambpie

lambpie compiles a Python-like language (`.pie`) to native AWS Lambda functions. This project models the parts of it that keep state, checks them with TLC on small instances, and proves the safety properties of eight of them with TLAPS for every size of the instance.

## The system

| Component | State | Operations | Hard part | Correct when |
|---|---|---|---|---|
| Arena allocator, `runtime/src/arena.c` | base, cursor, limit of two arenas; page protection | init, alloc, reset, freeze | rounding, the full arena, what a freeze covers | blocks never overlap, frozen memory never changes, a request is refused only when it does not fit |
| HTTP client, `http()` in `runtime/src/runtime.c` | receive buffer and parser pointers | one exchange: send, receive, parse | TCP cuts an answer anywhere | the result does not depend on the cuts; the call ends |
| Runtime and event loops, `runtime.c`, `runtime/rust-binding`, `runtime/shim` | request id, event, response buffer, request arena | poll, handle, respond or report an error | the process, the connection and the service fail independently; one buffer serves all exchanges | every invocation ends once, with its own result |
| Compiler, `compiler.py`, `builtins.pie` | scopes, layouts, current arena, deferred `handle()` | one visit per construct, synthesis of the entry points | arenas are chosen when code is compiled, frozen and reset when it runs; what looks global is not | accepted programs obey the memory model |
| JSON, `runtime/src/json.c`, and the entry point the compiler builds around it | event, event struct, response buffer | read field by field, call `handle()`, write field by field | keys and values share one text, a missing field, INT64_MIN, the end of the buffer | the answer is computed from the event, or there is none |
| Deployment, `scripts/deploy.py`, and build, `scripts/build.py` | `target/`, IAM role and policy, Lambda function | one tool and one AWS call at a time | eventual consistency, concurrent and interrupted runs, files of earlier builds | "complete" means that the package replaces the code, and the package is the run's own build; every run ends |
| Verification, `scripts/verify.py`, `invoke.py`, `package.py`, `Makefile` | `target/`, localstack, one function in it | make targets and scripts in several terminals | leftovers of killed runs, a package rewritten meanwhile | exit code 0 is deserved; every run ends; localstack is taken down |
| TLS client, `runtime/src/tls.c` | connections and what they hold | init, connect, send, recv, close | partial writes, retries, errors in the middle | bytes arrive once and in order, nothing leaks, a call hangs only on a silent peer |
| Model parser, `scripts/parse_models.py` | reachable and parsed shapes | select, walk, parse, generate | recursive models, three places that skip | exactly the reachable shapes, exactly the right errors, source the compiler takes |
| Logging; `test.py`, `test_arena.py`, `build.rs` | none of interest | | | not modelled |

How they interact. `_start` (shim) maps both arenas, calls the compiled `lambpie_init`, freezes the static arena and enters `lambda_event_loop`. Each turn calls `get_next_request` (an `http()` exchange), the compiled `lambpie_handle`, which reads the event with `json_get_*`, allocates in the request arena and writes the response with `json_write_*`, then `arena_reset`, then `send_response` (another exchange). A handler written in C uses `start_lambda` instead. `deploy.py --build` runs `build.py`, which runs the compiler, `llc` and `cargo`, and deploys what that leaves in `target/`; `make verify` builds in Docker, packages, and runs `verify.py` against localstack. `parse_models.py` writes `.pie` source that is meant to be put in front of a handler. Nothing calls `tls.c` yet.

`PROJECT.json` lists the hazards of this code one by one, each at its line with the properties that cover it.

## Modules

| Module | Models | Notes |
|---|---|---|
| `RegionAllocator` | what an allocator promises | abstract: aligned blocks that do not overlap, refusal only without room |
| `Arena`, `MCArena` | `arena.c`, `arena.h` | one action per function; `store` is a write of the compiled code; implements `RegionAllocator` |
| `ArenaProofs` | | theorems about `Arena`; every `XProofs` is to `X` what this is to `Arena` |
| `Http`, `HttpProofs`, `MCHttp` | receive and parse loop of `http()` | one action per branch of the loop; `recv(n)` delivers any number of cells |
| `Invocations` | what a runtime promises | abstract: an invocation begins once and ends once, with a result computed from its own event |
| `Runtime`, `RuntimeProofs`, `MCRuntime` | shim, `lambda_event_loop`, `start_lambda`, the calls of `runtime.c` | with an external Lambda service; implements `Invocations` |
| `Pie`, `PieProofs`, `MCPie` | `compiler.py` and a run of its output | compile actions, then the run of the emitted instructions under the shim |
| `Json` | `json.c` | pure operators on byte sequences |
| `Entry`, `MCEntry` | `lambpie_handle` as `compiler.py` synthesizes it, for `tests/echo.pie`, and the guard page of `mapalloc` | composes `Json` with the compiled code and the buffer |
| `Models`, `ModelsProofs`, `MCModels` | `parse_models.py`, and the compiler's pass over its output | |
| `Target` | `build.py` and the files in `target/` | |
| `Deploy`, `DeployProofs`, `MCDeploy` | `deploy.py` | extends `Target`; one action per AWS call |
| `Verify`, `VerifyProofs` | `package.py`, `verify.py`, `invoke.py`, the make targets | terminals that share `target/` and localstack |
| `Tls`, `TlsProofs`, `MCTls` | `tls.c` | OpenSSL answers in any way it may |

Definitions keep the names of the source. `map` in `PROJECT.json` gives the lines of each. Definitions marked "Seeded fault" are variants of a definition with one plausible mistake; none is used by a specification. They show that each property can fail.

### Arena

Addresses are numbers up to `AddrTop`, sizes and pointer sums wrap at `SIZE_T`. `base`, `cursor`, `limit` are functions from the arena's tag. `mmap` (external) chooses any free, aligned place, so the two arenas may be neighbours. `live` (the blocks handed out since the last reset, with the size asked for) and `frozen` (the arenas that were protected) are history. Outcomes of the process (`exit(1)`, a refused system call, SIGSEGV) are values of `status`.

### Http

A cell of the wire is a header name, a number, a separator or a body byte; the constant `Numeral` gives the token of each number, which `atoi` reads back, and `HeaderLines` lays the headers of an answer out one after the other. Which cells arrive with which `recv()` is open. `midway` is the point between a `recv()` and the parsing that follows it in the same iteration: there the code does not look at `remain` again. `HeaderIs` is the `strncmp` of the code, with the length of the text before the last colon of the line. `Slack` is the room the caller leaves behind the answer: 1 in the run `http`, 0 in `http_comments`.

### Runtime

`loop` says which of the two event loops the deployed binary has. The process is a program counter with the fields of `hb` and the use of the request arena. An exchange is a request and the service's answer; `Http` is the reason the answer may be taken as a whole. The service hands out one invocation at a time, may answer 410, may leave out the id header, ends an invocation that overruns and kills the process, accepts a POST even from a process that has given up waiting, and starts a new process when one is gone.

### Pie

A program is a sequence of classes, functions, imports, statements and blocks behind the builtins; a body is a sequence of `new`, `call`, `read` and the declaration, assignment and use of variables, each of which may be the body of an `if` or a `while`. The compile actions follow `visit_Module`: classes and helpers are visited where they stand, `handle()` and statements are kept for `_synthesize_lambda_entry`, which also adds functions of its own (`OwnFunctions`): a program that has one of these names is refused. `Declared` is the local scope at a point of a body: it begins empty in every function and in `lambpie_init`. `Emit` gives each allocation the arena in force. `x: A` without a value is a `decl` alone, which leaves the variable `Wild` (whatever was on the stack) until something is assigned; a `read` through such a reference loads anything, or ends the process. `Resolvable` says which programs should compile by their text alone, without the compiler's tables. The run executes the emitted instructions on a stack of frames with their variables. An object, with the strings it owns, is one cell with one reference field; a reference carries the number of resets at its birth, so a dangling one can be told. A call of a name that the compiler makes for itself, `lambpie_arena_alloc` or the `___init__` of a class, is accepted by the code and is not among the inputs (`Operation`).

### Json and Entry

The parser and serializer are operators. `int64_t` has `W` bits; the signed overflow of `json_get_int` wraps, as the compiled code does. In `Entry` the service writes an event field by field, with any of the white space of `Blanks`, leaving fields out or giving them the wrong type; the event struct is filled field by field, the handler answers, the response is written field by field. A `str` struct of a missing field has a NULL buffer and a length that is zero or not, since nobody sets it: with zero `memcpy` copies nothing, otherwise it faults. The response buffer ends at `mapalloc(response_cap)`, the first cell of the guard page: for a capacity of whole pages a page behind it, as in the code.

### Models

Shapes are numbers in alphabetical order. The recursion of `_walk` is a stack of the shapes each call has still to visit, so that its depth can be bounded and its order left open. `Closure` (the least set of shapes with the roots that is closed under references) and `Unusable` are reference definitions from the model alone. `Sorted(S)` is the set of sorted enumerations of `S`, of which there is one. `compile` is the part of the compiler that matters for generated source: parameter names and annotations, resolved in the order of the text.

### Target and Deploy

The content of a file is the run whose source it was made from; `Partial` is a binary whose copy has begun. Each tool of the build and each AWS call is a step. `build.py` is a process of its own (`builder`), the child of a run: `die` may come at any point of a run, and then the build goes on or stops with it. `clean` starts an `rm -rf`, which `clean_file` carries out file by file, in any order, while a build may go on. One run with `--build` is at work at a time: two would share every file, and the scripts have no lock. `call_raises` is an AWS call that is refused. What the command lines are, and which of these faults may happen (`faults`), is one of `Scenarios` in each behaviour. A deadline is a number of polls.

Lambda has a `State` and a `LastUpdateStatus` (`update`): it takes an update of an Active function, refuses another one meanwhile, and puts the code in place later (`lambda_updates`) or fails to. `live` is the code invocations run. All of IAM and Lambda (external) may be late or never come. `accepted` (the runs whose package Lambda took), `abandoned` (a run ended between the role and its policy) and `disturbed` (the runs whose files in `target/` others removed or wrote while they were at work) are history.

### Verify

Each terminal runs one command after the other, without end. A run is a record with its command, its place and what it has read; how it ended is told apart (`ok`, `failed` by its own decision, forced by `service`, or `killed`). Files and the function hold what a binary does with the test event: `echo`, something `wrong`, a `crash`. A killed run leaves its files, its function and its container. One build and one verification run at a time, since both use fixed names; everything else interleaves.

### Tls

The caller makes one call at a time on one of its connections. `held` is what a connection has taken from the system, `stream` what the caller was told is sent, `wire` what OpenSSL took. After a WANT, `SSL_write` accepts only the same arguments again (`pending`). `peer` is the other direction: bytes sent, read and lost, records without data (after which a call ends with a WANT), and how it ended: closed with a close_notify, cut off with any of the bytes on their way lost, or silent, connected and saying nothing. `SSL_read` waits until there is something. FATAL ends the process, and so does the SIGPIPE of a write to a peer that has closed or was cut off.

## Runs

| Run | Result | Shows |
|---|---|---|
| `arena` | pass | disjoint blocks, frozen memory constant, refinement of `RegionAllocator` |
| `http` | pass | result independent of segmentation, only received cells parsed, no starvation, termination |
| `http_comments` | violation | an answer that fills the buffer exactly and arrives at once is returned unparsed (`runtime.c:175`; comment at 135): `ExactFitIsRead`; a 410 in an HTTP/1.1 answer is returned like an invocation (`runtime.c:229`; comment at 232): `GoneExits`. `CommentsHold` is the conjunction; TLC's trace is the exact fit, and with `GoneExits` in its place it is the 410 |
| `runtime` | pass | for the shim's loop and for `start_lambda`: refinement of `Invocations`, exhaustion is an invocation's own doing, failures never count as successes, no POST uses an id or a response of an earlier exchange, every invocation ends, pending ones are served |
| `pie` | pass | which programs compile; no fault and memory recycled, for programs whose helpers do not allocate; no wild and no dangling reference, since these programs set every variable of a function before its use and store the fields of the objects of `handle()` |
| `pie_helper` | violation | a helper that allocates, called from `handle()`, stores into the frozen arena (`compiler.py:359`; comment at 78) |
| `entry` | pass | every key reads back what was written under it, responses are well formed and computed from the event, complete events are answered |
| `json_key_as_value` | violation | an event in which a string is the name of another field ends the process (`json.c:33`; `json.h:16`) |
| `models` | pass | exactly the reachable shapes, bounded recursion, errors exactly where the branches say, no class named that is not generated; the compiler takes the result exactly if no structure has a member of a structure that is not before it in the alphabet, and no input a member `endpoint` |
| `tls` | pass | the stream arrives intact, no socket or OpenSSL object leaks, every call returns or ends the process unless the peer is silent |
| `verify` | pass | a success is about the package that was read, leftovers do no harm, every run ends, localstack is taken down |
| `deploy` | pass | a run that completes has its package taken, and with the last update in place invocations run that or a later one; the package of a run with `--build` is its own build, unless a `make clean` or an orphaned build came in between; every run ends; a new role gets its policy unless its run is killed or refused before |

`TypeOK` is an invariant of the runs `arena` and `http`, where it bounds a cursor; in `Arena`, `Runtime`, `Deploy`, `Verify`, `Tls` and `Models` it is part of the inductive invariant that is proved, and `HttpProofs` derives it.

The violation runs are disagreements between the code and its own comments or documentation; `findings` in `PROJECT.json` quotes both.

More promises of comments and documentation that the code does not keep. Each is a definition of its module, stated as the text says it; TLC refutes it when it is put into the configuration named, with the change named.

| Property | Where TLC refutes it | What happens | Promise |
|---|---|---|---|
| `NoDanglingRead` of `Pie` | `MCPie.cfg`, `Programs <- UnsetPrograms` | `x: A` without a value leaves the variable as it lies on the stack, and a use follows it (`compiler.py:679`) | "no dangling pointers possible" (`README.md:52`) |
| `NoDanglingRead` of `Pie` | `MCPie.cfg`, `Programs <- StalePrograms` | an explicit `__init__` leaves in a field the pointer of the invocation before (`compiler.py:640`) | the same |
| `OverflowIsLoud` of `Entry` | `MCEntry.cfg`; with `response_cap = 24`, whole pages, by a page | a response longer than its buffer is written into the rest of the last page and posted (`runtime.c:275`) | "overflows SIGSEGV loudly" (`runtime.c:284`) |
| `NoSilentFallback` of `Models` | `MCModels.cfg` | with `--skip-unsupported` an input or output of an unknown scalar type becomes `str` or `int` in the stub (`parse_models.py:365`, 520, 528) | "No silent fallbacks" (`parse_models.py:40`) |
| `ZeroIsClean` of `Tls` | `MCTls.cfg` | `tls_recv` returns 0 for a connection that was cut off (`tls.c:319`) | "cleanly shut down by the peer" (`tls.h:72`) |
| `MinusOneIsTransient` of `Tls` | `MCTls.cfg` | `tls_recv` returns -1 for a fatal error (`tls.c:333`) | "transient read condition" (`tls.h:73`) |
| `ClosedSendReturns` of `Tls` | `MCTls.cfg` | a send to a connection the peer has closed ends the process by SIGPIPE (`tls.c:292`) | "Returns -1 if the connection was closed" (`tls.h:61`) |
| `BuildsFirst` of `Deploy` | `MCDeploy.cfg` | a `make clean` that has removed cargo's output and not `target/bootstrap` (`build.py:94`), or the `build.py` of a killed run (`deploy.py:220`), puts another binary into the package | "Build this .pie file first" (`deploy.py:189`) |
| `CompleteMeansLive` of `Deploy` | `MCDeploy.cfg` | only `State` is polled, so completion is reported while the old code still runs (`deploy.py:158`) | "Deploy complete" (`deploy.py:289`) |
| `EnsuredRoleHasPolicy` of `Deploy` | `MCDeploy.cfg` | a role left without its policy is taken as it is (`deploy.py:81`) | "suitable for Lambda execution" (`deploy.py:71`) |

And without a property of their own:

- Classes are written in alphabetical order and the compiler resolves the type of a field where it stands (`parse_models.py:464`, `compiler.py:105`), so a class with a field of a later class, like AssumeRoleResponse with AssumedRoleUser of STS, or of its own, is refused, and so is an input with a member `endpoint`, a second parameter of that name in the stub (`parse_models.py:509`). `parse_models.py:1` promises to "generate .pie type definitions"; `CompilesIffOrdered` says for which models it does.
- Under the shim a failing handler ends the process (`ended` is `exhausted` or `crashed`); `runtime.h:80-81` says that it is reported and the loop goes on.
- The example of `README.md:10-25` has its `handle()` in a class, where the compiler does not look for it.
- "invocation complete: request_id=" (`runtime.c:487`) is printed after `http_send` has cleared the id.
- A build killed during the copy leaves half a binary in `target/bootstrap`, which a later `deploy.py` without `--build` ships.

### Bounds

- `arena`: two arenas of 16 bytes in 40 bytes of address space and sizes 0, 8 and 9. Both fill after two blocks, may touch, and size 9 needs rounding. The proofs cover every other instance of `ArenaAssumption`.
- `http`: every order and subset of the three headers, bodies of up to four cells that look like header text, a buffer of 32 cells (the longest answer has 31; `http_comments` has a buffer of 31). All splits are explored.
- `runtime`: three invocations (two together and one alone exceed the arena), three processes. Enough for a result, an id or a death to be carried from one invocation to another and to a third.
- `pie`: all orders of a class, a helper, `handle()` and a statement; all `handle()` bodies of two operations, or of three with variables and a loop; classes with fields, duplicates, imports and blocks at every place; declarations with and without a value; three invocations; of the programs that compile, those that set their variables and fields (`MCPrograms`), for the others see the two lines on `NoDanglingRead` above; a static arena of one object and a request arena of two.
- `entry`: events of up to three fields, three keys of which one is a prefix of another, the edges of an 8-bit integer, a buffer of 25 cells with pages of 4, so that responses end before the capacity, in the slack and in the guard page.
- `models`: all models of three shapes with one operation, and of two shapes with two operations of which any may be selected, with structures of up to two members. Cycles, forward references, undefined and unsupported shapes all occur.
- `tls`: two connections, two addresses, two sends of two cells each on a connection, one cell or record from the peer. A peer that sends once and then closes, is cut off or falls silent is enough for each way a call can end; the proofs of `StreamIntact` and `NoLeak` cover any number.
- `verify`: two terminals, one poll before a deadline; runs follow each other without bound.
- `deploy`: two runs, in one of two scenarios (`MCScenarios`), deadlines of two polls. Either any of the three role options, with and without `--build`, kills and refused calls; or two runs with `--build` and any number of `make clean`. Two runs are enough for one to meet what the other left or does; the proofs cover any number, and any scenario.

Deadlock is not checked where an exited process, a finished script or a used-up bound is a legitimate end. `Terminates`, `EveryInvocationEnds`, `PendingIsServed`, `EveryRunEnds`, `LocalstackTornDown` and `HangsOnlyOnSilence` say what must not stop.

### Fairness

- `Http`: weak fairness of `Next`. The process runs, and a blocked `recv()` ends because data arrives, the peer closes or `SO_RCVTIMEO` expires. For `/next` there is no timeout (`runtime.c:450-456`); there the assumption is that the service answers or closes.
- `Runtime`: weak fairness of the process's own steps (it is scheduled, the handler terminates), of what the service owes its clients, and of the timeout of a POST (`SO_RCVTIMEO` of 30 s). Connection failures, shutdowns and overruns are not assumed to happen. `PendingIsServed` allows for the bound on processes.
- `Tls`: weak fairness of `connect()` (the kernel gives up by itself) and of an `SSL_read` that has something to return. Nothing is assumed of a silent peer: no socket has a timeout, so `SSL_connect`, `SSL_write` and `SSL_shutdown` go on only while `peer[conn].end # "silent"`, and `SSL_read` only when there is something. `HangsOnlyOnSilence` says that this is the only reason to hang. An open peer does something in the end, sends, closes, is cut off or falls silent, which rules out a peer that is open for ever without being called silent. A WANT follows a record of the peer, of which there are finitely many (the sockets block); the loop of `tls_send` itself has no bound.
- `Deploy`, `Verify`: weak fairness of each run's steps. Nothing is assumed of AWS, Docker or localstack: `EveryRunEnds` rests on the deadlines alone. Kills are never forced.

## Proofs

Each `XProofs` has an inductive invariant `IInv`, one lemma per action that says that the action keeps it, and theorems that follow from it. Before a proof was tried TLC checked `IInv` on the instance of the run. The theorems hold for every value of the constants that satisfies the named assumption.

| Module | Theorem | Shows (property of a run in parentheses) |
|---|---|---|
| `ArenaProofs` | `TypeCorrectness` | the cursor never leaves its arena (`TypeOK`) |
| | `LiveBlocksDisjoint` | (`BlocksDisjoint`) |
| | `FrozenMemoryNeverChanges` | an action property (`FrozenMemory`) |
| | `ArenaImplementsRegions` | the refinement (`RegionSpec`) |
| `RuntimeProofs` | `NoForeignExhaustion` | request memory runs out only for an invocation that needs too much alone (`ExhaustionIsOwn`) |
| | `FailuresAreReported` | (`FailureNotSuccess`) |
| | `NoStalePost` | no POST with an id or a response of an earlier exchange (`PostsAreCurrent`) |
| | `RuntimeImplementsInvocations` | the refinement (`InvocationsSpec`) |
| `PieProofs` | `FrozenArenaIsSpared` | under `HelpersDoNotAllocate`: no store into the frozen arena (`NoFault`) |
| | `NothingDangles` | under `FieldsAreStored` and `VariablesAreSet` as well: no wild reference and none to an object of an earlier invocation (`NoDanglingRead`) |
| | `CompilerAcceptsResolvable` | exactly the resolvable programs compile (`CompilesIffResolvable`) |
| | `RequestArenaIsRecycled` | under `HelpersDoNotAllocate` and `HandleIsNotCalled`: an invocation runs out of request memory only by itself (`RequestMemoryRecycled`) |
| `DeployProofs` | `CompletionIsTrue` | what "Deploy complete" is worth (`CompleteMeansDeployed`) |
| | `NoForeignBinary` | (`DeploysOwnBuild`) |
| | `PolicyIsOwed` | as long as no run was killed or refused before the attachment, a role without its policy has a run that is about to attach it |
| `VerifyProofs` | `SuccessMeansEcho` | an action property (`SuccessIsGenuine`) |
| | `FailureIsOwn` | an action property (`LeftoversAreHarmless`) |
| `TlsProofs` | `BytesArriveOnce` | (`StreamIntact`) |
| | `ResourcesGivenBack` | (`NoLeak`) |
| `HttpProofs` | `AnswerAsSent` | under `Slack > 0`: the result does not depend on the cuts (`SegmentationIndependent`) |
| | `WaitsForAnswerOnly` | no blocking `recv()` once all of the answer is there (`NeverStarves`) |
| | `TypeCorrect` | the parser's pointers and counters stay in buffer and answer (`TypeOK`) |
| | `NoStaleBytes` | only received cells are parsed (`ParsesReceivedBytes`) |
| | `HeadersStayInBuffer` | parser and receive pointer stay in the buffer while headers come in |
| | `ReturnsWholeBody` | `http()` returns with `content_length` bytes of body, whichever of them came with the headers, or with a buffer full of headers |
| `ModelsProofs` | `WalkFindsClosure` | (`ReachableIsClosure`) |
| | `WalkIsBounded` | the recursion is at most one frame deeper than the model has shapes |
| | `WalkFitsStack` | under `ShapesFit` (`WalkDepthBounded`) |
| | `RaisesExactly` | under `ShapesFit` (`RaisesIffUnusable`) |
| | `NoUnknownClass` | (`NamesAreGenerated`) |
| | `CompilesExactly` | (`CompilesIffOrdered`) |

### Assumptions

- `ArenaAssumption`: sizes, capacities and addresses are small enough that no sum wraps. The code relies on this without a test: the sizes are those of structs known to the compiler, the capacities are the constants of `main.rs:8-9`.
- `HttpAssumption`: a status line is one of the five of `StatusLine`, header lists are over the three kinds `http()` meets, of any length and with repetitions; different numbers have different numerals, none of which is a separator, and every body length has one. Bodies are arbitrary.
- `Slack > 0`, a hypothesis of `AnswerAsSent`: the caller leaves a cell behind the answer. With `Slack = 0` it fails (`http_comments`).
- `RuntimeAssumption`, `DeployAssumption`: types of the constants, no more. `TargetAssumption`, `VerifyAssumption`: the marks `NoCode` and `Partial` are not runs, nor things a binary does; `echo` and `crash` are such things.
- `TlsAssumption`: a buffer given to `tls_send` is not empty, besides types.
- `ModelsAssumption`: a model has finitely many shapes and operations. `ShapesFit`, a hypothesis of two theorems: each has fewer shapes than `RecursionLimit`. Without it `_walk` can end in a RecursionError, which is then the only other reason to fail.
- `PieAssumption`: programs are sequences of items of the kinds the model knows, with no declaration inside a branch or a loop (such a variable may be used before its stack slot exists, see the hazards).
- `HelpersDoNotAllocate`: no helper that `handle()` reaches, directly or through others (`Reached`, the least set closed under calls), makes an object. The run `pie_helper` shows that `NoFault` fails without it. Helpers that only module-level statements call may allocate. All programs of the run `pie` satisfy it.
- `HandleIsNotCalled`: neither `handle()` nor a module-level statement calls `handle()` (a helper cannot, it is compiled first). The code allows such calls, but a call at init leaves its objects in the request arena for the first invocation, and a recursive one makes them once per call, so the number of operations in `handle()` bounds nothing.
- `FieldsAreStored`: the classes `handle()` makes objects of have the generated `__init__`. An explicit `__init__` stores nothing and a read gives what an earlier invocation left in the cell, which is the reference `NoDanglingRead` forbids (`StalePrograms`).
- `VariablesAreSet`: before each use of a variable, in the same body, an assignment outside branches and loops follows its last declaration. Otherwise the variable may hold whatever the stack slot held (`UnsetPrograms`).

### Why the invariants are needed

`Arena`. From `BlocksDisjoint` alone one cannot tell that the next block, at the cursor, is clear of the blocks of the other arena, nor that a failed limit test means a full arena. `IInv` adds `Layout` (base, cursor and limit are in order, the arenas do not overlap, only mapped arenas have blocks), `Compact` (every word between base and cursor belongs to a live block) and `FrozenRO` (every word of a frozen arena, in use or not, is read-only). `RoundUpBounds` says what rounding does, `PtrAddNoWrap` that the sum of the limit test does not wrap, and `ExhaustionIsExact` uses `Compact` for the refusal in the refinement.

`Runtime`. That a POST is current depends on where the process is: `PollIsFresh` (a poll has cleared the id), `HandlesCurrent` (the event in the buffer is the one of the invocation handed out) and `PostIsOwn` carry the identity of the invocation from one exchange to the next; `ArenaEmpty` (whatever way a handler ends, its step leaves the request arena empty) gives `ExhaustionIsOwn`; `OneRunning` and `PendingUntouched` give the steps of the refinement.

`Pie`. What holds at run time rests on what the compiler did: `NamesResolved` (a call finds a function, a use follows its declaration), `EntryPoints` (nobody else has the names of the entry points) and `ReachedCode` (what `handle()` reaches allocates in `handle()` only, tagged with the request arena) are facts about the emitted code, kept by the compile actions. `Serving` then says of every frame of an invocation that it runs reached code and holds only objects of this generation that are in use; `FirstGeneration` that until the freeze there is one generation; `FieldsAlive` that a field of an object in use refers to something alive. The stack is of any depth, so these are about all its frames, and a return or a call moves a reference between two of them. `Tame` is about wild references: under `VariablesAreSet` a variable that an assignment outside branches has set is not `Wild` behind it (`TameCode` for the text, `TameProcess` for the frames), so nothing at hand, in memory or loaded is; `Serving` and `FieldsAlive` need no such hypothesis, since they allow wild references.

The other two theorems of `PieProofs` have invariants of their own. `CompilerInv` says, while the items are visited, that the tables of the compiler are those of the text before `at` (`Walk`: `ClassesBefore`, `FunctionsBefore`, `ConvertibleBefore`, `LastHandle`, and the positions `StatementsAt` of the collected statements), and that all these items are in order; so an error is raised at the first item that is not, and synthesis sees the whole program. `Recycling`, relative to `IInv`, is an account of the request arena: it is empty between invocations (`EmptyBetween`), and during one it holds at most the event and an object for each operation `handle()` is past (`Accounted`, with `Budget` for the frames at hand), unless `handle()` allocates in a loop. That needs to know where the frames of `lambpie_handle` and `handle()` are (`FramesInPlace`) and that no code but `handle()` and `lambpie_handle` allocates in that arena (`ArenasFixed`).

`Deploy`. `OwnFiles` says which files of `target/` are of a run that nothing disturbed, at each step of its build, which is what `DeploysOwnBuild` needs when the package is read; `Children` ties a `build.py` to the run that waits for it. `LastTaken` says that what Lambda runs, or is about to, is the last package it took, and `WaitsForOwn` that a run that waits had its own taken and does not change it any more: from these two follows what completion means.

`Verify`. `Control`, `InHand` and `TestsOwn` relate the place of a run to what it has read and to the function in localstack; since one verification runs at a time (`OneVerifier`), the other terminals can make its function vanish but not replace it.

`Tls`. `Sending` says that a send under way has bytes left and a good handle, `Unopened` that a connection without a handle has carried nothing, `Talking` that reading and closing are about a connection. `TakenFollow` is the fact about sequences: the bytes `SSL_write` takes follow the ones counted in `total_sent`.

`Http`. `Counters`, `InHeaders` and `InBody` relate `total_bytes_received`, `remain`, `parse_point` and `body_start` for each phase of the loop; `AtReturn` says what they amount to when it ends. `Bounded` and `Position` say where the parser is on the wire: on the status line, on the line after the first `j` header lines, or past the blank line; with the start of that line, the last colon passed on it, and the length and id that the `j` lines before it carry. Nothing in them mentions the cuts, which is why the result does not depend on them. `AtExit` gives the reasons to fail. The lemma `Layout` places the cells of header line `j` on the wire of any answer. It needs an induction over the header list, done as a least counterexample: the set of `j` for which it fails has a least element (`Least`), and one unfolding of the recursive function refutes that one.

`Models`. `WalkSound` and `WalkComplete` say that a marked shape is in `Closure`, and that what a marked shape refers to is marked or still to be visited by some frame; when no frame is left the marked set is closed, so it is the least one. `WalkDepth` bounds the frames by the marked shapes, since a call is made for a shape that was not marked. `Parsed`, `Phases` and `Reasons` carry the skipped and the failed shapes to the end, and `Laid` the order of what was generated to the compiler, whose two tests are then compared with the model one by one (`ParsesExactly`, `ResolvesExactly`).

Two readings of the prover differ from TLC's. `UNION A \cup B` is `UNION (A \cup B)` to it, so the modules put parentheses there; and an `@` in an `EXCEPT` within an `EXCEPT` is expanded wrongly, so `run_store` names the frame it changes.

### Only model-checked

- All liveness and fairness (`Terminates`, `EveryInvocationEnds`, `PendingIsServed`, `EveryRunEnds`, `PolicyFollowsRole`, `LocalstackTornDown`, `HangsOnlyOnSilence`): the prover has neither fairness nor `ENABLED`.
- `Json` and `Entry` (`ReadsBack`, `WellFormed`, `AnswersFromEvent`, `CompleteIsAnswered`): all of them depend on what the folds and recursive functions of the parser compute for every text, nested in each other. The least-counterexample argument of `HttpProofs` would have to be made for each of them.
- The violation runs.

## Not modelled

- `log.h` (formatting), `test.py`, `test_arena.py` and the `build.rs` files (external tools, run once), the Docker files.
- In `runtime.c`: `send_init_error` (never called), the texts of requests and errors.
- In `compiler.py`: arithmetic, bitwise and comparison expressions other than the addition of the echo handler, arrays and subscripts, scalar types, LLVM IR and the metadata file. The builder emits one instruction for each; there is no control in them.
- In `json.c`: nothing is left out, but strings with escapes and numbers that do not fit are not among the inputs (`json.c:72` excludes escapes).
- In `parse_models.py`: loading the JSON file, `--list-services`, the wire names and required members of the JSON output, the layout of the text.
- Calls by name of what the compiler makes for itself (`compiler.py:57-71`), see `Pie`.
- In `tls.c`: what OpenSSL does with certificates and records.

## Plan

1. Done: `RegionAllocator`, `Arena`, `ArenaProofs`; `Http`; `Invocations`, `Runtime`; `Pie`; `Json`, `Entry`; `Models`; `Target`, `Deploy`; `Verify`; `Tls`.
2. Done: the theorems above.
3. Prove next: that `json_get_*` reads back what `json_write_*` wrote (`ReadsBack`), beginning with the digits of a number.
4. Possible extensions: declarations inside branches and loops in `Pie`, and bodies that fall off their end.
