------------------------------- MODULE Arena -------------------------------
(***************************************************************************)
(* The two bump arenas of the lambpie runtime (runtime/src/arena.c and      *)
(* arena.h): static_arena, filled by lambpie_init and then made read-only,  *)
(* and req_arena, emptied after every invocation.  A client may call        *)
(* arena_alloc, arena_reset and arena_freeze on either arena in any order,  *)
(* and stores through the pointers it got.                                  *)
(*                                                                         *)
(* Addresses and sizes are byte counts; memory is kept by 8-byte word.      *)
(* size_t and pointer arithmetic wraps at SIZE_T (2^64 in the build).       *)
(***************************************************************************)
EXTENDS Integers

CONSTANTS SIZE_T,      \* number of values of size_t
          AddrTop,     \* user-space addresses are 0 .. AddrTop
          Capacity,    \* Capacity[tag]: the size passed to arena_init
          Sizes,       \* sizes passed to arena_alloc
          Values,      \* what a word can hold
          Zero         \* the word of a fresh anonymous mapping

ARENA_STATIC == 0
ARENA_REQ == 1
Tags == {ARENA_STATIC, ARENA_REQ}

Addr == 0 .. AddrTop
Words == {a \in Addr : a % 8 = 0}

\* Mapped memory lies far below the wrap of size_t, and no type the compiler
\* lays out comes near it: rounding a size up and adding it to a cursor never
\* wraps.  The shim asks for 64 KB and 256 KB, multiples of a page.
ASSUME ArenaAssumption ==
    /\ SIZE_T \in Nat
    /\ AddrTop \in Nat
    /\ Capacity \in [Tags -> Nat]
    /\ \A t \in Tags : Capacity[t] % 8 = 0
    /\ Sizes \subseteq Nat
    /\ \A s \in Sizes : AddrTop + s + 7 < SIZE_T
    /\ Zero \in Values

VARIABLES
    base, cursor, limit,   \* the fields of struct arena, by tag
    readonly,              \* words under PROT_READ
    mem,                   \* contents of memory
    status,                \* "running", or how the process ended
    live,                  \* history: blocks returned since the last reset
    frozen                 \* history: arenas that were mprotect'ed

vars == <<base, cursor, limit, readonly, mem, status, live, frozen>>

\* Blocks carry the size the client asked for, not the rounded one.
Block == [tag: Tags, ptr: Addr, size: Sizes]

-----------------------------------------------------------------------------

\* Seeded fault: the bytes are not rounded.
RoundUp8_truncates(size) == ((size % SIZE_T) \div 8) * 8

\* (size + 7) & ~7 on size_t
RoundUp8(size) == (((size + 7) % SIZE_T) \div 8) * 8

PtrAdd(p, n) == (p + n) % SIZE_T

\* Zero-initialised globals: both arenas are the empty range at NULL.
Init ==
    /\ base = [t \in Tags |-> 0]
    /\ cursor = [t \in Tags |-> 0]
    /\ limit = [t \in Tags |-> 0]
    /\ readonly = {}
    /\ mem = [w \in Words |-> Zero]
    /\ status = "running"
    /\ live = {}
    /\ frozen = {}

\* _start initialises an arena before any other call on it, and only once.
Mapped == {t \in Tags : limit[t] > 0}

\* mmap(NULL, capacity, RW, PRIVATE | ANONYMOUS) returned b: whole pages that
\* no other mapping uses, zero-filled.
Mmap(t, b) ==
    /\ b \in Words \ {0}
    /\ b + Capacity[t] \in Addr
    /\ \A u \in Tags \ {t} : b + Capacity[t] <= base[u] \/ limit[u] <= b

arena_init(t) ==
    /\ t \notin Mapped
    /\ \E b \in Words :
          /\ Mmap(t, b)
          /\ base' = [base EXCEPT ![t] = b]
          /\ cursor' = [cursor EXCEPT ![t] = b]
          /\ limit' = [limit EXCEPT ![t] = b + Capacity[t]]
    /\ UNCHANGED <<readonly, mem, status, live, frozen>>

\* Seeded fault: the check leaves out the requested bytes.
exceeds_ignores_size(t, size) == PtrAdd(cursor[t], 0) > limit[t]

\* Seeded fault: >= in place of >, the last bytes are never handed out.
exceeds_off_by_one(t, size) == PtrAdd(cursor[t], size) >= limit[t]

\* if (a->cursor + size > a->limit) exit(1): size is already rounded
exceeds(t, size) == PtrAdd(cursor[t], size) > limit[t]

arena_alloc(t, size) ==
    /\ ~ exceeds(t, RoundUp8(size))
    /\ cursor' = [cursor EXCEPT ![t] = PtrAdd(@, RoundUp8(size))]
    /\ live' = live \cup {[tag |-> t, ptr |-> cursor[t], size |-> size]}
    /\ UNCHANGED <<base, limit, readonly, mem, status, frozen>>

arena_exhausted(t, size) ==
    /\ exceeds(t, RoundUp8(size))
    /\ status' = "exited"
    /\ UNCHANGED <<base, cursor, limit, readonly, mem, live, frozen>>

\* The entry point of compiled code: every tag but ARENA_STATIC is the request arena.
lambpie_arena_alloc(tag, size) ==
    LET t == IF tag = ARENA_STATIC THEN ARENA_STATIC ELSE ARENA_REQ
    IN  arena_alloc(t, size) \/ arena_exhausted(t, size)

\* The contents stay: nothing is zeroed.
arena_reset(t) ==
    /\ cursor' = [cursor EXCEPT ![t] = base[t]]
    /\ live' = {b \in live : b.tag # t}
    /\ UNCHANGED <<base, limit, readonly, mem, status, frozen>>

\* Seeded fault: only the used part is protected (as in an earlier arena_freeze).
ProtectedWords_used_part(t) == {w \in Words : base[t] <= w /\ w < cursor[t]}

\* What mprotect(base, capacity, PROT_READ) covers: the whole mapping, used or not.
ProtectedWords(t) == {w \in Words : base[t] <= w /\ w < limit[t]}

arena_freeze(t) ==
    /\ IF limit[t] - base[t] > 0
       THEN /\ readonly' = readonly \cup ProtectedWords(t)
            /\ frozen' = frozen \cup {t}
       ELSE UNCHANGED <<readonly, frozen>>
    /\ UNCHANGED <<base, cursor, limit, mem, status, live>>

\* mmap in arena_init, or mprotect in arena_freeze, failed: exit(1).
os_failure(t) ==
    /\ t \notin Mapped \/ limit[t] - base[t] > 0
    /\ status' = "os_failure"
    /\ UNCHANGED <<base, cursor, limit, readonly, mem, live, frozen>>

\* Compiled code stores v into word w of a block it owns: the MMU faults on a
\* read-only word.
store(b, w, v) ==
    /\ b.ptr <= w /\ w < b.ptr + b.size
    /\ IF w \in readonly
       THEN status' = "sigsegv" /\ UNCHANGED mem
       ELSE mem' = [mem EXCEPT ![w] = v] /\ UNCHANGED status
    /\ UNCHANGED <<base, cursor, limit, readonly, live, frozen>>

Next ==
    /\ status = "running"
    /\ \/ \E t \in Tags : arena_init(t)
       \/ \E t \in Mapped : arena_reset(t)
       \/ \E t \in Mapped : arena_freeze(t)
       \/ \E t \in Tags : os_failure(t)
       \/ \E t \in Mapped, s \in Sizes : lambpie_arena_alloc(t, s)
       \/ \E b \in live, w \in Words, v \in Values : store(b, w, v)

Spec == Init /\ [][Next]_vars

-----------------------------------------------------------------------------

TypeOK ==
    /\ base \in [Tags -> Words]
    /\ cursor \in [Tags -> Words]
    /\ limit \in [Tags -> Words]
    /\ readonly \subseteq Words
    /\ mem \in [Words -> Values]
    /\ status \in {"running", "exited", "os_failure", "sigsegv"}
    /\ live \subseteq Block
    /\ frozen \subseteq Tags

\* No two blocks that are live share a byte, and every block is 8-aligned and
\* within the part of its arena below the cursor: what arena_alloc's rounding,
\* limit check and bump must achieve together, over any sequence of calls and
\* for the two arenas next to each other.
BlocksDisjoint ==
    \A b \in live :
        /\ b.ptr % 8 = 0
        /\ base[b.tag] <= b.ptr /\ b.ptr + b.size <= cursor[b.tag]
        /\ \A c \in live \ {b} : b.ptr + b.size <= c.ptr \/ c.ptr + c.size <= b.ptr

\* The bytes of arena t.
InArena(t, w) == base[t] <= w /\ w < limit[t]

\* Once arena_freeze has returned, no word of the arena changes any more: not a
\* block from before the freeze, not a block allocated after it, not after a
\* reset ("any write ... fault immediately", arena.c:47-48).
FrozenMemory ==
    [][\A t \in frozen : \A w \in Words : InArena(t, w) => mem'[w] = mem[w]]_vars

\* The arenas keep RegionAllocator's promises; in particular arena_alloc exits
\* for exhaustion only when no free place in the arena could hold the block.
Regions == INSTANCE RegionAllocator WITH lo <- base, hi <- limit, Align <- 8
RegionSpec == Regions!Spec
=============================================================================
