---------------------------- MODULE ArenaProofs ----------------------------
(***************************************************************************)
(* Proofs about Arena for every address-space size, capacity and set of     *)
(* request sizes that satisfy ArenaAssumption.                              *)
(***************************************************************************)
EXTENDS Arena, TLAPS

-----------------------------------------------------------------------------
(* Arithmetic of size_t and of pointers, in the range without wrap-around.   *)

LEMMA ModSmall ==
    ASSUME NEW m \in Nat, NEW x \in Nat, x < m
    PROVE  x % m = x
OBVIOUS

\* Rounding adds less than a word and yields a multiple of 8.
LEMMA RoundUpBounds ==
    ASSUME NEW s \in Sizes
    PROVE  /\ RoundUp8(s) \in Nat
           /\ RoundUp8(s) % 8 = 0
           /\ s <= RoundUp8(s)
           /\ RoundUp8(s) < s + 8
<1>1. s \in Nat /\ AddrTop \in Nat /\ SIZE_T \in Nat /\ AddrTop + s + 7 < SIZE_T
  BY ArenaAssumption
<1>2. (s + 7) % SIZE_T = s + 7
  BY <1>1, ModSmall
<1>3. RoundUp8(s) = ((s + 7) \div 8) * 8
  BY <1>2 DEF RoundUp8
<1> QED
  BY <1>1, <1>3

\* Adding a rounded size to an address does not wrap.
LEMMA PtrAddNoWrap ==
    ASSUME NEW p \in Addr, NEW s \in Sizes
    PROVE  PtrAdd(p, RoundUp8(s)) = p + RoundUp8(s)
<1>1. s \in Nat /\ AddrTop \in Nat /\ SIZE_T \in Nat /\ AddrTop + s + 7 < SIZE_T
  BY ArenaAssumption
<1>2. p \in Nat /\ p <= AddrTop
  BY <1>1 DEF Addr
<1>3. p + RoundUp8(s) \in Nat /\ p + RoundUp8(s) < SIZE_T
  BY <1>1, <1>2, RoundUpBounds
<1> QED
  BY <1>1, <1>3, ModSmall DEF PtrAdd

-----------------------------------------------------------------------------
(* The inductive invariant.  TypeOK and BlocksDisjoint are not inductive:    *)
(* a new block is clear of the others only because every block ends below    *)
(* the cursor of its arena and the arenas do not overlap (Layout), and       *)
(* memory stays frozen only while the whole arena is read-only (FrozenRO).   *)

\* Arenas are ordered ranges, clear of each other; only mapped ones have blocks.
Layout ==
    /\ \A t \in Tags : base[t] <= cursor[t] /\ cursor[t] <= limit[t]
    /\ \A t, u \in Tags : t # u => limit[t] <= base[u] \/ limit[u] <= base[t]
    /\ \A b \in live : b.tag \in Mapped

\* Every word below the cursor belongs to a live block: no hole.
Compact ==
    \A t \in Tags : \A w \in Words :
        base[t] <= w /\ w < cursor[t] =>
            \E b \in live : b.tag = t /\ b.ptr <= w /\ w < b.ptr + b.size

FrozenRO ==
    \A t \in frozen : limit[t] > 0 /\ ProtectedWords(t) \subseteq readonly

IInv == TypeOK /\ Layout /\ BlocksDisjoint /\ Compact /\ FrozenRO

\* Addresses are naturals, words are addresses, sizes are naturals.
LEMMA Basics ==
    /\ AddrTop \in Nat
    /\ \A t \in Tags : Capacity[t] \in Nat /\ Capacity[t] % 8 = 0
    /\ \A a \in Addr : a \in Nat /\ a <= AddrTop
    /\ \A w \in Words : w \in Nat /\ w <= AddrTop /\ w % 8 = 0 /\ w \in Addr
    /\ \A s \in Sizes : s \in Nat
    /\ \A b \in Block : b.ptr \in Nat /\ b.size \in Nat /\ b.tag \in Tags
    /\ 0 \in Words
<1>1. AddrTop \in Nat /\ \A t \in Tags : Capacity[t] \in Nat /\ Capacity[t] % 8 = 0
  BY ArenaAssumption
<1>2. \A a \in Addr : a \in Nat /\ a <= AddrTop
  BY <1>1 DEF Addr
<1>3. \A s \in Sizes : s \in Nat
  BY ArenaAssumption
<1>4. \A b \in Block : b.ptr \in Nat /\ b.size \in Nat /\ b.tag \in Tags
  BY <1>2, <1>3 DEF Block
<1>5. 0 \in Words
  BY <1>1 DEF Addr, Words
<1>6. \A w \in Words : w \in Nat /\ w <= AddrTop /\ w % 8 = 0 /\ w \in Addr
  BY <1>2 DEF Words
<1> QED
  BY <1>1, <1>2, <1>3, <1>4, <1>5, <1>6

LEMMA InitIInv == Init => IInv
<1> SUFFICES ASSUME Init PROVE IInv
  OBVIOUS
<1>1. TypeOK
  BY Basics, ArenaAssumption DEF Init, TypeOK
<1>2. Layout
  BY DEF Init, Layout
<1>3. BlocksDisjoint
  BY DEF Init, BlocksDisjoint
<1>4. Compact
  BY Basics DEF Init, Compact
<1>5. FrozenRO
  BY DEF Init, FrozenRO
<1> QED
  BY <1>1, <1>2, <1>3, <1>4, <1>5 DEF IInv

\* A new arena lies clear of the other one, and is empty.
LEMMA InitArenaStep ==
    ASSUME IInv, NEW t \in Tags, arena_init(t)
    PROVE  IInv'
<1>1. PICK b \in Words :
          /\ Mmap(t, b)
          /\ base' = [base EXCEPT ![t] = b]
          /\ cursor' = [cursor EXCEPT ![t] = b]
          /\ limit' = [limit EXCEPT ![t] = b + Capacity[t]]
  BY DEF arena_init
<1>2. UNCHANGED <<readonly, mem, status, live, frozen>> /\ limit[t] = 0
  BY Basics DEF arena_init, Mapped, IInv, TypeOK
<1>3. b + Capacity[t] \in Words
  BY <1>1, Basics DEF Mmap, Words
<1>4. TypeOK'
  BY <1>1, <1>2, <1>3 DEF IInv, TypeOK
<1>5. base[t] = 0 /\ cursor[t] = 0 /\ t \notin frozen
  BY <1>2, Basics DEF IInv, TypeOK, Layout, FrozenRO
<1>6. \A c \in live : c \in Block /\ c.tag # t
  BY <1>2, Basics DEF IInv, TypeOK, Layout, Mapped
<1>7. Layout'
  <2>1. \A u \in Tags : base'[u] <= cursor'[u] /\ cursor'[u] <= limit'[u]
    BY <1>1, <1>3, Basics DEF IInv, TypeOK, Layout
  <2>2. ASSUME NEW u \in Tags, NEW v \in Tags, u # v
        PROVE  limit'[u] <= base'[v] \/ limit'[v] <= base'[u]
    BY <1>1, <1>3, <2>2, Basics DEF IInv, TypeOK, Layout, Mmap
  <2>3. \A c \in live' : c.tag \in Mapped'
    BY <1>1, <1>2, <1>6, Basics DEF IInv, TypeOK, Layout, Mapped
  <2> QED
    BY <2>1, <2>2, <2>3 DEF Layout
<1>8. BlocksDisjoint'
  BY <1>1, <1>2, <1>6, Basics DEF IInv, TypeOK, BlocksDisjoint
<1>9. Compact'
  BY <1>1, <1>2, Basics DEF IInv, TypeOK, Compact
<1>10. FrozenRO'
  BY <1>1, <1>2, <1>5 DEF IInv, TypeOK, FrozenRO, ProtectedWords
<1> QED
  BY <1>4, <1>7, <1>8, <1>9, <1>10 DEF IInv

\* A new block takes the words between the old cursor and the new one.
LEMMA AllocStep ==
    ASSUME IInv, NEW t \in Mapped, NEW s \in Sizes, arena_alloc(t, s)
    PROVE  IInv'
<1> DEFINE n == RoundUp8(s)
           nb == [tag |-> t, ptr |-> cursor[t], size |-> s]
<1>1. /\ cursor[t] \in Words /\ limit[t] \in Words /\ t \in Tags
      /\ base \in [Tags -> Words] /\ limit \in [Tags -> Words]
      /\ cursor \in [Tags -> Words]
  BY DEF IInv, TypeOK, Mapped
<1>2. n \in Nat /\ n % 8 = 0 /\ s <= n /\ n < s + 8 /\ s \in Nat
  BY RoundUpBounds, Basics
<1>3. PtrAdd(cursor[t], n) = cursor[t] + n
  BY <1>1, PtrAddNoWrap, Basics
<1> HIDE DEF n
<1>4. /\ cursor[t] + n <= limit[t]
      /\ cursor' = [cursor EXCEPT ![t] = cursor[t] + n]
      /\ live' = live \cup {nb}
      /\ UNCHANGED <<base, limit, readonly, mem, status, frozen>>
  BY <1>1, <1>2, <1>3, Basics DEF arena_alloc, exceeds, n
<1>5. cursor[t] + n \in Words
  BY <1>1, <1>2, <1>4, Basics DEF Words, Addr
<1>6. nb \in Block
  BY <1>1, Basics DEF Block
<1>7. TypeOK'
  BY <1>1, <1>4, <1>5, <1>6 DEF IInv, TypeOK
<1>8. Layout'
  BY <1>1, <1>2, <1>4, Basics DEF IInv, Layout, Mapped
<1>9. BlocksDisjoint'
  <2>1. \A c \in live : c \in Block /\ c.ptr + c.size <= cursor'[c.tag]
    BY <1>1, <1>2, <1>4, Basics DEF IInv, TypeOK, BlocksDisjoint
  <2>2. ASSUME NEW c \in live PROVE c.ptr + c.size <= nb.ptr \/ nb.ptr + nb.size <= c.ptr
    <3>1. c \in Block /\ base[c.tag] <= c.ptr /\ c.ptr + c.size <= cursor[c.tag]
      BY DEF IInv, TypeOK, BlocksDisjoint
    <3>2. CASE c.tag = t
      BY <3>1, <3>2
    <3>3. CASE c.tag # t
      BY <1>1, <1>2, <1>4, <3>1, <3>3, Basics DEF IInv, Layout
    <3> QED
      BY <3>2, <3>3
  <2>3. nb.ptr % 8 = 0 /\ base'[t] <= nb.ptr /\ nb.ptr + nb.size <= cursor'[t]
    BY <1>1, <1>2, <1>4, Basics DEF IInv, Layout
  <2> HIDE DEF nb
  <2>4. nb.tag = t
    BY DEF nb
  <2> QED
    BY <1>4, <2>1, <2>2, <2>3, <2>4 DEF IInv, BlocksDisjoint
<1>10. Compact'
  <2> SUFFICES ASSUME NEW u \in Tags, NEW w \in Words, base[u] <= w, w < cursor'[u]
               PROVE  \E c \in live' : c.tag = u /\ c.ptr <= w /\ w < c.ptr + c.size
    BY <1>4 DEF Compact
  <2>1. CASE w < cursor[u]
    BY <1>4, <2>1 DEF IInv, Compact
  <2>2. CASE ~ (w < cursor[u])
    <3>1. u = t
      BY <1>1, <1>4, <2>2
    <3>2. cursor[t] <= w /\ w < cursor[t] + n
      BY <1>1, <1>4, <2>2, <3>1, Basics
    <3>3. w < cursor[t] + s
      BY <1>1, <1>2, <3>2, Basics
    <3>4. nb \in live' /\ nb.tag = u /\ nb.ptr = cursor[t] /\ nb.size = s
      BY <1>4, <3>1
    <3> QED
      BY <3>2, <3>3, <3>4
  <2> QED
    BY <2>1, <2>2
<1>11. FrozenRO'
  BY <1>4 DEF IInv, FrozenRO, ProtectedWords
<1> QED
  BY <1>7, <1>8, <1>9, <1>10, <1>11 DEF IInv

\* Resetting leaves the arena empty and the memory as it was.
LEMMA ResetStep ==
    ASSUME IInv, NEW t \in Mapped, arena_reset(t)
    PROVE  IInv'
<1> USE DEF arena_reset
<1>1. t \in Tags
  BY DEF Mapped
<1>2. TypeOK'
  BY <1>1 DEF IInv, TypeOK
<1>3. Layout'
  BY <1>1, Basics DEF IInv, TypeOK, Layout, Mapped
<1>4. BlocksDisjoint'
  BY <1>1, Basics DEF IInv, TypeOK, BlocksDisjoint
<1>5. Compact'
  <2> SUFFICES ASSUME NEW u \in Tags, NEW w \in Words, base[u] <= w, w < cursor'[u]
               PROVE  \E c \in live' : c.tag = u /\ c.ptr <= w /\ w < c.ptr + c.size
    BY DEF Compact
  <2>1. u # t
    BY <1>1, Basics DEF IInv, TypeOK
  <2>2. PICK c \in live : c.tag = u /\ c.ptr <= w /\ w < c.ptr + c.size
    BY <1>1, <2>1 DEF IInv, TypeOK, Compact
  <2> QED
    BY <2>1, <2>2
<1>6. FrozenRO'
  BY DEF IInv, FrozenRO, ProtectedWords
<1> QED
  BY <1>2, <1>3, <1>4, <1>5, <1>6 DEF IInv

\* Freezing covers the arena up to its limit.
LEMMA FreezeStep ==
    ASSUME IInv, NEW t \in Mapped, arena_freeze(t)
    PROVE  IInv'
<1> USE DEF arena_freeze
<1>1. t \in Tags /\ limit[t] > 0
  BY DEF Mapped
<1>2. TypeOK'
  BY <1>1 DEF IInv, TypeOK, ProtectedWords
<1>3. Layout' /\ BlocksDisjoint' /\ Compact'
  BY DEF IInv, Layout, BlocksDisjoint, Compact, Mapped
<1>4. FrozenRO'
  BY <1>1 DEF IInv, FrozenRO, ProtectedWords
<1> QED
  BY <1>2, <1>3, <1>4 DEF IInv

\* Steps that change only memory contents or the status of the process.
LEMMA OtherSteps ==
    ASSUME IInv,
           \/ \E t \in Tags : os_failure(t)
           \/ \E t \in Tags, s \in Sizes : arena_exhausted(t, s)
           \/ \E b \in live, w \in Words, v \in Values : store(b, w, v)
           \/ UNCHANGED vars
    PROVE  IInv'
<1>1. UNCHANGED <<base, cursor, limit, readonly, live, frozen>>
  BY DEF os_failure, arena_exhausted, store, vars
<1>2. mem' \in [Words -> Values] /\ status' \in {"running", "exited", "os_failure", "sigsegv"}
  BY DEF os_failure, arena_exhausted, store, vars, IInv, TypeOK
<1> QED
  BY <1>1, <1>2
  DEF IInv, TypeOK, Layout, BlocksDisjoint, Compact, FrozenRO, Mapped, ProtectedWords

\* What lambpie_arena_alloc does for a tag of the two arenas.
LEMMA AllocCases ==
    ASSUME NEW t \in Mapped, NEW s \in Sizes, lambpie_arena_alloc(t, s)
    PROVE  arena_alloc(t, s) \/ arena_exhausted(t, s)
BY DEF lambpie_arena_alloc, Mapped, Tags, ARENA_STATIC, ARENA_REQ

LEMMA StepIInv == IInv /\ [Next]_vars => IInv'
<1> SUFFICES ASSUME IInv, [Next]_vars PROVE IInv'
  OBVIOUS
<1>1. ASSUME NEW t \in Tags, arena_init(t) PROVE IInv'
  BY <1>1, InitArenaStep
<1>2. ASSUME NEW t \in Mapped, arena_reset(t) PROVE IInv'
  BY <1>2, ResetStep
<1>3. ASSUME NEW t \in Mapped, arena_freeze(t) PROVE IInv'
  BY <1>3, FreezeStep
<1>4. ASSUME NEW t \in Tags, os_failure(t) PROVE IInv'
  BY <1>4, OtherSteps
<1>5. ASSUME NEW t \in Mapped, NEW s \in Sizes, lambpie_arena_alloc(t, s) PROVE IInv'
  BY <1>5, AllocCases, AllocStep, OtherSteps DEF Mapped
<1>6. ASSUME NEW b \in live, NEW w \in Words, NEW v \in Values, store(b, w, v) PROVE IInv'
  BY <1>6, OtherSteps
<1>7. CASE UNCHANGED vars
  BY <1>7, OtherSteps
<1> QED
  BY <1>1, <1>2, <1>3, <1>4, <1>5, <1>6, <1>7 DEF Next

\* The inductive invariant holds of every reachable state.
THEOREM Invariance == Spec => []IInv
<1>1. Init => IInv
  BY InitIInv
<1>2. IInv /\ [Next]_vars => IInv'
  BY StepIInv
<1> QED
  BY <1>1, <1>2, PTL DEF Spec

\* Type correctness: cursors and limits stay aligned addresses, whatever the
\* sequence of calls and the sizes asked for.
THEOREM TypeCorrectness == Spec => []TypeOK
<1>1. IInv => TypeOK
  BY DEF IInv
<1> QED
  BY <1>1, Invariance, PTL

\* Live blocks are aligned, in bounds and pairwise disjoint, across both arenas.
THEOREM LiveBlocksDisjoint == Spec => []BlocksDisjoint
<1>1. IInv => BlocksDisjoint
  BY DEF IInv
<1> QED
  BY <1>1, Invariance, PTL

-----------------------------------------------------------------------------

\* A frozen arena never changes: the only store that is not a fault is outside
\* every read-only word, and the whole arena is read-only.
THEOREM FrozenMemoryNeverChanges == Spec => FrozenMemory
<1> DEFINE Kept == \A t \in frozen : \A w \in Words : InArena(t, w) => mem'[w] = mem[w]
<1>1. IInv /\ [Next]_vars => [Kept]_vars
  <2> SUFFICES ASSUME IInv, Next, NEW t \in frozen, NEW w \in Words, InArena(t, w)
               PROVE  mem'[w] = mem[w]
    OBVIOUS
  <2>1. w \in readonly
    BY DEF IInv, FrozenRO, ProtectedWords, InArena
  <2>2. ASSUME NEW b \in live, NEW x \in Words, NEW v \in Values, store(b, x, v)
        PROVE  mem'[w] = mem[w]
    BY <2>1, <2>2 DEF store, IInv, TypeOK
  <2>3. CASE UNCHANGED mem
    BY <2>3
  <2> QED
    BY <2>2, <2>3 DEF Next, arena_init, arena_reset, arena_freeze, os_failure,
                      lambpie_arena_alloc, arena_alloc, arena_exhausted
<1> QED
  BY <1>1, Invariance, PTL DEF Spec, FrozenMemory

-----------------------------------------------------------------------------
(* Arena implements RegionAllocator.                                        *)

\* Below the cursor every word is taken, so a block that fits starts at or above
\* it, and then its rounded size fits as well.
LEMMA ExhaustionIsExact ==
    ASSUME IInv, NEW t \in Mapped, NEW s \in Sizes, exceeds(t, RoundUp8(s)),
           NEW p \in Addr
    PROVE  ~ Regions!Fits([tag |-> t, ptr |-> p, size |-> s])
<1> DEFINE n == RoundUp8(s)
<1>1. /\ cursor[t] \in Words /\ limit[t] \in Words /\ base[t] \in Words /\ t \in Tags
      /\ base[t] <= cursor[t] /\ cursor[t] <= limit[t]
  BY DEF IInv, TypeOK, Mapped, Layout
<1>2. n \in Nat /\ n % 8 = 0 /\ s <= n /\ n < s + 8 /\ s \in Nat
  BY RoundUpBounds, Basics
<1>3. cursor[t] + n > limit[t]
  BY <1>1, PtrAddNoWrap, Basics DEF exceeds
<1> HIDE DEF n
<1> SUFFICES ASSUME /\ p % 8 = 0
                    /\ base[t] <= p
                    /\ p + s <= limit[t]
                    /\ \A c \in live : p + s <= c.ptr \/ c.ptr + c.size <= p
             PROVE  FALSE
  BY DEF Regions!Fits, Regions!Apart
<1>4. p \in Words
  BY DEF Words
<1>5. s > 0
  <2>1. s = 0 => n = 0
    BY <1>2
  <2>2. cursor[t] \in Nat /\ limit[t] \in Nat
    BY <1>1, Basics
  <2> QED
    BY <1>1, <1>2, <1>3, <2>1, <2>2
<1>6. CASE p < cursor[t]
  <2>1. PICK c \in live : c.tag = t /\ c.ptr <= p /\ p < c.ptr + c.size
    BY <1>1, <1>4, <1>6 DEF IInv, Compact
  <2>2. c.ptr \in Nat /\ c.size \in Nat
    BY Basics DEF IInv, TypeOK
  <2> QED
    BY <1>2, <1>4, <1>5, <2>1, <2>2, Basics
<1>7. CASE p >= cursor[t]
  <2>1. p + n <= limit[t]
    BY <1>1, <1>2, <1>4, Basics
  <2> QED
    BY <1>1, <1>2, <1>3, <1>4, <1>7, <2>1, Basics
<1> QED
  BY <1>1, <1>4, <1>6, <1>7, Basics

\* Every step of the arenas is a step of the allocator or changes nothing of it.
LEMMA StepRefines ==
    ASSUME IInv, Next
    PROVE  [Regions!Next]_(Regions!vars)
<1>1. status = "running"
  BY DEF Next
<1>2. ASSUME NEW t \in Tags, arena_init(t) PROVE Regions!Map(t)
  <2>1. PICK b \in Words :
            /\ Mmap(t, b)
            /\ base' = [base EXCEPT ![t] = b]
            /\ limit' = [limit EXCEPT ![t] = b + Capacity[t]]
    BY <1>2 DEF arena_init
  <2>2. limit[t] = 0
    BY <1>2, Basics DEF arena_init, Mapped, IInv, TypeOK
  <2>3. b \in Addr /\ b + Capacity[t] \in Addr
    BY <2>1, Basics DEF Mmap
  <2> QED
    BY <1>2, <2>1, <2>2, <2>3 DEF arena_init, Mmap, Regions!Map, Regions!Addr, Addr
<1>3. ASSUME NEW t \in Mapped, arena_reset(t) PROVE Regions!Release(t)
  BY <1>3 DEF arena_reset, Regions!Release
<1>4. ASSUME NEW t \in Mapped, arena_freeze(t) PROVE UNCHANGED Regions!vars
  BY <1>4 DEF arena_freeze, Regions!vars
<1>5. ASSUME NEW t \in Tags, os_failure(t) PROVE Regions!Die
  BY <1>5 DEF os_failure, Regions!Die
<1>6. ASSUME NEW t \in Mapped, NEW s \in Sizes, arena_alloc(t, s) PROVE Regions!Alloc(t, s)
  <2> DEFINE nb == [tag |-> t, ptr |-> cursor[t], size |-> s]
  <2>1. IInv' /\ t \in Tags
    BY <1>6, AllocStep DEF Mapped
  <2>2. nb \in live' /\ live' = live \cup {nb} /\ UNCHANGED <<base, limit, status>>
    BY <1>6 DEF arena_alloc
  <2>3. cursor[t] \in Words /\ cursor[t] \in Addr
    BY <2>1, Basics DEF IInv, TypeOK
  <2>4. cursor[t] % 8 = 0 /\ base[t] <= cursor[t] /\ cursor[t] + s <= limit[t]
    <3>1. cursor[t] + s <= cursor'[t] /\ cursor'[t] <= limit[t]
      BY <2>1, <2>2 DEF IInv, BlocksDisjoint, Layout
    <3>2. cursor'[t] \in Nat /\ limit[t] \in Nat /\ s \in Nat
      BY <2>1, <2>2, Basics DEF IInv, TypeOK
    <3> QED
      BY <2>1, <2>3, <3>1, <3>2, Basics DEF IInv, Layout
  <2>5. ASSUME NEW c \in live PROVE cursor[t] + s <= c.ptr \/ c.ptr + c.size <= cursor[t]
    <3>1. c \in Block /\ base[c.tag] <= c.ptr /\ c.ptr + c.size <= cursor[c.tag]
      BY DEF IInv, TypeOK, BlocksDisjoint
    <3>2. CASE c.tag = t
      BY <3>1, <3>2
    <3>3. CASE c.tag # t
      <4>1. /\ limit[t] <= base[c.tag] \/ limit[c.tag] <= base[t]
            /\ cursor[c.tag] <= limit[c.tag]
        BY <2>1, <3>1, <3>3, Basics DEF IInv, Layout
      <4>2. /\ limit[t] \in Nat /\ base[t] \in Nat /\ s \in Nat /\ cursor[t] \in Nat
            /\ cursor[c.tag] \in Nat /\ limit[c.tag] \in Nat /\ base[c.tag] \in Nat
            /\ c.ptr \in Nat /\ c.size \in Nat
        BY <2>1, <3>1, Basics DEF IInv, TypeOK
      <4> QED
        BY <2>4, <3>1, <4>1, <4>2
    <3> QED
      BY <3>2, <3>3
  <2>6. Regions!Fits(nb)
    BY <2>4, <2>5 DEF Regions!Fits, Regions!Apart
  <2> QED
    BY <2>2, <2>3, <2>6 DEF Regions!Alloc, Regions!Addr, Addr
<1>7. ASSUME NEW t \in Mapped, NEW s \in Sizes, arena_exhausted(t, s)
      PROVE  Regions!Exhausted(t, s)
  BY <1>7, ExhaustionIsExact DEF arena_exhausted, Regions!Exhausted, Regions!Addr, Addr
<1>8. ASSUME NEW b \in live, NEW w \in Words, NEW v \in Values, store(b, w, v)
      PROVE  Regions!Die \/ UNCHANGED Regions!vars
  BY <1>8 DEF store, Regions!Die, Regions!vars
<1>9. \A t \in Mapped : t \in Tags
  BY DEF Mapped
<1> QED
  BY <1>1, <1>2, <1>3, <1>4, <1>5, <1>6, <1>7, <1>8, <1>9, AllocCases DEF Next, Regions!Next

\* The bump arenas implement the abstract allocator: blocks are always fresh,
\* and arena_alloc ends the process only when no free place could hold the block.
THEOREM ArenaImplementsRegions == Spec => RegionSpec
<1>1. Init => Regions!Init
  BY DEF Init, Regions!Init
<1>2. IInv /\ [Next]_vars => [Regions!Next]_(Regions!vars)
  BY StepRefines DEF vars, Regions!vars
<1> QED
  BY <1>1, <1>2, Invariance, PTL DEF Spec, RegionSpec, Regions!Spec
=============================================================================
