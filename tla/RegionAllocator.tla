-------------------------- MODULE RegionAllocator --------------------------
(***************************************************************************)
(* What the two memory arenas of the lambpie runtime promise their client, *)
(* with nothing said about cursors: memory regions that appear once, blocks *)
(* handed out of a region that are aligned, inside it and disjoint from     *)
(* every block still live, all blocks of a region released together, and    *)
(* a process that stops for lack of room only when no block of the          *)
(* requested size would fit.  Arena implements it (Arena!Regions).          *)
(***************************************************************************)
EXTENDS Integers

CONSTANTS Tags,      \* names of the regions
          Sizes,     \* block sizes a client may ask for, in bytes
          Align,     \* alignment of every block, in bytes
          AddrTop    \* all regions lie in 0 .. AddrTop

VARIABLES lo, hi,    \* region t is the addresses lo[t] .. hi[t] - 1
          live,      \* blocks handed out and not yet released
          status     \* "running", or how the process ended

vars == <<lo, hi, live, status>>

Addr == 0 .. AddrTop

Block == [tag: Tags, ptr: Addr, size: Sizes]

Init ==
    /\ lo = [t \in Tags |-> 0]
    /\ hi = [t \in Tags |-> 0]
    /\ live = {}
    /\ status = "running"

\* No byte of b is a byte of c.
Apart(b, c) == b.ptr + b.size <= c.ptr \/ c.ptr + c.size <= b.ptr

\* Block b could be handed out now.
Fits(b) ==
    /\ b.ptr % Align = 0
    /\ lo[b.tag] <= b.ptr
    /\ b.ptr + b.size <= hi[b.tag]
    /\ \A c \in live : Apart(b, c)

\* A region appears, clear of the others.
Map(t) ==
    /\ hi[t] = 0
    /\ \E l, h \in Addr :
          /\ \A u \in Tags \ {t} : h <= lo[u] \/ hi[u] <= l
          /\ lo' = [lo EXCEPT ![t] = l]
          /\ hi' = [hi EXCEPT ![t] = h]
    /\ UNCHANGED <<live, status>>

Alloc(t, s) ==
    /\ \E p \in Addr :
          /\ Fits([tag |-> t, ptr |-> p, size |-> s])
          /\ live' = live \cup {[tag |-> t, ptr |-> p, size |-> s]}
    /\ UNCHANGED <<lo, hi, status>>

\* Running out of room: region t has no place for s bytes.
Exhausted(t, s) ==
    /\ ~ \E p \in Addr : Fits([tag |-> t, ptr |-> p, size |-> s])
    /\ status' = "exited"
    /\ UNCHANGED <<lo, hi, live>>

Release(t) ==
    /\ live' = {b \in live : b.tag # t}
    /\ UNCHANGED <<lo, hi, status>>

\* The kernel refuses a mapping or a protection, or a write faults.
Die ==
    /\ status' \in {"os_failure", "sigsegv"}
    /\ UNCHANGED <<lo, hi, live>>

Next ==
    /\ status = "running"
    /\ \/ \E t \in Tags : Map(t) \/ Release(t)
       \/ \E t \in Tags, s \in Sizes : Alloc(t, s) \/ Exhausted(t, s)
       \/ Die

Spec == Init /\ [][Next]_vars
=============================================================================
