------------------------------ MODULE MCArena ------------------------------
(* A small instance of Arena: 16-byte arenas in 40 bytes of address space,   *)
(* so that both fill up after a few calls and may lie next to each other.    *)
EXTENDS Arena

MCCapacity == [t \in Tags |-> 16]
=============================================================================
