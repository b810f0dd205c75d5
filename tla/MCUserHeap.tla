----------------------------- MODULE MCUserHeap -----------------------------
(* Instances of UserHeap for TLC. *)
EXTENDS UserHeap

Array(num, size) == [num |-> num, size |-> size]

\* Two elements, none, and a product past the largest allocation.
MCArrays == {Array(2, 9), Array(0, 9), Array(2, MAX_SINGLE_ALLOC)}
=============================================================================
