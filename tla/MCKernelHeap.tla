---------------------------- MODULE MCKernelHeap ----------------------------
(* Instances of KernelHeap for TLC. *)
EXTENDS KernelHeap

Array(num, size) == [num |-> num, size |-> size]

\* Two elements, and two of half a word each, whose product is 0.
MCArrays == {Array(2, 9), Array(2, WORD \div 2)}

MCArena == [lo |-> 0, hi |-> 9 * FRAME_SIZE]
=============================================================================
