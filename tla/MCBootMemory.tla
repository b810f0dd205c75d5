---------------------------- MODULE MCBootMemory ----------------------------
(* Instances of BootMemory for TLC, in units of 1/4 frame. *)
EXTENDS BootMemory

Entry(addr, len, available) == [addr |-> addr, len |-> len, available |-> available]

\* Entries below, across and above KERNEL_TOP (32), some reserved, some not
\* on a frame boundary, some too small.
Entries ==
    {Entry(0, 30, TRUE), Entry(2, 70, TRUE), Entry(4, 70, FALSE), Entry(30, 3, TRUE),
     Entry(33, 40, TRUE), Entry(72, 41, TRUE), Entry(74, 60, FALSE), Entry(120, 19, TRUE)}

Apart(e, f) == e.addr + e.len <= f.addr \/ f.addr + f.len <= e.addr

\* Memory maps of up to three entries, in any order, none over another.
Mmap(entries) == [kind |-> "mmap", entries |-> entries, upper |-> 0]

MCMaps ==
    {Mmap(s) : s \in {q \in UNION {[1 .. n -> Entries] : n \in 0 .. 3} :
                        \A i, j \in DOMAIN q : i # j => Apart(q[i], q[j])}}

\* Upper memory that does not reach KERNEL_TOP, that leaves too little, enough
\* and plenty, and that does not fit in 32 bits.
MCBasics == {[kind |-> "basic", entries |-> <<>>, upper |-> u] : u \in {10, 30, 44, 60, WORD32 + 50}}

MCBootInfos == MCMaps \cup MCBasics \cup {[kind |-> "none", entries |-> <<>>, upper |-> 0]}

\* One entry across KERNEL_TOP, with more and more RAM above it: from a pool
\* whose nodes fit below KERNEL_TOP to one whose nodes do not.
MCLargeInfos == {Mmap(<<Entry(4, 28 + n, TRUE)>>) : n \in {40, 60, 80, 100, 120}}
=============================================================================
