--------------------------- MODULE PhysicalFrames ---------------------------
(***************************************************************************)
(* The physical memory manager, kernel/memory/physical.cpp, and the bump   *)
(* allocator its list nodes come from, kernel/memory/allocators.cpp.       *)
(*                                                                         *)
(* The free frames are a singly linked stack.  A node is two words of      *)
(* kernel memory, [address, previous], taken from __placement; alloc pops  *)
(* a node and never reuses its memory, free pushes a new one.  The memory  *)
(* the nodes live in is modelled word by word, so that memory given out    *)
(* twice by __placement shows: mem[p] is the word at kernel address p.     *)
(* Frame addresses are below KBASE and kernel addresses from KBASE on, as  *)
(* physical addresses and the kernel's half of the address space are.      *)
(*                                                                         *)
(* The operations are those the kernel calls: setup, alloc and free.  The  *)
(* overload alloc(blocks), which the source calls broken, has no caller.   *)
(***************************************************************************)
EXTENDS Naturals, Sequences

CONSTANTS
    FRAME_SIZE,  \* bytes in a frame
    KBASE,       \* first word __placement hands out (&_end)
    KWORDS,      \* bound: words of kernel memory that can be handed out
    Pools        \* [start, len] pairs that setup can be called with

ASSUME PhysicalAssumption ==
    /\ FRAME_SIZE \in Nat \ {0}
    /\ KBASE \in Nat \ {0}
    /\ KWORDS \in Nat
    /\ Pools \subseteq [start : Nat \ {0}, len : Nat]
    /\ \A p \in Pools : p.start + p.len < KBASE

Null == 0
NODE == 2                      \* words of a struct frame
Words == KBASE .. (KBASE + KWORDS - 1)

VARIABLES
    physical_end_,  \* end of the managed memory, 0 before setup
    free_list_,     \* address of the top node, or Null
    mem,            \* kernel memory handed out by __placement, as words
    placement,      \* __placement, the next word of kernel memory to be handed out
    owners,         \* frame -> how many clients hold it
    nodes           \* history: the nodes pushed and not popped, bottom first

vars == <<physical_end_, free_list_, mem, placement, owners, nodes>>

ALIGN_DOWN(a) == (a \div FRAME_SIZE) * FRAME_SIZE
ALIGN_UP(a) == ALIGN_DOWN(a + FRAME_SIZE - 1)
IS_ALIGNED(a) == a % FRAME_SIZE = 0

\* The frames that lie entirely in [start, start + len).
FramesOf(start, len) ==
    {a \in start .. (start + len) : IS_ALIGNED(a) /\ a + FRAME_SIZE <= start + len}

\* Every address below the end of some pool, page aligned or not.
Addresses == UNION {1 .. (p.start + p.len) : p \in Pools}

AllFrames == UNION {FramesOf(p.start, p.len) : p \in Pools}

Init ==
    /\ physical_end_ = 0
    /\ free_list_ = Null
    /\ mem = [w \in Words |-> 0]
    /\ placement = KBASE
    /\ owners = [f \in AllFrames |-> 0]
    /\ nodes = <<>>

-----------------------------------------------------------------------------
\* placement_kalloc hands out the next words, and none ever comes back.
Fits(words) == placement + words <= KBASE + KWORDS

\* physical::setup frees the frames of the pool from the lowest up, so that
\* node k (from 0) holds the k-th frame and points at node k - 1.
Setup(start, len) ==
    LET first == ALIGN_UP(start)
        last  == ALIGN_DOWN(start + len)
        n     == IF first < last THEN (last - first) \div FRAME_SIZE ELSE 0
        node(w) == (w - KBASE) \div NODE
    IN  /\ physical_end_ = 0
        /\ Fits(n * NODE)
        /\ physical_end_' = start + len
        /\ placement' = placement + n * NODE
        /\ mem' = [w \in Words |->
                     IF w >= KBASE + n * NODE THEN mem[w]
                     ELSE IF (w - KBASE) % NODE = 0 THEN first + node(w) * FRAME_SIZE
                     ELSE IF node(w) = 0 THEN Null ELSE w - 1 - NODE]
        /\ free_list_' = IF n = 0 THEN Null ELSE KBASE + (n - 1) * NODE
        /\ nodes' = [k \in 1 .. n |-> KBASE + (k - 1) * NODE]
        /\ UNCHANGED owners

\* physical::alloc(): pops the top node.  With no node left it returns null
\* and nothing changes.  A top node outside kernel memory is a page fault.
Top == mem[free_list_]
\* Slips of Previous: the wrong field is read; the node is not unlinked.
PreviousField == mem[free_list_]
PreviousSelf == free_list_
Previous == mem[free_list_ + 1]
Readable == free_list_ \in Words /\ free_list_ + 1 \in Words

Pop(s) == SubSeq(s, 1, Len(s) - 1)

Alloc ==
    /\ free_list_ # Null
    /\ Readable
    /\ Top \in DOMAIN owners
    /\ free_list_' = Previous
    /\ owners' = [owners EXCEPT ![Top] = @ + 1]
    /\ nodes' = Pop(nodes)
    /\ UNCHANGED <<physical_end_, mem, placement>>

\* physical::free(addr): an address that is not a frame below physical_end_ is
\* ignored; any other is pushed in a new node.
Rejected(addr) == ~ IS_ALIGNED(addr) \/ addr >= physical_end_

\* Slips of Push: the node is given one word; the old top is not linked.
PushShortNode(addr) ==
    /\ Fits(NODE)
    /\ mem' = [mem EXCEPT ![placement] = addr, ![placement + 1] = free_list_]
    /\ free_list_' = placement
    /\ placement' = placement + 1
    /\ nodes' = Append(nodes, placement)

PushUnlinked(addr) ==
    /\ Fits(NODE)
    /\ mem' = [mem EXCEPT ![placement] = addr, ![placement + 1] = Null]
    /\ free_list_' = placement
    /\ placement' = placement + NODE
    /\ nodes' = <<placement>>

Push(addr) ==
    /\ Fits(NODE)
    /\ mem' = [mem EXCEPT ![placement] = addr, ![placement + 1] = free_list_]
    /\ free_list_' = placement
    /\ placement' = placement + NODE
    /\ nodes' = Append(nodes, placement)

\* A client frees a frame it holds, or passes something that is no frame.
Free(addr) ==
    /\ IF Rejected(addr)
         THEN UNCHANGED vars
         ELSE /\ addr \in DOMAIN owners
              /\ owners[addr] > 0
              /\ Push(addr)
              /\ owners' = [owners EXCEPT ![addr] = @ - 1]
              /\ UNCHANGED physical_end_

Next ==
    \/ \E p \in Pools : Setup(p.start, p.len)
    \/ Alloc
    \/ \E addr \in Addresses : Free(addr)

Spec == Init /\ [][Next]_vars

-----------------------------------------------------------------------------
ListFrames == {mem[nodes[k]] : k \in DOMAIN nodes}

TypeOK ==
    /\ physical_end_ \in Nat
    /\ free_list_ \in Words \cup {Null}
    /\ mem \in [Words -> Nat]
    /\ placement \in Nat
    /\ owners \in [AllFrames -> Nat]

\* The list in memory is the stack of the nodes pushed and not popped; its
\* nodes are live memory, below placement, each above the one it points at, so
\* that a push can never overwrite a node of the list.
ListSound ==
    /\ free_list_ = IF nodes = <<>> THEN Null ELSE nodes[Len(nodes)]
    /\ \A k \in DOMAIN nodes :
         /\ nodes[k] + NODE <= placement
         /\ mem[nodes[k] + 1] = IF k = 1 THEN Null ELSE nodes[k - 1]
         /\ k > 1 => nodes[k - 1] + NODE <= nodes[k]

\* A frame is never held by two clients at once: two pages mapped on one frame
\* is silent memory corruption, far from its cause.
NoDoubleGrant == \A f \in DOMAIN owners : owners[f] <= 1

\* From setup on, a frame of the pool is on the list once or held by one client,
\* and never both: no sequence of calls loses, invents or repeats a frame.
FramesConserved ==
    /\ NoDoubleGrant
    /\ physical_end_ # 0 =>
         /\ \A j, k \in DOMAIN nodes : j # k => mem[nodes[j]] # mem[nodes[k]]
         /\ \E p \in Pools :
              /\ physical_end_ = p.start + p.len
              /\ FramesOf(p.start, p.len) = ListFrames \cup {f \in AllFrames : owners[f] > 0}
         /\ \A f \in ListFrames : owners[f] = 0

\* The stack implements the abstract pool of frames.
Pool == INSTANCE FramePool WITH
    Frames <- AllFrames,
    unused <- ListFrames,
    inUse  <- {f \in AllFrames : owners[f] > 0}

PoolSpec == Pool!FPSpec

=============================================================================
