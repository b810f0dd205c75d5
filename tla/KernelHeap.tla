----------------------------- MODULE KernelHeap -----------------------------
(***************************************************************************)
(* The kernel heap: kernel/memory/heap.cpp (class memory::heap).           *)
(*                                                                         *)
(* The heap is a doubly linked list of blocks, each a header followed by   *)
(* its data, over regions of virtual memory that are mapped frame by       *)
(* frame.  `heap` holds the object and the headers:                        *)
(*   blocks, hdr the block list (see BlockList)                            *)
(*   size, allocated, free   heap_size_, total_allocated_, total_free_     *)
(*   spans       the regions that have been mapped                         *)
(*   frames      frames the physical memory manager has left               *)
(*   shrinks     history: splits made by realloc                           *)
(*   fault       a null or unmapped address was written                    *)
(*                                                                         *)
(* The virtual memory manager is what AddressSpace promises: any page      *)
(* aligned extent it has not granted.  No frame ever comes back, because   *)
(* unmapping a page does not free its frame.                               *)
(***************************************************************************)
EXTENDS BlockList, FiniteSetsExt

CONSTANTS
    FRAME_SIZE,    \* bytes in a page
    POINTER,       \* sizeof(void*)
    WORD,          \* 2^64: size_t arithmetic is modulo WORD
    INITIAL,       \* size the heap is created with
    ARENA,         \* [lo, hi]: addresses the virtual manager can grant
    HeapStart,     \* where the heap is created
    FrameSupply,   \* numbers of frames that may be left at that time
    Sizes,         \* sizes asked of malloc and realloc
    Arrays,        \* [num, size] pairs asked of calloc
    Alignments,    \* alignments asked of aligned_alloc
    MaxLive,       \* bound: allocations outstanding
    MaxShrinks     \* bound: splits made by realloc

ASSUME HeapAssumption ==
    /\ FRAME_SIZE \in Nat \ {0} /\ HDR < FRAME_SIZE
    /\ POINTER \in Nat
    /\ WORD \in Nat \ {0}
    /\ INITIAL \in Nat \ {0}
    /\ HeapStart \in Nat \ {0} /\ HeapStart % FRAME_SIZE = 0
    /\ HeapStart + INITIAL + 2 * FRAME_SIZE <= WORD
    /\ ARENA \in [lo : Nat, hi : Nat] /\ ARENA.hi + FRAME_SIZE <= WORD
    /\ FrameSupply \subseteq Nat
    /\ Sizes \subseteq Nat /\ Alignments \subseteq Nat
    /\ Arrays \subseteq [num : Nat, size : Nat]
    /\ MaxLive \in Nat /\ MaxShrinks \in Nat

VARIABLES
    heap,    \* the heap object and its memory
    live,    \* [ptr, size]: allocations clients hold, with the size asked for
    pinned   \* [raw, ptr, size, alignment]: the same, from aligned_alloc

vars == <<heap, live, pinned>>

Wrap(n) == n % WORD
ALIGN_DOWN(n) == (n \div FRAME_SIZE) * FRAME_SIZE
ALIGN_UP(n) == ALIGN_DOWN(Wrap(n + FRAME_SIZE - 1))

-----------------------------------------------------------------------------
\* heap::split_block and heap::coalesce_block, with the header they count.

Split(h, b, size) ==
    IF ~ Splits(h, b, size) THEN h
    ELSE [SplitAt(h, b, size) EXCEPT !.free = Wrap(@ + HDR)]

MergeNext(h, b) ==
    IF ~ MergesNext(h, b) THEN h
    ELSE [JoinNext(h, b) EXCEPT !.free = Wrap(@ + WORD - HDR)]

MergePrev(h, b) ==
    IF ~ MergesPrev(h, b) THEN h
    ELSE [JoinPrev(h, b) EXCEPT !.free = Wrap(@ + WORD - HDR)]

\* A slip of Coalesce: only the block after b is looked at.
CoalesceForward(h, b) == IF h.hdr[b].is_free THEN MergeNext(h, b) ELSE h

Coalesce(h, b) ==
    IF ~ h.hdr[b].is_free THEN h
    ELSE LET merged == MergeNext(h, b) IN MergePrev(merged, b)

-----------------------------------------------------------------------------
Overlap(r, s) == r.start < s.start + s.size /\ s.start < r.start + r.size

\* virt::alloc: a page aligned extent that is not granted to the heap yet.
Regions(h, size) ==
    {r \in [start : {a \in ARENA.lo .. ARENA.hi : a % FRAME_SIZE = 0}, size : {size}] :
        /\ r.start # Null
        /\ r.start + size <= ARENA.hi
        /\ \A s \in h.spans : ~ Overlap(r, s)}

\* heap::map_pages: a frame for each page, or none is left in the end.
Maps(h, size) == size \div FRAME_SIZE <= h.frames

\* heap::expand_heap when the region can be mapped: the new block goes last
\* in the list.  The walk to the end starts from first_block_, null included.
Expand(h, r) ==
    LET grown == [AppendBlock(h, r.start, r.size - HDR) EXCEPT
                    !.size = Wrap(@ + r.size),
                    !.free = Wrap(@ + r.size - HDR),
                    !.spans = @ \cup {r},
                    !.frames = @ - r.size \div FRAME_SIZE]
    IN  IF h.blocks = <<>> \/ r.size = 0 THEN [h EXCEPT !.fault = TRUE]
        ELSE Coalesce(grown, r.start)

\* ... and when it cannot: the region goes back, the frames do not.
ExpandFails(h) == [h EXCEPT !.frames = 0]

\* The rest of heap::malloc, once a block has been found.
Take(h, b, size) ==
    [HandOut(Split(h, b, size), b) EXCEPT
        !.allocated = Wrap(@ + size),
        !.free = Wrap(@ + WORD - size)]

Outcome(h, ptr) == [heap |-> h, ptr |-> ptr]

FirstFit(h, size) ==
    IF Fitting(h, size) = {} THEN Outcome(h, Null)
    ELSE LET b == h.blocks[Min(Fitting(h, size))] IN Outcome(Take(h, b, size), Data(b))

\* heap::malloc: what it may return and leave behind.
Malloc(h, asked) ==
    LET size == ALIGN_UP(asked)
        more == ALIGN_UP(size + HDR)
    IN  IF asked = 0 THEN {Outcome(h, Null)}
        ELSE IF Fitting(h, size) # {} THEN {FirstFit(h, size)}
        ELSE IF Regions(h, more) = {} THEN {Outcome(h, Null)}
        ELSE IF ~ Maps(h, more) THEN {Outcome(ExpandFails(h), Null)}
        ELSE {LET g == Expand(h, r) IN IF g.fault THEN Outcome(g, Null) ELSE FirstFit(g, size) :
                r \in Regions(h, more)}

\* heap::free of a block whose header is intact: a block that is free already
\* is reported and left alone.
Release(h, b) ==
    LET marked == [MarkFree(h, b) EXCEPT
                     !.allocated = Wrap(@ + WORD - h.hdr[b].size),
                     !.free = Wrap(@ + h.hdr[b].size)]
    IN  IF h.hdr[b].is_free THEN h ELSE Coalesce(marked, b)

\* A slip of Shrink: the bytes given up still count as allocated.
ShrinkUncounted(h, b, size) ==
    LET old == h.hdr[b].size
    IN  IF old <= size + MIN_BLOCK_SIZE THEN h
        ELSE [Split(h, b, size) EXCEPT !.free = Wrap(@ + (old - size)), !.shrinks = @ + 1]

\* heap::realloc when the new size fits in the block.
Shrink(h, b, size) ==
    LET old == h.hdr[b].size
    IN  IF old <= size + MIN_BLOCK_SIZE THEN h
        ELSE [Split(h, b, size) EXCEPT
                !.allocated = Wrap(@ + WORD - (old - size)),
                !.free = Wrap(@ + (old - size)),
                !.shrinks = @ + 1]

-----------------------------------------------------------------------------
\* A slip of Unmapped: the frames taken before the one that is missing are
\* given back.
UnmappedFrees(size) ==
    [blocks |-> <<>>, hdr |-> <<>>, size |-> size, allocated |-> 0, free |-> 0,
     spans |-> {}, frames |-> size \div FRAME_SIZE - 1, shrinks |-> 0, fault |-> FALSE]

\* The constructor: maps the initial region and makes it one free block, or
\* uses up the frames that are left and leaves first_block_ null.
Unmapped(size) ==
    [blocks |-> <<>>, hdr |-> <<>>, size |-> size, allocated |-> 0, free |-> 0,
     spans |-> {}, frames |-> 0, shrinks |-> 0, fault |-> FALSE]

Constructed(size, frames) ==
    IF size \div FRAME_SIZE > frames THEN Unmapped(size)
    ELSE [Unmapped(size) EXCEPT
            !.blocks = <<HeapStart>>,
            !.hdr = Put(@, HeapStart, Header(size - HDR, TRUE, Null)),
            !.free = size - HDR,
            !.spans = {[start |-> HeapStart, size |-> size]},
            !.frames = frames - size \div FRAME_SIZE]

Init ==
    /\ \E frames \in FrameSupply : heap = Constructed(ALIGN_UP(INITIAL), frames)
    /\ live = {}
    /\ pinned = {}

Running == ~ heap.fault
Room == Cardinality(live) + Cardinality(pinned) < MaxLive

Holding(ptr, size) == IF ptr = Null THEN {} ELSE {[ptr |-> ptr, size |-> size]}

malloc(size) ==
    /\ Running /\ Room
    /\ \E o \in Malloc(heap, size) :
         /\ heap' = o.heap
         /\ live' = live \cup Holding(o.ptr, size)
    /\ UNCHANGED pinned

free(r) ==
    /\ Running
    /\ heap' = Release(heap, FromData(r.ptr))
    /\ live' = live \ {r}
    /\ UNCHANGED pinned

\* A pointer is freed again, while the header in front of it is intact and
\* belongs to no allocation.
freeAgain(b) ==
    /\ Running
    /\ \A r \in live : FromData(r.ptr) # b
    /\ \A p \in pinned : FromData(p.raw) # b
    /\ heap' = Release(heap, b)
    /\ UNCHANGED <<live, pinned>>

realloc(r, new_size) ==
    LET b    == FromData(r.ptr)
        size == ALIGN_UP(new_size)
    IN  /\ Running
        /\ new_size # 0
        /\ IF size <= heap.hdr[b].size
             THEN /\ heap' = Shrink(heap, b, size)
                  /\ heap'.shrinks <= MaxShrinks
                  /\ live' = (live \ {r}) \cup Holding(r.ptr, new_size)
             ELSE \E o \in Malloc(heap, size) :
                    IF o.ptr = Null
                      THEN heap' = o.heap /\ live' = live
                      ELSE /\ heap' = Release(o.heap, b)
                           /\ live' = (live \ {r}) \cup Holding(o.ptr, new_size)
        /\ UNCHANGED pinned

\* The product is checked for overflow by dividing it back.
Overflows(num, size) == num > 0 /\ Wrap(num * size) \div num # size

calloc(num, size) ==
    /\ Running /\ Room
    /\ ~ Overflows(num, size)
    /\ \E o \in Malloc(heap, Wrap(num * size)) :
         /\ heap' = o.heap
         /\ live' = live \cup Holding(o.ptr, num * size)
    /\ UNCHANGED pinned

\* heap::aligned_alloc aligns to a page whatever alignment is asked for, and
\* stores the raw pointer in front of the address it returns: where the magic
\* of a header would be, so that free rejects that address ever after.
PowerOfTwo(n) == \E k \in 0 .. n : n = 2^k

AlignedAddress(raw) == ALIGN_UP(Wrap(raw + POINTER))

\* What it asks malloc for.
Requested(p) == p.size + p.alignment + POINTER

aligned_alloc(alignment, size) ==
    /\ Running /\ Room
    /\ PowerOfTwo(alignment)
    /\ \E o \in Malloc(heap, Wrap(size + alignment + POINTER)) :
         /\ heap' = o.heap
         /\ pinned' = IF o.ptr = Null THEN pinned
                      ELSE pinned \cup {[raw |-> o.ptr, ptr |-> AlignedAddress(o.ptr),
                                         size |-> size, alignment |-> alignment]}
    /\ UNCHANGED live

Next ==
    \/ \E size \in Sizes : malloc(size)
    \/ \E r \in live : free(r)
    \/ \E b \in DOMAIN heap.hdr : freeAgain(b)
    \/ \E r \in live, size \in Sizes : realloc(r, size)
    \/ \E a \in Arrays : calloc(a.num, a.size)
    \/ \E alignment \in Alignments, size \in Sizes : aligned_alloc(alignment, size)

Spec == Init /\ [][Next]_vars

-----------------------------------------------------------------------------
TypeOK ==
    /\ HeadersTyped(heap)
    /\ {heap.size, heap.allocated, heap.free} \subseteq 0 .. (WORD - 1)
    /\ heap.frames \in Nat
    /\ heap.fault \in BOOLEAN
    /\ live \subseteq [ptr : Nat, size : Nat]
    /\ pinned \subseteq [raw : Nat, ptr : Nat, size : Nat, alignment : Nat]

\* The list reads the same both ways after splits and merges in the middle of
\* it (heap.cpp:176-181, 204-207, 222-225).
ListLinked == PrevPointersRight(heap)

\* The bytes of the mapped regions.
Mapped == UNION {s.start .. (s.start + s.size - 1) : s \in heap.spans}

\* The blocks tile the mapped regions, heap_size_ counts them and the list is
\* linked both ways: no sequence of splits, merges and expansions
\* (heap.cpp:107-230) leaks a byte or gives one to two blocks.
Tiling ==
    /\ ListLinked
    /\ Tiles(heap, Mapped)
    /\ heap.blocks # <<>> => heap.size = Cardinality(Mapped)

\* The block of a client is never handed out again, is as big as what malloc was
\* asked for, and a second free of a pointer finds a header that is free and is
\* rejected (heap.cpp:279-285).  An address from aligned_alloc leaves room for
\* the raw pointer in front of it, and what is asked for runs past the block by
\* less than a page minus the alignment: an alignment of a page never does
\* (heap.cpp:370-386; AlignedFits is what fails for smaller ones).
UsedIsHeld ==
    /\ BlocksMatch(heap, live \cup {[ptr |-> p.raw, size |-> Requested(p)] : p \in pinned})
    /\ \A r \in live, p \in pinned : r.ptr # p.raw
    /\ \A p \in pinned :
         /\ p.raw + POINTER <= p.ptr
         /\ p.ptr + p.size + p.alignment < BlockEnd(heap, FromData(p.raw)) + FRAME_SIZE

\* "We need extra space for alignment + original pointer storage" (heap.cpp:370):
\* with it, what is asked for lies in the block from the aligned address on.
AlignedFits ==
    \A p \in pinned : p.ptr + p.size <= BlockEnd(heap, FromData(p.raw))

\* The two statistics drift from the truth by exactly two headers for each
\* block beyond the one per region: split_block and coalesce_block count a
\* header with the wrong sign, and what a block keeps because it is too small
\* to split is in neither.
StatisticsLaw ==
    heap.blocks # <<>> =>
      Wrap(heap.allocated + heap.free + 2 * HDR * Cardinality(heap.spans))
        = Wrap(heap.size + HDR * Len(heap.blocks))

\* Two neighbours of the list that are both free and adjacent are there only
\* because realloc split a block and did not coalesce the tail: one such pair
\* for each of its splits, at most.
FreePairs ==
    {i \in 1 .. (Len(heap.blocks) - 1) :
        LET b == heap.blocks[i]
            c == heap.blocks[i + 1]
        IN  heap.hdr[b].is_free /\ heap.hdr[c].is_free /\ BlockEnd(heap, b) = c}

CoalescedUpToShrinks == Cardinality(FreePairs) <= heap.shrinks

\* expand_heap never walks from a null first_block_: a heap whose constructor
\* failed has no frame left to expand with.
NoFault == ~ heap.fault

\* validate_heap(): magic is not modelled, the statistics are.
Counted(is_free) ==
    MapThenSumSet(LAMBDA b : heap.hdr[b].size, {b \in BlocksOf(heap) : heap.hdr[b].is_free = is_free})

validate_heap ==
    /\ Wrap(Counted(FALSE)) = heap.allocated
    /\ Wrap(Counted(TRUE)) = heap.free

\* "Run validation: Always call validate_heap() after changes" (memory
\* README): the validation accepts what the heap's own operations produce.
ValidatesItself == validate_heap

=============================================================================
