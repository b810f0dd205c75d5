------------------------------ MODULE UserHeap ------------------------------
(***************************************************************************)
(* The heap of a process: kernel/memory/user_allocator.cpp.  The kernel    *)
(* runs it on behalf of the process: sys_request_memory takes frames from  *)
(* the physical memory manager and maps them in the directory of the       *)
(* process, right after the last page of the heap, so that the heap is one *)
(* extent, from HEAP_START to heap_current_.                               *)
(*                                                                         *)
(* `heap` holds the object, its memory and what it has of the kernel:      *)
(*   blocks, hdr   the block list (see BlockList)                          *)
(*   current       heap_current_, where the heap ends                      *)
(*   limit         heap_limit_, which set_heap_limit sets                  *)
(*   allocated     total_allocated_                                        *)
(*   num           num_blocks_                                             *)
(*   pages         pages mapped in the directory of the process            *)
(*   frames        frames the physical memory manager has left             *)
(*   grown         history: regions the heap was given                     *)
(*   drift         history: bytes that realloc gave up and did not count,  *)
(*                 less those that malloc handed out and did not count     *)
(***************************************************************************)
EXTENDS BlockList, FiniteSetsExt, Integers

CONSTANTS
    FRAME_SIZE,        \* bytes in a page
    WORD32,            \* 2^32: sizes of blocks and the counters are modulo WORD32
    MAX_SINGLE_ALLOC,  \* 2 GB, the most malloc grants
    HEAP_START,        \* USER_HEAP_START_ADDR
    HEAP_MAX,          \* USER_HEAP_MAX_ADDR
    INITIAL,           \* USER_HEAP_INITIAL_SIZE
    FrameSupply,       \* numbers of frames that the other clients may leave to the heap
    Sizes,             \* sizes asked of malloc
    NewSizes,          \* sizes asked of realloc
    Arrays,            \* [num, size] pairs asked of calloc
    Limits,            \* sizes asked of set_heap_limit
    MaxLive,           \* bound: allocations outstanding
    MaxDrift           \* bound: bytes by which total_allocated_ may be off

ASSUME UserHeapAssumption ==
    /\ FRAME_SIZE \in Nat \ {0}
    /\ WORD32 \in Nat \ {0} /\ MAX_SINGLE_ALLOC \in Nat \ {0}
    /\ MAX_SINGLE_ALLOC + FRAME_SIZE + HDR <= WORD32
    /\ HEAP_START \in Nat \ {0} /\ HEAP_START % FRAME_SIZE = 0
    /\ INITIAL \in Nat /\ INITIAL % FRAME_SIZE = 0 /\ INITIAL > HDR
    /\ HEAP_MAX \in Nat /\ HEAP_START + INITIAL <= HEAP_MAX
    /\ HEAP_MAX - HEAP_START < WORD32
    /\ FrameSupply \subseteq Nat
    /\ Sizes \subseteq Nat /\ NewSizes \subseteq Nat /\ Limits \subseteq Nat
    /\ Arrays \subseteq [num : Nat, size : Nat]
    /\ MaxLive \in Nat /\ MaxDrift \in Nat

VARIABLES
    heap,    \* the allocator and its memory
    live,    \* [ptr, size]: allocations the process holds, with the size asked for
    exited   \* the process is gone

vars == <<heap, live, exited>>

Wrap32(n) == n % WORD32
ALIGN_UP(n) == ((n + FRAME_SIZE - 1) \div FRAME_SIZE) * FRAME_SIZE

PagesOf(start, size) == {a \in start .. (start + size - 1) : a % FRAME_SIZE = 0}

-----------------------------------------------------------------------------
\* split_block and coalesce_block, with num_blocks_.

Split(h, b, size) ==
    IF ~ Splits(h, b, size) THEN h
    ELSE [SplitAt(h, b, size) EXCEPT !.num = Wrap32(@ + 1)]

MergeNext(h, b) ==
    IF ~ MergesNext(h, b) THEN h
    ELSE [JoinNext(h, b) EXCEPT !.num = Wrap32(@ + WORD32 - 1)]

MergePrev(h, b) ==
    IF ~ MergesPrev(h, b) THEN h
    ELSE [JoinPrev(h, b) EXCEPT !.num = Wrap32(@ + WORD32 - 1)]

Coalesce(h, b) ==
    IF ~ h.hdr[b].is_free THEN h
    ELSE LET merged == MergeNext(h, b) IN MergePrev(merged, b)

-----------------------------------------------------------------------------
\* sys_request_memory: a frame for each page, or none is left in the end: the
\* pages mapped so far are unmapped, and their frames are not given back.
Granted(h, size) == size \div FRAME_SIZE <= h.frames

Request(h, addr, size) ==
    IF Granted(h, size)
      THEN [h EXCEPT !.frames = @ - size \div FRAME_SIZE,
                     !.pages = @ \cup PagesOf(addr, size)]
    ELSE [h EXCEPT !.frames = 0, !.pages = @ \ PagesOf(addr, h.frames * FRAME_SIZE)]

\* The region from heap_current_ on becomes a free block, the last of the list.
Grow(h, size) ==
    [AppendBlock(h, h.current, size - HDR) EXCEPT !.current = @ + size, !.grown = @ + 1]

\* A slip of WithinMax: the size is checked without the space already used.
WithinMaxAlone(h, size) == HEAP_START + size <= HEAP_MAX

\* The check against the limit of every heap; heap_limit_ is not looked at.
WithinMax(h, size) == h.current + size <= HEAP_MAX

\* expand_heap.
Expand(h, min_size) ==
    LET size == ALIGN_UP(min_size)
        asked == Request(h, h.current, size)
    IN  IF ~ WithinMax(h, size) THEN h
        ELSE IF ~ Granted(h, size) THEN asked
        ELSE Coalesce(Grow(asked, size), h.current)

Outcome(h, ptr) == [heap |-> h, ptr |-> ptr]

\* The rest of malloc: the first block that fits is split and marked as used.
FirstFit(h, size) ==
    IF Fitting(h, size) = {} THEN Outcome(h, Null)
    ELSE LET b == h.blocks[Min(Fitting(h, size))]
             s == Split(h, b, size)
         IN  Outcome([HandOut(s, b) EXCEPT
                        !.allocated = Wrap32(@ + size),
                        !.drift = @ - (s.hdr[b].size - size)],
                     Data(b))

Malloc(h, asked) ==
    LET size == Wrap32(ALIGN_UP(asked))
    IN  IF asked = 0 \/ asked > MAX_SINGLE_ALLOC THEN Outcome(h, Null)
        ELSE IF Fitting(h, size) # {} THEN FirstFit(h, size)
        ELSE FirstFit(Expand(h, Wrap32(size + HDR)), size)

\* free of a block whose header is intact: a block that is free already is
\* left alone.
Release(h, b) ==
    LET marked == [MarkFree(h, b) EXCEPT !.allocated = Wrap32(@ + WORD32 - h.hdr[b].size)]
    IN  IF h.hdr[b].is_free THEN h ELSE Coalesce(marked, b)

\* realloc within the block: a tail worth a block is split off, and is neither
\* counted nor coalesced.
Shrink(h, b, size) ==
    IF h.hdr[b].size <= size + MIN_BLOCK_SIZE THEN h
    ELSE [Split(h, b, size) EXCEPT !.drift = @ + (h.hdr[b].size - size)]

-----------------------------------------------------------------------------
\* The constructor: one free block, or an empty heap.
Created(frames) ==
    LET none == [blocks |-> <<>>, hdr |-> <<>>, current |-> HEAP_START, limit |-> HEAP_MAX,
                 allocated |-> 0, num |-> 0, pages |-> {}, frames |-> frames,
                 grown |-> 0, drift |-> 0]
        asked == Request(none, HEAP_START, INITIAL)
    IN  IF Granted(none, INITIAL) THEN Grow(asked, INITIAL) ELSE asked

Init ==
    /\ \E frames \in FrameSupply : heap = Created(frames)
    /\ live = {}
    /\ exited = FALSE

Room == Cardinality(live) < MaxLive

Bounded(h) == h.drift \in (- MaxDrift) .. MaxDrift

Holding(ptr, size) == IF ptr = Null THEN {} ELSE {[ptr |-> ptr, size |-> size]}

malloc(size) ==
    /\ ~ exited /\ Room
    /\ LET o == Malloc(heap, size)
       IN  /\ Bounded(o.heap)
           /\ heap' = o.heap
           /\ live' = live \cup Holding(o.ptr, size)
    /\ UNCHANGED exited

free(r) ==
    /\ ~ exited
    /\ heap' = Release(heap, FromData(r.ptr))
    /\ live' = live \ {r}
    /\ UNCHANGED exited

\* A pointer is freed again, while the header in front of it is intact and
\* belongs to no allocation.
freeAgain(b) ==
    /\ ~ exited
    /\ \A r \in live : FromData(r.ptr) # b
    /\ heap' = Release(heap, b)
    /\ UNCHANGED <<live, exited>>

\* The new size is rounded and cut to 32 bits before it is compared with the
\* size of the block.
realloc(r, new_size) ==
    LET b    == FromData(r.ptr)
        size == Wrap32(ALIGN_UP(new_size))
        o    == Malloc(heap, new_size)
    IN  /\ ~ exited
        /\ new_size # 0
        /\ IF size <= heap.hdr[b].size
             THEN /\ heap' = Shrink(heap, b, size)
                  /\ live' = (live \ {r}) \cup Holding(r.ptr, new_size)
             ELSE IF o.ptr = Null THEN heap' = o.heap /\ live' = live
             ELSE /\ heap' = Release(o.heap, b)
                  /\ live' = (live \ {r}) \cup Holding(o.ptr, new_size)
        /\ Bounded(heap')
        /\ UNCHANGED exited

\* The product is compared with the limit by a division.
calloc(num, size) ==
    /\ ~ exited /\ Room
    /\ num > 0 => size <= MAX_SINGLE_ALLOC \div num
    /\ LET o == Malloc(heap, num * size)
       IN  /\ Bounded(o.heap)
           /\ heap' = o.heap
           /\ live' = live \cup Holding(o.ptr, num * size)
    /\ UNCHANGED exited

\* set_heap_limit: a limit out of range is refused.
set_heap_limit(max_size) ==
    LET new_limit == HEAP_START + max_size
    IN  /\ ~ exited
        /\ new_limit <= HEAP_MAX
        /\ new_limit >= heap.current
        /\ heap' = [heap EXCEPT !.limit = new_limit]
        /\ UNCHANGED <<live, exited>>

\* process_memory::cleanup_all: the pages of the heap are unmapped and the
\* allocator is gone.  The frames stay where they are.
cleanup_all ==
    /\ ~ exited
    /\ exited' = TRUE
    /\ heap' = [heap EXCEPT !.pages = @ \ PagesOf(HEAP_START, heap.current - HEAP_START)]
    /\ live' = {}

\* Other clients of the physical memory manager take frames; none of them ever
\* returns one, and neither does the heap.
others(frames) ==
    /\ ~ exited
    /\ frames < heap.frames
    /\ heap' = [heap EXCEPT !.frames = frames]
    /\ UNCHANGED <<live, exited>>

Next ==
    \/ \E size \in Sizes : malloc(size)
    \/ \E r \in live : free(r)
    \/ \E b \in DOMAIN heap.hdr : freeAgain(b)
    \/ \E r \in live, size \in NewSizes : realloc(r, size)
    \/ \E a \in Arrays : calloc(a.num, a.size)
    \/ \E max_size \in Limits : set_heap_limit(max_size)
    \/ cleanup_all
    \/ \E frames \in FrameSupply : others(frames)

Spec == Init /\ [][Next]_vars

-----------------------------------------------------------------------------
TypeOK ==
    /\ HeadersTyped(heap)
    /\ heap.current \in HEAP_START .. HEAP_MAX
    /\ heap.limit \in HEAP_START .. HEAP_MAX
    /\ heap.allocated \in 0 .. (WORD32 - 1)
    /\ heap.num \in 0 .. (WORD32 - 1)
    /\ heap.frames \in Nat
    /\ live \subseteq [ptr : Nat, size : Nat]

\* The list reads the same both ways after splits and merges in the middle of
\* it (user_allocator.cpp:149-155, 176-179, 192-195).
ListLinked == PrevPointersRight(heap)

\* While the process runs, the blocks, linked both ways, tile the extent of the
\* heap, each of its pages is mapped and no other is, also after a request that
\* failed half way (user_allocator.cpp:34-69); once it is gone, none is mapped.
HeapIsMapped ==
    /\ ListLinked
    /\ Tiles(heap, HEAP_START .. (heap.current - 1))
    /\ heap.pages = IF exited THEN {} ELSE PagesOf(HEAP_START, heap.current - HEAP_START)

\* The block of a client is never handed out again, and a second free finds a
\* header that is free (user_allocator.cpp:249-252).
UsedIsHeld == ~ exited => BlocksMatch(heap, live)

\* The bytes of data in the given blocks.
DataOf(h, blocks) == UNION {Data(b) .. (BlockEnd(h, b) - 1) : b \in blocks}

\* The exact law of the two counters, which do not count what they say (see
\* ValidatesItself and BlocksCounted): total_allocated_ is off the bytes of data
\* in used blocks by what malloc handed out because it was too little to split,
\* and what realloc split off; num_blocks_ leaves out one block for each region
\* the heap was given, so that merging two regions takes it below zero
\* (user_allocator.cpp:159, 180, 196, 236, 256).
CountersLaw ==
    /\ heap.allocated = Wrap32(Cardinality(DataOf(heap, UsedOf(heap))) + heap.drift)
    /\ heap.num = Wrap32(Len(heap.blocks) - heap.grown)

\* validate_heap(): magic is not modelled, the counter is.
validate_heap ==
    Wrap32(MapThenSumSet(LAMBDA b : heap.hdr[b].size, {b \in BlocksOf(heap) : ~ heap.hdr[b].is_free}))
      = heap.allocated

\* "Run validation: Always call `validate_heap()` after changes" (README.md:255
\* of kernel/memory): the validation accepts what the heap's own operations
\* produce.
ValidatesItself == ~ exited => validate_heap

\* "The heap allocators track: [...] Number of active blocks" (README.md:154-156
\* of kernel/memory), be it of the used blocks or of all blocks.
BlocksCounted ==
    ~ exited => heap.num \in {Cardinality(UsedOf(heap)), Len(heap.blocks)}

\* "we still limit individual allocations to 2GB to prevent issues with 32-bit
\* block headers" (user_allocator.cpp:207-208): no allocation is larger.
AllocationsLimited == \A r \in live : r.size <= MAX_SINGLE_ALLOC

=============================================================================
