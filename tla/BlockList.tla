----------------------------- MODULE BlockList -----------------------------
(***************************************************************************)
(* The block list both heaps are built on: memory::heap (heap.cpp) and     *)
(* memory::user_allocator (user_allocator.cpp) have the same split_block,  *)
(* coalesce_block and find_free_block, up to the statistics they keep,     *)
(* which KernelHeap and UserHeap add.                                      *)
(*                                                                         *)
(* A heap h is a record with, among others, the fields                     *)
(*   blocks   addresses of the blocks, in the order of their next links    *)
(*   hdr      address of a header -> [size, is_free, prev]; a header that  *)
(*            has left the list stays in memory until the data of another  *)
(*            block covers it                                              *)
(***************************************************************************)
EXTENDS Naturals, Sequences, FiniteSets

CONSTANTS
    HDR,     \* size of a header
    SLACK    \* data bytes a split must leave, 16 in the source

ASSUME BlockAssumption == HDR \in Nat \ {0} /\ SLACK \in Nat

Null == 0
MIN_BLOCK_SIZE == HDR + SLACK

Header(size, is_free, prev) == [size |-> size, is_free |-> is_free, prev |-> prev]

Data(b) == b + HDR
FromData(ptr) == ptr - HDR

\* A header is written at address b.
Put(hdr, b, header) == [a \in DOMAIN hdr \cup {b} |-> IF a = b THEN header ELSE hdr[a]]

BlockEnd(h, b) == Data(b) + h.hdr[b].size

IndexOf(h, b) == CHOOSE i \in DOMAIN h.blocks : h.blocks[i] = b

\* block->next; a block that is last has none.
HasNext(h, b) == IndexOf(h, b) < Len(h.blocks)
NextOf(h, b) == h.blocks[IndexOf(h, b) + 1]

WithPrev(hdr, b, prev) == [hdr EXCEPT ![b].prev = prev]

\* A slip of Relink: the back pointer of the block after b is forgotten.
RelinkForgets(h, hdr, b, prev) == hdr

\* The block after b in the list, if there is one, gets prev as its previous.
Relink(h, hdr, b, prev) == IF HasNext(h, b) THEN WithPrev(hdr, NextOf(h, b), prev) ELSE hdr

-----------------------------------------------------------------------------
\* A slip of Splits: the remaining room is not checked.
SplitsAlways(h, b, size) == TRUE

\* A block with room to spare is split: its tail becomes a new free block.
Splits(h, b, size) == h.hdr[b].size >= size + MIN_BLOCK_SIZE

SplitAt(h, b, size) ==
    LET i   == IndexOf(h, b)
        new == Data(b) + size
        hdr == [Relink(h, h.hdr, b, new) EXCEPT ![b].size = size]
    IN  [h EXCEPT
            !.hdr = Put(hdr, new, Header(h.hdr[b].size - size - HDR, TRUE, b)),
            !.blocks = SubSeq(@, 1, i) \o <<new>> \o SubSeq(@, i + 1, Len(@))]

\* The block after b is free and adjacent: b takes it in.
MergesNext(h, b) ==
    /\ HasNext(h, b)
    /\ h.hdr[NextOf(h, b)].is_free
    /\ BlockEnd(h, b) = NextOf(h, b)

\* A slip of JoinNext: the header of the block taken in is not regained.
JoinNextKeepsHeader(h, b) ==
    LET i    == IndexOf(h, b)
        next == NextOf(h, b)
    IN  [h EXCEPT
            !.hdr = [Relink(h, h.hdr, next, b) EXCEPT ![b].size = @ + h.hdr[next].size],
            !.blocks = SubSeq(@, 1, i) \o SubSeq(@, i + 2, Len(@))]

JoinNext(h, b) ==
    LET i    == IndexOf(h, b)
        next == NextOf(h, b)
    IN  [h EXCEPT
            !.hdr = [Relink(h, h.hdr, next, b) EXCEPT ![b].size = @ + HDR + h.hdr[next].size],
            !.blocks = SubSeq(@, 1, i) \o SubSeq(@, i + 2, Len(@))]

\* The block before b is free and adjacent: it takes b in.
MergesPrev(h, b) ==
    LET prev == h.hdr[b].prev
    IN  prev # Null /\ h.hdr[prev].is_free /\ BlockEnd(h, prev) = b

JoinPrev(h, b) ==
    LET prev == h.hdr[b].prev
    IN  [h EXCEPT
            !.hdr = [Relink(h, h.hdr, b, prev) EXCEPT ![prev].size = @ + HDR + h.hdr[b].size],
            !.blocks = SubSeq(@, 1, IndexOf(h, prev)) \o SubSeq(@, IndexOf(h, b) + 1, Len(@))]

\* A free block is written at address b and linked last.
AppendBlock(h, b, size) ==
    LET prev == IF h.blocks = <<>> THEN Null ELSE h.blocks[Len(h.blocks)]
    IN  [h EXCEPT !.hdr = Put(@, b, Header(size, TRUE, prev)), !.blocks = Append(@, b)]

\* A slip of Fitting: is_free is not looked at.
FittingAny(h, size) == {i \in DOMAIN h.blocks : h.hdr[h.blocks[i]].size >= size}

\* Positions of the free blocks that are big enough; the first is taken.
Fitting(h, size) ==
    {i \in DOMAIN h.blocks : h.hdr[h.blocks[i]].is_free /\ h.hdr[h.blocks[i]].size >= size}

\* Block b is handed out: headers that its data covers are gone.
Outside(h, b) == {a \in DOMAIN h.hdr : a + HDR <= Data(b) \/ a >= BlockEnd(h, b)}

HandOut(h, b) ==
    [h EXCEPT !.hdr = [a \in Outside(h, b) |->
                         IF a = b THEN [h.hdr[b] EXCEPT !.is_free = FALSE] ELSE h.hdr[a]]]

MarkFree(h, b) == [h EXCEPT !.hdr[b].is_free = TRUE]

-----------------------------------------------------------------------------
\* What the heaps state about their lists.

BlocksOf(h) == {h.blocks[i] : i \in DOMAIN h.blocks}

UsedOf(h) == {b \in DOMAIN h.hdr : ~ h.hdr[b].is_free}

HeadersTyped(h) ==
    /\ h.blocks \in Seq(Nat \ {0})
    /\ BlocksOf(h) \subseteq DOMAIN h.hdr
    /\ \A b \in DOMAIN h.hdr : h.hdr[b] \in [size : Nat, is_free : BOOLEAN, prev : Nat]

\* Each prev pointer names the block before in the list.
PrevPointersRight(h) ==
    \A i \in DOMAIN h.blocks :
        h.hdr[h.blocks[i]].prev = IF i = 1 THEN Null ELSE h.blocks[i - 1]

\* Headers and data of the blocks cover the given addresses byte for byte,
\* and no two blocks share one.
Tiles(h, addresses) ==
    /\ \A b, c \in BlocksOf(h) : b # c => BlockEnd(h, b) <= c \/ BlockEnd(h, c) <= b
    /\ UNION {b .. (BlockEnd(h, b) - 1) : b \in BlocksOf(h)} = addresses

\* Every allocation has a block of its own, marked as used and big enough, and
\* no other header says "used".
BlocksMatch(h, allocations) ==
    /\ UsedOf(h) = {FromData(r.ptr) : r \in allocations}
    /\ UsedOf(h) \subseteq BlocksOf(h)
    /\ Cardinality(UsedOf(h)) = Cardinality(allocations)
    /\ \A r \in allocations : r.size <= h.hdr[FromData(r.ptr)].size

=============================================================================
