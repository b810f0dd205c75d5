---------------------------- MODULE VirtualSpace ----------------------------
(***************************************************************************)
(* The virtual memory manager: kernel/memory/virtual.cpp (class virt) and  *)
(* the list it is kept in, libs/ilist.hpp.                                 *)
(*                                                                         *)
(* free_mem_list_ is the list of free regions.  ilist cannot remove a      *)
(* node, so a region that is used up stays in the list with size 0 and is  *)
(* skipped from then on; the list only grows.  Clients get regions from    *)
(* alloc and return them to free with the size they asked for: held is the *)
(* set of the regions clients have.  A null pointer is how alloc says that *)
(* it failed, so a region granted at address 0 is taken for a failure by   *)
(* every caller (init_kernel_heap, expand_heap): it is in lost, held by    *)
(* nobody and never returned.                                              *)
(***************************************************************************)
EXTENDS Naturals, Sequences

CONSTANTS
    FRAME_SIZE,   \* bytes in a page
    WORD,         \* 2^64: size_t and uintptr_t arithmetic is modulo WORD
    VADDR_SIZE,   \* bytes in the virtual space
    Sizes,        \* sizes clients ask for
    MaxNodes      \* bound: nodes ever linked in free_mem_list_

ASSUME VirtualAssumption ==
    /\ FRAME_SIZE \in Nat \ {0}
    /\ WORD \in Nat
    /\ VADDR_SIZE \in Nat \ {0}
    /\ VADDR_SIZE < WORD
    /\ Sizes \subseteq 0 .. (WORD - 1)
    /\ MaxNodes \in Nat \ {0}

VADDR_START == 0
Null == 0

VARIABLES
    free_mem_list_,  \* sequence of regions [start, size], in list order
    held,            \* regions clients hold, with the size they asked for
    lost             \* regions granted at the null address

vars == <<free_mem_list_, held, lost>>

Region == [start : Nat, size : Nat]

Region0(start, size) == [start |-> start, size |-> size]

End(r) == r.start + r.size

\* A slip of ALIGN_UP: the size is used as it was asked for.
ALIGN_UP_Exact(size) == size % WORD

\* Rounds up to a page; the addition wraps, as it does in size_t.
ALIGN_UP(size) == (((size + FRAME_SIZE - 1) % WORD) \div FRAME_SIZE) * FRAME_SIZE

\* The bytes a request really takes.
Rounded(r) == Region0(r.start, ALIGN_UP(r.size))

-----------------------------------------------------------------------------
Init ==
    /\ free_mem_list_ = << Region0(VADDR_START, VADDR_SIZE) >>
    /\ held = {}
    /\ lost = {}

\* A slip of Usable: any region that is not empty will do.
UsableAnySize(m, size) == m.size # 0

\* Neither marked as deleted nor too small.
Usable(m, size) == m.size # 0 /\ m.size >= size

\* Region i is the first of the list that will do.
FirstFit(i, size) ==
    /\ Usable(free_mem_list_[i], size)
    /\ \A j \in 1 .. (i - 1) : ~ Usable(free_mem_list_[j], size)

\* A slip of TakeFront: a remainder of one page is not worth keeping.
TakeFrontDropsPage(m, size) ==
    IF m.size <= size + FRAME_SIZE THEN [m EXCEPT !.size = 0]
                                   ELSE Region0(m.start + size, m.size - size)

\* What is left of region m once its first `size` bytes are taken: a region
\* that is used up keeps its start and is marked with size 0.
TakeFront(m, size) ==
    IF m.size = size THEN [m EXCEPT !.size = 0]
                     ELSE Region0(m.start + size, m.size - size)

\* virt::alloc(size).  A failed search changes nothing.
Alloc(size) ==
    \E i \in DOMAIN free_mem_list_ :
        LET m == free_mem_list_[i]
            r == Region0(m.start, size)
        IN  /\ FirstFit(i, ALIGN_UP(size))
            /\ free_mem_list_' = [free_mem_list_ EXCEPT ![i] = TakeFront(m, ALIGN_UP(size))]
            /\ IF m.start = Null
                 THEN lost' = lost \cup {r} /\ held' = held
                 ELSE held' = held \cup {r} /\ lost' = lost

-----------------------------------------------------------------------------
\* virt::free(addr, size): f is the region being freed, rounded to pages.

Touches(m, f) == m.size # 0 /\ (End(f) = m.start \/ End(m) = f.start)

FirstTouching(i, f) ==
    /\ Touches(free_mem_list_[i], f)
    /\ \A j \in 1 .. (i - 1) : ~ Touches(free_mem_list_[j], f)

\* A slip of MergeBelow: the region grows but does not move down.
MergeBelowKeepsStart(i, f) ==
    /\ FirstTouching(i, f)
    /\ End(f) = free_mem_list_[i].start
    /\ free_mem_list_' = [free_mem_list_ EXCEPT ![i].size = @ + f.size]

\* f lies right before region i: the region grows downwards.
MergeBelow(i, f) ==
    /\ FirstTouching(i, f)
    /\ End(f) = free_mem_list_[i].start
    /\ free_mem_list_' =
         [free_mem_list_ EXCEPT ![i] = Region0(f.start, free_mem_list_[i].size + f.size)]

\* Region j starts where region i ends once f has been added to it.
Follows(j, i, f) ==
    /\ j # i
    /\ free_mem_list_[j].size # 0
    /\ End(free_mem_list_[i]) + f.size = free_mem_list_[j].start

FirstFollowing(j, i, f) ==
    /\ Follows(j, i, f)
    /\ \A k \in 1 .. (j - 1) : ~ Follows(k, i, f)

\* A slip of MergeAbove: the region that was taken in is not marked as deleted.
MergeAboveKeepsNext(i, f) ==
    /\ FirstTouching(i, f)
    /\ End(f) # free_mem_list_[i].start
    /\ \E j \in DOMAIN free_mem_list_ :
         /\ FirstFollowing(j, i, f)
         /\ free_mem_list_' =
              [free_mem_list_ EXCEPT ![i].size = @ + f.size + free_mem_list_[j].size]

\* f lies right after region i: the region grows upwards, and takes in the
\* region that follows, if there is one.
MergeAbove(i, f) ==
    LET m == free_mem_list_[i]
    IN  /\ FirstTouching(i, f)
        /\ End(f) # m.start
        /\ \/ /\ \A j \in DOMAIN free_mem_list_ : ~ Follows(j, i, f)
              /\ free_mem_list_' = [free_mem_list_ EXCEPT ![i].size = m.size + f.size]
           \/ \E j \in DOMAIN free_mem_list_ :
                /\ FirstFollowing(j, i, f)
                /\ free_mem_list_' =
                     [free_mem_list_ EXCEPT ![i].size = m.size + f.size + free_mem_list_[j].size,
                                            ![j].size = 0]

\* No region touches f: it becomes a node of its own at the end of the list.
NewNode(f) ==
    /\ \A i \in DOMAIN free_mem_list_ : ~ Touches(free_mem_list_[i], f)
    /\ Len(free_mem_list_) < MaxNodes
    /\ free_mem_list_' = Append(free_mem_list_, f)

Release(f) ==
    \/ \E i \in DOMAIN free_mem_list_ : MergeBelow(i, f) \/ MergeAbove(i, f)
    \/ NewNode(f)

Free(r) ==
    /\ Release(Rounded(r))
    /\ held' = held \ {r}
    /\ UNCHANGED lost

Next ==
    \/ \E size \in Sizes : Alloc(size)
    \/ \E r \in held : Free(r)

Spec == Init /\ [][Next]_vars

-----------------------------------------------------------------------------
\* The addresses of a region, of the free regions and of a set of regions.
Covers(r, a) == r.start <= a /\ a < End(r)

Space == VADDR_START .. (VADDR_START + VADDR_SIZE - 1)

FreeAddresses == {a \in Space : \E i \in DOMAIN free_mem_list_ : Covers(free_mem_list_[i], a)}

-----------------------------------------------------------------------------
\* Every region of the list and of the clients is a pair of naturals.
TypeOK ==
    /\ free_mem_list_ \in Seq(Region)
    /\ held \subseteq Region
    /\ lost \subseteq Region

Disjoint(r, s) ==
    \/ r.size = 0
    \/ s.size = 0
    \/ End(r) <= s.start
    \/ End(s) <= r.start

Taken == {Rounded(r) : r \in held \cup lost}

\* Two nodes of the free list never share a byte: the triple merge of
\* virt::free (virtual.cpp:129-142) must drop what it has swallowed.
FreeRegionsDisjoint ==
    \A i, j \in DOMAIN free_mem_list_ :
        i # j => Disjoint(free_mem_list_[i], free_mem_list_[j])

\* A byte is never held by two clients, nor held by a client and offered to
\* the next one, after any sequence of alloc and free: what makes it possible
\* to map a region at all.
ExclusiveOwnership ==
    /\ FreeRegionsDisjoint
    /\ \A i \in DOMAIN free_mem_list_ : \A r \in held \cup lost :
         Disjoint(free_mem_list_[i], Rounded(r))
    /\ \A r, s \in held \cup lost : r # s => Disjoint(Rounded(r), Rounded(s))

\* No byte of the space ever drops out of the books: it is free, held, or in
\* the region lost at address 0.  A merge that forgets a size, or a split that
\* drops a remainder, loses address space for good.
Accounted ==
    \A a \in Space :
        \/ \E i \in DOMAIN free_mem_list_ : Covers(free_mem_list_[i], a)
        \/ \E r \in Taken : Covers(r, a)

\* The address returned is a page address: heap::map_pages maps whole pages
\* starting at it (heap.cpp:72), and so rounding sizes must keep every start
\* on a page.
PageAligned ==
    /\ \A i \in DOMAIN free_mem_list_ : free_mem_list_[i].start % FRAME_SIZE = 0
    /\ \A r \in held \cup lost : r.start % FRAME_SIZE = 0

\* The free list implements the abstract allocator.
Abstract == INSTANCE AddressSpace WITH
    BASE    <- VADDR_START,
    LENGTH  <- VADDR_SIZE,
    avail   <- FreeAddresses,
    granted <- Taken

AbstractSpec == Abstract!ASSpec

=============================================================================
