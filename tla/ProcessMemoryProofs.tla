------------------------- MODULE ProcessMemoryProofs -------------------------
(***************************************************************************)
(* Proofs about the memory of a process: ProcessMemory, with the heap of   *)
(* UserHeap.  They rest on BlockListProofs, which has what the operations  *)
(* on the block list keep.                                                 *)
(***************************************************************************)
EXTENDS ProcessMemory, BlockListProofs, TLAPS

HeapFields ==
    {"blocks", "hdr", "current", "limit", "allocated", "num", "pages", "frames", "grown", "drift"}

\* The list and the numbers of a heap; its blocks cover its extent.
Shape(h) ==
    /\ DOMAIN h = HeapFields
    /\ ListOK(h)
    /\ h.current \in HEAP_START .. HEAP_MAX
    /\ h.limit \in HEAP_START .. HEAP_MAX
    /\ h.allocated \in 0 .. (WORD32 - 1)
    /\ h.num \in 0 .. (WORD32 - 1)
    /\ h.frames \in Nat
    /\ Covered(h) = HEAP_START .. (h.current - 1)

\* The pages of the extent are mapped, and no other.
Paged(h) == h.pages = PagesOf(HEAP_START, h.current - HEAP_START)

HeapOK(h) == Shape(h) /\ Paged(h)

\* What splitting and merging leave alone.
Kept(g, h) ==
    g.current = h.current /\ g.limit = h.limit /\ g.pages = h.pages /\ g.frames = h.frames

-----------------------------------------------------------------------------
\* Numbers.

LEMMA Wrapped ==
    ASSUME NEW n \in Int
    PROVE  Wrap32(n) \in 0 .. (WORD32 - 1)
BY UserHeapAssumption DEF Wrap32

LEMMA WrapSmall ==
    ASSUME NEW n \in Nat, n < WORD32
    PROVE  Wrap32(n) = n
BY UserHeapAssumption DEF Wrap32

LEMMA Quotient ==
    ASSUME NEW n \in Nat
    PROVE  LET q == n \div FRAME_SIZE
           IN  /\ q \in Nat
               /\ q * FRAME_SIZE \in Nat
               /\ q * FRAME_SIZE <= n /\ n < q * FRAME_SIZE + FRAME_SIZE
               /\ n % FRAME_SIZE = n - q * FRAME_SIZE
BY UserHeapAssumption, Z3

LEMMA Multiple ==
    ASSUME NEW q \in Nat
    PROVE  /\ q * FRAME_SIZE \in Nat
           /\ (q * FRAME_SIZE) % FRAME_SIZE = 0
           /\ (q * FRAME_SIZE) \div FRAME_SIZE = q
BY UserHeapAssumption, Z3

LEMMA AlignedUp ==
    ASSUME NEW n \in Nat
    PROVE  /\ ALIGN_UP(n) \in Nat
           /\ ALIGN_UP(n) >= n /\ ALIGN_UP(n) < n + FRAME_SIZE
           /\ ALIGN_UP(n) % FRAME_SIZE = 0
           /\ (ALIGN_UP(n) \div FRAME_SIZE) * FRAME_SIZE = ALIGN_UP(n)
           /\ ALIGN_UP(n) \div FRAME_SIZE \in Nat
<1> DEFINE m == n + FRAME_SIZE - 1
           q == m \div FRAME_SIZE
<1>1. m \in Nat /\ m = n + FRAME_SIZE - 1 /\ FRAME_SIZE \in Nat
  BY UserHeapAssumption
<1>2. ALIGN_UP(n) = q * FRAME_SIZE
  BY DEF ALIGN_UP
<1> HIDE DEF m
<1>3. /\ q \in Nat /\ q * FRAME_SIZE \in Nat
      /\ q * FRAME_SIZE <= m /\ m < q * FRAME_SIZE + FRAME_SIZE
  BY <1>1, Quotient
<1> HIDE DEF q
<1>4. (q * FRAME_SIZE) % FRAME_SIZE = 0 /\ (q * FRAME_SIZE) \div FRAME_SIZE = q
  BY <1>3, Multiple
<1> DEFINE z == q * FRAME_SIZE
<1>5. z \in Nat /\ z <= m /\ m < z + FRAME_SIZE
  BY <1>3
<1>6. z % FRAME_SIZE = 0 /\ z \div FRAME_SIZE = q
  BY <1>4
<1>7. z = q * FRAME_SIZE
  OBVIOUS
<1> HIDE DEF z
<1>8. z >= n /\ z < n + FRAME_SIZE
  BY <1>1, <1>5
<1> QED BY <1>2, <1>3, <1>5, <1>6, <1>7, <1>8

\* The page an address is on begins no earlier than an aligned address below it.
LEMMA PageBase ==
    ASSUME NEW a \in Nat, NEW lo \in Nat, lo % FRAME_SIZE = 0, lo <= a
    PROVE  LET base == a - (a % FRAME_SIZE)
           IN  base \in Nat /\ lo <= base /\ base <= a /\ base % FRAME_SIZE = 0
<1> DEFINE F == FRAME_SIZE
           q == a \div F
           p == lo \div F
<1>1. /\ F \in Nat /\ F > 0 /\ q \in Nat /\ p \in Nat
      /\ q * F \in Nat /\ q * F <= a /\ a < q * F + F /\ a % F = a - q * F
      /\ p * F \in Nat /\ lo = p * F
  <2>1. F \in Nat /\ F > 0
    BY UserHeapAssumption
  <2>2. q \in Nat /\ q * F \in Nat /\ q * F <= a /\ a < q * F + F /\ a % F = a - q * F
    BY Quotient
  <2>3. p \in Nat /\ p * F \in Nat /\ lo % F = lo - p * F
    BY Quotient
  <2>4. lo - p * F = 0
    BY <2>3
  <2> QED BY <2>1, <2>2, <2>3, <2>4
<1> HIDE DEF q, p, F
<1>2. p <= q
  <2>1. p * F < (q + 1) * F
    BY <1>1
  <2> SUFFICES ASSUME p >= q + 1 PROVE FALSE
    BY <1>1
  <2>2. p * F >= (q + 1) * F
    BY <1>1
  <2> QED BY <1>1, <2>1, <2>2
<1>3. p * F <= q * F
  BY <1>1, <1>2
<1>4. (q * F) % F = 0
  BY <1>1, Multiple DEF F
<1>5. a - (a % F) = q * F
  BY <1>1
<1> QED BY <1>1, <1>3, <1>4, <1>5 DEF F

-----------------------------------------------------------------------------
\* Splitting and merging.

LEMMA ShapeKept ==
    ASSUME NEW h, HeapOK(h), NEW g, Rearranged(g, h), Kept(g, h),
           g.num \in 0 .. (WORD32 - 1), g.allocated \in 0 .. (WORD32 - 1)
    PROVE  HeapOK(g)
BY DEF HeapOK, Shape, Paged, Rearranged, Kept

\* num_blocks_ alone changes.
WithNum(h, n) == [h EXCEPT !.num = n]

LEMMA NumCounted ==
    ASSUME NEW h, DOMAIN h = HeapFields, NEW n
    PROVE  LET g == WithNum(h, n)
           IN  /\ DOMAIN g = HeapFields /\ g.num = n /\ Kept(g, h)
               /\ g.hdr = h.hdr /\ g.blocks = h.blocks /\ g.allocated = h.allocated
BY DEF HeapFields, WithNum, Kept

\* g is x, a rearrangement of the heap h, with a count of blocks.
LEMMA Recounted ==
    ASSUME NEW h, HeapOK(h), NEW x, Rearranged(x, h), SameBesides(x, h), NEW n \in Int
    PROVE  LET g == WithNum(x, Wrap32(n))
           IN  /\ HeapOK(g) /\ Rearranged(g, h) /\ BlocksOf(g) = BlocksOf(x)
               /\ g.hdr = x.hdr /\ g.allocated = h.allocated
<1> DEFINE g == WithNum(x, Wrap32(n))
<1>1. DOMAIN x = HeapFields /\ Kept(x, h) /\ x.allocated = h.allocated
  BY DEF HeapOK, Shape, SameBesides, HeapFields, Kept
<1>2. /\ DOMAIN g = DOMAIN x /\ g.num = Wrap32(n) /\ Kept(g, x)
      /\ g.hdr = x.hdr /\ g.blocks = x.blocks /\ g.allocated = x.allocated
  BY <1>1, NumCounted
<1> HIDE DEF g
<1>3. Rearranged(g, x) /\ BlocksOf(g) = BlocksOf(x)
  BY <1>2, SameList DEF Rearranged
<1>4. Rearranged(g, h)
  BY <1>3, RearrangedTwice
<1>5. g.num \in 0 .. (WORD32 - 1) /\ h.allocated \in 0 .. (WORD32 - 1)
  BY <1>2, Wrapped DEF HeapOK, Shape
<1>6. Kept(g, h)
  BY <1>1, <1>2 DEF Kept
<1>7. HeapOK(g)
  BY <1>1, <1>2, <1>4, <1>5, <1>6, ShapeKept
<1> QED BY <1>1, <1>2, <1>3, <1>4, <1>7 DEF g

LEMMA Itself ==
    ASSUME NEW h, HeapOK(h)
    PROVE  Rearranged(h, h)
BY SameList DEF HeapOK, Shape

LEMMA NumInt ==
    ASSUME NEW h, HeapOK(h)
    PROVE  h.num \in Int /\ h.num + 1 \in Int /\ h.num + WORD32 - 1 \in Int
BY UserHeapAssumption DEF HeapOK, Shape

LEMMA SplitHeap ==
    ASSUME NEW h, HeapOK(h), NEW b \in BlocksOf(h), h.hdr[b].is_free,
           NEW size \in Nat, h.hdr[b].size >= size
    PROVE  LET g == Split(h, b, size)
           IN  /\ HeapOK(g) /\ Rearranged(g, h)
               /\ b \in BlocksOf(g) /\ g.hdr[b].is_free
               /\ g.hdr[b].size \in Nat /\ g.hdr[b].size >= size
<1>0. ListOK(h) /\ ListTyped(h) /\ h.hdr[b].size \in Nat
  BY BlockTyped DEF HeapOK, Shape, ListOK
<1>1. CASE ~ Splits(h, b, size)
  BY <1>0, <1>1, Itself DEF Split
<1>2. CASE Splits(h, b, size)
  <2> DEFINE x == SplitAt(h, b, size)
             g == WithNum(x, Wrap32(h.num + 1))
  <2>1. /\ Rearranged(x, h) /\ SameBesides(x, h)
        /\ b \in BlocksOf(x) /\ x.hdr[b].is_free /\ x.hdr[b].size = size
    BY <1>0, <1>2, SplitFreeKeeps
  <2>2. x.num = h.num
    BY <2>1 DEF SameBesides, HeapOK, Shape, HeapFields
  <2>3. Split(h, b, size) = g
    BY <1>2, <2>2 DEF Split, WithNum
  <2> HIDE DEF x
  <2>4. HeapOK(g) /\ Rearranged(g, h) /\ BlocksOf(g) = BlocksOf(x) /\ g.hdr = x.hdr
    BY <2>1, Recounted, NumInt
  <2> HIDE DEF g
  <2>5. g.hdr[b].size = size /\ g.hdr[b].is_free /\ b \in BlocksOf(g)
    BY <2>1, <2>4
  <2> QED BY <2>3, <2>4, <2>5
<1> QED BY <1>1, <1>2

LEMMA MergeNextHeap ==
    ASSUME NEW h, HeapOK(h), NEW b \in BlocksOf(h), h.hdr[b].is_free
    PROVE  LET g == MergeNext(h, b)
           IN  /\ HeapOK(g) /\ Rearranged(g, h) /\ g.allocated = h.allocated
               /\ b \in BlocksOf(g) /\ g.hdr[b].is_free
<1>1. CASE ~ MergesNext(h, b)
  BY <1>1, Itself DEF MergeNext
<1>2. CASE MergesNext(h, b)
  <2> DEFINE x == JoinNext(h, b)
             g == WithNum(x, Wrap32(h.num + WORD32 - 1))
  <2>1. /\ Rearranged(x, h) /\ SameBesides(x, h)
        /\ b \in BlocksOf(x) /\ x.hdr[b].is_free
    BY <1>2, MergeNextKeeps DEF HeapOK, Shape
  <2>2. x.num = h.num
    BY <2>1 DEF SameBesides, HeapOK, Shape, HeapFields
  <2>3. MergeNext(h, b) = g
    BY <1>2, <2>2 DEF MergeNext, WithNum
  <2> HIDE DEF x
  <2>4. /\ HeapOK(g) /\ Rearranged(g, h) /\ BlocksOf(g) = BlocksOf(x) /\ g.hdr = x.hdr
        /\ g.allocated = h.allocated
    BY <2>1, Recounted, NumInt
  <2> HIDE DEF g
  <2>5. g.hdr[b].is_free /\ b \in BlocksOf(g)
    BY <2>1, <2>4
  <2> QED BY <2>3, <2>4, <2>5
<1> QED BY <1>1, <1>2

LEMMA MergePrevHeap ==
    ASSUME NEW h, HeapOK(h), NEW b \in BlocksOf(h), h.hdr[b].is_free
    PROVE  LET g == MergePrev(h, b)
           IN  HeapOK(g) /\ Rearranged(g, h) /\ g.allocated = h.allocated
<1>1. CASE ~ MergesPrev(h, b)
  BY <1>1, Itself DEF MergePrev
<1>2. CASE MergesPrev(h, b)
  <2> DEFINE x == JoinPrev(h, b)
             g == WithNum(x, Wrap32(h.num + WORD32 - 1))
  <2>1. Rearranged(x, h) /\ SameBesides(x, h)
    BY <1>2, MergePrevKeeps DEF HeapOK, Shape
  <2>2. x.num = h.num
    BY <2>1 DEF SameBesides, HeapOK, Shape, HeapFields
  <2>3. MergePrev(h, b) = g
    BY <1>2, <2>2 DEF MergePrev, WithNum
  <2> HIDE DEF x
  <2>4. HeapOK(g) /\ Rearranged(g, h) /\ g.allocated = h.allocated
    BY <2>1, Recounted, NumInt
  <2> HIDE DEF g
  <2> QED BY <2>3, <2>4
<1> QED BY <1>1, <1>2

LEMMA CoalesceHeap ==
    ASSUME NEW h, HeapOK(h), NEW b \in BlocksOf(h)
    PROVE  LET g == Coalesce(h, b)
           IN  HeapOK(g) /\ Rearranged(g, h) /\ g.allocated = h.allocated
<1>1. CASE ~ h.hdr[b].is_free
  BY <1>1, Itself DEF Coalesce
<1>2. CASE h.hdr[b].is_free
  <2> DEFINE x == MergeNext(h, b)
             g == MergePrev(x, b)
  <2>1. /\ HeapOK(x) /\ Rearranged(x, h) /\ x.allocated = h.allocated
        /\ b \in BlocksOf(x) /\ x.hdr[b].is_free
    BY <1>2, MergeNextHeap
  <2>2. Coalesce(h, b) = g
    BY <1>2 DEF Coalesce
  <2> HIDE DEF x
  <2>3. HeapOK(g) /\ Rearranged(g, x) /\ g.allocated = x.allocated
    BY <2>1, MergePrevHeap
  <2> HIDE DEF g
  <2>4. Rearranged(g, h)
    BY <2>1, <2>3, RearrangedTwice
  <2> QED BY <2>1, <2>2, <2>3, <2>4
<1> QED BY <1>1, <1>2

-----------------------------------------------------------------------------
\* Growing the heap.

LEMMA PagesJoin ==
    ASSUME NEW lo \in Nat, NEW mid \in Nat, NEW size \in Nat, lo <= mid
    PROVE  PagesOf(lo, mid - lo) \cup PagesOf(mid, size) = PagesOf(lo, (mid + size) - lo)
<1>1. /\ lo + (mid - lo) - 1 = mid - 1
      /\ lo + ((mid + size) - lo) - 1 = mid + size - 1
  OBVIOUS
<1>2. /\ PagesOf(lo, mid - lo) = {a \in lo .. (mid - 1) : a % FRAME_SIZE = 0}
      /\ PagesOf(lo, (mid + size) - lo) = {a \in lo .. (mid + size - 1) : a % FRAME_SIZE = 0}
      /\ PagesOf(mid, size) = {a \in mid .. (mid + size - 1) : a % FRAME_SIZE = 0}
  BY <1>1 DEF PagesOf
<1>3. lo .. (mid + size - 1) = (lo .. (mid - 1)) \cup (mid .. (mid + size - 1))
  OBVIOUS
<1> QED BY <1>2, <1>3

LEMMA PagesApart ==
    ASSUME NEW lo \in Nat, NEW mid \in Nat, NEW size \in Nat, lo <= mid
    PROVE  PagesOf(lo, mid - lo) \ PagesOf(mid, size) = PagesOf(lo, mid - lo)
<1>1. lo + (mid - lo) - 1 = mid - 1
  OBVIOUS
<1>2. PagesOf(lo, mid - lo) = {a \in lo .. (mid - 1) : a % FRAME_SIZE = 0}
  BY <1>1 DEF PagesOf
<1>3. PagesOf(mid, size) \subseteq mid .. (mid + size - 1)
  BY DEF PagesOf
<1> QED BY <1>2, <1>3

\* sys_request_memory past the end of the heap.
LEMMA RequestHeap ==
    ASSUME NEW h, HeapOK(h), NEW size \in Nat
    PROVE  LET g == Request(h, h.current, size)
           IN  /\ Shape(g) /\ SameUsed(g, h) /\ g.current = h.current
               /\ Granted(h, size) => g.pages = PagesOf(HEAP_START, (h.current + size) - HEAP_START)
               /\ ~ Granted(h, size) => HeapOK(g)
<1> DEFINE g == Request(h, h.current, size)
           n == size \div FRAME_SIZE
<1>0. /\ DOMAIN h = HeapFields /\ ListOK(h) /\ h.frames \in Nat /\ h.current \in Nat
      /\ HEAP_START \in Nat /\ HEAP_START <= h.current
      /\ h.pages = PagesOf(HEAP_START, h.current - HEAP_START)
  BY UserHeapAssumption DEF HeapOK, Shape, Paged
<1>1. n \in Nat
  BY Quotient
<1>2. /\ DOMAIN g = DOMAIN h /\ g.hdr = h.hdr /\ g.blocks = h.blocks
      /\ g.current = h.current /\ g.limit = h.limit /\ g.allocated = h.allocated /\ g.num = h.num
  BY <1>0 DEF Request, HeapFields
<1>3. /\ Granted(h, size) =>
           /\ g.frames = h.frames - n /\ n <= h.frames
           /\ g.pages = h.pages \cup PagesOf(h.current, size)
      /\ ~ Granted(h, size) =>
           /\ g.frames = 0
           /\ g.pages = h.pages \ PagesOf(h.current, h.frames * FRAME_SIZE)
  BY <1>0 DEF Request, HeapFields, Granted
<1> HIDE DEF g, n
<1>4. g.frames \in Nat
  BY <1>0, <1>1, <1>3
<1>5. Rearranged(g, h)
  BY <1>0, <1>2, SameList
<1>6. Shape(g)
  BY <1>0, <1>2, <1>4, <1>5 DEF HeapOK, Shape, Rearranged
<1>7. Granted(h, size) => g.pages = PagesOf(HEAP_START, (h.current + size) - HEAP_START)
  BY <1>0, <1>3, PagesJoin
<1>8. h.frames * FRAME_SIZE \in Nat
  BY <1>0, Multiple
<1>9. ~ Granted(h, size) => Paged(g)
  <2> DEFINE m == h.frames * FRAME_SIZE
             c == h.current
  <2>1. m \in Nat /\ c \in Nat /\ HEAP_START \in Nat /\ HEAP_START <= c
    BY <1>0, <1>8
  <2> HIDE DEF m, c
  <2>2. PagesOf(HEAP_START, c - HEAP_START) \ PagesOf(c, m) = PagesOf(HEAP_START, c - HEAP_START)
    BY <2>1, PagesApart
  <2> QED BY <1>0, <1>2, <1>3, <2>2 DEF Paged, m, c
<1> QED BY <1>2, <1>5, <1>6, <1>7, <1>9, RearrangedSameUsed DEF HeapOK, g

\* A free block is linked last, over what the heap grows by.
LEMMA Appended ==
    ASSUME NEW h, Shape(h), NEW size \in Nat, size >= HDR, h.current + size <= HEAP_MAX
    PROVE  LET b == h.current
               x == AppendBlock(h, b, size - HDR)
           IN  /\ b \in Address
               /\ HEAP_START \in Nat /\ HEAP_START <= b /\ b <= HEAP_MAX /\ HEAP_MAX \in Nat
               /\ Covered(h) = HEAP_START .. (b - 1)
               /\ Bytes(b, size - HDR) = b .. (b + size - 1)
               /\ ListOK(x) /\ SameBesides(x, h) /\ BlocksOf(x) = BlocksOf(h) \cup {b}
               /\ Len(x.blocks) = Len(h.blocks) + 1
               /\ UsedOf(x) = UsedOf(h) /\ SameUsed(x, h)
               /\ Covered(x) = Covered(h) \cup Bytes(b, size - HDR)
<1> DEFINE b == h.current
           m == size - HDR
           x == AppendBlock(h, b, m)
<1>0. /\ ListOK(h) /\ b \in Address /\ m \in Nat
      /\ HEAP_START \in Nat /\ HEAP_START <= b /\ b <= HEAP_MAX /\ HEAP_MAX \in Nat
      /\ Covered(h) = HEAP_START .. (b - 1)
  BY UserHeapAssumption, BlockAssumption DEF Shape, Address
<1>1. Bytes(b, m) = b .. (b + size - 1)
  BY <1>0, BlockAssumption, BytesRange DEF Address
<1>2. \A a \in Covered(h) : a \notin Bytes(b, m)
  BY <1>0, <1>1 DEF Address
<1> HIDE DEF b, m
<1>3. LET f == AppendBlock(h, b, m)
      IN  /\ ListOK(f) /\ SameBesides(f, h) /\ BlocksOf(f) = BlocksOf(h) \cup {b}
          /\ Len(f.blocks) = Len(h.blocks) + 1
          /\ UsedOf(f) = UsedOf(h)
          /\ Covered(f) = Covered(h) \cup Bytes(b, m)
          /\ \A c \in BlocksOf(h) : f.hdr[c].size = h.hdr[c].size
  <2>1. m \in Nat /\ b \in Address /\ ListOK(h) /\ \A a \in Covered(h) : a \notin Bytes(b, m)
    BY <1>0, <1>2
  <2> QED BY <2>1, AppendKeeps
<1>4. SameUsed(x, h)
  BY <1>0, <1>3, UsedAreBlocks DEF SameUsed
<1> QED BY <1>0, <1>1, <1>3, <1>4 DEF b, m

\* The free block that is linked last covers what the heap has grown by.
LEMMA GrowHeap ==
    ASSUME NEW h, Shape(h), NEW size \in Nat, size >= HDR, h.current + size <= HEAP_MAX,
           h.pages = PagesOf(HEAP_START, (h.current + size) - HEAP_START)
    PROVE  LET g == Grow(h, size)
           IN  HeapOK(g) /\ SameUsed(g, h) /\ h.current \in BlocksOf(g)
<1> DEFINE b == h.current
           x == AppendBlock(h, b, size - HDR)
           g == [x EXCEPT !.current = @ + size, !.grown = @ + 1]
<1>0. DOMAIN h = HeapFields
  BY DEF Shape
<1>1. /\ b \in Address
      /\ HEAP_START \in Nat /\ HEAP_START <= b /\ b <= HEAP_MAX /\ HEAP_MAX \in Nat
      /\ Covered(h) = HEAP_START .. (b - 1)
      /\ Bytes(b, size - HDR) = b .. (b + size - 1)
      /\ ListOK(x) /\ SameBesides(x, h) /\ BlocksOf(x) = BlocksOf(h) \cup {b}
      /\ UsedOf(x) = UsedOf(h) /\ SameUsed(x, h)
      /\ Covered(x) = Covered(h) \cup Bytes(b, size - HDR)
  BY Appended
<1>2. b \in Nat
  BY <1>1 DEF Address
<1>4. Grow(h, size) = g
  BY DEF Grow
<1> HIDE DEF x
<1>5. /\ DOMAIN x = HeapFields
      /\ x.current = h.current /\ x.limit = h.limit /\ x.allocated = h.allocated
      /\ x.num = h.num /\ x.frames = h.frames /\ x.pages = h.pages
  BY <1>0, <1>1 DEF SameBesides, HeapFields
<1>6. /\ DOMAIN g = DOMAIN x /\ g.hdr = x.hdr /\ g.blocks = x.blocks
      /\ g.current = h.current + size /\ g.limit = h.limit /\ g.allocated = h.allocated
      /\ g.num = h.num /\ g.frames = h.frames /\ g.pages = h.pages
  BY <1>5 DEF HeapFields
<1> HIDE DEF g
<1>7. Rearranged(g, x) /\ BlocksOf(g) = BlocksOf(x)
  BY <1>1, <1>6, SameList
<1>8. Covered(g) = HEAP_START .. (g.current - 1)
  <2>1. Covered(g) = (HEAP_START .. (b - 1)) \cup (b .. (b + size - 1))
    BY <1>1, <1>7 DEF Rearranged
  <2>2. (HEAP_START .. (b - 1)) \cup (b .. (b + size - 1)) = HEAP_START .. (b + size - 1)
    BY <1>1 DEF Address
  <2>3. g.current - 1 = b + size - 1
    BY <1>2, <1>6
  <2> QED BY <2>1, <2>2, <2>3
<1>9. g.current \in HEAP_START .. HEAP_MAX
  BY <1>1, <1>6 DEF Address
<1>10. HeapOK(g)
  BY <1>5, <1>6, <1>7, <1>8, <1>9 DEF HeapOK, Shape, Paged, Rearranged
<1>11. SameUsed(g, h)
  BY <1>1, <1>7, RearrangedSameUsed, SameUsedTwice
<1> QED BY <1>1, <1>4, <1>7, <1>10, <1>11

LEMMA ExpandHeap ==
    ASSUME NEW h, HeapOK(h), NEW min_size \in Nat, min_size >= HDR
    PROVE  LET g == Expand(h, min_size) IN HeapOK(g) /\ SameUsed(g, h)
<1> DEFINE size == ALIGN_UP(min_size)
           asked == Request(h, h.current, size)
           grown == Grow(asked, size)
           g == Coalesce(grown, h.current)
<1>1. size \in Nat /\ size >= HDR
  BY AlignedUp, BlockAssumption
<1>2. /\ Expand(h, min_size) = IF ~ WithinMax(h, size) THEN h
                               ELSE IF ~ Granted(h, size) THEN asked ELSE g
  BY DEF Expand
<1> HIDE DEF size
<1>3. /\ Shape(asked) /\ SameUsed(asked, h) /\ asked.current = h.current
      /\ Granted(h, size) => asked.pages = PagesOf(HEAP_START, (h.current + size) - HEAP_START)
      /\ ~ Granted(h, size) => HeapOK(asked)
  BY <1>1, RequestHeap
<1> HIDE DEF asked
<1>4. CASE WithinMax(h, size) /\ Granted(h, size)
  <2>1. HeapOK(grown) /\ SameUsed(grown, asked) /\ h.current \in BlocksOf(grown)
    BY <1>1, <1>3, <1>4, GrowHeap DEF WithinMax
  <2> HIDE DEF grown
  <2>2. HeapOK(g) /\ Rearranged(g, grown)
    BY <2>1, CoalesceHeap
  <2> HIDE DEF g
  <2>3. SameUsed(g, h)
    BY <1>3, <2>1, <2>2, RearrangedSameUsed, SameUsedTwice
  <2> QED BY <1>2, <1>4, <2>2, <2>3
<1>5. SameUsed(h, h)
  BY Itself, RearrangedSameUsed
<1> QED BY <1>2, <1>3, <1>4, <1>5

-----------------------------------------------------------------------------
\* Handing out and taking back.

\* The outcome of malloc, as the process sees it.
Served(o, h, size) ==
    /\ HeapOK(o.heap)
    /\ \/ o.ptr = Null /\ SameUsed(o.heap, h)
       \/ \E b : o.ptr = Data(b) /\ o.ptr \in Nat /\ o.ptr # Null /\ Grants(o.heap, h, b, size)

LEMMA MinMember ==
    ASSUME NEW T, T \subseteq Nat, T # {}
    PROVE  Min(T) \in T
BY LeastNat DEF Min

WithCount(h, n, d) == [h EXCEPT !.allocated = n, !.drift = d]

LEMMA Counted ==
    ASSUME NEW h, HeapOK(h), NEW n \in Int, NEW d
    PROVE  LET g == WithCount(h, Wrap32(n), d)
           IN  HeapOK(g) /\ Rearranged(g, h) /\ g.hdr = h.hdr /\ BlocksOf(g) = BlocksOf(h)
<1> DEFINE g == WithCount(h, Wrap32(n), d)
<1>0. DOMAIN h = HeapFields /\ ListOK(h) /\ h.num \in 0 .. (WORD32 - 1)
  BY DEF HeapOK, Shape
<1>1. /\ DOMAIN g = DOMAIN h /\ g.hdr = h.hdr /\ g.blocks = h.blocks
      /\ Kept(g, h) /\ g.num = h.num /\ g.allocated = Wrap32(n)
  BY <1>0 DEF HeapFields, Kept, WithCount
<1> HIDE DEF g
<1>2. Rearranged(g, h) /\ BlocksOf(g) = BlocksOf(h)
  BY <1>0, <1>1, SameList
<1>3. g.allocated \in 0 .. (WORD32 - 1)
  BY <1>1, Wrapped
<1>4. HeapOK(g)
  BY <1>0, <1>1, <1>2, <1>3, ShapeKept
<1> QED BY <1>1, <1>2, <1>4 DEF g

LEMMA HandOutHeap ==
    ASSUME NEW h, HeapOK(h), NEW b \in BlocksOf(h)
    PROVE  LET g == HandOut(h, b)
           IN  /\ HeapOK(g) /\ DOMAIN g = HeapFields
               /\ g.allocated = h.allocated /\ g.drift = h.drift
               /\ UsedOf(g) = UsedOf(h) \cup {b}
               /\ \A c \in BlocksOf(h) : g.hdr[c].size = h.hdr[c].size
<1> DEFINE g == HandOut(h, b)
<1>0. DOMAIN h = HeapFields /\ ListOK(h)
  BY DEF HeapOK, Shape
<1>1. /\ ListOK(g) /\ SameBesides(g, h) /\ Covered(g) = Covered(h)
      /\ UsedOf(g) = UsedOf(h) \cup {b}
      /\ \A c \in BlocksOf(h) : g.hdr[c].size = h.hdr[c].size
  BY <1>0, HandOutKeeps
<1> HIDE DEF g
<1>2. /\ DOMAIN g = HeapFields /\ Kept(g, h) /\ g.num = h.num
      /\ g.allocated = h.allocated /\ g.drift = h.drift
  BY <1>0, <1>1 DEF SameBesides, HeapFields, Kept
<1>3. HeapOK(g)
  BY <1>1, <1>2 DEF HeapOK, Shape, Paged, Kept
<1> QED BY <1>1, <1>2, <1>3 DEF g

LEMMA FirstFitServes ==
    ASSUME NEW h, HeapOK(h), NEW size \in Nat, NEW asked \in Nat, asked <= size
    PROVE  Served(FirstFit(h, size), h, asked)
<1> DEFINE i == Min(Fitting(h, size))
           b == h.blocks[i]
           s == Split(h, b, size)
           x == HandOut(s, b)
           n == x.allocated + size
           d == x.drift - (s.hdr[b].size - size)
           g == WithCount(x, Wrap32(n), d)
<1>0. ListOK(h) /\ ListTyped(h)
  BY DEF HeapOK, Shape, ListOK
<1>1. CASE Fitting(h, size) = {}
  <2>1. FirstFit(h, size).heap = h /\ FirstFit(h, size).ptr = Null
    BY <1>1 DEF FirstFit, Outcome
  <2> QED BY <2>1, Itself, RearrangedSameUsed DEF Served
<1>2. CASE Fitting(h, size) # {}
  <2>1. i \in Fitting(h, size)
    <3>1. Fitting(h, size) \subseteq Nat
      BY <1>0, LenProperties DEF Fitting, ListTyped
    <3> QED BY <1>2, <3>1, MinMember
  <2> HIDE DEF i
  <2>2. b \in BlocksOf(h) /\ h.hdr[b].is_free /\ h.hdr[b].size >= size
    BY <1>0, <2>1, FittingBlock
  <2>3. FirstFit(h, size).heap = g /\ FirstFit(h, size).ptr = Data(b)
    BY <1>2 DEF FirstFit, Outcome, WithCount, i
  <2>4. b \in Address /\ Data(b) \in Nat /\ Data(b) # Null
    BY <1>0, <2>2, BlockTyped, BlockAssumption DEF Address, Null
  <2>5. b \notin UsedOf(h)
    BY <1>0, <2>2, UsedAreBlocks
  <2> HIDE DEF b
  <2>6. /\ HeapOK(s) /\ Rearranged(s, h) /\ b \in BlocksOf(s)
        /\ s.hdr[b].size \in Nat /\ s.hdr[b].size >= size
    BY <2>2, SplitHeap
  <2> HIDE DEF s
  <2>7. /\ HeapOK(x) /\ UsedOf(x) = UsedOf(s) \cup {b}
        /\ \A c \in BlocksOf(s) : x.hdr[c].size = s.hdr[c].size
    BY <2>6, HandOutHeap
  <2> HIDE DEF x
  <2>8. n \in Int
    <3>1. x.allocated \in 0 .. (WORD32 - 1)
      BY <2>7 DEF HeapOK, Shape
    <3>2. x.allocated \in Int
      BY <3>1
    <3> QED BY <3>2
  <2> HIDE DEF n, d
  <2>9. HeapOK(g) /\ Rearranged(g, x) /\ g.hdr = x.hdr
    BY <2>7, <2>8, Counted
  <2> HIDE DEF g
  <2>10. UsedOf(g) = UsedOf(h) \cup {b}
    BY <2>6, <2>7, <2>9 DEF Rearranged
  <2>11. g.hdr[b].size = s.hdr[b].size
    BY <2>6, <2>7, <2>9
  <2>12. g.hdr[b].size >= asked
    BY <2>6, <2>11
  <2>13. \A c \in UsedOf(h) : g.hdr[c].size = h.hdr[c].size
    <3> TAKE c \in UsedOf(h)
    <3>1. c \in UsedOf(s) /\ s.hdr[c].size = h.hdr[c].size
      BY <2>6 DEF Rearranged
    <3>2. c \in BlocksOf(s)
      BY <2>6, <3>1, UsedAreBlocks DEF Rearranged
    <3> QED BY <2>7, <2>9, <3>1, <3>2
  <2> QED BY <2>3, <2>4, <2>5, <2>9, <2>10, <2>12, <2>13 DEF Served, Grants
<1> QED BY <1>1, <1>2

LEMMA MallocServes ==
    ASSUME NEW h, HeapOK(h), NEW asked \in Nat
    PROVE  Served(Malloc(h, asked), h, asked)
<1> DEFINE up == ALIGN_UP(asked)
           size == Wrap32(up)
           more == Wrap32(size + HDR)
           g == Expand(h, more)
<1>1. CASE asked = 0 \/ asked > MAX_SINGLE_ALLOC
  <2>1. Malloc(h, asked).heap = h /\ Malloc(h, asked).ptr = Null
    BY <1>1 DEF Malloc, Outcome
  <2> QED BY <2>1, Itself, RearrangedSameUsed DEF Served
<1>2. CASE ~ (asked = 0 \/ asked > MAX_SINGLE_ALLOC)
  <2>1. Malloc(h, asked) = IF Fitting(h, size) # {} THEN FirstFit(h, size) ELSE FirstFit(g, size)
    BY <1>2 DEF Malloc
  <2>2. asked <= MAX_SINGLE_ALLOC
    BY <1>2, UserHeapAssumption
  <2>3. up \in Nat /\ up >= asked /\ up < asked + FRAME_SIZE
    BY AlignedUp
  <2> HIDE DEF up
  <2>4. up < WORD32 /\ up + HDR < WORD32 /\ up + HDR \in Nat
    BY <2>2, <2>3, UserHeapAssumption, BlockAssumption
  <2>5. size = up
    BY <2>3, <2>4, WrapSmall
  <2>6. more = up + HDR
    BY <2>4, <2>5, WrapSmall
  <2>7. size \in Nat /\ asked <= size /\ more \in Nat /\ more >= HDR
    BY <2>3, <2>4, <2>5, <2>6, BlockAssumption
  <2> HIDE DEF size, more
  <2>8. Served(FirstFit(h, size), h, asked)
    BY <2>7, FirstFitServes
  <2>9. HeapOK(g) /\ SameUsed(g, h)
    BY <2>7, ExpandHeap
  <2> HIDE DEF g
  <2>10. Served(FirstFit(g, size), g, asked)
    BY <2>7, <2>9, FirstFitServes
  <2> DEFINE o == FirstFit(g, size)
  <2> HIDE DEF o
  <2>11. Served(o, h, asked)
    <3>1. HeapOK(o.heap)
      BY <2>10 DEF Served, o
    <3>2. CASE o.ptr = Null /\ SameUsed(o.heap, g)
      BY <2>9, <3>1, <3>2, SameUsedTwice DEF Served
    <3>3. CASE \E b : o.ptr = Data(b) /\ o.ptr \in Nat /\ o.ptr # Null /\ Grants(o.heap, g, b, asked)
      BY <2>9, <3>1, <3>3 DEF Served, Grants, SameUsed
    <3> QED BY <2>10, <3>2, <3>3 DEF Served, o
  <2> QED BY <2>1, <2>8, <2>11 DEF o
<1> QED BY <1>1, <1>2

\* free of a used block, or of a block that is free.
LEMMA ReleaseHeap ==
    ASSUME NEW h, HeapOK(h), NEW b \in BlocksOf(h)
    PROVE  LET g == Release(h, b)
           IN  /\ HeapOK(g) /\ UsedOf(g) = UsedOf(h) \ {b}
               /\ \A c \in UsedOf(h) \ {b} : g.hdr[c].size = h.hdr[c].size
<1> DEFINE x == MarkFree(h, b)
           n == x.allocated + WORD32 - h.hdr[b].size
           y == [x EXCEPT !.allocated = Wrap32(n)]
           g == Coalesce(y, b)
<1>0. /\ ListOK(h) /\ ListTyped(h) /\ DOMAIN h = HeapFields /\ h.hdr[b].size \in Nat
  BY BlockTyped DEF HeapOK, Shape, ListOK
<1>1. CASE h.hdr[b].is_free
  <2>1. Release(h, b) = h
    BY <1>1 DEF Release
  <2>2. b \notin UsedOf(h)
    BY <1>0, <1>1, UsedAreBlocks
  <2> QED BY <2>1, <2>2
<1>2. CASE ~ h.hdr[b].is_free
  <2>1. Release(h, b) = g
    BY <1>2 DEF Release
  <2>2. /\ ListOK(x) /\ SameBesides(x, h) /\ BlocksOf(x) = BlocksOf(h) /\ Covered(x) = Covered(h)
        /\ UsedOf(x) = UsedOf(h) \ {b}
        /\ \A c \in BlocksOf(h) : x.hdr[c].size = h.hdr[c].size
    BY <1>0, MarkFreeKeeps
  <2> HIDE DEF x
  <2>3. /\ DOMAIN x = HeapFields /\ Kept(x, h) /\ x.num = h.num /\ x.allocated = h.allocated
    BY <1>0, <2>2 DEF SameBesides, HeapFields, Kept
  <2>4. n \in Int
    <3> DEFINE m == h.hdr[b].size
               z == x.allocated
    <3>1. m \in Nat /\ z \in 0 .. (WORD32 - 1) /\ WORD32 \in Nat
      BY <1>0, <2>3, UserHeapAssumption DEF HeapOK, Shape
    <3>2. n = z + WORD32 - m
      OBVIOUS
    <3> HIDE DEF m, z, n
    <3> QED BY <3>1, <3>2
  <2> HIDE DEF n
  <2>5. HeapOK(x)
    BY <2>2, <2>3 DEF HeapOK, Shape, Paged, Kept
  <2>6. y = WithCount(x, Wrap32(n), x.drift)
    BY <2>3 DEF WithCount, HeapFields
  <2>7. HeapOK(y) /\ Rearranged(y, x) /\ BlocksOf(y) = BlocksOf(x)
    BY <2>4, <2>5, <2>6, Counted
  <2> HIDE DEF y
  <2>8. HeapOK(g) /\ Rearranged(g, y)
    BY <2>2, <2>7, CoalesceHeap
  <2> HIDE DEF g
  <2>9. Rearranged(g, x)
    BY <2>7, <2>8, RearrangedTwice
  <2>10. UsedOf(g) = UsedOf(h) \ {b}
    BY <2>2, <2>9 DEF Rearranged
  <2>11. \A c \in UsedOf(h) \ {b} : g.hdr[c].size = h.hdr[c].size
    BY <1>0, <2>2, <2>9, UsedAreBlocks DEF Rearranged
  <2> QED BY <2>1, <2>8, <2>10, <2>11
<1> QED BY <1>1, <1>2

\* realloc within the block.
LEMMA ShrinkHeap ==
    ASSUME NEW h, HeapOK(h), NEW b \in UsedOf(h), NEW size \in Nat, size <= h.hdr[b].size
    PROVE  LET g == Shrink(h, b, size)
           IN  /\ HeapOK(g) /\ UsedOf(g) = UsedOf(h)
               /\ g.hdr[b].size >= size
               /\ \A c \in UsedOf(h) \ {b} : g.hdr[c].size = h.hdr[c].size
<1> DEFINE x == SplitAt(h, b, size)
           n == h.num + 1
           y == WithNum(x, Wrap32(n))
           d == y.drift + (h.hdr[b].size - size)
           g == [y EXCEPT !.drift = d]
<1>0. /\ ListOK(h) /\ ListTyped(h) /\ DOMAIN h = HeapFields
      /\ b \in BlocksOf(h) /\ h.hdr[b].size \in Nat /\ ~ h.hdr[b].is_free
  BY BlockTyped, UsedAreBlocks DEF HeapOK, Shape, ListOK
<1>1. CASE h.hdr[b].size <= size + MIN_BLOCK_SIZE
  BY <1>0, <1>1 DEF Shrink
<1>2. CASE ~ (h.hdr[b].size <= size + MIN_BLOCK_SIZE)
  <2>1. Splits(h, b, size)
    BY <1>0, <1>2, BlockAssumption DEF Splits, MIN_BLOCK_SIZE
  <2>2. /\ ListOK(x) /\ SameBesides(x, h)
        /\ UsedOf(x) = UsedOf(h) /\ Covered(x) = Covered(h)
        /\ x.hdr[b].size = size
        /\ \A c \in BlocksOf(h) \ {b} : x.hdr[c].size = h.hdr[c].size
    BY <1>0, <2>1, SplitKeeps
  <2>3. /\ DOMAIN x = HeapFields /\ Kept(x, h) /\ x.num = h.num /\ x.allocated = h.allocated
    BY <1>0, <2>2 DEF SameBesides, HeapFields, Kept
  <2>4. Shrink(h, b, size) = g
    BY <1>2, <2>1, <2>3 DEF Shrink, Split, WithNum
  <2> HIDE DEF x
  <2>5. HeapOK(x)
    BY <2>2, <2>3 DEF HeapOK, Shape, Paged, Kept
  <2>6. n \in Int
    BY NumInt
  <2> HIDE DEF n
  <2>7. HeapOK(y) /\ Rearranged(y, x) /\ y.hdr = x.hdr
    <3>1. Rearranged(x, x) /\ SameBesides(x, x)
      BY <2>5, Itself DEF SameBesides
    <3> QED BY <2>5, <2>6, <3>1, Recounted
  <2> HIDE DEF y, d
  <2>8. DOMAIN y = HeapFields
    BY <2>7 DEF HeapOK, Shape
  <2>9. /\ DOMAIN g = DOMAIN y /\ g.hdr = y.hdr /\ g.blocks = y.blocks
        /\ Kept(g, y) /\ g.num = y.num /\ g.allocated = y.allocated
    BY <2>8 DEF HeapFields, Kept
  <2> HIDE DEF g
  <2>10. Rearranged(g, y)
    BY <2>7, <2>9, SameList DEF HeapOK, Shape
  <2>11. HeapOK(g)
    BY <2>7, <2>9, <2>10, ShapeKept DEF HeapOK, Shape
  <2>12. UsedOf(g) = UsedOf(h)
    BY <2>2, <2>7, <2>10 DEF Rearranged
  <2>13. g.hdr[b].size >= size
    BY <2>2, <2>7, <2>9
  <2>14. \A c \in UsedOf(h) \ {b} : g.hdr[c].size = h.hdr[c].size
    BY <1>0, <2>2, <2>7, <2>9, UsedAreBlocks
  <2> QED BY <2>4, <2>11, <2>12, <2>13, <2>14
<1> QED BY <1>1, <1>2

-----------------------------------------------------------------------------
\* The allocations and the blocks.

LEMMA HoldingOne ==
    ASSUME NEW p, p # Null, NEW size
    PROVE  Holding(p, size) = {Allocation(p, size)}
BY DEF Holding, Allocation

\* malloc and calloc.
LEMMA ServedHeld ==
    ASSUME NEW h, HeapOK(h), NEW L, Held(h, L), NEW size \in Nat, NEW o, Served(o, h, size)
    PROVE  LET M == L \cup Holding(o.ptr, size)
           IN  HeapOK(o.heap) /\ Held(o.heap, M) /\ (Fits(h, L) => Fits(o.heap, M))
<1>1. CASE o.ptr = Null /\ SameUsed(o.heap, h)
  <2>1. L \cup Holding(o.ptr, size) = L
    BY <1>1 DEF Holding
  <2> QED BY <1>1, <2>1, HeldSame DEF Served
<1>2. CASE \E b : o.ptr = Data(b) /\ o.ptr \in Nat /\ o.ptr # Null /\ Grants(o.heap, h, b, size)
  <2>1. PICK b : o.ptr = Data(b) /\ o.ptr \in Nat /\ o.ptr # Null /\ Grants(o.heap, h, b, size)
    BY <1>2
  <2> DEFINE p == o.ptr
  <2>2. p \in Nat /\ p = Data(b) /\ p # Null /\ Grants(o.heap, h, b, size)
    BY <2>1
  <2> HIDE DEF p
  <2>3. LET M == L \cup {Allocation(p, size)}
        IN  Held(o.heap, M) /\ (Fits(h, L) => Fits(o.heap, M))
    BY <2>2, HeldAdd
  <2> QED BY <2>2, <2>3, HoldingOne DEF Served, p
<1> QED BY <1>1, <1>2 DEF Served

-----------------------------------------------------------------------------
\* The invariant.

\* Rounding the sizes asked of realloc up to a page stays below 2^32.  The code
\* does not check it, and AllocationsLimited has what happens otherwise.
NewSizesFit == \A n \in NewSizes : n <= WORD32 - FRAME_SIZE

HeapInv ==
    /\ exited \in BOOLEAN
    /\ Shape(heap)
    /\ heap.pages = IF exited THEN {} ELSE PagesOf(HEAP_START, heap.current - HEAP_START)
    /\ live \subseteq [ptr : Nat, size : Nat]
    /\ ~ exited => Held(heap, live)
    /\ ~ exited /\ NewSizesFit => Fits(heap, live)

\* A stack the process was told is there.
StackInv ==
    ready =>
        /\ stack_size_ \in Nat /\ stack_size_ % FRAME_SIZE = 0
        /\ HEAP_MAX + stack_size_ <= STACK_TOP
        /\ PagesOf(STACK_TOP - stack_size_, stack_size_) \subseteq stack

Inv == HeapInv /\ StackInv

\* While the process runs.
Running(h, L) == HeapOK(h) /\ Held(h, L) /\ (NewSizesFit => Fits(h, L))

LEMMA RunningInv ==
    ASSUME HeapInv, ~ exited
    PROVE  Running(heap, live)
BY DEF HeapInv, Running, HeapOK, Paged

LEMMA RunningNext ==
    ASSUME Running(heap', live'), exited' = FALSE
    PROVE  HeapInv'
BY DEF HeapInv, Running, HeapOK, Paged, Held

LEMMA EmptyHeap ==
    ASSUME NEW frames \in Nat
    PROVE  HeapOK([blocks |-> <<>>, hdr |-> <<>>, current |-> HEAP_START, limit |-> HEAP_MAX,
                   allocated |-> 0, num |-> 0, pages |-> {}, frames |-> frames,
                   grown |-> 0, drift |-> 0])
<1> DEFINE h == [blocks |-> <<>>, hdr |-> <<>>, current |-> HEAP_START, limit |-> HEAP_MAX,
                 allocated |-> 0, num |-> 0, pages |-> {}, frames |-> frames,
                 grown |-> 0, drift |-> 0]
<1>1. /\ DOMAIN h = HeapFields /\ h.blocks = <<>> /\ h.hdr = <<>>
      /\ h.current = HEAP_START /\ h.limit = HEAP_MAX /\ h.allocated = 0 /\ h.num = 0
      /\ h.pages = {} /\ h.frames = frames
  BY DEF HeapFields
<1> HIDE DEF h
<1>2. DOMAIN h.hdr = {} /\ DOMAIN h.blocks = {} /\ h.blocks \in Seq(Address)
  BY <1>1
<1>3. BlocksOf(h) = {} /\ UsedOf(h) = {}
  BY <1>2 DEF BlocksOf, UsedOf
<1>4. h.hdr \in [DOMAIN h.hdr -> HeaderType]
  BY <1>1, <1>2
<1>5. ListOK(h)
  BY <1>1, <1>2, <1>3, <1>4 DEF ListOK, ListTyped, HasList, Once, PrevPointersRight, Apart, HeapFields
<1>6. Covered(h) = {}
  BY <1>3 DEF Covered
<1>7. Shape(h)
  BY <1>1, <1>5, <1>6, UserHeapAssumption DEF Shape
<1>8. Paged(h)
  <2>1. PagesOf(HEAP_START, HEAP_START - HEAP_START) \subseteq HEAP_START .. (HEAP_START + 0 - 1)
    BY UserHeapAssumption DEF PagesOf
  <2>2. HEAP_START .. (HEAP_START + 0 - 1) = {}
    BY UserHeapAssumption
  <2> QED BY <1>1, <2>1, <2>2 DEF Paged
<1> QED BY <1>7, <1>8 DEF HeapOK, h

LEMMA CreatedHeap ==
    ASSUME NEW frames \in Nat
    PROVE  HeapOK(Created(frames)) /\ UsedOf(Created(frames)) = {}
<1> DEFINE h == [blocks |-> <<>>, hdr |-> <<>>, current |-> HEAP_START, limit |-> HEAP_MAX,
                 allocated |-> 0, num |-> 0, pages |-> {}, frames |-> frames,
                 grown |-> 0, drift |-> 0]
           asked == Request(h, HEAP_START, INITIAL)
           g == Grow(asked, INITIAL)
<1>1. Created(frames) = IF Granted(h, INITIAL) THEN g ELSE asked
  BY DEF Created
<1>2. HeapOK(h) /\ h.current = HEAP_START /\ h.hdr = <<>>
  BY EmptyHeap
<1> HIDE DEF h
<1>3. UsedOf(h) = {}
  BY <1>2 DEF UsedOf
<1>4. /\ INITIAL \in Nat /\ INITIAL >= HDR /\ HEAP_START + INITIAL <= HEAP_MAX
  BY UserHeapAssumption, BlockAssumption
<1>5. /\ Shape(asked) /\ SameUsed(asked, h) /\ asked.current = HEAP_START
      /\ Granted(h, INITIAL) => asked.pages = PagesOf(HEAP_START, (HEAP_START + INITIAL) - HEAP_START)
      /\ ~ Granted(h, INITIAL) => HeapOK(asked)
  BY <1>2, <1>4, RequestHeap
<1> HIDE DEF asked
<1>6. Granted(h, INITIAL) => HeapOK(g) /\ SameUsed(g, asked)
  BY <1>4, <1>5, GrowHeap
<1> HIDE DEF g
<1> QED BY <1>1, <1>3, <1>5, <1>6 DEF SameUsed

LEMMA InitInv == ProcessInit => Inv
<1> SUFFICES ASSUME ProcessInit PROVE Inv
  OBVIOUS
<1>1. PICK frames \in Nat : heap = Created(frames)
  BY UserHeapAssumption DEF ProcessInit, Init
<1>2. HeapOK(heap) /\ UsedOf(heap) = {}
  BY <1>1, CreatedHeap
<1>3. live = {} /\ exited = FALSE
  BY DEF ProcessInit, Init
<1>4. Held(heap, live) /\ Fits(heap, live)
  BY <1>2, <1>3, FS_EmptySet DEF Held, Fits
<1>5. HeapInv
  BY <1>2, <1>3, <1>4 DEF HeapInv, HeapOK, Paged
<1> QED BY <1>5 DEF Inv, StackInv, ProcessInit

-----------------------------------------------------------------------------
\* Each operation keeps it.

LEMMA MallocStep ==
    ASSUME HeapInv, NEW size \in Nat, malloc(size)
    PROVE  HeapInv'
<1> DEFINE o == Malloc(heap, size)
<1>1. /\ ~ exited /\ exited' = FALSE /\ heap' = o.heap /\ live' = live \cup Holding(o.ptr, size)
  BY DEF malloc, HeapInv
<1>2. Running(heap, live)
  BY <1>1, RunningInv
<1>3. Served(o, heap, size)
  BY <1>2, MallocServes DEF Running
<1> HIDE DEF o
<1>4. Running(heap', live')
  BY <1>1, <1>2, <1>3, ServedHeld DEF Running
<1> QED BY <1>1, <1>4, RunningNext

LEMMA CallocStep ==
    ASSUME HeapInv, NEW num \in Nat, NEW size \in Nat, calloc(num, size)
    PROVE  HeapInv'
<1> DEFINE n == num * size
           o == Malloc(heap, n)
<1>0. n \in Nat
  OBVIOUS
<1>1. /\ ~ exited /\ exited' = FALSE /\ heap' = o.heap /\ live' = live \cup Holding(o.ptr, n)
  BY DEF calloc, HeapInv
<1> HIDE DEF n
<1>2. Running(heap, live)
  BY <1>1, RunningInv
<1>3. Served(o, heap, n)
  BY <1>0, <1>2, MallocServes DEF Running
<1> HIDE DEF o
<1>4. Running(heap', live')
  BY <1>0, <1>1, <1>2, <1>3, ServedHeld DEF Running
<1> QED BY <1>1, <1>4, RunningNext

LEMMA FreeStep ==
    ASSUME HeapInv, NEW r \in live, free(r)
    PROVE  HeapInv'
<1> DEFINE b == FromData(r.ptr)
           g == Release(heap, b)
<1>1. ~ exited /\ exited' = FALSE /\ heap' = g /\ live' = live \ {r}
  BY DEF free, HeapInv
<1>2. Running(heap, live)
  BY <1>1, RunningInv
<1>3. b \in BlocksOf(heap)
  BY <1>2, HeldBlock DEF Running, HeapOK, Shape
<1> HIDE DEF b
<1>4. /\ HeapOK(g) /\ UsedOf(g) = UsedOf(heap) \ {b}
      /\ \A c \in UsedOf(heap) \ {b} : g.hdr[c].size = heap.hdr[c].size
  BY <1>2, <1>3, ReleaseHeap DEF Running
<1> HIDE DEF g
<1>5. Held(g, live \ {r}) /\ (Fits(heap, live) => Fits(g, live \ {r}))
  BY <1>2, <1>4, HeldRemove DEF Running, b
<1>6. Running(heap', live')
  BY <1>1, <1>2, <1>4, <1>5 DEF Running
<1> QED BY <1>1, <1>6, RunningNext

\* A header that belongs to no allocation says "free", so that nothing changes.
LEMMA FreeAgainStep ==
    ASSUME HeapInv, NEW b \in DOMAIN heap.hdr, freeAgain(b)
    PROVE  HeapInv'
<1>1. ~ exited /\ exited' = FALSE /\ heap' = Release(heap, b) /\ live' = live
  BY DEF freeAgain, HeapInv
<1>2. Running(heap, live)
  BY <1>1, RunningInv
<1>3. b \notin UsedOf(heap)
  BY <1>2 DEF Running, Held, freeAgain
<1>4. heap.hdr[b].is_free
  BY <1>3 DEF UsedOf
<1>5. heap' = heap
  BY <1>1, <1>4 DEF Release
<1> QED BY <1>1, <1>2, <1>5, RunningNext

LEMMA ReallocStep ==
    ASSUME HeapInv, NEW r \in live, NEW new_size \in NewSizes, realloc(r, new_size)
    PROVE  HeapInv'
<1> DEFINE b == FromData(r.ptr)
           up == ALIGN_UP(new_size)
           size == Wrap32(up)
           o == Malloc(heap, new_size)
<1>1. ~ exited /\ exited' = FALSE
  BY DEF realloc, HeapInv
<1>2. Running(heap, live)
  BY <1>1, RunningInv
<1>3. new_size \in Nat /\ up \in Nat /\ up >= new_size /\ up < new_size + FRAME_SIZE
  BY AlignedUp, UserHeapAssumption
<1>4. /\ b \in UsedOf(heap) /\ b \in BlocksOf(heap)
      /\ r.ptr \in Nat /\ r.ptr # Null /\ heap.hdr[b].size \in Nat
  BY <1>2, HeldBlock DEF Running, HeapOK, Shape
<1>5. CASE size <= heap.hdr[b].size
  <2> DEFINE g == Shrink(heap, b, size)
  <2>1. heap' = g /\ live' = (live \ {r}) \cup Holding(r.ptr, new_size)
    BY <1>5 DEF realloc
  <2>2. size \in Nat
    BY <1>3, Wrapped, UserHeapAssumption
  <2>3. NewSizesFit => size = up
    <3> SUFFICES ASSUME NewSizesFit PROVE up < WORD32
      BY <1>3, WrapSmall
    <3> QED BY <1>3, UserHeapAssumption DEF NewSizesFit
  <2> HIDE DEF b, size
  <2>4. /\ HeapOK(g) /\ UsedOf(g) = UsedOf(heap) /\ g.hdr[b].size >= size
        /\ \A c \in UsedOf(heap) \ {b} : g.hdr[c].size = heap.hdr[c].size
    BY <1>2, <1>4, <1>5, <2>2, ShrinkHeap DEF Running
  <2> HIDE DEF g
  <2>5. NewSizesFit => g.hdr[b].size >= new_size
    <3>1. HeapOK(g) /\ b \in BlocksOf(g)
      BY <1>4, <2>4, UsedAreBlocks DEF HeapOK, Shape
    <3>2. g.hdr[b].size \in Nat
      BY <3>1, BlockTyped DEF HeapOK, Shape, ListOK
    <3> HIDE DEF up
    <3> QED BY <1>3, <2>2, <2>3, <2>4, <3>2
  <2>6. /\ Held(g, live')
        /\ Fits(heap, live) /\ g.hdr[b].size >= new_size => Fits(g, live')
    BY <1>2, <1>3, <1>4, <2>1, <2>4, HeldReplace, HoldingOne DEF Running, b
  <2>7. Running(heap', live')
    BY <1>2, <2>1, <2>4, <2>5, <2>6 DEF Running
  <2> QED BY <1>1, <2>7, RunningNext
<1>6. CASE ~ (size <= heap.hdr[b].size) /\ o.ptr = Null
  <2>1. heap' = o.heap /\ live' = live
    BY <1>6 DEF realloc
  <2>2. Served(o, heap, new_size)
    BY <1>2, <1>3, MallocServes DEF Running
  <2> HIDE DEF o
  <2>3. live \cup Holding(o.ptr, new_size) = live
    BY <1>6 DEF Holding
  <2>4. Running(heap', live')
    BY <1>2, <1>3, <2>1, <2>2, <2>3, ServedHeld DEF Running
  <2> QED BY <1>1, <2>4, RunningNext
<1>7. CASE ~ (size <= heap.hdr[b].size) /\ o.ptr # Null
  <2> DEFINE M == live \cup Holding(o.ptr, new_size)
             g == Release(o.heap, b)
  <2>1. heap' = g /\ live' = (live \ {r}) \cup Holding(o.ptr, new_size)
    BY <1>7 DEF realloc
  <2>2. Served(o, heap, new_size)
    BY <1>2, <1>3, MallocServes DEF Running
  <2> HIDE DEF o
  <2>3. HeapOK(o.heap) /\ Held(o.heap, M) /\ (Fits(heap, live) => Fits(o.heap, M))
    BY <1>2, <1>3, <2>2, ServedHeld DEF Running
  <2>4. Holding(o.ptr, new_size) = {[ptr |-> o.ptr, size |-> new_size]}
    BY <1>7 DEF Holding
  <2>5. o.ptr # r.ptr
    <3>1. PICK c : o.ptr = Data(c) /\ Grants(o.heap, heap, c, new_size)
      BY <1>7, <2>2 DEF Served
    <3>2. c \notin UsedOf(heap) /\ c \in Nat
      BY <3>1 DEF Grants, Address
    <3>3. c = FromData(o.ptr)
      BY <3>1, <3>2, HeaderAndData
    <3> QED BY <1>4, <3>2, <3>3
  <2>6. live' = M \ {r}
    <3> DEFINE new == [ptr |-> o.ptr, size |-> new_size]
    <3>1. new.ptr = o.ptr
      OBVIOUS
    <3> HIDE DEF new
    <3>2. new # r
      BY <2>5, <3>1
    <3> QED BY <2>1, <2>4, <3>2 DEF new
  <2>7. r \in M
    OBVIOUS
  <2> HIDE DEF M
  <2>8. b \in BlocksOf(o.heap)
    BY <2>3, <2>7, HeldBlock DEF HeapOK, Shape
  <2> HIDE DEF b
  <2>9. /\ HeapOK(g) /\ UsedOf(g) = UsedOf(o.heap) \ {b}
        /\ \A c \in UsedOf(o.heap) \ {b} : g.hdr[c].size = o.heap.hdr[c].size
    BY <2>3, <2>8, ReleaseHeap
  <2> HIDE DEF g
  <2>10. Held(g, M \ {r}) /\ (Fits(o.heap, M) => Fits(g, M \ {r}))
    BY <2>3, <2>7, <2>9, HeldRemove DEF b
  <2>11. Running(heap', live')
    BY <1>2, <2>1, <2>3, <2>6, <2>9, <2>10 DEF Running
  <2> QED BY <1>1, <2>11, RunningNext
<1> QED BY <1>5, <1>6, <1>7

\* The operations that leave the list alone.
LEMMA LimitStep ==
    ASSUME HeapInv, NEW max_size \in Nat, set_heap_limit(max_size)
    PROVE  HeapInv'
<1> DEFINE g == [heap EXCEPT !.limit = HEAP_START + max_size]
<1>1. /\ ~ exited /\ exited' = FALSE /\ heap' = g /\ live' = live
      /\ HEAP_START + max_size <= HEAP_MAX
  BY DEF set_heap_limit, HeapInv
<1>2. Running(heap, live)
  BY <1>1, RunningInv
<1>3. DOMAIN heap = HeapFields /\ ListOK(heap)
  BY <1>2 DEF Running, HeapOK, Shape
<1>4. /\ DOMAIN g = DOMAIN heap /\ g.hdr = heap.hdr /\ g.blocks = heap.blocks
      /\ g.current = heap.current /\ g.limit = HEAP_START + max_size /\ g.pages = heap.pages
      /\ g.frames = heap.frames /\ g.num = heap.num /\ g.allocated = heap.allocated
  BY <1>3 DEF HeapFields
<1> HIDE DEF g
<1>5. Rearranged(g, heap)
  BY <1>3, <1>4, SameList
<1>6. g.limit \in HEAP_START .. HEAP_MAX
  BY <1>1, <1>4, UserHeapAssumption
<1>7. HeapOK(g)
  BY <1>2, <1>3, <1>4, <1>5, <1>6 DEF Running, HeapOK, Shape, Paged, Rearranged
<1>8. Held(g, live) /\ (Fits(heap, live) => Fits(g, live))
  BY <1>2, <1>5, RearrangedSameUsed, HeldSame DEF Running
<1>9. Running(heap', live')
  BY <1>1, <1>2, <1>7, <1>8 DEF Running
<1> QED BY <1>1, <1>9, RunningNext

\* Frames go to others, or to the stack.
LEMMA FramesTaken ==
    ASSUME HeapInv, ~ exited, exited' = exited, live' = live, NEW n \in Nat,
           heap' = [heap EXCEPT !.frames = n]
    PROVE  HeapInv'
<1> DEFINE g == [heap EXCEPT !.frames = n]
<1>1. heap' = g /\ exited' = FALSE
  BY DEF HeapInv
<1>2. Running(heap, live)
  BY RunningInv
<1>3. DOMAIN heap = HeapFields /\ ListOK(heap)
  BY <1>2 DEF Running, HeapOK, Shape
<1>4. /\ DOMAIN g = DOMAIN heap /\ g.hdr = heap.hdr /\ g.blocks = heap.blocks
      /\ g.current = heap.current /\ g.limit = heap.limit /\ g.pages = heap.pages
      /\ g.frames = n /\ g.num = heap.num /\ g.allocated = heap.allocated
  BY <1>3 DEF HeapFields
<1> HIDE DEF g
<1>5. Rearranged(g, heap)
  BY <1>3, <1>4, SameList
<1>6. HeapOK(g)
  BY <1>2, <1>3, <1>4, <1>5 DEF Running, HeapOK, Shape, Paged, Rearranged
<1>7. Held(g, live) /\ (Fits(heap, live) => Fits(g, live))
  BY <1>2, <1>5, RearrangedSameUsed, HeldSame DEF Running
<1>8. Running(heap', live')
  BY <1>1, <1>2, <1>6, <1>7 DEF Running
<1> QED BY <1>1, <1>8, RunningNext

LEMMA CleanupStep ==
    ASSUME HeapInv, cleanup_all
    PROVE  HeapInv'
<1> DEFINE g == [heap EXCEPT !.pages = @ \ PagesOf(HEAP_START, heap.current - HEAP_START)]
<1>1. ~ exited /\ exited' = TRUE /\ heap' = g /\ live' = {}
  BY DEF cleanup_all
<1>2. /\ DOMAIN heap = HeapFields /\ ListOK(heap) /\ Shape(heap)
      /\ heap.pages = PagesOf(HEAP_START, heap.current - HEAP_START)
  BY <1>1 DEF HeapInv, Shape
<1>3. /\ DOMAIN g = DOMAIN heap /\ g.hdr = heap.hdr /\ g.blocks = heap.blocks
      /\ g.current = heap.current /\ g.limit = heap.limit
      /\ g.frames = heap.frames /\ g.num = heap.num /\ g.allocated = heap.allocated
      /\ g.pages = heap.pages \ PagesOf(HEAP_START, heap.current - HEAP_START)
  BY <1>2 DEF HeapFields
<1> HIDE DEF g
<1>4. Rearranged(g, heap)
  BY <1>2, <1>3, SameList
<1>5. Shape(g)
  BY <1>2, <1>3, <1>4 DEF Shape, Rearranged
<1>6. g.pages = {}
  BY <1>2, <1>3
<1> QED BY <1>1, <1>5, <1>6 DEF HeapInv

LEMMA HeapStep ==
    ASSUME HeapInv, Next
    PROVE  HeapInv'
<1>1. ASSUME NEW size \in Sizes, malloc(size) PROVE HeapInv'
  BY <1>1, MallocStep, UserHeapAssumption
<1>2. ASSUME NEW r \in live, free(r) PROVE HeapInv'
  BY <1>2, FreeStep
<1>3. ASSUME NEW b \in DOMAIN heap.hdr, freeAgain(b) PROVE HeapInv'
  BY <1>3, FreeAgainStep
<1>4. ASSUME NEW r \in live, NEW size \in NewSizes, realloc(r, size) PROVE HeapInv'
  BY <1>4, ReallocStep
<1>5. ASSUME NEW a \in Arrays, calloc(a.num, a.size) PROVE HeapInv'
  <2>1. a.num \in Nat /\ a.size \in Nat
    BY UserHeapAssumption
  <2> QED BY <1>5, <2>1, CallocStep
<1>6. ASSUME NEW max_size \in Limits, set_heap_limit(max_size) PROVE HeapInv'
  BY <1>6, LimitStep, UserHeapAssumption
<1>7. CASE cleanup_all
  BY <1>7, CleanupStep
<1>8. ASSUME NEW frames \in FrameSupply, others(frames) PROVE HeapInv'
  BY <1>8, FramesTaken, UserHeapAssumption DEF others
<1> QED BY <1>1, <1>2, <1>3, <1>4, <1>5, <1>6, <1>7, <1>8 DEF Next

LEMMA StackStep ==
    ASSUME Inv, NEW size \in StackSizes, setup_stack(size)
    PROVE  Inv'
<1> DEFINE bytes == ALIGN_UP(size)
           pages == bytes \div FRAME_SIZE
           mapped == Mapped(pages, heap.frames)
<1>1. /\ ~ exited /\ stack_size_' = bytes
      /\ stack' = stack \cup PagesOf(STACK_TOP - bytes, mapped * FRAME_SIZE)
      /\ heap' = [heap EXCEPT !.frames = heap.frames - mapped]
      /\ ready' = (mapped = pages)
      /\ live' = live /\ exited' = exited
  BY DEF setup_stack
<1>2. /\ bytes \in Nat /\ pages \in Nat /\ bytes % FRAME_SIZE = 0
      /\ pages * FRAME_SIZE = bytes
      /\ HEAP_MAX + bytes <= STACK_TOP
  BY AlignedUp, ProcessMemoryAssumption
<1>3. heap.frames \in Nat
  BY DEF Inv, HeapInv, Shape
<1> HIDE DEF bytes, pages
<1>4. mapped \in Nat /\ mapped <= heap.frames
  <2> DEFINE f == heap.frames
             T == {pages, f}
  <2>1. T \subseteq Nat /\ T # {}
    BY <1>2, <1>3
  <2>2. PICK m \in T : \A y \in T : m <= y
    BY <2>1, LeastNat
  <2>3. Min(T) \in T /\ \A y \in T : Min(T) <= y
    BY <2>2 DEF Min
  <2>4. f \in T /\ mapped = Min(T)
    BY DEF Mapped
  <2> QED BY <2>1, <2>3, <2>4
<1> HIDE DEF mapped
<1>5. HeapInv'
  <2> DEFINE n == heap.frames - mapped
  <2>1. n \in Nat /\ heap' = [heap EXCEPT !.frames = n]
    BY <1>1, <1>3, <1>4
  <2> HIDE DEF n
  <2> QED BY <1>1, <2>1, FramesTaken DEF Inv
<1>6. StackInv'
  BY <1>1, <1>2 DEF StackInv
<1> QED BY <1>5, <1>6 DEF Inv

LEMMA InvNext == Inv /\ [ProcessNext]_processVars => Inv'
<1> SUFFICES ASSUME Inv, [ProcessNext]_processVars PROVE Inv'
  OBVIOUS
<1>1. CASE Next /\ UNCHANGED <<stack_size_, stack, ready>>
  BY <1>1, HeapStep DEF Inv, StackInv
<1>2. ASSUME NEW size \in StackSizes, setup_stack(size) PROVE Inv'
  BY <1>2, StackStep
<1>3. CASE UNCHANGED processVars
  BY <1>3 DEF processVars, vars, Inv, HeapInv, StackInv
<1> QED BY <1>1, <1>2, <1>3 DEF ProcessNext

LEMMA Invariance == ProcessSpec => []Inv
BY InitInv, InvNext, PTL DEF ProcessSpec

-----------------------------------------------------------------------------
\* The theorems.

\* The headers, the counters and what the process holds have their types,
\* whatever the process asks for and whenever the frames run out
\* (user_allocator.cpp:71-333).
THEOREM TypeCorrect == ProcessSpec => []TypeOK
<1>1. Inv => TypeOK
  <2> SUFFICES ASSUME Inv PROVE TypeOK
    OBVIOUS
  <2>1. Shape(heap) /\ ListTyped(heap) /\ live \subseteq [ptr : Nat, size : Nat]
    BY DEF Inv, HeapInv, Shape, ListOK
  <2>2. HeadersTyped(heap)
    BY <2>1 DEF HeadersTyped, ListTyped, HeaderType, Address
  <2> QED BY <2>1, <2>2 DEF TypeOK, Shape
<1> QED BY <1>1, Invariance, PTL

\* The blocks, linked both ways, tile the extent of the heap byte for byte, its
\* pages and no others are mapped while the process runs, and none is after it
\* has gone: after any sequence of splits, merges, expansions and requests that
\* fail half way (user_allocator.cpp:34-204), for any sizes, numbers that wrap
\* at 2^32 included.
THEOREM HeapAlwaysMapped == ProcessSpec => []HeapIsMapped
<1>1. Inv => HeapIsMapped
  <2> SUFFICES ASSUME Inv PROVE HeapIsMapped
    OBVIOUS
  <2>1. ListOK(heap) /\ Covered(heap) = HEAP_START .. (heap.current - 1)
    BY DEF Inv, HeapInv, Shape
  <2>2. Tiles(heap, HEAP_START .. (heap.current - 1))
    BY <2>1 DEF Tiles, ListOK, Apart, Covered
  <2>3. ListLinked
    BY <2>1 DEF ListLinked, ListOK
  <2> QED BY <2>2, <2>3 DEF HeapIsMapped, Inv, HeapInv
<1> QED BY <1>1, Invariance, PTL

\* As long as no new size asked of realloc wraps when it is rounded to a page:
\* the used blocks are those of the allocations, one each and big enough, so
\* that none is handed out twice and a second free of a pointer is refused
\* (user_allocator.cpp:206-303).
THEOREM UsedAlwaysHeld ==
    ASSUME NewSizesFit
    PROVE  ProcessSpec => []UsedIsHeld
<1>1. Inv => UsedIsHeld
  <2> SUFFICES ASSUME Inv, ~ exited PROVE BlocksMatch(heap, live)
    BY DEF UsedIsHeld
  <2>1. HeapOK(heap) /\ Held(heap, live) /\ Fits(heap, live)
    BY RunningInv DEF Inv, Running
  <2>2. UsedOf(heap) \subseteq BlocksOf(heap)
    BY <2>1 DEF HeapOK, Shape, ListOK
  <2> QED BY <2>1, <2>2, HeldCardinality DEF BlocksMatch, Fits
<1> QED BY <1>1, Invariance, PTL

LEMMA AlignedDifference ==
    ASSUME NEW m \in Nat, NEW n \in Nat, n <= m, m % FRAME_SIZE = 0, n % FRAME_SIZE = 0
    PROVE  (m - n) % FRAME_SIZE = 0
<1> DEFINE F == FRAME_SIZE
           p == m \div F
           q == n \div F
<1>1. F \in Nat /\ F > 0
  BY UserHeapAssumption
<1>2. p \in Nat /\ p * F \in Nat /\ m = p * F
  <2>1. p \in Nat /\ p * F \in Nat /\ m % F = m - p * F
    BY Quotient
  <2>2. m - p * F = 0
    BY <2>1
  <2> QED BY <2>1, <2>2
<1>3. q \in Nat /\ q * F \in Nat /\ n = q * F
  <2>1. q \in Nat /\ q * F \in Nat /\ n % F = n - q * F
    BY Quotient
  <2>2. n - q * F = 0
    BY <2>1
  <2> QED BY <2>1, <2>2
<1> HIDE DEF p, q, F
<1>4. q <= p
  <2> SUFFICES ASSUME q >= p + 1 PROVE FALSE
    BY <1>2, <1>3
  <2>1. q * F >= (p + 1) * F /\ (p + 1) * F = p * F + F
    BY <1>1, <1>2, <1>3
  <2> QED BY <1>1, <1>2, <1>3, <2>1
<1>5. p - q \in Nat /\ m - n = (p - q) * F
  BY <1>1, <1>2, <1>3, <1>4
<1> DEFINE d == p - q
<1> HIDE DEF d
<1>6. (d * F) % F = 0
  BY <1>5, Multiple DEF d, F
<1> QED BY <1>5, <1>6 DEF d, F

LEMMA SmallMod ==
    ASSUME NEW n \in Nat, n < WORD64
    PROVE  n % WORD64 = n
BY ProcessMemoryAssumption

\* Under the same condition, what the process was given is mapped to the last
\* byte, heap and stack, the kernel accepts a pointer to it, and refuses a
\* length that reaches past the end of the process's addresses or wraps around
\* (user_allocator.cpp:401-465).
THEOREM PointersAlwaysChecked ==
    ASSUME NewSizesFit
    PROVE  ProcessSpec => []PointersChecked
<1>0. /\ WORD64 \in Nat /\ USER_NULL_GUARD_SIZE \in Nat /\ USER_END \in Nat /\ STACK_TOP \in Nat
      /\ USER_NULL_GUARD_SIZE <= HEAP_START /\ HEAP_MAX <= STACK_TOP
      /\ STACK_TOP < USER_END /\ USER_END < WORD64 /\ STACK_TOP % FRAME_SIZE = 0
      /\ HEAP_START \in Nat /\ HEAP_MAX \in Nat /\ HEAP_START % FRAME_SIZE = 0
      /\ Lengths \subseteq 0 .. (WORD64 - 1)
      /\ HEAP_START <= HEAP_MAX
  BY ProcessMemoryAssumption, UserHeapAssumption
<1>1. ASSUME NEW p \in Nat, NEW n \in Nat, HEAP_START <= p, p + n <= STACK_TOP
      PROVE  /\ validate_user_pointer(p, n)
             /\ \A size \in Lengths : validate_user_pointer(p, size) => p + size <= USER_END
  <2>1. (p + n) % WORD64 = p + n
    BY <1>0, <1>1, SmallMod
  <2>2. validate_user_pointer(p, n)
    BY <1>0, <1>1, <2>1 DEF validate_user_pointer
  <2>3. ASSUME NEW size \in Lengths, validate_user_pointer(p, size)
        PROVE  p + size <= USER_END
    <3>1. size \in Nat /\ size < WORD64
      BY <1>0
    <3> DEFINE e == (p + size) % WORD64
    <3>2. e >= p /\ e < USER_END
      BY <2>3 DEF validate_user_pointer
    <3>3. CASE p + size < WORD64
      <4>1. e = p + size
        BY <3>1, <3>3, SmallMod
      <4> QED BY <1>0, <3>1, <3>2, <4>1
    <3>4. CASE p + size >= WORD64
      <4>1. p < WORD64
        BY <1>0, <1>1
      <4>2. e = p + size - WORD64
        BY <1>0, <3>1, <3>4, <4>1
      <4> QED BY <1>0, <3>1, <3>2, <4>2
    <3> QED BY <1>0, <3>1, <3>3, <3>4
  <2> QED BY <2>2, <2>3
<1>2. ASSUME NEW lo \in Nat, NEW n \in Nat, lo % FRAME_SIZE = 0, NEW a \in lo .. (lo + n - 1)
      PROVE  a - (a % FRAME_SIZE) \in PagesOf(lo, n)
  <2> DEFINE base == a - (a % FRAME_SIZE)
  <2>1. base \in Nat /\ lo <= base /\ base <= a /\ base % FRAME_SIZE = 0
    BY <1>2, PageBase
  <2> HIDE DEF base
  <2>2. base \in lo .. (lo + n - 1)
    BY <2>1
  <2>3. base \in PagesOf(lo, n)
    BY <2>1, <2>2 DEF PagesOf
  <2> QED BY <2>3 DEF base
<1>3. Inv => PointersChecked
  <2> SUFFICES ASSUME Inv, ~ exited, NEW g \in Given
               PROVE  /\ \A a \in g.ptr .. (g.ptr + g.size - 1) :
                           a - (a % FRAME_SIZE) \in heap.pages \cup stack
                      /\ validate_user_pointer(g.ptr, g.size)
                      /\ \A size \in Lengths :
                           validate_user_pointer(g.ptr, size) => g.ptr + size <= USER_END
    BY DEF PointersChecked
  <2>1. CASE \E r \in live : g = [ptr |-> r.ptr, size |-> r.size]
    <3>1. PICK r \in live : g.ptr = r.ptr /\ g.size = r.size
      BY <2>1
    <3>2. HeapOK(heap) /\ Held(heap, live) /\ Fits(heap, live)
      BY RunningInv DEF Inv, Running
    <3> DEFINE b == FromData(r.ptr)
               p == r.ptr
               n == r.size
               c == heap.current
    <3>3. b \in BlocksOf(heap) /\ b \in Nat /\ p \in Nat /\ p = Data(b) /\ heap.hdr[b].size \in Nat
      BY <3>2, HeldBlock DEF HeapOK, Shape
    <3>4. n \in Nat /\ n <= heap.hdr[b].size
      BY <3>2 DEF Held, Fits
    <3>5. /\ c \in HEAP_START .. HEAP_MAX /\ Covered(heap) = HEAP_START .. (c - 1)
          /\ heap.pages = PagesOf(HEAP_START, c - HEAP_START) /\ ListTyped(heap)
      BY <3>2 DEF HeapOK, Shape, Paged, ListOK
    <3> HIDE DEF b, p, n, c
    <3> DEFINE z == heap.hdr[b].size
    <3>6. z \in Nat /\ BlockEnd(heap, b) = b + HDR + z /\ p = b + HDR /\ HDR \in Nat /\ HDR > 0
      BY <3>3, <3>5, BlockTyped, BlockAssumption DEF Data
    <3> HIDE DEF z
    <3>7. \A a \in b .. ((b + HDR + z) - 1) : a \in HEAP_START .. (c - 1)
      BY <3>3, <3>5, <3>6 DEF Covered
    <3>8. HEAP_START <= p /\ p + z <= c
      <4>1. b \in b .. ((b + HDR + z) - 1) /\ (b + HDR + z) - 1 \in b .. ((b + HDR + z) - 1)
        BY <3>3, <3>6
      <4>2. b \in HEAP_START .. (c - 1) /\ (b + HDR + z) - 1 \in HEAP_START .. (c - 1)
        BY <3>7, <4>1
      <4> QED BY <1>0, <3>3, <3>5, <3>6, <4>2
    <3>9. n <= z
      BY <3>4 DEF z
    <3>10. p + n <= STACK_TOP /\ p + n <= c
      BY <1>0, <3>3, <3>4, <3>5, <3>6, <3>8, <3>9
    <3>11. \A a \in p .. (p + n - 1) : a - (a % FRAME_SIZE) \in heap.pages
      <4> TAKE a \in p .. (p + n - 1)
      <4> DEFINE m == c - HEAP_START
      <4>1. m \in Nat /\ a \in HEAP_START .. (HEAP_START + m - 1)
        BY <1>0, <3>3, <3>4, <3>5, <3>8, <3>10
      <4> HIDE DEF m
      <4>2. a - (a % FRAME_SIZE) \in PagesOf(HEAP_START, m)
        BY <1>0, <1>2, <4>1
      <4> QED BY <3>5, <4>2 DEF m
    <3>12. /\ validate_user_pointer(p, n)
           /\ \A size \in Lengths : validate_user_pointer(p, size) => p + size <= USER_END
      BY <1>1, <3>3, <3>4, <3>8, <3>10
    <3> QED BY <3>1, <3>11, <3>12 DEF p, n
  <2>2. CASE ready /\ g = [ptr |-> STACK_TOP - stack_size_, size |-> stack_size_]
    <3> DEFINE n == stack_size_
               p == STACK_TOP - n
    <3>1. g.ptr = p /\ g.size = n
      BY <2>2
    <3>2. /\ n \in Nat /\ n % FRAME_SIZE = 0 /\ HEAP_MAX + n <= STACK_TOP
          /\ PagesOf(p, n) \subseteq stack
      BY <2>2 DEF Inv, StackInv
    <3> HIDE DEF n
    <3>3. p \in Nat /\ HEAP_START <= p /\ p + n <= STACK_TOP
      BY <1>0, <3>2
    <3>4. p % FRAME_SIZE = 0
      <4>1. n <= STACK_TOP
        BY <1>0, <3>2
      <4> QED BY <1>0, <3>2, <4>1, AlignedDifference
    <3> HIDE DEF p
    <3>5. \A a \in p .. (p + n - 1) : a - (a % FRAME_SIZE) \in stack
      BY <1>2, <3>2, <3>3, <3>4
    <3>6. /\ validate_user_pointer(p, n)
          /\ \A size \in Lengths : validate_user_pointer(p, size) => p + size <= USER_END
      BY <1>1, <3>2, <3>3
    <3> QED BY <3>1, <3>5, <3>6
  <2> QED BY <2>1, <2>2 DEF Given
<1> QED BY <1>3, Invariance, PTL

-----------------------------------------------------------------------------
\* The two counters.

\* The bytes of data that are in use.
InUse(h) == Cardinality(DataOf(h, UsedOf(h)))

\* What the counters add up to, as CountersLaw has it.
Law(h) ==
    /\ h.drift \in Int /\ h.grown \in Nat
    /\ h.allocated = Wrap32(InUse(h) + h.drift)
    /\ h.num = Wrap32(Len(h.blocks) - h.grown)

\* A remainder does not change by a whole word, up or down.
LEMMA WrapWord ==
    ASSUME NEW n \in Int, NEW k \in Int
    PROVE  Wrap32(n + k * WORD32) = Wrap32(n)
<1> DEFINE W == WORD32
           m == n + k * W
           p == n \div W
           q == m \div W
           r == n % W
           s == m % W
<1>1. W \in Nat /\ W > 0 /\ k * W \in Int /\ m \in Int
  BY UserHeapAssumption
<1>2. p \in Int /\ r \in Int /\ n = p * W + r /\ 0 <= r /\ r < W
  BY <1>1, Z3
<1>3. m = n + k * W
  OBVIOUS
<1> HIDE DEF m
<1>4. q \in Int /\ s \in Int /\ m = q * W + s /\ 0 <= s /\ s < W
  BY <1>1, Z3
<1> HIDE DEF p, q, r, s
<1> DEFINE d == p + k - q
<1>5. d \in Int /\ d * W = s - r
  BY <1>1, <1>2, <1>3, <1>4, Z3
<1> HIDE DEF d, W
<1>6. d * W < W /\ d * W > -W
  BY <1>1, <1>2, <1>4, <1>5
<1>7. d < 1
  <2> SUFFICES ASSUME d >= 1 PROVE FALSE
    BY <1>5
  <2>1. d * W >= W
    BY <1>1, <1>5
  <2> QED BY <1>1, <1>5, <1>6, <2>1
<1>8. d > -1
  <2> SUFFICES ASSUME d <= -1 PROVE FALSE
    BY <1>5
  <2>1. d * W <= -W
    BY <1>1, <1>5
  <2> QED BY <1>1, <1>5, <1>6, <2>1
<1>9. d = 0
  BY <1>5, <1>7, <1>8
<1>10. s = r
  BY <1>1, <1>2, <1>4, <1>5, <1>9
<1> QED BY <1>10 DEF Wrap32, r, s, m, W

\* Counting on from a counter that has wrapped.
LEMMA WrapOn ==
    ASSUME NEW n \in Int, NEW k \in Int
    PROVE  /\ Wrap32(Wrap32(n) + k) = Wrap32(n + k)
           /\ Wrap32(k + WORD32) = Wrap32(k)
<1> DEFINE W == WORD32
           q == n \div W
           w == Wrap32(n)
<1>1. W \in Nat /\ W > 0
  BY UserHeapAssumption
<1>2. q \in Int /\ w \in Int /\ n = q * W + w
  BY <1>1, Z3 DEF Wrap32
<1> HIDE DEF q, w
<1>3. n + k = (w + k) + q * W /\ w + k \in Int
  BY <1>1, <1>2
<1>4. Wrap32((w + k) + q * W) = Wrap32(w + k)
  BY <1>2, <1>3, WrapWord DEF W
<1>5. k + W = k + 1 * W /\ 1 \in Int
  BY <1>1
<1>6. Wrap32(k + 1 * W) = Wrap32(k)
  BY <1>5, WrapWord DEF W
<1> QED BY <1>3, <1>4, <1>5, <1>6 DEF w, W

\* Blocks of the same sizes have the same data.
LEMMA SameData ==
    ASSUME NEW g, NEW h, NEW S, \A c \in S : g.hdr[c].size = h.hdr[c].size
    PROVE  DataOf(g, S) = DataOf(h, S)
<1>1. \A c \in S : BlockEnd(g, c) = BlockEnd(h, c)
  BY DEF BlockEnd
<1> QED BY <1>1 DEF DataOf

LEMMA SameInUse ==
    ASSUME NEW g, NEW h, SameUsed(g, h)
    PROVE  InUse(g) = InUse(h)
BY SameData DEF SameUsed, InUse

\* The data of used blocks is within the heap.
LEMMA DataCounted ==
    ASSUME NEW h, Shape(h), NEW S \in SUBSET UsedOf(h)
    PROVE  IsFiniteSet(DataOf(h, S)) /\ Cardinality(DataOf(h, S)) \in Nat
<1>0. /\ ListOK(h) /\ ListTyped(h) /\ HDR \in Nat
      /\ h.current \in HEAP_START .. HEAP_MAX
      /\ Covered(h) = HEAP_START .. (h.current - 1)
  BY BlockAssumption DEF Shape, ListOK
<1>1. DataOf(h, S) \subseteq Covered(h)
  <2> SUFFICES ASSUME NEW c \in S, NEW a \in Data(c) .. (BlockEnd(h, c) - 1)
               PROVE  a \in Covered(h)
    BY DEF DataOf
  <2>1. c \in BlocksOf(h) /\ c \in Nat /\ h.hdr[c].size \in Nat
    BY <1>0, UsedAreBlocks, BlockTyped DEF Address
  <2>2. a \in c .. (BlockEnd(h, c) - 1)
    BY <1>0, <2>1 DEF Data, BlockEnd
  <2> QED BY <2>1, <2>2 DEF Covered
<1>2. IsFiniteSet(HEAP_START .. (h.current - 1))
  BY <1>0, UserHeapAssumption, FS_Interval
<1> QED BY <1>0, <1>1, <1>2, FS_Subset, FS_CardinalityType

LEMMA InUseNat ==
    ASSUME NEW h, Shape(h)
    PROVE  InUse(h) \in Nat
<1>1. UsedOf(h) \in SUBSET UsedOf(h)
  OBVIOUS
<1> QED BY <1>1, DataCounted DEF InUse

\* One block apart, the data in use is that of the others.
LEMMA OneBlockMore ==
    ASSUME NEW h, Shape(h), NEW b \in UsedOf(h)
    PROVE  LET S == UsedOf(h) \ {b}
           IN  /\ Cardinality(DataOf(h, S)) \in Nat
               /\ InUse(h) = Cardinality(DataOf(h, S)) + h.hdr[b].size
<1> DEFINE S == UsedOf(h) \ {b}
           D == DataOf(h, S)
           E == Data(b) .. (BlockEnd(h, b) - 1)
           n == h.hdr[b].size
<1>0. ListOK(h) /\ ListTyped(h) /\ Apart(h) /\ HDR \in Nat
  BY BlockAssumption DEF Shape, ListOK
<1>1. \A c \in UsedOf(h) : c \in BlocksOf(h) /\ c \in Nat /\ h.hdr[c].size \in Nat
  BY <1>0, UsedAreBlocks, BlockTyped DEF Address
<1>2. DataOf(h, UsedOf(h)) = D \cup E
  BY DEF DataOf
<1>3. D \cap E = {}
  <2> SUFFICES ASSUME NEW c \in S, NEW a \in Data(c) .. (BlockEnd(h, c) - 1), a \in E
               PROVE  FALSE
    BY DEF DataOf
  <2>1. BlockEnd(h, b) <= c \/ BlockEnd(h, c) <= b
    BY <1>0, <1>1 DEF Apart
  <2> QED BY <1>0, <1>1, <2>1 DEF Data, BlockEnd
<1>4. S \in SUBSET UsedOf(h)
  OBVIOUS
<1>5. IsFiniteSet(D) /\ Cardinality(D) \in Nat
  BY <1>4, DataCounted
<1>6. IsFiniteSet(E) /\ Cardinality(E) = n
  <2> DEFINE lo == Data(b)
             hi == BlockEnd(h, b) - 1
  <2>1. lo \in Int /\ hi \in Int /\ n \in Nat /\ hi = lo + n - 1
    BY <1>0, <1>1 DEF Data, BlockEnd
  <2>2. IsFiniteSet(lo .. hi) /\ Cardinality(lo .. hi) = IF lo > hi THEN 0 ELSE hi - lo + 1
    BY <2>1, FS_Interval
  <2> HIDE DEF lo, hi, n
  <2>3. (IF lo > hi THEN 0 ELSE hi - lo + 1) = n
    BY <2>1
  <2> QED BY <2>2, <2>3 DEF lo, hi
<1> HIDE DEF D, E, n
<1>7. Cardinality(D \cup E) = Cardinality(D) + Cardinality(E) - Cardinality(D \cap E)
  BY <1>5, <1>6, FS_Union
<1>8. Cardinality(D \cup E) = Cardinality(D) + n
  <2>1. n \in Nat
    BY <1>1 DEF n
  <2> QED BY <1>3, <1>5, <1>6, <1>7, <2>1, FS_EmptySet
<1> QED BY <1>2, <1>5, <1>8 DEF InUse, D, n

LEMMA LawNumbers ==
    ASSUME NEW h, Shape(h), Law(h)
    PROVE  /\ InUse(h) \in Nat /\ Len(h.blocks) \in Nat
           /\ h.drift \in Int /\ h.grown \in Nat
           /\ h.allocated \in Nat /\ h.allocated < WORD32
           /\ h.num \in Nat /\ h.num < WORD32
<1>1. InUse(h) \in Nat
  BY InUseNat
<1>2. Len(h.blocks) \in Nat
  BY LenProperties DEF Shape, ListOK, ListTyped
<1>3. h.allocated \in Nat /\ h.allocated < WORD32 /\ h.num \in Nat /\ h.num < WORD32
  BY UserHeapAssumption DEF Shape
<1> QED BY <1>1, <1>2, <1>3 DEF Law

\* The law, after m bytes more in use, n blocks more and k regions more.
LEMMA LawMoved ==
    ASSUME NEW h, Shape(h), Law(h), NEW g,
           NEW m \in Int, NEW n \in Int, NEW k \in Nat, NEW d \in Int,
           InUse(g) = InUse(h) + m, Len(g.blocks) = Len(h.blocks) + n,
           g.grown = h.grown + k, g.drift = h.drift + d,
           g.allocated = Wrap32(h.allocated + (m + d)),
           g.num = Wrap32(h.num + (n - k))
    PROVE  Law(g)
<1> DEFINE u == InUse(h)
           v == h.drift
           l == Len(h.blocks)
           w == h.grown
<1>1. u \in Int /\ v \in Int /\ l \in Int /\ w \in Nat
  BY LawNumbers
<1>2. h.allocated = Wrap32(u + v) /\ h.num = Wrap32(l - w)
  BY DEF Law
<1> HIDE DEF u, v, l, w
<1>3. u + v \in Int /\ l - w \in Int /\ m + d \in Int /\ n - k \in Int
  BY <1>1
<1>4. /\ Wrap32(Wrap32(u + v) + (m + d)) = Wrap32((u + v) + (m + d))
      /\ Wrap32(Wrap32(l - w) + (n - k)) = Wrap32((l - w) + (n - k))
  BY <1>3, WrapOn
<1>5. (u + v) + (m + d) = (u + m) + (v + d) /\ (l - w) + (n - k) = (l + n) - (w + k)
  BY <1>1
<1>6. g.allocated = Wrap32(InUse(g) + g.drift) /\ g.num = Wrap32(Len(g.blocks) - g.grown)
  BY <1>2, <1>4, <1>5 DEF u, v, l, w
<1>7. g.drift \in Int /\ g.grown \in Nat
  <2>1. v + d \in Int /\ w + k \in Nat
    BY <1>1
  <2>2. g.drift = v + d /\ g.grown = w + k
    BY Zenon DEF v, w
  <2> QED BY <2>1, <2>2
<1> QED BY <1>6, <1>7 DEF Law

\* Nothing changes but the list and num_blocks_, by as many as the list.
LEMMA LawRecounted ==
    ASSUME NEW h, HeapOK(h), Law(h), NEW x, Rearranged(x, h), SameBesides(x, h),
           NEW n \in Int, Len(x.blocks) = Len(h.blocks) + n
    PROVE  Law(WithNum(x, Wrap32(h.num + n)))
<1> DEFINE g == WithNum(x, Wrap32(h.num + n))
<1>1. /\ DOMAIN x = HeapFields /\ x.allocated = h.allocated
      /\ x.drift = h.drift /\ x.grown = h.grown
  BY DEF HeapOK, Shape, SameBesides, HeapFields
<1>2. /\ g.hdr = x.hdr /\ g.blocks = x.blocks /\ g.allocated = x.allocated
      /\ g.drift = x.drift /\ g.grown = x.grown /\ g.num = Wrap32(h.num + n)
  BY <1>1 DEF WithNum, HeapFields
<1> HIDE DEF g
<1>3. InUse(g) = InUse(h)
  <2>1. SameUsed(g, h)
    BY <1>2 DEF SameUsed, Rearranged, UsedOf
  <2> QED BY <2>1, SameInUse
<1>4. /\ InUse(h) \in Nat /\ h.allocated \in Nat /\ h.num \in Nat
      /\ h.allocated < WORD32 /\ h.drift \in Int /\ h.grown \in Nat
  BY LawNumbers DEF HeapOK
<1>5. /\ InUse(g) = InUse(h) + 0 /\ g.grown = h.grown + 0 /\ g.drift = h.drift + 0
      /\ h.allocated + (0 + 0) = h.allocated /\ h.num + (n - 0) = h.num + n
  BY <1>1, <1>2, <1>3, <1>4
<1>6. g.allocated = Wrap32(h.allocated + (0 + 0)) /\ g.num = Wrap32(h.num + (n - 0))
  BY <1>1, <1>2, <1>4, <1>5, WrapSmall
<1>7. Len(g.blocks) = Len(h.blocks) + n /\ 0 \in Int /\ 0 \in Nat
  BY <1>2
<1> HIDE DEF Law
<1>8. Law(g)
  BY <1>5, <1>6, <1>7, LawMoved DEF HeapOK
<1> QED BY <1>8 DEF g

\* num_blocks_ counts down.
LEMMA CountedDown ==
    ASSUME NEW h, HeapOK(h)
    PROVE  Wrap32(h.num + WORD32 - 1) = Wrap32(h.num + (-1)) /\ h.num \in Int
<1>1. h.num \in Int /\ WORD32 \in Int
  BY UserHeapAssumption DEF HeapOK, Shape
<1>2. h.num + WORD32 - 1 = (h.num + (-1)) + WORD32 /\ h.num + (-1) \in Int
  BY <1>1
<1> QED BY <1>1, <1>2, WrapOn

LEMMA SplitLaw ==
    ASSUME NEW h, HeapOK(h), Law(h), NEW b \in BlocksOf(h), h.hdr[b].is_free,
           NEW size \in Nat
    PROVE  Law(Split(h, b, size))
<1>1. CASE ~ Splits(h, b, size)
  BY <1>1 DEF Split
<1>2. CASE Splits(h, b, size)
  <2> DEFINE x == SplitAt(h, b, size)
  <2>1. Rearranged(x, h) /\ SameBesides(x, h) /\ Len(x.blocks) = Len(h.blocks) + 1
    BY <1>2, SplitFreeKeeps DEF HeapOK, Shape
  <2>2. x.num = h.num
    BY <2>1 DEF SameBesides, HeapOK, Shape, HeapFields
  <2>3. Split(h, b, size) = WithNum(x, Wrap32(h.num + 1))
    BY <1>2, <2>2 DEF Split, WithNum
  <2> HIDE DEF x
  <2> QED BY <2>1, <2>3, LawRecounted
<1> QED BY <1>1, <1>2

LEMMA MergeNextLaw ==
    ASSUME NEW h, HeapOK(h), Law(h), NEW b \in BlocksOf(h), h.hdr[b].is_free
    PROVE  Law(MergeNext(h, b))
<1>1. CASE ~ MergesNext(h, b)
  BY <1>1 DEF MergeNext
<1>2. CASE MergesNext(h, b)
  <2> DEFINE x == JoinNext(h, b)
             l == Len(h.blocks)
  <2>1. Rearranged(x, h) /\ SameBesides(x, h) /\ Len(x.blocks) = l - 1
    BY <1>2, MergeNextKeeps DEF HeapOK, Shape
  <2>2. x.num = h.num
    BY <2>1 DEF SameBesides, HeapOK, Shape, HeapFields
  <2>3. MergeNext(h, b) = WithNum(x, Wrap32(h.num + WORD32 - 1))
    BY <1>2, <2>2 DEF MergeNext, WithNum
  <2> HIDE DEF x
  <2>4. Len(x.blocks) = l + (-1) /\ -1 \in Int
    <3>1. l \in Nat
      BY LenProperties DEF HeapOK, Shape, ListOK, ListTyped
    <3> HIDE DEF l
    <3> QED BY <2>1, <3>1
  <2>5. Wrap32(h.num + WORD32 - 1) = Wrap32(h.num + (-1))
    BY CountedDown
  <2> QED BY <2>1, <2>3, <2>4, <2>5, LawRecounted
<1> QED BY <1>1, <1>2

LEMMA MergePrevLaw ==
    ASSUME NEW h, HeapOK(h), Law(h), NEW b \in BlocksOf(h), h.hdr[b].is_free
    PROVE  Law(MergePrev(h, b))
<1>1. CASE ~ MergesPrev(h, b)
  BY <1>1 DEF MergePrev
<1>2. CASE MergesPrev(h, b)
  <2> DEFINE x == JoinPrev(h, b)
             l == Len(h.blocks)
  <2>1. Rearranged(x, h) /\ SameBesides(x, h) /\ Len(x.blocks) = l - 1
    BY <1>2, MergePrevKeeps DEF HeapOK, Shape
  <2>2. x.num = h.num
    BY <2>1 DEF SameBesides, HeapOK, Shape, HeapFields
  <2>3. MergePrev(h, b) = WithNum(x, Wrap32(h.num + WORD32 - 1))
    BY <1>2, <2>2 DEF MergePrev, WithNum
  <2> HIDE DEF x
  <2>4. Len(x.blocks) = l + (-1) /\ -1 \in Int
    <3>1. l \in Nat
      BY LenProperties DEF HeapOK, Shape, ListOK, ListTyped
    <3> HIDE DEF l
    <3> QED BY <2>1, <3>1
  <2>5. Wrap32(h.num + WORD32 - 1) = Wrap32(h.num + (-1))
    BY CountedDown
  <2> QED BY <2>1, <2>3, <2>4, <2>5, LawRecounted
<1> QED BY <1>1, <1>2

LEMMA CoalesceLaw ==
    ASSUME NEW h, HeapOK(h), Law(h), NEW b \in BlocksOf(h)
    PROVE  Law(Coalesce(h, b))
<1>1. CASE ~ h.hdr[b].is_free
  BY <1>1 DEF Coalesce
<1>2. CASE h.hdr[b].is_free
  <2> DEFINE x == MergeNext(h, b)
  <2>1. HeapOK(x) /\ Law(x) /\ b \in BlocksOf(x) /\ x.hdr[b].is_free
    BY <1>2, MergeNextHeap, MergeNextLaw
  <2>2. Coalesce(h, b) = MergePrev(x, b)
    BY <1>2 DEF Coalesce
  <2> HIDE DEF x
  <2> QED BY <2>1, <2>2, MergePrevLaw
<1> QED BY <1>1, <1>2

\* Requests that leave the list and the counters alone.
LEMMA LawSame ==
    ASSUME NEW h, Law(h), NEW g, g.hdr = h.hdr, g.blocks = h.blocks,
           g.allocated = h.allocated, g.num = h.num, g.drift = h.drift, g.grown = h.grown
    PROVE  Law(g)
<1>1. SameUsed(g, h)
  BY DEF SameUsed, UsedOf
<1>2. InUse(g) = InUse(h)
  BY <1>1, SameInUse
<1> QED BY <1>2 DEF Law

LEMMA RequestLaw ==
    ASSUME NEW h, DOMAIN h = HeapFields, Law(h), NEW addr, NEW size
    PROVE  Law(Request(h, addr, size))
<1> DEFINE g == Request(h, addr, size)
<1>1. /\ g.hdr = h.hdr /\ g.blocks = h.blocks /\ g.allocated = h.allocated
      /\ g.num = h.num /\ g.drift = h.drift /\ g.grown = h.grown
  BY DEF Request, HeapFields
<1> HIDE DEF g, Law
<1> QED BY <1>1, LawSame DEF g

\* The region the heap grows by is a block that num_blocks_ does not count.
LEMMA GrowLaw ==
    ASSUME NEW h, Shape(h), Law(h), NEW size \in Nat, size >= HDR, h.current + size <= HEAP_MAX
    PROVE  Law(Grow(h, size))
<1> DEFINE b == h.current
           x == AppendBlock(h, b, size - HDR)
           g == [x EXCEPT !.current = @ + size, !.grown = @ + 1]
<1>1. SameBesides(x, h) /\ Len(x.blocks) = Len(h.blocks) + 1 /\ SameUsed(x, h)
  BY Appended
<1>2. Grow(h, size) = g
  BY DEF Grow
<1> HIDE DEF x
<1>3. /\ DOMAIN x = HeapFields /\ x.allocated = h.allocated /\ x.num = h.num
      /\ x.drift = h.drift /\ x.grown = h.grown
  BY <1>1 DEF Shape, SameBesides, HeapFields
<1>4. /\ g.hdr = x.hdr /\ g.blocks = x.blocks /\ g.allocated = h.allocated /\ g.num = h.num
      /\ g.drift = h.drift /\ g.grown = h.grown + 1
  BY <1>3 DEF HeapFields
<1> HIDE DEF g
<1>5. InUse(g) = InUse(h)
  <2>1. SameUsed(g, h)
    BY <1>1, <1>4 DEF SameUsed, UsedOf
  <2> QED BY <2>1, SameInUse
<1>6. /\ InUse(h) \in Nat /\ h.drift \in Int
      /\ h.allocated \in Nat /\ h.allocated < WORD32 /\ h.num \in Nat /\ h.num < WORD32
  BY LawNumbers
<1>7. /\ InUse(g) = InUse(h) + 0 /\ g.drift = h.drift + 0
      /\ h.allocated + (0 + 0) = h.allocated /\ h.num + (1 - 1) = h.num
  BY <1>4, <1>5, <1>6
<1>8. g.allocated = Wrap32(h.allocated + (0 + 0)) /\ g.num = Wrap32(h.num + (1 - 1))
  BY <1>4, <1>6, <1>7, WrapSmall
<1>9. Len(g.blocks) = Len(h.blocks) + 1 /\ 0 \in Int /\ 1 \in Int /\ 1 \in Nat
  BY <1>1, <1>4
<1> HIDE DEF Law
<1>10. Law(g)
  BY <1>4, <1>7, <1>8, <1>9, LawMoved
<1> QED BY <1>2, <1>10

LEMMA ExpandLaw ==
    ASSUME NEW h, HeapOK(h), Law(h), NEW min_size \in Nat, min_size >= HDR
    PROVE  Law(Expand(h, min_size))
<1> DEFINE size == ALIGN_UP(min_size)
           asked == Request(h, h.current, size)
           grown == Grow(asked, size)
           g == Coalesce(grown, h.current)
<1>1. size \in Nat /\ size >= HDR
  BY AlignedUp, BlockAssumption
<1>2. Expand(h, min_size) = IF ~ WithinMax(h, size) THEN h
                            ELSE IF ~ Granted(h, size) THEN asked ELSE g
  BY DEF Expand
<1> HIDE DEF size
<1>3. /\ Shape(asked) /\ asked.current = h.current
      /\ Granted(h, size) => asked.pages = PagesOf(HEAP_START, (h.current + size) - HEAP_START)
  BY <1>1, RequestHeap
<1>4. Law(asked)
  BY RequestLaw DEF HeapOK, Shape
<1> HIDE DEF asked
<1>5. CASE WithinMax(h, size) /\ Granted(h, size)
  <2>1. HeapOK(grown) /\ h.current \in BlocksOf(grown)
    BY <1>1, <1>3, <1>5, GrowHeap DEF WithinMax
  <2>2. Law(grown)
    BY <1>1, <1>3, <1>4, <1>5, GrowLaw DEF WithinMax
  <2> HIDE DEF grown
  <2> QED BY <1>2, <1>5, <2>1, <2>2, CoalesceLaw
<1> QED BY <1>2, <1>4, <1>5

\* What is handed out is counted by the size asked for; the rest is drift.
LEMMA FirstFitLaw ==
    ASSUME NEW h, HeapOK(h), Law(h), NEW size \in Nat
    PROVE  Law(FirstFit(h, size).heap)
<1> DEFINE i == Min(Fitting(h, size))
           b == h.blocks[i]
           s == Split(h, b, size)
           x == HandOut(s, b)
           z == s.hdr[b].size
           n == x.allocated + size
           d == x.drift - (z - size)
           g == WithCount(x, Wrap32(n), d)
<1>0. ListOK(h) /\ ListTyped(h)
  BY DEF HeapOK, Shape, ListOK
<1>1. CASE Fitting(h, size) = {}
  BY <1>1 DEF FirstFit, Outcome
<1>2. CASE Fitting(h, size) # {}
  <2>1. i \in Fitting(h, size)
    <3>1. Fitting(h, size) \subseteq Nat
      BY <1>0, LenProperties DEF Fitting, ListTyped
    <3> QED BY <1>2, <3>1, MinMember
  <2> HIDE DEF i
  <2>2. b \in BlocksOf(h) /\ h.hdr[b].is_free /\ h.hdr[b].size >= size
    BY <1>0, <2>1, FittingBlock
  <2>3. FirstFit(h, size).heap = g
    BY <1>2 DEF FirstFit, Outcome, WithCount, i
  <2> HIDE DEF b
  <2>4. HeapOK(s) /\ b \in BlocksOf(s) /\ s.hdr[b].is_free /\ z \in Nat /\ z >= size
    BY <2>2, SplitHeap
  <2>5. Law(s)
    BY <2>2, SplitLaw
  <2> HIDE DEF s
  <2>6. ListOK(s) /\ b \notin UsedOf(s) /\ DOMAIN s = HeapFields
    BY <2>4, UsedAreBlocks DEF HeapOK, Shape
  <2>7. /\ HeapOK(x) /\ DOMAIN x = HeapFields
        /\ UsedOf(x) = UsedOf(s) \cup {b}
        /\ \A c \in BlocksOf(s) : x.hdr[c].size = s.hdr[c].size
    BY <2>4, HandOutHeap
  <2>8. SameBesides(x, s) /\ x.blocks = s.blocks
    BY <2>4, <2>6, HandOutKeeps
  <2> HIDE DEF x
  <2>9. /\ x.allocated = s.allocated /\ x.num = s.num
        /\ x.drift = s.drift /\ x.grown = s.grown
    BY <2>6, <2>8 DEF SameBesides, HeapFields
  <2>10. /\ InUse(s) \in Nat /\ s.drift \in Int /\ s.grown \in Nat
         /\ s.allocated \in Nat /\ s.num \in Nat /\ s.num < WORD32
         /\ Len(s.blocks) \in Nat
    BY <2>4, <2>5, LawNumbers DEF HeapOK
  <2>11. /\ g.hdr = x.hdr /\ g.blocks = x.blocks /\ g.num = x.num /\ g.grown = x.grown
         /\ g.allocated = Wrap32(n) /\ g.drift = d
    BY <2>7 DEF WithCount, HeapFields
  <2>12. n \in Int
    BY <2>9, <2>10
  <2>13. HeapOK(g)
    <3> HIDE DEF n, d
    <3> QED BY <2>7, <2>12, Counted
  <2> HIDE DEF g
  <2>14. InUse(g) = InUse(s) + z
    <3>1. UsedOf(g) = UsedOf(s) \cup {b} /\ g.hdr[b].size = z
      BY <2>4, <2>7, <2>11 DEF UsedOf
    <3>2. b \in UsedOf(g) /\ UsedOf(g) \ {b} = UsedOf(s)
      BY <2>6, <3>1
    <3>3. InUse(g) = Cardinality(DataOf(g, UsedOf(g) \ {b})) + g.hdr[b].size
      BY <2>13, <3>2, OneBlockMore DEF HeapOK
    <3>4. \A c \in UsedOf(s) : g.hdr[c].size = s.hdr[c].size
      BY <2>6, <2>7, <2>11, UsedAreBlocks
    <3>5. DataOf(g, UsedOf(s)) = DataOf(s, UsedOf(s))
      BY <3>4, SameData
    <3> QED BY <3>1, <3>2, <3>3, <3>5 DEF InUse
  <2> DEFINE k == size - z
  <2>15. g.allocated = Wrap32(s.allocated + (z + k)) /\ g.drift = s.drift + k /\ k \in Int
    <3>1. s.allocated + (z + k) = s.allocated + size
      BY <2>4, <2>10
    <3>2. s.drift - (z - size) = s.drift + k /\ k \in Int
      BY <2>4, <2>10
    <3> QED BY <2>9, <2>11, <3>1, <3>2
  <2>15a. /\ g.grown = s.grown + 0 /\ Len(g.blocks) = Len(s.blocks) + 0
          /\ s.num + (0 - 0) = s.num /\ z \in Int /\ 0 \in Int /\ 0 \in Nat
    BY <2>4, <2>8, <2>9, <2>10, <2>11
  <2>16. g.num = Wrap32(s.num + (0 - 0))
    BY <2>9, <2>10, <2>11, <2>15a, WrapSmall
  <2> HIDE DEF Law, z, k
  <2>17. Law(g)
    BY <2>4, <2>5, <2>14, <2>15, <2>15a, <2>16, LawMoved DEF HeapOK
  <2> QED BY <2>3, <2>17
<1> QED BY <1>1, <1>2

LEMMA MallocLaw ==
    ASSUME NEW h, HeapOK(h), Law(h), NEW asked \in Nat
    PROVE  Law(Malloc(h, asked).heap)
<1> DEFINE up == ALIGN_UP(asked)
           size == Wrap32(up)
           more == Wrap32(size + HDR)
           g == Expand(h, more)
<1>1. CASE asked = 0 \/ asked > MAX_SINGLE_ALLOC
  <2>1. Malloc(h, asked).heap = h
    BY <1>1 DEF Malloc, Outcome
  <2> QED BY <2>1
<1>2. CASE ~ (asked = 0 \/ asked > MAX_SINGLE_ALLOC)
  <2>1. Malloc(h, asked) = IF Fitting(h, size) # {} THEN FirstFit(h, size) ELSE FirstFit(g, size)
    BY <1>2 DEF Malloc
  <2>2. asked <= MAX_SINGLE_ALLOC
    BY <1>2, UserHeapAssumption
  <2>3. up \in Nat /\ up >= asked /\ up < asked + FRAME_SIZE
    BY AlignedUp
  <2> HIDE DEF up
  <2>4. up < WORD32 /\ up + HDR < WORD32 /\ up + HDR \in Nat
    BY <2>2, <2>3, UserHeapAssumption, BlockAssumption
  <2>5. size = up
    BY <2>3, <2>4, WrapSmall
  <2>6. more = up + HDR
    BY <2>4, <2>5, WrapSmall
  <2>7. size \in Nat /\ more \in Nat /\ more >= HDR
    BY <2>3, <2>4, <2>5, <2>6, BlockAssumption
  <2> HIDE DEF size, more
  <2>8. HeapOK(g) /\ Law(g)
    BY <2>7, ExpandHeap, ExpandLaw
  <2> HIDE DEF g
  <2>9. Law(FirstFit(h, size).heap) /\ Law(FirstFit(g, size).heap)
    BY <2>7, <2>8, FirstFitLaw
  <2> QED BY <2>1, <2>9
<1> QED BY <1>1, <1>2

\* A used block is given back, and counted down by its whole size.
LEMMA ReleaseLaw ==
    ASSUME NEW h, HeapOK(h), Law(h), NEW b \in BlocksOf(h)
    PROVE  Law(Release(h, b))
<1> DEFINE x == MarkFree(h, b)
           z == h.hdr[b].size
           n == h.allocated + WORD32 - z
           y == WithCount(x, Wrap32(n), x.drift)
<1>0. ListOK(h) /\ ListTyped(h) /\ DOMAIN h = HeapFields /\ z \in Nat
  BY BlockTyped DEF HeapOK, Shape, ListOK
<1>1. CASE h.hdr[b].is_free
  BY <1>1 DEF Release
<1>2. CASE ~ h.hdr[b].is_free
  <2>1. /\ ListOK(x) /\ SameBesides(x, h) /\ x.blocks = h.blocks
        /\ BlocksOf(x) = BlocksOf(h) /\ Covered(x) = Covered(h)
        /\ UsedOf(x) = UsedOf(h) \ {b}
        /\ \A c \in BlocksOf(h) : x.hdr[c].size = h.hdr[c].size
    BY <1>0, MarkFreeKeeps
  <2>2. /\ DOMAIN x = HeapFields /\ Kept(x, h) /\ x.num = h.num /\ x.allocated = h.allocated
        /\ x.drift = h.drift /\ x.grown = h.grown
    BY <1>0, <2>1 DEF SameBesides, HeapFields, Kept
  <2>3. Release(h, b) = Coalesce(y, b)
    BY <1>0, <1>2, <2>2 DEF Release, WithCount, HeapFields
  <2> HIDE DEF x
  <2>4. HeapOK(x)
    BY <2>1, <2>2 DEF HeapOK, Shape, Paged, Kept
  <2>5. /\ InUse(h) \in Nat /\ h.drift \in Int /\ h.grown \in Nat
        /\ h.allocated \in Nat /\ h.num \in Nat /\ h.num < WORD32
        /\ Len(h.blocks) \in Nat /\ WORD32 \in Nat
    BY LawNumbers, UserHeapAssumption DEF HeapOK
  <2>6. n \in Int
    <3> DEFINE v == h.allocated
    <3>1. v \in Nat /\ n = v + WORD32 - z
      BY <2>5
    <3> HIDE DEF v, n, z
    <3> QED BY <1>0, <2>5, <3>1
  <2>7. /\ y.hdr = x.hdr /\ y.blocks = x.blocks /\ y.num = x.num /\ y.grown = x.grown
        /\ y.allocated = Wrap32(n) /\ y.drift = x.drift
    BY <2>2 DEF WithCount, HeapFields
  <2>8. HeapOK(y) /\ BlocksOf(y) = BlocksOf(x)
    <3> HIDE DEF n
    <3> QED BY <2>4, <2>6, Counted
  <2> HIDE DEF y
  <2>9. InUse(h) = InUse(y) + z
    <3>1. b \in UsedOf(h)
      BY <1>0, <1>2, UsedAreBlocks
    <3>2. InUse(h) = Cardinality(DataOf(h, UsedOf(h) \ {b})) + z
      BY <3>1, OneBlockMore DEF HeapOK
    <3>3. UsedOf(y) = UsedOf(h) \ {b}
      BY <2>1, <2>7 DEF UsedOf
    <3>4. \A c \in UsedOf(y) : y.hdr[c].size = h.hdr[c].size
      BY <1>0, <2>1, <2>7, <3>3, UsedAreBlocks
    <3>5. DataOf(y, UsedOf(y)) = DataOf(h, UsedOf(y))
      BY <3>4, SameData
    <3> QED BY <3>2, <3>3, <3>5 DEF InUse
  <2> HIDE DEF z
  <2> DEFINE m == -z
  <2>10. m \in Int /\ InUse(y) = InUse(h) + m
    <3> DEFINE u == InUse(y)
    <3>1. u \in Nat
      BY <2>8, InUseNat DEF HeapOK
    <3> HIDE DEF u
    <3>2. InUse(h) = u + z
      BY <2>9 DEF u
    <3>3. m \in Int /\ u = (u + z) + m
      BY <1>0, <3>1
    <3> QED BY <3>2, <3>3 DEF u
  <2>11. Wrap32(n) = Wrap32(h.allocated + (m + 0))
    <3> DEFINE v == h.allocated
               k == v - z
    <3>1. v \in Nat /\ k \in Int /\ n = k + WORD32 /\ v + (m + 0) = k
      BY <1>0, <2>5
    <3> HIDE DEF n, k, v
    <3>2. Wrap32(k + WORD32) = Wrap32(k)
      BY <3>1, WrapOn
    <3> QED BY <3>1, <3>2 DEF v
  <2> HIDE DEF m, n
  <2>12. /\ y.drift = h.drift + 0 /\ y.grown = h.grown + 0
         /\ Len(y.blocks) = Len(h.blocks) + 0
         /\ h.num + (0 - 0) = h.num /\ 0 \in Int /\ 0 \in Nat
    BY <2>1, <2>2, <2>5, <2>7
  <2>13. y.num = Wrap32(h.num + (0 - 0))
    BY <2>2, <2>5, <2>7, <2>12, WrapSmall
  <2> HIDE DEF Law
  <2>14. Law(y)
    BY <2>7, <2>10, <2>11, <2>12, <2>13, LawMoved DEF HeapOK
  <2> QED BY <2>1, <2>3, <2>8, <2>14, CoalesceLaw
<1> QED BY <1>1, <1>2

\* What realloc splits off is counted as drift.
LEMMA ShrinkLaw ==
    ASSUME NEW h, HeapOK(h), Law(h), NEW b \in UsedOf(h), NEW size \in Nat, size <= h.hdr[b].size
    PROVE  Law(Shrink(h, b, size))
<1> DEFINE x == SplitAt(h, b, size)
           z == h.hdr[b].size
           g == Shrink(h, b, size)
<1>0. /\ ListOK(h) /\ ListTyped(h) /\ DOMAIN h = HeapFields
      /\ b \in BlocksOf(h) /\ z \in Nat
  BY BlockTyped, UsedAreBlocks DEF HeapOK, Shape, ListOK
<1>1. CASE z <= size + MIN_BLOCK_SIZE
  BY <1>1 DEF Shrink
<1>2. CASE ~ (z <= size + MIN_BLOCK_SIZE)
  <2>1. Splits(h, b, size)
    BY <1>0, <1>2, BlockAssumption DEF Splits, MIN_BLOCK_SIZE
  <2>2. /\ SameBesides(x, h) /\ Len(x.blocks) = Len(h.blocks) + 1
        /\ UsedOf(x) = UsedOf(h) /\ x.hdr[b].size = size
        /\ \A c \in BlocksOf(h) \ {b} : x.hdr[c].size = h.hdr[c].size
    BY <1>0, <2>1, SplitKeeps
  <2>3. /\ DOMAIN x = HeapFields /\ x.num = h.num /\ x.allocated = h.allocated
        /\ x.drift = h.drift /\ x.grown = h.grown
    BY <1>0, <2>2 DEF SameBesides, HeapFields
  <2>4. g = [[x EXCEPT !.num = Wrap32(@ + 1)] EXCEPT !.drift = @ + (z - size)]
    BY <1>2, <2>1 DEF Shrink, Split
  <2> HIDE DEF x
  <2>5. /\ g.hdr = x.hdr /\ g.blocks = x.blocks /\ g.allocated = h.allocated
        /\ g.num = Wrap32(h.num + 1) /\ g.grown = h.grown /\ g.drift = h.drift + (z - size)
    BY <2>3, <2>4 DEF HeapFields
  <2>6. HeapOK(g) /\ UsedOf(g) = UsedOf(h)
    BY ShrinkHeap
  <2> HIDE DEF g
  <2> DEFINE S == UsedOf(h) \ {b}
             e == Cardinality(DataOf(h, S))
  <2>7. e \in Nat /\ InUse(h) = e + z
    BY OneBlockMore DEF HeapOK
  <2>8. InUse(g) = e + size
    <3>1. b \in UsedOf(g)
      BY <2>6
    <3>2. InUse(g) = Cardinality(DataOf(g, UsedOf(g) \ {b})) + g.hdr[b].size
      BY <2>6, <3>1, OneBlockMore DEF HeapOK
    <3>3. \A c \in S : g.hdr[c].size = h.hdr[c].size
      BY <1>0, <2>2, <2>5, UsedAreBlocks
    <3>4. DataOf(g, S) = DataOf(h, S)
      BY <3>3, SameData
    <3> QED BY <2>2, <2>5, <2>6, <3>2, <3>4
  <2>9. /\ h.drift \in Int /\ h.grown \in Nat /\ h.allocated \in Nat
        /\ h.allocated < WORD32 /\ h.num \in Nat
    BY LawNumbers DEF HeapOK
  <2> HIDE DEF z, e
  <2> DEFINE m == size - z
             d == z - size
  <2>10. m \in Int /\ d \in Int /\ InUse(g) = InUse(h) + m /\ m + d = 0
    <3>1. m \in Int /\ d \in Int /\ e + size = (e + z) + m /\ m + d = 0
      BY <1>0, <2>7
    <3> QED BY <2>7, <2>8, <3>1
  <2>11. g.drift = h.drift + d
    BY <2>5
  <2> HIDE DEF m, d
  <2>12. g.allocated = Wrap32(h.allocated + (m + d))
    <3>1. h.allocated + 0 = h.allocated
      BY <2>9
    <3> QED BY <2>5, <2>9, <2>10, <3>1, WrapSmall
  <2>13. /\ g.num = Wrap32(h.num + (1 - 0)) /\ g.grown = h.grown + 0
         /\ Len(g.blocks) = Len(h.blocks) + 1 /\ 1 \in Int /\ 0 \in Nat
    BY <2>2, <2>5, <2>9
  <2> HIDE DEF Law
  <2> QED BY <2>10, <2>11, <2>12, <2>13, LawMoved DEF HeapOK, g
<1> QED BY <1>1, <1>2

LEMMA CreatedLaw ==
    ASSUME NEW frames \in Nat
    PROVE  Law(Created(frames))
<1> DEFINE h == [blocks |-> <<>>, hdr |-> <<>>, current |-> HEAP_START, limit |-> HEAP_MAX,
                 allocated |-> 0, num |-> 0, pages |-> {}, frames |-> frames,
                 grown |-> 0, drift |-> 0]
           asked == Request(h, HEAP_START, INITIAL)
           g == Grow(asked, INITIAL)
<1>1. Created(frames) = IF Granted(h, INITIAL) THEN g ELSE asked
  BY DEF Created
<1>2. HeapOK(h) /\ h.current = HEAP_START /\ DOMAIN h = HeapFields
  BY EmptyHeap DEF HeapFields
<1>3. Law(h)
  <2>1. /\ h.hdr = <<>> /\ h.blocks = <<>> /\ h.allocated = 0 /\ h.num = 0
        /\ h.grown = 0 /\ h.drift = 0
    OBVIOUS
  <2> HIDE DEF h
  <2>2. UsedOf(h) = {}
    BY <2>1 DEF UsedOf
  <2>3. DataOf(h, {}) = {}
    BY DEF DataOf
  <2>4. InUse(h) = 0 /\ Len(h.blocks) = 0
    BY <2>1, <2>2, <2>3, FS_EmptySet DEF InUse
  <2>5. Wrap32(0) = 0
    BY WrapSmall, UserHeapAssumption
  <2> QED BY <2>1, <2>4, <2>5 DEF Law
<1> HIDE DEF h
<1>4. /\ INITIAL \in Nat /\ INITIAL >= HDR /\ HEAP_START + INITIAL <= HEAP_MAX
  BY UserHeapAssumption, BlockAssumption
<1>5. Shape(asked) /\ asked.current = HEAP_START
  BY <1>2, <1>4, RequestHeap
<1>6. Law(asked)
  BY <1>2, <1>3, RequestLaw
<1> HIDE DEF asked
<1>7. Law(g)
  BY <1>4, <1>5, <1>6, GrowLaw
<1> QED BY <1>1, <1>6, <1>7

\* Each operation keeps the law.
LEMMA LawStep ==
    ASSUME HeapInv, Law(heap), Next
    PROVE  Law(heap')
<1>0. ASSUME ~ exited PROVE Running(heap, live)
  BY <1>0, RunningInv
<1>1. ASSUME NEW size \in Sizes, malloc(size) PROVE Law(heap')
  <2>1. HeapOK(heap) /\ size \in Nat /\ heap' = Malloc(heap, size).heap
    BY <1>0, <1>1, UserHeapAssumption DEF malloc, Running
  <2> QED BY <2>1, MallocLaw
<1>2. ASSUME NEW r \in live, free(r) PROVE Law(heap')
  <2> DEFINE b == FromData(r.ptr)
  <2>1. Running(heap, live) /\ heap' = Release(heap, b)
    BY <1>0, <1>2 DEF free
  <2>2. b \in BlocksOf(heap)
    BY <2>1, HeldBlock DEF Running, HeapOK, Shape
  <2> HIDE DEF b
  <2> QED BY <2>1, <2>2, ReleaseLaw DEF Running
<1>3. ASSUME NEW b \in DOMAIN heap.hdr, freeAgain(b) PROVE Law(heap')
  <2>1. Running(heap, live) /\ heap' = Release(heap, b)
    BY <1>0, <1>3 DEF freeAgain
  <2>2. b \notin UsedOf(heap)
    BY <1>3, <2>1 DEF Running, Held, freeAgain
  <2>3. heap' = heap
    BY <2>1, <2>2 DEF Release, UsedOf
  <2> QED BY <2>3
<1>4. ASSUME NEW r \in live, NEW new_size \in NewSizes, realloc(r, new_size) PROVE Law(heap')
  <2> DEFINE b == FromData(r.ptr)
             size == Wrap32(ALIGN_UP(new_size))
             o == Malloc(heap, new_size)
  <2>1. Running(heap, live) /\ new_size \in Nat
    BY <1>0, <1>4, UserHeapAssumption DEF realloc
  <2>2. /\ b \in UsedOf(heap) /\ b \in BlocksOf(heap)
        /\ r.ptr \in Nat /\ r.ptr # Null
    BY <2>1, HeldBlock DEF Running, HeapOK, Shape
  <2>3. size \in Nat
    BY <2>1, AlignedUp, Wrapped, UserHeapAssumption
  <2>4. CASE size <= heap.hdr[b].size
    <3>1. heap' = Shrink(heap, b, size)
      BY <1>4, <2>4 DEF realloc
    <3> HIDE DEF b, size
    <3> QED BY <2>1, <2>2, <2>3, <2>4, <3>1, ShrinkLaw DEF Running
  <2>5. Served(o, heap, new_size) /\ Law(o.heap)
    BY <2>1, MallocServes, MallocLaw DEF Running
  <2>6. CASE ~ (size <= heap.hdr[b].size) /\ o.ptr = Null
    <3>1. heap' = o.heap
      BY <1>4, <2>6 DEF realloc
    <3> QED BY <2>5, <3>1
  <2>7. CASE ~ (size <= heap.hdr[b].size) /\ o.ptr # Null
    <3>1. heap' = Release(o.heap, b)
      BY <1>4, <2>7 DEF realloc
    <3> HIDE DEF o
    <3>2. HeapOK(o.heap) /\ b \in UsedOf(o.heap)
      BY <2>2, <2>5, <2>7 DEF Served, Grants
    <3>3. b \in BlocksOf(o.heap)
      BY <3>2, UsedAreBlocks DEF HeapOK, Shape
    <3> HIDE DEF b
    <3> QED BY <2>5, <3>1, <3>2, <3>3, ReleaseLaw
  <2> QED BY <2>4, <2>6, <2>7
<1>5. ASSUME NEW a \in Arrays, calloc(a.num, a.size) PROVE Law(heap')
  <2>1. a.num \in Nat /\ a.size \in Nat
    BY UserHeapAssumption
  <2> DEFINE n == a.num * a.size
  <2>2. n \in Nat
    BY <2>1
  <2>3. HeapOK(heap) /\ heap' = Malloc(heap, n).heap
    BY <1>0, <1>5 DEF calloc, Running
  <2> HIDE DEF n
  <2> QED BY <2>2, <2>3, MallocLaw
<1>6. ASSUME NEW g, heap' = g, g.hdr = heap.hdr, g.blocks = heap.blocks, g.num = heap.num,
             g.allocated = heap.allocated, g.drift = heap.drift, g.grown = heap.grown
      PROVE  Law(heap')
  BY <1>6, LawSame
<1>7. DOMAIN heap = HeapFields
  BY DEF HeapInv, Shape
<1>8. ASSUME NEW max_size \in Limits, set_heap_limit(max_size) PROVE Law(heap')
  <2> DEFINE g == [heap EXCEPT !.limit = HEAP_START + max_size]
  <2>1. heap' = g
    BY <1>8 DEF set_heap_limit
  <2> QED BY <1>6, <1>7, <2>1 DEF HeapFields
<1>9. CASE cleanup_all
  <2> DEFINE g == [heap EXCEPT !.pages = @ \ PagesOf(HEAP_START, heap.current - HEAP_START)]
  <2>1. heap' = g
    BY <1>9 DEF cleanup_all
  <2> QED BY <1>6, <1>7, <2>1 DEF HeapFields
<1>10. ASSUME NEW frames \in FrameSupply, others(frames) PROVE Law(heap')
  <2> DEFINE g == [heap EXCEPT !.frames = frames]
  <2>1. heap' = g
    BY <1>10 DEF others
  <2> QED BY <1>6, <1>7, <2>1 DEF HeapFields
<1> QED BY <1>1, <1>2, <1>3, <1>4, <1>5, <1>8, <1>9, <1>10 DEF Next

\* The two counters add up to what CountersLaw says, modulo 2^32, after any
\* calls of malloc, free, realloc and calloc, expansions that failed half way
\* among them, for any sizes (user_allocator.cpp:34-333): total_allocated_ is
\* off by what was too little to split or split off by realloc, and num_blocks_
\* by the regions the heap was given.
THEOREM CountersAlwaysDrift == ProcessSpec => []CountersLaw
<1>1. ProcessInit => Law(heap)
  <2> SUFFICES ASSUME ProcessInit PROVE Law(heap)
    OBVIOUS
  <2>1. PICK frames \in Nat : heap = Created(frames)
    BY UserHeapAssumption DEF ProcessInit, Init
  <2> QED BY <2>1, CreatedLaw
<1>2. Inv /\ Law(heap) /\ [ProcessNext]_processVars => Law(heap)'
  <2> SUFFICES ASSUME Inv, Law(heap), [ProcessNext]_processVars PROVE Law(heap')
    OBVIOUS
  <2>1. CASE Next
    BY <2>1, LawStep DEF Inv
  <2>2. ASSUME NEW size \in StackSizes, setup_stack(size) PROVE Law(heap')
    <3> DEFINE f == heap.frames - Mapped(ALIGN_UP(size) \div FRAME_SIZE, heap.frames)
               g == [heap EXCEPT !.frames = f]
    <3>1. heap' = g /\ DOMAIN heap = HeapFields
      BY <2>2 DEF setup_stack, Inv, HeapInv, Shape
    <3> HIDE DEF f
    <3>2. /\ g.hdr = heap.hdr /\ g.blocks = heap.blocks /\ g.num = heap.num
          /\ g.allocated = heap.allocated /\ g.drift = heap.drift /\ g.grown = heap.grown
      BY <3>1 DEF HeapFields
    <3> HIDE DEF g
    <3> QED BY <3>1, <3>2, LawSame
  <2>3. CASE UNCHANGED processVars
    BY <2>3 DEF processVars, vars
  <2> QED BY <2>1, <2>2, <2>3 DEF ProcessNext
<1>3. Law(heap) => CountersLaw
  BY DEF Law, CountersLaw, InUse
<1> QED BY <1>1, <1>2, <1>3, Invariance, PTL DEF ProcessSpec

=============================================================================
