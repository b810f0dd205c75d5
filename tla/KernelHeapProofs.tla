-------------------------- MODULE KernelHeapProofs --------------------------
(***************************************************************************)
(* What holds of the kernel heap for every page and header size, supply of *)
(* frames and set of requests, wherever its regions are: its blocks tile   *)
(* them, its statistics follow a law and, as long as no request wraps,     *)
(* each client has a block of its own.  The proofs rest on                 *)
(* BlockListProofs, which has what the operations on the block list keep.  *)
(***************************************************************************)
EXTENDS KernelHeap, BlockListProofs, TLAPS

HeapFields ==
    {"blocks", "hdr", "size", "allocated", "free", "spans", "frames", "shrinks", "fault"}

SpanBytes(spans) == UNION {s.start .. (s.start + s.size - 1) : s \in spans}

\* Regions of memory, none of them empty or in the last page there is.
SpansOK(spans) ==
    /\ IsFiniteSet(spans)
    /\ \A s \in spans : /\ s.start \in Nat \ {0} /\ s.size \in Nat \ {0}
                        /\ s.start + s.size + FRAME_SIZE <= WORD

\* The list and the numbers of a heap; its blocks cover what is mapped, and a
\* heap with nothing mapped has no frame either.
Shape(h) ==
    /\ DOMAIN h = HeapFields
    /\ ListOK(h)
    /\ h.size \in 0 .. (WORD - 1)
    /\ h.allocated \in 0 .. (WORD - 1)
    /\ h.free \in 0 .. (WORD - 1)
    /\ h.frames \in Nat
    /\ h.shrinks \in Nat
    /\ h.fault \in BOOLEAN
    /\ SpansOK(h.spans)
    /\ Covered(h) = SpanBytes(h.spans)
    /\ h.spans = {} => h.frames = 0
    /\ h.spans # {} => h.size = Cardinality(SpanBytes(h.spans))

\* a and b are equal modulo WORD.
Cong(a, b) == \E k \in Int : a = b + k * WORD

\* What the statistics add up to, as StatisticsLaw has it.
Law(h) ==
    h.spans # {} =>
        Cong(h.allocated + h.free + 2 * HDR * Cardinality(h.spans), h.size + HDR * Len(h.blocks))

HeapOK(h) == Shape(h) /\ Law(h)

\* What splitting and merging leave alone.
Kept(g, h) ==
    /\ g.size = h.size /\ g.spans = h.spans /\ g.frames = h.frames
    /\ g.shrinks = h.shrinks /\ g.fault = h.fault

-----------------------------------------------------------------------------
\* Numbers.

LEMMA Wrapped ==
    ASSUME NEW n \in Int
    PROVE  Wrap(n) \in 0 .. (WORD - 1)
BY HeapAssumption DEF Wrap

LEMMA WrapSmall ==
    ASSUME NEW n \in Nat, n < WORD
    PROVE  Wrap(n) = n
BY HeapAssumption DEF Wrap

LEMMA WrapCong ==
    ASSUME NEW n \in Int
    PROVE  Cong(Wrap(n), n)
<1> DEFINE q == n \div WORD
<1>1. q \in Int /\ n % WORD = n - q * WORD
  BY HeapAssumption, Z3
<1> HIDE DEF q
<1>2. -q \in Int /\ n % WORD = n + (-q) * WORD
  BY <1>1, HeapAssumption, Z3
<1> QED BY <1>2 DEF Cong, Wrap

LEMMA CongSame ==
    ASSUME NEW n \in Int
    PROVE  Cong(n, n)
<1>1. 0 \in Int /\ n = n + 0 * WORD
  BY HeapAssumption
<1> QED BY <1>1 DEF Cong

LEMMA CongAdd ==
    ASSUME NEW a \in Int, NEW b \in Int, NEW c \in Int, NEW d \in Int, Cong(a, b), Cong(c, d)
    PROVE  Cong(a + c, b + d)
<1>1. PICK k \in Int : a = b + k * WORD
  BY DEF Cong
<1>2. PICK l \in Int : c = d + l * WORD
  BY DEF Cong
<1>3. k + l \in Int /\ a + c = b + d + (k + l) * WORD
  BY <1>1, <1>2, HeapAssumption
<1> QED BY <1>3 DEF Cong

LEMMA CongTwice ==
    ASSUME NEW a \in Int, NEW b \in Int, NEW c \in Int, Cong(a, b), Cong(b, c)
    PROVE  Cong(a, c)
<1>1. PICK k \in Int : a = b + k * WORD
  BY DEF Cong
<1>2. PICK l \in Int : b = c + l * WORD
  BY DEF Cong
<1>3. k + l \in Int /\ a = c + (k + l) * WORD
  BY <1>1, <1>2, HeapAssumption
<1> QED BY <1>3 DEF Cong

LEMMA CongSum ==
    ASSUME NEW c \in Int, NEW u \in Int, NEW v \in Int, NEW x \in Int, NEW l \in Int, NEW d \in Int,
           Cong(u + c, x + l), Cong(v, u + d)
    PROVE  Cong(v + c, x + (l + d))
<1>1. PICK k \in Int : u + c = (x + l) + k * WORD
  BY DEF Cong
<1>2. PICK j \in Int : v = (u + d) + j * WORD
  BY DEF Cong
<1>3. k + j \in Int /\ v + c = (x + (l + d)) + (k + j) * WORD
  BY <1>1, <1>2, HeapAssumption
<1> QED BY <1>3 DEF Cong

LEMMA ProductsInt ==
    ASSUME NEW m \in Int, NEW n \in Int
    PROVE  /\ HDR * m \in Int /\ 2 * HDR * m \in Int
           /\ HDR * (m + n) = HDR * m + HDR * n
BY BlockAssumption

LEMMA CongWord ==
    ASSUME NEW a \in Int
    PROVE  Cong(a + WORD, a)
<1>1. 1 \in Int /\ a + WORD = a + 1 * WORD
  BY HeapAssumption
<1> QED BY <1>1 DEF Cong

LEMMA CongEqual ==
    ASSUME NEW a \in 0 .. (WORD - 1), NEW b \in 0 .. (WORD - 1), Cong(a, b)
    PROVE  a = b
<1>1. PICK k \in Int : a = b + k * WORD
  BY DEF Cong
<1>2. WORD \in Nat /\ WORD > 0
  BY HeapAssumption
<1>3. CASE k = 0
  BY <1>1, <1>2, <1>3
<1>4. CASE k >= 1
  <2>1. k * WORD >= WORD
    BY <1>2, <1>4
  <2> QED BY <1>1, <1>2, <2>1
<1>5. CASE k <= -1
  <2>1. k * WORD <= -WORD
    BY <1>2, <1>5
  <2> QED BY <1>1, <1>2, <2>1
<1> QED BY <1>3, <1>4, <1>5

LEMMA CongWrap ==
    ASSUME NEW a \in Int, NEW b \in Int, Cong(a, b)
    PROVE  Wrap(a) = Wrap(b)
<1>1. /\ Wrap(a) \in 0 .. (WORD - 1) /\ Wrap(b) \in 0 .. (WORD - 1)
      /\ Cong(Wrap(a), a) /\ Cong(Wrap(b), b)
  BY Wrapped, WrapCong
<1> DEFINE x == Wrap(a)
           y == Wrap(b)
<1>2. x \in 0 .. (WORD - 1) /\ y \in 0 .. (WORD - 1) /\ Cong(x, a) /\ Cong(y, b)
  BY <1>1
<1> HIDE DEF x, y
<1>3. Cong(x, b)
  BY <1>2, CongTwice
<1>4. Cong(b, y)
  <2>1. PICK k \in Int : y = b + k * WORD
    BY <1>2 DEF Cong
  <2>2. -k \in Int /\ b = y + (-k) * WORD
    BY <1>2, <2>1, HeapAssumption
  <2> QED BY <2>2 DEF Cong
<1>5. Cong(x, y)
  BY <1>2, <1>3, <1>4, CongTwice
<1> QED BY <1>2, <1>5, CongEqual DEF x, y

LEMMA Quotient ==
    ASSUME NEW n \in Nat
    PROVE  LET q == n \div FRAME_SIZE
           IN  /\ q \in Nat
               /\ q * FRAME_SIZE \in Nat
               /\ q * FRAME_SIZE <= n /\ n < q * FRAME_SIZE + FRAME_SIZE
               /\ n % FRAME_SIZE = n - q * FRAME_SIZE
BY HeapAssumption, Z3

LEMMA Multiple ==
    ASSUME NEW q \in Nat
    PROVE  /\ q * FRAME_SIZE \in Nat
           /\ (q * FRAME_SIZE) % FRAME_SIZE = 0
           /\ (q * FRAME_SIZE) \div FRAME_SIZE = q
           /\ q = 0 \/ q * FRAME_SIZE >= FRAME_SIZE
BY HeapAssumption, Z3

\* Rounded up, a number is a number of pages, and no smaller unless it wraps.
LEMMA AlignedUp ==
    ASSUME NEW n \in Nat
    PROVE  LET a == ALIGN_UP(n)
           IN  /\ a \in Nat
               /\ a = 0 \/ a >= FRAME_SIZE
               /\ a \div FRAME_SIZE \in Nat
               /\ a \div FRAME_SIZE = 0 => a = 0
               /\ n + FRAME_SIZE <= WORD => a >= n /\ a < n + FRAME_SIZE
<1> DEFINE s == n + FRAME_SIZE - 1
           m == Wrap(s)
           q == m \div FRAME_SIZE
           z == q * FRAME_SIZE
<1>0. FRAME_SIZE \in Nat /\ FRAME_SIZE > 0 /\ WORD \in Nat
  BY HeapAssumption
<1>1. s \in Nat /\ s = n + FRAME_SIZE - 1
  BY <1>0
<1>2. ALIGN_UP(n) = z
  BY DEF ALIGN_UP, ALIGN_DOWN
<1> HIDE DEF s
<1>3. m \in Nat /\ (s < WORD => m = s)
  BY <1>0, <1>1, Wrapped, WrapSmall
<1> HIDE DEF m
<1>4. q \in Nat /\ z \in Nat /\ z <= m /\ m < z + FRAME_SIZE
  BY <1>3, Quotient
<1> HIDE DEF q
<1>5. z \div FRAME_SIZE = q /\ (q = 0 \/ z >= FRAME_SIZE)
  BY <1>4, Multiple
<1>6. q = 0 => z = 0
  BY <1>0
<1> HIDE DEF z
<1>7. n + FRAME_SIZE <= WORD => z >= n /\ z < n + FRAME_SIZE
  BY <1>0, <1>1, <1>3, <1>4
<1>8. z = 0 \/ z >= FRAME_SIZE
  BY <1>5, <1>6
<1> QED BY <1>2, <1>4, <1>5, <1>6, <1>7, <1>8

-----------------------------------------------------------------------------
\* The shape and the law of a heap whose list has been rearranged.

LEMMA ShapeKept ==
    ASSUME NEW h, Shape(h), NEW g, DOMAIN g = HeapFields, ListOK(g), Covered(g) = Covered(h),
           g.size = h.size, g.spans = h.spans, g.frames = h.frames, g.fault = h.fault,
           g.shrinks \in Nat, g.allocated \in 0 .. (WORD - 1), g.free \in 0 .. (WORD - 1)
    PROVE  Shape(g)
BY DEF Shape

LEMMA CountsInt ==
    ASSUME NEW h, Shape(h)
    PROVE  /\ h.allocated \in Int /\ h.free \in Int /\ h.size \in Int
           /\ h.allocated + h.free \in Int
BY HeapAssumption DEF Shape

\* A header more in the list is a header more in the sum.
LEMMA LawKept ==
    ASSUME NEW h, HeapOK(h), NEW g, Shape(g), g.spans = h.spans, g.size = h.size,
           NEW n \in Int, Len(g.blocks) = Len(h.blocks) + n,
           Cong(g.allocated + g.free, h.allocated + h.free + HDR * n)
    PROVE  HeapOK(g)
<1> SUFFICES ASSUME h.spans # {}
             PROVE  Cong(g.allocated + g.free + 2 * HDR * Cardinality(h.spans),
                         h.size + HDR * Len(g.blocks))
  BY DEF HeapOK, Law
<1> DEFINE c == 2 * HDR * Cardinality(h.spans)
           u == h.allocated + h.free
           v == g.allocated + g.free
           x == h.size
           l == HDR * Len(h.blocks)
           d == HDR * n
<1>1. Cardinality(h.spans) \in Int
  BY FS_CardinalityType DEF HeapOK, Shape, SpansOK
<1>2. Len(h.blocks) \in Int
  BY LenProperties DEF HeapOK, Shape, ListOK, ListTyped
<1>3. c \in Int /\ l \in Int /\ d \in Int /\ HDR * Len(g.blocks) = l + d
  <2>1. c \in Int
    BY <1>1, ProductsInt
  <2>2. l \in Int /\ d \in Int
    BY <1>2, ProductsInt
  <2>3. HDR * (Len(h.blocks) + n) = l + d
    BY <1>2, ProductsInt
  <2> HIDE DEF c, l, d
  <2> QED BY <2>1, <2>2, <2>3
<1>4. u \in Int /\ v \in Int /\ x \in Int
  BY CountsInt DEF HeapOK
<1>5. Cong(u + c, x + l) /\ Cong(v, u + d)
  BY DEF HeapOK, Law
<1> HIDE DEF c, u, v, x, l, d
<1>6. Cong(v + c, x + (l + d))
  BY <1>3, <1>4, <1>5, CongSum
<1> QED BY <1>3, <1>6 DEF c, v, x

LEMMA SamePairs ==
    ASSUME NEW g, NEW h, g.hdr = h.hdr, g.blocks = h.blocks
    PROVE  Pairs(g) = Pairs(h) /\ \A b : After(g, b) = After(h, b)
BY DEF Pairs, After, BlocksOf, MergesPrev, BlockEnd

\* total_free_ alone changes.
WithFree(h, n) == [h EXCEPT !.free = n]

LEMMA FreeCounted ==
    ASSUME NEW h, DOMAIN h = HeapFields, NEW n
    PROVE  LET g == WithFree(h, n)
           IN  /\ DOMAIN g = HeapFields /\ g.free = n /\ Kept(g, h)
               /\ g.hdr = h.hdr /\ g.blocks = h.blocks /\ g.allocated = h.allocated
BY DEF HeapFields, WithFree, Kept

\* g is x, a rearrangement of the heap h with n blocks more, with the count of
\* free bytes off by n headers.
LEMMA Recounted ==
    ASSUME NEW h, HeapOK(h), NEW x, Rearranged(x, h), SameBesides(x, h),
           NEW n \in Int, Len(x.blocks) = Len(h.blocks) + n,
           NEW z \in Int, Cong(z, h.free + HDR * n)
    PROVE  LET g == WithFree(x, Wrap(z))
           IN  /\ HeapOK(g) /\ Rearranged(g, h) /\ Kept(g, h)
               /\ BlocksOf(g) = BlocksOf(x) /\ g.hdr = x.hdr /\ g.blocks = x.blocks
               /\ g.allocated = h.allocated
               /\ Pairs(g) = Pairs(x) /\ \A b : After(g, b) = After(x, b)
<1> DEFINE g == WithFree(x, Wrap(z))
<1>0. /\ Shape(h) /\ DOMAIN h = HeapFields
      /\ h.allocated \in Int /\ h.free \in Int
  <2>1. Shape(h)
    BY DEF HeapOK
  <2>2. DOMAIN h = HeapFields
    BY <2>1 DEF Shape
  <2> QED BY <2>1, <2>2, CountsInt
<1>1. DOMAIN x = HeapFields /\ Kept(x, h) /\ x.allocated = h.allocated
  BY <1>0 DEF SameBesides, HeapFields, Kept
<1>2. /\ DOMAIN g = HeapFields /\ g.free = Wrap(z) /\ Kept(g, x)
      /\ g.hdr = x.hdr /\ g.blocks = x.blocks /\ g.allocated = x.allocated
  BY <1>1, FreeCounted
<1> HIDE DEF g
<1>3. Rearranged(g, x) /\ BlocksOf(g) = BlocksOf(x)
  BY <1>1, <1>2, SameList DEF Rearranged
<1>4. Rearranged(g, h)
  BY <1>3, RearrangedTwice
<1>5. Wrap(z) \in 0 .. (WORD - 1) /\ Cong(Wrap(z), z) /\ Wrap(z) \in Int
  BY Wrapped, WrapCong
<1>6. Kept(g, h)
  BY <1>1, <1>2 DEF Kept
<1>7. Shape(g)
  BY <1>0, <1>1, <1>2, <1>4, <1>5, <1>6, ShapeKept DEF Kept, Rearranged, Shape
<1>8. Cong(g.allocated + g.free, h.allocated + h.free + HDR * n)
  <2> DEFINE w == Wrap(z)
             d == HDR * n
             a == h.allocated
             f == h.free
  <2>1. w \in Int /\ d \in Int /\ a \in Int /\ f \in Int /\ Cong(w, z) /\ Cong(z, f + d)
    BY <1>0, <1>5, ProductsInt
  <2> HIDE DEF w, d, a, f
  <2>2. Cong(w, f + d) /\ f + d \in Int
    BY <2>1, CongTwice
  <2>3. Cong(a + w, a + (f + d))
    <3>1. Cong(a, a)
      BY <2>1, CongSame
    <3> QED BY <2>1, <2>2, <3>1, CongAdd
  <2>4. a + (f + d) = a + f + d
    BY <2>1
  <2> QED BY <1>1, <1>2, <2>3, <2>4 DEF w, d, a, f
<1>9. HeapOK(g)
  BY <1>2, <1>6, <1>7, <1>8, LawKept DEF Kept
<1>10. Pairs(g) = Pairs(x) /\ \A b : After(g, b) = After(x, b)
  BY <1>2, SamePairs
<1> QED BY <1>1, <1>2, <1>3, <1>4, <1>6, <1>9, <1>10 DEF g

LEMMA Itself ==
    ASSUME NEW h, HeapOK(h)
    PROVE  Rearranged(h, h) /\ Kept(h, h)
BY SameList DEF HeapOK, Shape, Kept

\* The header that split_block and coalesce_block count.
LEMMA HeaderCounted ==
    ASSUME NEW h, HeapOK(h)
    PROVE  /\ h.free + HDR \in Int /\ Cong(h.free + HDR, h.free + HDR * 1)
           /\ h.free + WORD - HDR \in Int /\ Cong(h.free + WORD - HDR, h.free + HDR * (-1))
<1> DEFINE f == h.free
<1>1. f \in Int /\ HDR \in Int /\ WORD \in Int
  BY HeapAssumption, BlockAssumption DEF HeapOK, Shape
<1> HIDE DEF f
<1>2. f + HDR \in Int /\ f + HDR * 1 = f + HDR
  BY <1>1
<1>3. /\ f - HDR \in Int /\ f + HDR * (-1) = f - HDR
      /\ f + WORD - HDR \in Int /\ f + WORD - HDR = (f - HDR) + WORD
  BY <1>1
<1>4. Cong(f + HDR, f + HDR * 1)
  BY <1>2, CongSame
<1>5. Cong(f + WORD - HDR, f + HDR * (-1))
  BY <1>3, CongWord
<1> QED BY <1>2, <1>3, <1>4, <1>5 DEF f

LEMMA SplitHeap ==
    ASSUME NEW h, HeapOK(h), NEW b \in BlocksOf(h), h.hdr[b].is_free,
           NEW size \in Nat, h.hdr[b].size >= size
    PROVE  LET g == Split(h, b, size)
           IN  /\ HeapOK(g) /\ Rearranged(g, h) /\ Kept(g, h)
               /\ b \in BlocksOf(g) /\ g.hdr[b].size \in Nat /\ g.hdr[b].size >= size
               /\ \A c \in Pairs(g) : c \in Pairs(h) \/ g.hdr[c].prev = b
<1>0. ListOK(h) /\ ListTyped(h) /\ h.hdr[b].size \in Nat
  BY BlockTyped DEF HeapOK, Shape, ListOK
<1>1. CASE ~ Splits(h, b, size)
  BY <1>0, <1>1, Itself DEF Split
<1>2. CASE Splits(h, b, size)
  <2> DEFINE x == SplitAt(h, b, size)
             z == h.free + HDR
             new == Data(b) + size
             g == WithFree(x, Wrap(z))
  <2>1. /\ Rearranged(x, h) /\ SameBesides(x, h)
        /\ Len(x.blocks) = Len(h.blocks) + 1
        /\ b \in BlocksOf(x) /\ x.hdr[b].size = size
    BY <1>0, <1>2, SplitFreeKeeps
  <2>2. x.hdr[new].prev = b /\ Pairs(x) \subseteq Pairs(h) \cup {new}
    BY <1>0, <1>2, SplitPairs
  <2>3. x.free = h.free
    BY <2>1 DEF SameBesides, HeapOK, Shape, HeapFields
  <2>4. Split(h, b, size) = g
    BY <1>2, <2>3 DEF Split, WithFree
  <2>5. z \in Int /\ Cong(z, h.free + HDR * 1)
    BY HeaderCounted
  <2> HIDE DEF x, z, new
  <2>6. /\ HeapOK(g) /\ Rearranged(g, h) /\ Kept(g, h) /\ BlocksOf(g) = BlocksOf(x)
        /\ g.hdr = x.hdr /\ Pairs(g) = Pairs(x)
    BY <2>1, <2>5, Recounted
  <2> HIDE DEF g
  <2>7. g.hdr[b].size = size /\ b \in BlocksOf(g)
    BY <2>1, <2>6
  <2>8. \A c \in Pairs(g) : c \in Pairs(h) \/ g.hdr[c].prev = b
    BY <2>2, <2>6
  <2> QED BY <2>4, <2>6, <2>7, <2>8
<1> QED BY <1>1, <1>2

LEMMA MergeNextHeap ==
    ASSUME NEW h, HeapOK(h), NEW b \in BlocksOf(h), h.hdr[b].is_free, NEW S,
           Pairs(h) \subseteq S \cup {b} \cup After(h, b)
    PROVE  LET g == MergeNext(h, b)
           IN  /\ HeapOK(g) /\ Rearranged(g, h) /\ Kept(g, h)
               /\ b \in BlocksOf(g) /\ g.hdr[b].is_free
               /\ Pairs(g) \subseteq S \cup {b}
<1>0. ListOK(h)
  BY DEF HeapOK, Shape
<1>1. CASE ~ MergesNext(h, b)
  <2>1. Pairs(h) \subseteq S \cup {b}
    BY <1>0, <1>1, MergeNextPairs
  <2> QED BY <1>1, <2>1, Itself DEF MergeNext
<1>2. CASE MergesNext(h, b)
  <2> DEFINE x == JoinNext(h, b)
             z == h.free + WORD - HDR
             g == WithFree(x, Wrap(z))
  <2>1. /\ Rearranged(x, h) /\ SameBesides(x, h)
        /\ Len(x.blocks) = Len(h.blocks) - 1
        /\ b \in BlocksOf(x) /\ x.hdr[b].is_free
    BY <1>0, <1>2, MergeNextKeeps
  <2>2. Pairs(x) \subseteq S \cup {b}
    BY <1>0, <1>2, MergeNextPairs
  <2>3. x.free = h.free
    BY <2>1 DEF SameBesides, HeapOK, Shape, HeapFields
  <2>4. MergeNext(h, b) = g
    BY <1>2, <2>3 DEF MergeNext, WithFree
  <2>5. z \in Int /\ Cong(z, h.free + HDR * (-1))
    BY HeaderCounted
  <2>6. Len(x.blocks) = Len(h.blocks) + (-1)
    BY <1>0, <2>1, LenProperties DEF ListOK, ListTyped
  <2> HIDE DEF x, z
  <2>7. /\ HeapOK(g) /\ Rearranged(g, h) /\ Kept(g, h) /\ BlocksOf(g) = BlocksOf(x)
        /\ g.hdr = x.hdr /\ Pairs(g) = Pairs(x)
    BY <2>1, <2>5, <2>6, Recounted
  <2> HIDE DEF g
  <2>8. g.hdr[b].is_free /\ b \in BlocksOf(g)
    BY <2>1, <2>7
  <2> QED BY <2>2, <2>4, <2>7, <2>8
<1> QED BY <1>1, <1>2

LEMMA MergePrevHeap ==
    ASSUME NEW h, HeapOK(h), NEW b \in BlocksOf(h), h.hdr[b].is_free, NEW S,
           Pairs(h) \subseteq S \cup {b}
    PROVE  LET g == MergePrev(h, b)
           IN  HeapOK(g) /\ Rearranged(g, h) /\ Kept(g, h) /\ Pairs(g) \subseteq S
<1>0. ListOK(h)
  BY DEF HeapOK, Shape
<1>1. CASE ~ MergesPrev(h, b)
  <2>1. Pairs(h) \subseteq S
    BY <1>0, <1>1, MergePrevPairs
  <2> QED BY <1>1, <2>1, Itself DEF MergePrev
<1>2. CASE MergesPrev(h, b)
  <2> DEFINE x == JoinPrev(h, b)
             z == h.free + WORD - HDR
             g == WithFree(x, Wrap(z))
  <2>1. Rearranged(x, h) /\ SameBesides(x, h) /\ Len(x.blocks) = Len(h.blocks) - 1
    BY <1>0, <1>2, MergePrevKeeps
  <2>2. Pairs(x) \subseteq S
    BY <1>0, <1>2, MergePrevPairs
  <2>3. x.free = h.free
    BY <2>1 DEF SameBesides, HeapOK, Shape, HeapFields
  <2>4. MergePrev(h, b) = g
    BY <1>2, <2>3 DEF MergePrev, WithFree
  <2>5. z \in Int /\ Cong(z, h.free + HDR * (-1))
    BY HeaderCounted
  <2>6. Len(x.blocks) = Len(h.blocks) + (-1)
    BY <1>0, <2>1, LenProperties DEF ListOK, ListTyped
  <2> HIDE DEF x, z
  <2>7. HeapOK(g) /\ Rearranged(g, h) /\ Kept(g, h) /\ Pairs(g) = Pairs(x)
    BY <2>1, <2>5, <2>6, Recounted
  <2> HIDE DEF g
  <2> QED BY <2>2, <2>4, <2>7
<1> QED BY <1>1, <1>2

\* coalesce_block on a free block: the pairs it is part of are gone.
LEMMA CoalesceHeap ==
    ASSUME NEW h, HeapOK(h), NEW b \in BlocksOf(h), h.hdr[b].is_free, NEW S,
           Pairs(h) \subseteq S \cup {b} \cup After(h, b)
    PROVE  LET g == Coalesce(h, b)
           IN  HeapOK(g) /\ Rearranged(g, h) /\ Kept(g, h) /\ Pairs(g) \subseteq S
<1> DEFINE x == MergeNext(h, b)
           g == MergePrev(x, b)
<1>1. /\ HeapOK(x) /\ Rearranged(x, h) /\ Kept(x, h) /\ Pairs(x) \subseteq S \cup {b}
      /\ b \in BlocksOf(x) /\ x.hdr[b].is_free
  BY MergeNextHeap
<1>2. Coalesce(h, b) = g
  BY DEF Coalesce
<1> HIDE DEF x
<1>3. HeapOK(g) /\ Rearranged(g, x) /\ Kept(g, x) /\ Pairs(g) \subseteq S
  BY <1>1, MergePrevHeap
<1> HIDE DEF g
<1>4. Rearranged(g, h) /\ Kept(g, h)
  BY <1>1, <1>3, RearrangedTwice DEF Kept
<1> QED BY <1>2, <1>3, <1>4

-----------------------------------------------------------------------------
\* Handing out and taking back.

\* total_allocated_ and total_free_ change.
WithCounts(h, a, f) == [h EXCEPT !.allocated = a, !.free = f]

LEMMA CountsSet ==
    ASSUME NEW h, DOMAIN h = HeapFields, NEW a, NEW f
    PROVE  LET g == WithCounts(h, a, f)
           IN  /\ DOMAIN g = HeapFields /\ g.allocated = a /\ g.free = f /\ Kept(g, h)
               /\ g.hdr = h.hdr /\ g.blocks = h.blocks
BY DEF HeapFields, WithCounts, Kept

\* g is x, a list over the same memory as h with n blocks more, with counts that
\* add up to n headers more.
LEMMA Accounted ==
    ASSUME NEW h, HeapOK(h), NEW x, DOMAIN x = HeapFields, ListOK(x), Covered(x) = Covered(h),
           x.size = h.size, x.spans = h.spans, x.frames = h.frames, x.fault = h.fault,
           x.shrinks \in Nat,
           NEW n \in Int, Len(x.blocks) = Len(h.blocks) + n,
           NEW a \in Int, NEW f \in Int, Cong(a + f, h.allocated + h.free + HDR * n)
    PROVE  LET g == WithCounts(x, Wrap(a), Wrap(f))
           IN  /\ HeapOK(g) /\ Rearranged(g, x) /\ Kept(g, x)
               /\ BlocksOf(g) = BlocksOf(x) /\ g.hdr = x.hdr /\ g.blocks = x.blocks
               /\ Pairs(g) = Pairs(x) /\ \A b : After(g, b) = After(x, b)
<1> DEFINE g == WithCounts(x, Wrap(a), Wrap(f))
<1>1. /\ DOMAIN g = HeapFields /\ g.allocated = Wrap(a) /\ g.free = Wrap(f) /\ Kept(g, x)
      /\ g.hdr = x.hdr /\ g.blocks = x.blocks
  BY CountsSet
<1> HIDE DEF g
<1>2. Rearranged(g, x) /\ BlocksOf(g) = BlocksOf(x)
  BY <1>1, SameList
<1>3. Pairs(g) = Pairs(x) /\ \A b : After(g, b) = After(x, b)
  BY <1>1, SamePairs
<1>4. /\ Wrap(a) \in 0 .. (WORD - 1) /\ Wrap(f) \in 0 .. (WORD - 1)
      /\ Cong(Wrap(a), a) /\ Cong(Wrap(f), f)
  BY Wrapped, WrapCong
<1>5. Shape(g)
  <2>1. ListOK(g) /\ Covered(g) = Covered(h)
    BY <1>2 DEF Rearranged
  <2>2. Shape(h)
    BY DEF HeapOK
  <2> QED BY <1>1, <1>4, <2>1, <2>2, ShapeKept DEF Kept
<1>6. Cong(g.allocated + g.free, h.allocated + h.free + HDR * n)
  <2> DEFINE u == Wrap(a)
             v == Wrap(f)
             w == h.allocated + h.free + HDR * n
  <2>1. HDR * n \in Int /\ h.allocated + h.free \in Int
    BY ProductsInt, CountsInt DEF HeapOK
  <2>2. w \in Int
    BY <2>1
  <2>3. u \in Int /\ v \in Int /\ Cong(u, a) /\ Cong(v, f) /\ Cong(a + f, w)
    BY <1>4
  <2> HIDE DEF u, v, w
  <2>4. Cong(u + v, a + f) /\ u + v \in Int /\ a + f \in Int
    BY <2>3, CongAdd
  <2>5. Cong(u + v, w)
    BY <2>2, <2>3, <2>4, CongTwice
  <2> QED BY <1>1, <2>5 DEF u, v, w
<1>7. HeapOK(g)
  BY <1>1, <1>5, <1>6, LawKept DEF Kept
<1> QED BY <1>1, <1>2, <1>3, <1>7 DEF g

\* Bytes that go from one count to the other.
LEMMA Exchanged ==
    ASSUME NEW u \in Int, NEW v \in Int, NEW m \in Int
    PROVE  /\ Cong((u + m) + (v + WORD - m), u + v + HDR * 0)
           /\ Cong((u + WORD - m) + (v + m), u + v + HDR * 0)
           /\ {u + m, v + WORD - m, u + WORD - m, v + m} \subseteq Int
<1>1. WORD \in Int /\ HDR \in Int
  BY HeapAssumption, BlockAssumption
<1>2. /\ (u + m) + (v + WORD - m) = (u + v) + WORD
      /\ (u + WORD - m) + (v + m) = (u + v) + WORD
      /\ u + v + HDR * 0 = u + v /\ u + v \in Int
      /\ {u + m, v + WORD - m, u + WORD - m, v + m} \subseteq Int
  BY <1>1
<1> QED BY <1>2, CongWord

LEMMA TakeHeap ==
    ASSUME NEW h, HeapOK(h), NEW b \in BlocksOf(h), h.hdr[b].is_free,
           NEW size \in Nat, h.hdr[b].size >= size
    PROVE  LET g == Take(h, b, size)
           IN  /\ HeapOK(g) /\ Kept(g, h) /\ Pairs(g) \subseteq Pairs(h)
               /\ UsedOf(g) = UsedOf(h) \cup {b}
               /\ g.hdr[b].size \in Nat /\ g.hdr[b].size >= size
               /\ \A c \in UsedOf(h) : g.hdr[c].size = h.hdr[c].size
<1> DEFINE s == Split(h, b, size)
           x == HandOut(s, b)
           a == s.allocated + size
           f == s.free + WORD - size
           g == WithCounts(x, Wrap(a), Wrap(f))
<1>1. /\ HeapOK(s) /\ Rearranged(s, h) /\ Kept(s, h)
      /\ b \in BlocksOf(s) /\ s.hdr[b].size \in Nat /\ s.hdr[b].size >= size
      /\ \A c \in Pairs(s) : c \in Pairs(h) \/ s.hdr[c].prev = b
  BY SplitHeap
<1>2. Take(h, b, size) = [x EXCEPT !.allocated = Wrap(@ + size), !.free = Wrap(@ + WORD - size)]
  BY DEF Take
<1> HIDE DEF s
<1>3. ListOK(s) /\ DOMAIN s = HeapFields /\ s.shrinks \in Nat
  BY <1>1 DEF HeapOK, Shape
<1>4. /\ ListOK(x) /\ SameBesides(x, s) /\ x.blocks = s.blocks
      /\ BlocksOf(x) = BlocksOf(s) /\ Covered(x) = Covered(s)
      /\ UsedOf(x) = UsedOf(s) \cup {b}
      /\ \A c \in BlocksOf(s) : x.hdr[c].size = s.hdr[c].size
  BY <1>1, <1>3, HandOutKeeps
<1>5. Pairs(x) \subseteq {c \in Pairs(s) : c # b /\ s.hdr[c].prev # b}
  BY <1>1, <1>3, HandOutPairs
<1> HIDE DEF x
<1>6. /\ DOMAIN x = HeapFields /\ Kept(x, s)
      /\ x.allocated = s.allocated /\ x.free = s.free
  BY <1>3, <1>4 DEF SameBesides, HeapFields, Kept
<1>7. Take(h, b, size) = g
  BY <1>2, <1>6 DEF WithCounts
<1>8. a \in Int /\ f \in Int /\ Cong(a + f, s.allocated + s.free + HDR * 0)
  <2> DEFINE u == s.allocated
             v == s.free
  <2>1. u \in Int /\ v \in Int
    BY <1>1, CountsInt DEF HeapOK
  <2> HIDE DEF u, v
  <2>2. /\ Cong((u + size) + (v + WORD - size), u + v + HDR * 0)
        /\ u + size \in Int /\ v + WORD - size \in Int
    BY <2>1, Exchanged
  <2> QED BY <2>2 DEF u, v
<1>9. Len(x.blocks) = Len(s.blocks) + 0
  BY <1>3, <1>4, LenProperties DEF ListOK, ListTyped
<1> HIDE DEF a, f
<1>10. /\ HeapOK(g) /\ Rearranged(g, x) /\ Kept(g, x) /\ g.hdr = x.hdr /\ Pairs(g) = Pairs(x)
  BY <1>1, <1>3, <1>4, <1>6, <1>8, <1>9, Accounted DEF Kept
<1> HIDE DEF g
<1>11. Kept(g, h)
  BY <1>1, <1>6, <1>10 DEF Kept
<1>12. Pairs(g) \subseteq Pairs(h)
  BY <1>1, <1>5, <1>10
<1>13. UsedOf(g) = UsedOf(h) \cup {b}
  BY <1>1, <1>4, <1>10 DEF Rearranged
<1>14. g.hdr[b].size = s.hdr[b].size
  BY <1>1, <1>4, <1>10
<1>15. \A c \in UsedOf(h) : g.hdr[c].size = h.hdr[c].size
  <2> TAKE c \in UsedOf(h)
  <2>1. c \in UsedOf(s) /\ s.hdr[c].size = h.hdr[c].size
    BY <1>1 DEF Rearranged
  <2>2. c \in BlocksOf(s)
    BY <1>3, <2>1, UsedAreBlocks
  <2> QED BY <1>4, <1>10, <2>1, <2>2
<1> QED BY <1>1, <1>7, <1>10, <1>11, <1>12, <1>13, <1>14, <1>15

\* free of a used block, or of a block that is free.
LEMMA ReleaseHeap ==
    ASSUME NEW h, HeapOK(h), NEW b \in BlocksOf(h)
    PROVE  LET g == Release(h, b)
           IN  /\ HeapOK(g) /\ Kept(g, h) /\ Pairs(g) \subseteq Pairs(h)
               /\ UsedOf(g) = UsedOf(h) \ {b}
               /\ \A c \in UsedOf(h) \ {b} : g.hdr[c].size = h.hdr[c].size
<1> DEFINE x == MarkFree(h, b)
           m == h.hdr[b].size
           a == h.allocated + WORD - m
           f == h.free + m
           y == WithCounts(x, Wrap(a), Wrap(f))
           g == Coalesce(y, b)
<1>0. /\ ListOK(h) /\ ListTyped(h) /\ DOMAIN h = HeapFields /\ m \in Nat /\ h.shrinks \in Nat
  BY BlockTyped DEF HeapOK, Shape, ListOK
<1>1. CASE h.hdr[b].is_free
  <2>1. Release(h, b) = h
    BY <1>1 DEF Release
  <2>2. b \notin UsedOf(h)
    BY <1>0, <1>1, UsedAreBlocks
  <2> QED BY <2>1, <2>2, Itself
<1>2. CASE ~ h.hdr[b].is_free
  <2>1. Release(h, b) =
          Coalesce([x EXCEPT !.allocated = Wrap(@ + WORD - m), !.free = Wrap(@ + m)], b)
    BY <1>2 DEF Release
  <2>2. /\ ListOK(x) /\ SameBesides(x, h) /\ x.blocks = h.blocks
        /\ BlocksOf(x) = BlocksOf(h) /\ Covered(x) = Covered(h)
        /\ UsedOf(x) = UsedOf(h) \ {b} /\ x.hdr[b].is_free
        /\ \A c \in BlocksOf(h) : x.hdr[c].size = h.hdr[c].size
    BY <1>0, MarkFreeKeeps
  <2>3. Pairs(x) \subseteq Pairs(h) \cup {b} \cup After(x, b)
    BY <1>0, MarkFreePairs
  <2> HIDE DEF x, m
  <2>4. /\ DOMAIN x = HeapFields /\ Kept(x, h)
        /\ x.allocated = h.allocated /\ x.free = h.free
    BY <1>0, <2>2 DEF SameBesides, HeapFields, Kept
  <2>5. Release(h, b) = g
    BY <2>1, <2>4 DEF WithCounts
  <2>6. a \in Int /\ f \in Int /\ Cong(a + f, h.allocated + h.free + HDR * 0)
    <3> DEFINE u == h.allocated
               v == h.free
    <3>1. u \in Int /\ v \in Int /\ m \in Int
      BY <1>0, CountsInt DEF HeapOK
    <3> HIDE DEF u, v
    <3>2. /\ Cong((u + WORD - m) + (v + m), u + v + HDR * 0)
          /\ u + WORD - m \in Int /\ v + m \in Int
      BY <3>1, Exchanged
    <3> QED BY <3>2 DEF u, v
  <2>7. Len(x.blocks) = Len(h.blocks) + 0
    BY <1>0, <2>2, LenProperties DEF ListOK, ListTyped
  <2> HIDE DEF a, f
  <2>8. /\ HeapOK(y) /\ Rearranged(y, x) /\ Kept(y, x) /\ BlocksOf(y) = BlocksOf(x)
        /\ y.hdr = x.hdr /\ Pairs(y) = Pairs(x) /\ \A c : After(y, c) = After(x, c)
    BY <1>0, <2>2, <2>4, <2>6, <2>7, Accounted DEF Kept
  <2> HIDE DEF y
  <2>9. /\ b \in BlocksOf(y) /\ y.hdr[b].is_free
        /\ Pairs(y) \subseteq Pairs(h) \cup {b} \cup After(y, b)
    BY <2>2, <2>3, <2>8
  <2>10. HeapOK(g) /\ Rearranged(g, y) /\ Kept(g, y) /\ Pairs(g) \subseteq Pairs(h)
    BY <2>8, <2>9, CoalesceHeap
  <2> HIDE DEF g
  <2>11. Rearranged(g, x) /\ Kept(g, h)
    BY <2>4, <2>8, <2>10, RearrangedTwice DEF Kept
  <2>12. UsedOf(g) = UsedOf(h) \ {b}
    BY <2>2, <2>11 DEF Rearranged
  <2>13. \A c \in UsedOf(h) \ {b} : g.hdr[c].size = h.hdr[c].size
    BY <1>0, <2>2, <2>11, UsedAreBlocks DEF Rearranged
  <2> QED BY <2>5, <2>10, <2>11, <2>12, <2>13
<1> QED BY <1>1, <1>2

-----------------------------------------------------------------------------
\* The pairs of free neighbours.

PairsOK(h) == Cardinality(Pairs(h)) <= h.shrinks

LEMMA PairsFinite ==
    ASSUME NEW h, ListOK(h)
    PROVE  IsFiniteSet(Pairs(h)) /\ Cardinality(Pairs(h)) \in Nat
<1> DEFINE T == {i \in 1 .. (Len(h.blocks) - 1) :
                   /\ h.hdr[h.blocks[i]].is_free /\ h.hdr[h.blocks[i + 1]].is_free
                   /\ BlockEnd(h, h.blocks[i]) = h.blocks[i + 1]}
<1>1. IsFiniteSet(Pairs(h))
  BY PairsCounted
<1> QED BY <1>1, FS_CardinalityType

LEMMA PairsFewer ==
    ASSUME NEW h, ListOK(h), h.shrinks \in Nat, PairsOK(h),
           NEW g, Pairs(g) \subseteq Pairs(h), g.shrinks = h.shrinks
    PROVE  PairsOK(g)
<1>1. IsFiniteSet(Pairs(h)) /\ Cardinality(Pairs(h)) \in Nat
  BY PairsFinite
<1>2. IsFiniteSet(Pairs(g)) /\ Cardinality(Pairs(g)) <= Cardinality(Pairs(h))
  BY <1>1, FS_Subset
<1>3. Cardinality(Pairs(g)) \in Nat
  BY <1>2, FS_CardinalityType
<1> QED BY <1>1, <1>2, <1>3 DEF PairsOK

LEMMA AfterFew ==
    ASSUME NEW h, ListOK(h), NEW b \in BlocksOf(h)
    PROVE  \E c : After(h, b) \subseteq {c}
<1>1. ListTyped(h) /\ Once(h) /\ Len(h.blocks) \in Nat
  BY LenProperties DEF ListOK, ListTyped
<1>2. PICK i \in 1 .. Len(h.blocks) : h.blocks[i] = b
  BY <1>1, BlockPosition
<1>3. CASE i < Len(h.blocks)
  <2> DEFINE next == h.blocks[i + 1]
  <2>1. Neighbours(h, i, b, next) /\ i \in 1 .. (Len(h.blocks) - 1)
    BY <1>1, <1>2, <1>3 DEF Neighbours
  <2> HIDE DEF next
  <2>2. After(h, b) = {next}
    BY <2>1, AfterAlone
  <2> QED BY <2>2
<1>4. CASE ~ (i < Len(h.blocks))
  <2>1. ~ HasNext(h, b)
    BY <1>1, <1>2, <1>4, NextAt
  <2>2. After(h, b) = {}
    BY <2>1, NoNextNoAfter
  <2> QED BY <2>2
<1> QED BY <1>3, <1>4

\* One more pair at most.
LEMMA PairsMore ==
    ASSUME NEW h, ListOK(h), h.shrinks \in Nat, PairsOK(h), NEW b \in BlocksOf(h),
           NEW g, Pairs(g) \subseteq Pairs(h) \cup After(h, b), g.shrinks = h.shrinks + 1
    PROVE  PairsOK(g)
<1>1. PICK c : After(h, b) \subseteq {c}
  BY AfterFew
<1>2. IsFiniteSet(Pairs(h)) /\ Cardinality(Pairs(h)) \in Nat
  BY PairsFinite
<1> DEFINE T == Pairs(h) \cup {c}
<1>3. IsFiniteSet(T) /\ Cardinality(T) <= Cardinality(Pairs(h)) + 1 /\ Cardinality(T) \in Nat
  <2> DEFINE S == Pairs(h)
  <2>1. IsFiniteSet(S) /\ Cardinality(S) \in Nat /\ T = S \cup {c}
    BY <1>2
  <2> HIDE DEF S, T
  <2>2. /\ IsFiniteSet(T)
        /\ Cardinality(T) = IF c \in S THEN Cardinality(S) ELSE Cardinality(S) + 1
    BY <2>1, FS_AddElement
  <2> QED BY <2>1, <2>2 DEF S
<1>4. Pairs(g) \subseteq T
  BY <1>1
<1> HIDE DEF T
<1>5. Cardinality(Pairs(g)) <= Cardinality(T) /\ Cardinality(Pairs(g)) \in Nat
  BY <1>3, <1>4, FS_Subset, FS_CardinalityType
<1> QED BY <1>2, <1>3, <1>5 DEF PairsOK

WithShrinks(h, n) == [h EXCEPT !.shrinks = n]

LEMMA ShrinksSet ==
    ASSUME NEW h, DOMAIN h = HeapFields, NEW n
    PROVE  LET g == WithShrinks(h, n)
           IN  /\ DOMAIN g = HeapFields /\ g.shrinks = n
               /\ g.size = h.size /\ g.spans = h.spans /\ g.frames = h.frames /\ g.fault = h.fault
               /\ g.hdr = h.hdr /\ g.blocks = h.blocks
               /\ g.allocated = h.allocated /\ g.free = h.free
BY DEF HeapFields, WithShrinks

LEMMA ShrinkSum ==
    ASSUME NEW u \in Int, NEW v \in Int, NEW m \in Int
    PROVE  LET a == u + WORD - m
               f == Wrap(v + HDR) + m
           IN  a \in Int /\ f \in Int /\ Cong(a + f, u + v + HDR * 1)
<1> DEFINE s == v + HDR
           w == Wrap(s)
<1>1. WORD \in Int /\ HDR \in Int /\ s \in Int /\ s = v + HDR
  BY HeapAssumption, BlockAssumption
<1> HIDE DEF s
<1>2. w \in Int /\ Cong(w, s)
  BY <1>1, Wrapped, WrapCong, HeapAssumption
<1>3. u + WORD - m \in Int /\ w + m \in Int
  BY <1>1, <1>2
<1> HIDE DEF w
<1>4. Cong(u + w, u + s) /\ u + w \in Int /\ u + s \in Int
  <2>1. Cong(u, u)
    BY CongSame
  <2> QED BY <1>1, <1>2, <2>1, CongAdd
<1>5. Cong((u + w) + WORD, u + w) /\ (u + w) + WORD \in Int
  BY <1>1, <1>4, CongWord
<1>6. Cong((u + w) + WORD, u + s)
  BY <1>4, <1>5, CongTwice
<1>7. (u + WORD - m) + (w + m) = (u + w) + WORD /\ u + v + HDR * 1 = u + s
  BY <1>1, <1>2
<1>8. Cong((u + WORD - m) + (w + m), u + v + HDR * 1)
  BY <1>6, <1>7
<1> QED BY <1>3, <1>8 DEF w, s

\* realloc within the block.
LEMMA ShrinkHeap ==
    ASSUME NEW h, HeapOK(h), PairsOK(h), NEW b \in UsedOf(h), NEW size \in Nat, size <= h.hdr[b].size
    PROVE  LET g == Shrink(h, b, size)
           IN  /\ HeapOK(g) /\ PairsOK(g) /\ g.fault = h.fault /\ UsedOf(g) = UsedOf(h)
               /\ g.hdr[b].size \in Nat /\ g.hdr[b].size >= size
               /\ \A c \in UsedOf(h) \ {b} : g.hdr[c].size = h.hdr[c].size
<1> DEFINE x == SplitAt(h, b, size)
           y == WithShrinks(x, h.shrinks + 1)
           m == h.hdr[b].size - size
           a == h.allocated + WORD - m
           f == Wrap(h.free + HDR) + m
           g == WithCounts(y, Wrap(a), Wrap(f))
<1>0. /\ ListOK(h) /\ ListTyped(h) /\ DOMAIN h = HeapFields /\ h.shrinks \in Nat
      /\ b \in BlocksOf(h) /\ h.hdr[b].size \in Nat /\ ~ h.hdr[b].is_free
  BY BlockTyped, UsedAreBlocks DEF HeapOK, Shape, ListOK
<1>1. CASE h.hdr[b].size <= size + MIN_BLOCK_SIZE
  BY <1>0, <1>1 DEF Shrink
<1>2. CASE ~ (h.hdr[b].size <= size + MIN_BLOCK_SIZE)
  <2>1. Splits(h, b, size)
    BY <1>0, <1>2, BlockAssumption DEF Splits, MIN_BLOCK_SIZE
  <2>2. /\ ListOK(x) /\ SameBesides(x, h)
        /\ UsedOf(x) = UsedOf(h) /\ Covered(x) = Covered(h)
        /\ Len(x.blocks) = Len(h.blocks) + 1
        /\ x.hdr[b].size = size
        /\ \A c \in BlocksOf(h) \ {b} : x.hdr[c].size = h.hdr[c].size
    BY <1>0, <2>1, SplitKeeps
  <2>3. Pairs(x) \subseteq Pairs(h) \cup After(h, b)
    BY <1>0, <2>1, SplitPairs
  <2>4. /\ DOMAIN x = HeapFields /\ Kept(x, h) /\ x.allocated = h.allocated /\ x.free = h.free
    BY <1>0, <2>2 DEF SameBesides, HeapFields, Kept
  <2>5. m \in Int
    BY <1>0
  <2>6. Shrink(h, b, size) =
          [[x EXCEPT !.free = Wrap(@ + HDR)] EXCEPT
              !.allocated = Wrap(@ + WORD - m), !.free = Wrap(@ + m), !.shrinks = @ + 1]
    BY <1>2, <2>1 DEF Shrink, Split
  <2> HIDE DEF x, m
  <2>7. Shrink(h, b, size) = g
    BY <2>4, <2>6 DEF WithShrinks, WithCounts, HeapFields, Kept
  <2>8. /\ DOMAIN y = HeapFields /\ y.shrinks = h.shrinks + 1
        /\ y.size = h.size /\ y.spans = h.spans /\ y.frames = h.frames /\ y.fault = h.fault
        /\ y.hdr = x.hdr /\ y.blocks = x.blocks
    BY <2>4, ShrinksSet DEF Kept
  <2> HIDE DEF y
  <2>9. Rearranged(y, x) /\ Pairs(y) = Pairs(x)
    BY <2>2, <2>4, <2>8, SameList, SamePairs
  <2>10. /\ ListOK(y) /\ Covered(y) = Covered(h) /\ UsedOf(y) = UsedOf(h)
         /\ Len(y.blocks) = Len(h.blocks) + 1 /\ y.shrinks \in Nat
    BY <1>0, <2>2, <2>8, <2>9 DEF Rearranged
  <2>11. a \in Int /\ f \in Int /\ Cong(a + f, h.allocated + h.free + HDR * 1)
    <3> DEFINE u == h.allocated
               v == h.free
    <3>1. u \in Int /\ v \in Int
      BY CountsInt DEF HeapOK
    <3> HIDE DEF u, v
    <3>2. LET k == u + WORD - m
              l == Wrap(v + HDR) + m
          IN  k \in Int /\ l \in Int /\ Cong(k + l, u + v + HDR * 1)
      BY <2>5, <3>1, ShrinkSum
    <3> QED BY <3>2 DEF u, v
  <2> HIDE DEF a, f
  <2>12. HeapOK(g) /\ Rearranged(g, y) /\ Kept(g, y) /\ g.hdr = y.hdr /\ Pairs(g) = Pairs(y)
    BY <2>8, <2>10, <2>11, Accounted
  <2> HIDE DEF g
  <2>13. PairsOK(g)
    <3>1. Pairs(g) \subseteq Pairs(h) \cup After(h, b) /\ g.shrinks = h.shrinks + 1
      BY <2>3, <2>8, <2>9, <2>12 DEF Kept
    <3> QED BY <1>0, <3>1, PairsMore
  <2>14. UsedOf(g) = UsedOf(h) /\ g.fault = h.fault
    BY <2>8, <2>10, <2>12 DEF Rearranged, Kept
  <2>15. g.hdr[b].size = size
    BY <2>2, <2>8, <2>12
  <2>16. \A c \in UsedOf(h) \ {b} : g.hdr[c].size = h.hdr[c].size
    BY <1>0, <2>2, <2>8, <2>12, UsedAreBlocks
  <2> QED BY <2>7, <2>12, <2>13, <2>14, <2>15, <2>16
<1> QED BY <1>1, <1>2

-----------------------------------------------------------------------------
\* Growing the heap.

LEMMA SpanRange ==
    ASSUME NEW spans, SpansOK(spans)
    PROVE  /\ SpanBytes(spans) \subseteq 1 .. (WORD - 1)
           /\ IsFiniteSet(SpanBytes(spans))
           /\ Cardinality(SpanBytes(spans)) \in 0 .. (WORD - 1)
<1>0. WORD \in Nat /\ WORD >= 1
  BY HeapAssumption
<1>1. SpanBytes(spans) \subseteq 1 .. (WORD - 1)
  <2> SUFFICES ASSUME NEW s \in spans, NEW a \in s.start .. (s.start + s.size - 1)
               PROVE  a \in 1 .. (WORD - 1)
    BY DEF SpanBytes
  <2>1. /\ s.start \in Nat \ {0} /\ s.size \in Nat \ {0} /\ s.start + s.size <= WORD
    BY HeapAssumption DEF SpansOK
  <2> QED BY <1>0, <2>1
<1>2. IsFiniteSet(1 .. (WORD - 1)) /\ Cardinality(1 .. (WORD - 1)) = WORD - 1
  <2>1. 1 \in Int /\ WORD - 1 \in Int
    BY <1>0
  <2> DEFINE w == WORD - 1
  <2> HIDE DEF w
  <2>2. IsFiniteSet(1 .. w) /\ Cardinality(1 .. w) = IF 1 > w THEN 0 ELSE w - 1 + 1
    BY <2>1, FS_Interval DEF w
  <2>3. w \in Nat
    BY <1>0 DEF w
  <2>4. Cardinality(1 .. w) = w
    BY <2>2, <2>3
  <2> QED BY <2>2, <2>4 DEF w
<1> DEFINE M == SpanBytes(spans)
           R == 1 .. (WORD - 1)
<1>3. M \in SUBSET R /\ IsFiniteSet(R) /\ Cardinality(R) = WORD - 1
  BY <1>1, <1>2
<1> HIDE DEF M, R
<1>4. IsFiniteSet(M) /\ Cardinality(M) <= WORD - 1
  BY <1>3, FS_Subset
<1>5. Cardinality(M) \in Nat
  BY <1>4, FS_CardinalityType
<1> QED BY <1>0, <1>1, <1>4, <1>5 DEF M

\* A region that overlaps none of the regions.
Separate(r, spans) ==
    /\ r.start \in Nat \ {0} /\ r.size \in Nat \ {0} /\ r.start + r.size + FRAME_SIZE <= WORD
    /\ \A s \in spans : ~ Overlap(r, s)

LEMMA SpanAdded ==
    ASSUME NEW spans, SpansOK(spans), NEW r, Separate(r, spans)
    PROVE  LET more == spans \cup {r}
           IN  /\ SpansOK(more) /\ r \notin spans
               /\ Cardinality(more) = Cardinality(spans) + 1
               /\ SpanBytes(more) = SpanBytes(spans) \cup (r.start .. (r.start + r.size - 1))
               /\ \A a \in SpanBytes(spans) : a \notin r.start .. (r.start + r.size - 1)
               /\ Cardinality(SpanBytes(more)) = Cardinality(SpanBytes(spans)) + r.size
<1> DEFINE more == spans \cup {r}
           M == SpanBytes(spans)
           lo == r.start
           hi == r.start + r.size - 1
           R == lo .. hi
<1>1. r \notin spans
  <2> SUFFICES ASSUME r \in spans PROVE FALSE
    OBVIOUS
  <2>1. ~ Overlap(r, r) /\ r.start \in Nat /\ r.size \in Nat /\ r.size > 0
    BY DEF Separate
  <2> QED BY <2>1 DEF Overlap
<1>2. IsFiniteSet(more) /\ Cardinality(more) = Cardinality(spans) + 1
  BY <1>1, FS_AddElement DEF SpansOK
<1>3. SpansOK(more)
  BY <1>2 DEF SpansOK, Separate
<1>4. SpanBytes(more) = M \cup R
  BY DEF SpanBytes
<1>5. \A a \in M : a \notin R
  <2> SUFFICES ASSUME NEW s \in spans, NEW a \in s.start .. (s.start + s.size - 1), a \in R
               PROVE  FALSE
    BY DEF SpanBytes
  <2>1. ~ Overlap(r, s)
    BY DEF Separate
  <2>2. s.start \in Nat /\ s.size \in Nat /\ r.start \in Nat /\ r.size \in Nat
    BY DEF Separate, SpansOK
  <2> QED BY <2>1, <2>2 DEF Overlap
<1>6. IsFiniteSet(M) /\ Cardinality(M) \in Nat
  BY SpanRange, FS_CardinalityType
<1>7. lo \in Int /\ hi \in Int /\ hi - lo + 1 = r.size /\ ~ (lo > hi) /\ r.size \in Nat
  BY DEF Separate
<1> HIDE DEF M, lo, hi, more
<1>8. IsFiniteSet(R) /\ Cardinality(R) = r.size
  BY <1>7, FS_Interval
<1> HIDE DEF R
<1>9. M \cap R = {}
  BY <1>5
<1>10. Cardinality(M \cup R) = Cardinality(M) + r.size
  <2>1. Cardinality(M \cup R) = Cardinality(M) + Cardinality(R) - Cardinality(M \cap R)
    BY <1>6, <1>8, FS_Union
  <2>2. Cardinality(M \cap R) = 0
    BY <1>9, FS_EmptySet
  <2> QED BY <1>6, <1>7, <1>8, <2>1, <2>2
<1> QED BY <1>1, <1>2, <1>3, <1>4, <1>5, <1>10 DEF M, R, lo, hi, more

\* A heap has blocks where it has regions.
LEMMA BlocksWhereMapped ==
    ASSUME NEW h, Shape(h)
    PROVE  h.blocks = <<>> <=> h.spans = {}
<1>0. ListOK(h) /\ ListTyped(h) /\ SpansOK(h.spans) /\ Covered(h) = SpanBytes(h.spans)
  BY DEF Shape, ListOK
<1>1. ASSUME h.blocks = <<>> PROVE h.spans = {}
  <2> SUFFICES ASSUME NEW s \in h.spans PROVE FALSE
    OBVIOUS
  <2>1. Covered(h) = {}
    BY <1>1 DEF Covered, BlocksOf
  <2>2. s.start \in Nat /\ s.size \in Nat /\ s.size > 0
    BY <1>0 DEF SpansOK
  <2>3. s.start \in s.start .. (s.start + s.size - 1)
    BY <2>2
  <2>4. s.start \in SpanBytes(h.spans)
    BY <2>3 DEF SpanBytes
  <2> QED BY <1>0, <2>1, <2>4
<1>2. ASSUME h.spans = {} PROVE h.blocks = <<>>
  <2>1. Covered(h) = {}
    BY <1>0, <1>2 DEF SpanBytes
  <2> SUFFICES ASSUME h.blocks # <<>> PROVE FALSE
    OBVIOUS
  <2>2. Len(h.blocks) \in Nat /\ Len(h.blocks) # 0
    BY <1>0, LenProperties, EmptySeq DEF ListTyped
  <2> DEFINE b == h.blocks[1]
  <2>3. b \in BlocksOf(h)
    BY <1>0, <2>2, BlockAt
  <2> HIDE DEF b
  <2>4. b \in Nat /\ BlockEnd(h, b) \in Nat /\ BlockEnd(h, b) > b
    BY <1>0, <2>3, BlockTyped
  <2>5. b \in b .. (BlockEnd(h, b) - 1)
    BY <2>4
  <2>6. b \in Covered(h)
    BY <2>3, <2>5 DEF Covered
  <2> QED BY <2>1, <2>6
<1> QED BY <1>1, <1>2

Grown(h, size, free_, spans, frames) ==
    [h EXCEPT !.size = size, !.free = free_, !.spans = spans, !.frames = frames]

LEMMA GrownFields ==
    ASSUME NEW h, DOMAIN h = HeapFields, NEW size, NEW f, NEW spans, NEW frames
    PROVE  LET g == Grown(h, size, f, spans, frames)
           IN  /\ DOMAIN g = HeapFields /\ g.hdr = h.hdr /\ g.blocks = h.blocks
               /\ g.size = size /\ g.free = f /\ g.spans = spans /\ g.frames = frames
               /\ g.allocated = h.allocated /\ g.shrinks = h.shrinks /\ g.fault = h.fault
BY DEF HeapFields, Grown

\* size is the number of bytes of the regions.
Counts(size, spans) == size = Cardinality(SpanBytes(spans))

\* more has r besides the other regions.
Adds(more, spans, r) == more = spans \cup {r}

\* A block with m bytes of data fills the region.
Fills(m, r) == r.size = HDR + m

\* The free block that is linked last covers the new region.
Larger(g, h, r, size, f, more, frames) ==
    /\ Shape(g) /\ SameUsed(g, h)
    /\ r.start \in BlocksOf(g) /\ g.hdr[r.start].is_free
    /\ Len(g.blocks) = Len(h.blocks) + 1
    /\ Pairs(g) \subseteq Pairs(h) \cup {r.start}
    /\ g.allocated = h.allocated /\ g.shrinks = h.shrinks /\ g.fault = h.fault
    /\ g.size = size /\ g.free = f /\ g.spans = more /\ g.frames = frames

LEMMA GrowShape ==
    ASSUME NEW h, Shape(h), NEW r, Separate(r, h.spans), NEW m \in Nat, Fills(m, r),
           NEW more, Adds(more, h.spans, r), NEW size, Counts(size, more),
           NEW f \in 0 .. (WORD - 1), NEW frames \in Nat
    PROVE  Larger(Grown(AppendBlock(h, r.start, m), size, f, more, frames),
                  h, r, size, f, more, frames)
<1> DEFINE b == r.start
           x == AppendBlock(h, b, m)
           g == Grown(x, size, f, more, frames)
<1>0. /\ DOMAIN h = HeapFields /\ ListOK(h) /\ SpansOK(h.spans) /\ Covered(h) = SpanBytes(h.spans)
  BY DEF Shape
<1>1. /\ b \in Address /\ r.size \in Nat /\ m \in Nat /\ b + HDR + m = b + r.size
      /\ b + r.size - 1 = (b + r.size) - 1
  BY BlockAssumption DEF Separate, Address, Fills
<1>2. /\ SpansOK(more)
      /\ SpanBytes(more) = SpanBytes(h.spans) \cup (b .. (b + r.size - 1))
      /\ \A a \in SpanBytes(h.spans) : a \notin b .. (b + r.size - 1)
  BY <1>0, SpanAdded DEF Adds
<1> HIDE DEF b
<1>3. Bytes(b, m) = b .. (b + r.size - 1)
  BY <1>1, BytesRange
<1>4. \A a \in Covered(h) : a \notin Bytes(b, m)
  BY <1>0, <1>2, <1>3
<1>5. /\ ListOK(x) /\ SameBesides(x, h) /\ BlocksOf(x) = BlocksOf(h) \cup {b}
      /\ Len(x.blocks) = Len(h.blocks) + 1
      /\ UsedOf(x) = UsedOf(h)
      /\ Covered(x) = Covered(h) \cup Bytes(b, m)
      /\ x.hdr[b].is_free
      /\ \A c \in BlocksOf(h) : x.hdr[c].size = h.hdr[c].size
  BY <1>0, <1>1, <1>4, AppendKeeps
<1>6. Pairs(x) \subseteq Pairs(h) \cup {b}
  BY <1>0, <1>1, <1>4, AppendPairs
<1> HIDE DEF x
<1>7. /\ DOMAIN x = HeapFields
      /\ x.allocated = h.allocated /\ x.shrinks = h.shrinks /\ x.fault = h.fault
  BY <1>0, <1>5 DEF SameBesides, HeapFields
<1>8. /\ DOMAIN g = HeapFields /\ g.hdr = x.hdr /\ g.blocks = x.blocks
      /\ g.size = size /\ g.free = f /\ g.spans = more /\ g.frames = frames
      /\ g.allocated = h.allocated /\ g.shrinks = h.shrinks /\ g.fault = h.fault
  BY <1>7, GrownFields
<1> HIDE DEF g
<1>9. Rearranged(g, x) /\ BlocksOf(g) = BlocksOf(x) /\ Pairs(g) = Pairs(x)
  BY <1>5, <1>7, <1>8, SameList, SamePairs
<1>10. Covered(g) = SpanBytes(more)
  BY <1>0, <1>2, <1>3, <1>5, <1>9 DEF Rearranged
<1>11. more # {}
  BY DEF Adds
<1>12. size = Cardinality(SpanBytes(more)) /\ size \in 0 .. (WORD - 1)
  <2>1. size = Cardinality(SpanBytes(more))
    BY DEF Counts
  <2> QED BY <1>2, <2>1, SpanRange
<1>13. Shape(g)
  BY <1>2, <1>8, <1>9, <1>10, <1>11, <1>12 DEF Shape, Rearranged
<1>14. SameUsed(x, h)
  BY <1>0, <1>5, UsedAreBlocks DEF SameUsed
<1>15. SameUsed(g, h)
  BY <1>9, <1>14, RearrangedSameUsed, SameUsedTwice
<1>16. b \in BlocksOf(g) /\ g.hdr[b].is_free /\ Len(g.blocks) = Len(h.blocks) + 1
  BY <1>5, <1>8, <1>9
<1>17. Pairs(g) \subseteq Pairs(h) \cup {b}
  BY <1>6, <1>9
<1> QED BY <1>8, <1>13, <1>15, <1>16, <1>17 DEF b, g, x, Larger

\* The numbers after the expansion: a region more, and a block.
LEMMA GrowSum ==
    ASSUME NEW a \in Int, NEW f \in Int, NEW s \in Int, NEW c \in Int, NEW l \in Int,
           NEW n \in Int, NEW w, NEW z, w = Wrap(f + n - HDR), z = Wrap(s + n),
           Cong(a + f + 2 * HDR * c, s + HDR * l)
    PROVE  Cong(a + w + 2 * HDR * (c + 1), z + HDR * (l + 1))
<1> DEFINE y == f + n - HDR
           t == s + n
           p == 2 * HDR * c
           q == HDR * l
<1>1. /\ HDR \in Int /\ y \in Int /\ t \in Int
      /\ y = f + n - HDR /\ t = s + n
  BY BlockAssumption
<1>2. /\ p \in Int /\ q \in Int
      /\ 2 * HDR * (c + 1) = p + 2 * HDR /\ HDR * (l + 1) = q + HDR
  BY BlockAssumption
<1>3. Cong(a + f + p, s + q)
  OBVIOUS
<1> HIDE DEF y, t, p, q
<1>4. PICK i \in Int : w = y + i * WORD
  BY <1>1, WrapCong DEF Cong, y
<1>5. PICK j \in Int : z = t + j * WORD
  BY <1>1, WrapCong DEF Cong, t
<1>6. PICK k \in Int : a + f + p = s + q + k * WORD
  BY <1>3 DEF Cong
<1>7. /\ i + k - j \in Int
      /\ a + w + (p + 2 * HDR) = (z + (q + HDR)) + (i + k - j) * WORD
  BY <1>1, <1>2, <1>4, <1>5, <1>6, HeapAssumption
<1>8. Cong(a + w + (p + 2 * HDR), z + (q + HDR))
  BY <1>7 DEF Cong
<1> QED BY <1>2, <1>8

LEMMA RegionSeparate ==
    ASSUME NEW h, NEW more \in Nat, more # 0, NEW r \in Regions(h, more)
    PROVE  Separate(r, h.spans) /\ r.size = more
<1>1. /\ r.start \in ARENA.lo .. ARENA.hi /\ r.size = more /\ r.start # Null
      /\ r.start + more <= ARENA.hi /\ \A s \in h.spans : ~ Overlap(r, s)
  BY DEF Regions
<1>2. /\ ARENA.lo \in Nat /\ ARENA.hi \in Nat /\ ARENA.hi + FRAME_SIZE <= WORD /\ WORD \in Nat
      /\ FRAME_SIZE \in Nat
  BY HeapAssumption
<1> QED BY <1>1, <1>2 DEF Separate, Null

WithFault(h) == [h EXCEPT !.fault = TRUE]

LEMMA FaultHeap ==
    ASSUME NEW h, HeapOK(h)
    PROVE  LET g == WithFault(h)
           IN  /\ HeapOK(g) /\ SameUsed(g, h) /\ Pairs(g) \subseteq Pairs(h)
               /\ g.shrinks = h.shrinks
<1> DEFINE g == WithFault(h)
<1>0. DOMAIN h = HeapFields /\ ListOK(h)
  BY DEF HeapOK, Shape
<1>1. /\ DOMAIN g = HeapFields /\ g.hdr = h.hdr /\ g.blocks = h.blocks
      /\ g.size = h.size /\ g.free = h.free /\ g.allocated = h.allocated /\ g.spans = h.spans
      /\ g.frames = h.frames /\ g.shrinks = h.shrinks /\ g.fault = TRUE
  BY <1>0 DEF HeapFields, WithFault
<1> HIDE DEF g
<1>2. Rearranged(g, h) /\ Pairs(g) = Pairs(h)
  BY <1>0, <1>1, SameList, SamePairs
<1>3. Shape(g)
  BY <1>1, <1>2 DEF HeapOK, Shape, Rearranged
<1>4. Law(g)
  BY <1>1 DEF HeapOK, Law
<1> QED BY <1>1, <1>2, <1>3, <1>4, RearrangedSameUsed DEF HeapOK, g

\* The frames are used up and nothing else happens.
LEMMA ExpandFailsHeap ==
    ASSUME NEW h, HeapOK(h)
    PROVE  LET g == ExpandFails(h)
           IN  /\ HeapOK(g) /\ SameUsed(g, h) /\ Pairs(g) \subseteq Pairs(h)
               /\ g.shrinks = h.shrinks /\ g.fault = h.fault
<1> DEFINE g == ExpandFails(h)
<1>0. DOMAIN h = HeapFields /\ ListOK(h)
  BY DEF HeapOK, Shape
<1>1. /\ DOMAIN g = HeapFields /\ g.hdr = h.hdr /\ g.blocks = h.blocks
      /\ g.size = h.size /\ g.free = h.free /\ g.allocated = h.allocated /\ g.spans = h.spans
      /\ g.frames = 0 /\ g.shrinks = h.shrinks /\ g.fault = h.fault
  BY <1>0 DEF HeapFields, ExpandFails
<1> HIDE DEF g
<1>2. Rearranged(g, h) /\ Pairs(g) = Pairs(h)
  BY <1>0, <1>1, SameList, SamePairs
<1>3. Shape(g)
  BY <1>1, <1>2 DEF HeapOK, Shape, Rearranged
<1>4. Law(g)
  BY <1>1 DEF HeapOK, Law
<1> QED BY <1>1, <1>2, <1>3, <1>4, RearrangedSameUsed DEF HeapOK, g

\* A size in whole pages.
Pages(more) ==
    /\ more \in Nat /\ more \div FRAME_SIZE \in Nat
    /\ more = 0 \/ more >= FRAME_SIZE
    /\ more \div FRAME_SIZE = 0 => more = 0

LEMMA ExpandHeap ==
    ASSUME NEW h, HeapOK(h), NEW more, Pages(more), Maps(h, more), NEW r \in Regions(h, more)
    PROVE  LET g == Expand(h, r)
           IN  /\ HeapOK(g) /\ SameUsed(g, h) /\ Pairs(g) \subseteq Pairs(h)
               /\ g.shrinks = h.shrinks
               /\ more # 0 => g.fault = h.fault
<1> DEFINE b == r.start
           spans == h.spans \cup {r}
           size == Wrap(h.size + r.size)
           f == Wrap(h.free + r.size - HDR)
           n == h.frames - r.size \div FRAME_SIZE
           m == r.size - HDR
           x == Grown(AppendBlock(h, b, m), size, f, spans, n)
           g == Coalesce(x, b)
<1>0. /\ Shape(h) /\ DOMAIN h = HeapFields /\ ListOK(h) /\ SpansOK(h.spans) /\ h.frames \in Nat
      /\ r.size = more /\ more \in Nat
  BY DEF HeapOK, Shape, Regions, Pages
<1>1. CASE h.blocks = <<>> \/ r.size = 0
  <2>1. Expand(h, r) = WithFault(h)
    BY <1>1 DEF Expand, WithFault
  <2>2. more = 0
    <3> SUFFICES ASSUME h.blocks = <<>> PROVE more = 0
      BY <1>0, <1>1
    <3>1. h.frames = 0
      BY <1>0, BlocksWhereMapped DEF Shape
    <3>2. more \div FRAME_SIZE <= 0 /\ more \div FRAME_SIZE \in Nat
      BY <3>1 DEF Maps, Pages
    <3>3. more \div FRAME_SIZE = 0
      BY <3>2
    <3> QED BY <3>3 DEF Pages
  <2> QED BY <2>1, <2>2, FaultHeap
<1>2. CASE ~ (h.blocks = <<>> \/ r.size = 0)
  <2>1. /\ more # 0 /\ h.spans # {}
    BY <1>0, <1>2, BlocksWhereMapped
  <2>2. Separate(r, h.spans) /\ r.size \in Nat /\ r.size >= HDR
    <3>1. more >= FRAME_SIZE /\ HDR < FRAME_SIZE /\ HDR \in Nat /\ FRAME_SIZE \in Nat
      BY <2>1, HeapAssumption, BlockAssumption DEF Pages
    <3>2. Separate(r, h.spans)
      BY <1>0, <2>1, RegionSeparate
    <3> QED BY <1>0, <3>1, <3>2
  <2>3. Expand(h, r) = g
    <3> DEFINE y == AppendBlock(h, b, r.size - HDR)
    <3>1. /\ DOMAIN y = HeapFields /\ y.size = h.size /\ y.free = h.free /\ y.spans = h.spans
          /\ y.frames = h.frames
      BY <1>0 DEF AppendBlock, HeapFields
    <3>2. Expand(h, r) = Coalesce([y EXCEPT
                            !.size = Wrap(@ + r.size),
                            !.free = Wrap(@ + r.size - HDR),
                            !.spans = @ \cup {r},
                            !.frames = @ - r.size \div FRAME_SIZE], b)
      BY <1>2 DEF Expand
    <3> HIDE DEF y
    <3>3. [y EXCEPT !.size = Wrap(@ + r.size), !.free = Wrap(@ + r.size - HDR),
                    !.spans = @ \cup {r}, !.frames = @ - r.size \div FRAME_SIZE]
            = Grown(y, size, f, spans, n)
      BY <3>1 DEF Grown, HeapFields
    <3> QED BY <3>2, <3>3 DEF y
  <2>4. n \in Nat
    <3> DEFINE d == r.size \div FRAME_SIZE
    <3>1. d \in Nat /\ d <= h.frames
      BY <1>0 DEF Maps, Pages
    <3> HIDE DEF d
    <3>2. h.frames - d \in Nat
      BY <1>0, <3>1
    <3> QED BY <3>2 DEF d
  <2>5. /\ Cardinality(spans) = Cardinality(h.spans) + 1
        /\ Cardinality(SpanBytes(spans)) = Cardinality(SpanBytes(h.spans)) + r.size
        /\ SpansOK(spans)
    BY <1>0, <2>2, SpanAdded
  <2>6. h.size = Cardinality(SpanBytes(h.spans)) /\ h.size \in Nat
    BY <1>0, <2>1, HeapAssumption DEF Shape
  <2>7. size = Cardinality(SpanBytes(spans))
    <3> DEFINE k == h.size + r.size
    <3>1. k = Cardinality(SpanBytes(spans))
      BY <2>5, <2>6
    <3>2. Cardinality(SpanBytes(spans)) \in 0 .. (WORD - 1)
      BY <2>5, SpanRange
    <3>3. k \in Nat /\ k < WORD
      BY <3>1, <3>2, HeapAssumption
    <3> HIDE DEF k
    <3>4. Wrap(k) = k
      BY <3>3, WrapSmall
    <3> QED BY <3>1, <3>4 DEF k
  <2>8. /\ h.size \in Int /\ h.free \in Int /\ h.allocated \in Int
        /\ h.free + r.size - HDR \in Int
    <3>1. h.size \in Int /\ h.free \in Int /\ h.allocated \in Int
      BY <1>0, CountsInt
    <3> QED BY <2>2, <3>1, BlockAssumption
  <2>9. f \in 0 .. (WORD - 1)
    <3> DEFINE k == h.free + r.size - HDR
    <3>1. k \in Int
      BY <2>8
    <3> HIDE DEF k
    <3>2. Wrap(k) \in 0 .. (WORD - 1)
      BY <3>1, Wrapped
    <3> QED BY <3>2 DEF k
  <2>10. m \in Nat /\ Fills(m, r)
    BY <2>2, BlockAssumption DEF Fills
  <2>11. Counts(size, spans) /\ Adds(spans, h.spans, r)
    BY <2>7 DEF Counts, Adds
  <2> HIDE DEF size, f, n, m, spans
  <2>12. /\ Shape(x) /\ SameUsed(x, h)
         /\ b \in BlocksOf(x) /\ x.hdr[b].is_free
         /\ Len(x.blocks) = Len(h.blocks) + 1
         /\ Pairs(x) \subseteq Pairs(h) \cup {b}
         /\ x.allocated = h.allocated /\ x.shrinks = h.shrinks /\ x.fault = h.fault
         /\ x.size = size /\ x.free = f /\ x.spans = spans
    <3>1. Shape(h) /\ Separate(r, h.spans) /\ m \in Nat /\ Fills(m, r)
      BY <1>0, <2>2, <2>10
    <3>2. Adds(spans, h.spans, r) /\ Counts(size, spans) /\ f \in 0 .. (WORD - 1) /\ n \in Nat
      BY <2>4, <2>9, <2>11
    <3>3. Larger(Grown(AppendBlock(h, r.start, m), size, f, spans, n), h, r, size, f, spans, n)
      BY <3>1, <3>2, GrowShape, Zenon
    <3> QED BY <3>3 DEF Larger
  <2> HIDE DEF x
  <2>13. HeapOK(x)
    <3> DEFINE c == Cardinality(h.spans)
               l == Len(h.blocks)
               u == h.allocated
               v == h.free
               s == h.size
               d == r.size
    <3>1. c \in Int /\ l \in Int /\ u \in Int /\ v \in Int /\ s \in Int /\ d \in Int
      <4>1. c \in Int
        BY <1>0, FS_CardinalityType DEF SpansOK
      <4>2. l \in Int
        BY <1>0, LenProperties DEF ListOK, ListTyped
      <4> QED BY <2>2, <2>8, <4>1, <4>2
    <3>2. Cong(u + v + 2 * HDR * c, s + HDR * l)
      BY <2>1 DEF HeapOK, Law
    <3>3. f = Wrap(v + d - HDR) /\ size = Wrap(s + d)
      BY DEF f, size
    <3> HIDE DEF c, l, u, v, s, d
    <3>4. Cong(u + f + 2 * HDR * (c + 1), size + HDR * (l + 1))
      BY <3>1, <3>2, <3>3, GrowSum
    <3>5. Cardinality(x.spans) = c + 1 /\ Len(x.blocks) = l + 1 /\ x.allocated = u
      BY <2>5, <2>12 DEF c, l, u
    <3>6. Law(x)
      BY <2>12, <3>4, <3>5 DEF Law
    <3> QED BY <2>12, <3>6 DEF HeapOK
  <2>14. HeapOK(g) /\ Rearranged(g, x) /\ Kept(g, x) /\ Pairs(g) \subseteq Pairs(h)
    BY <2>12, <2>13, CoalesceHeap
  <2> HIDE DEF g
  <2>15. SameUsed(g, h) /\ g.shrinks = h.shrinks /\ g.fault = h.fault
    BY <2>12, <2>14, RearrangedSameUsed, SameUsedTwice DEF Kept
  <2> QED BY <2>3, <2>14, <2>15
<1> QED BY <1>1, <1>2

-----------------------------------------------------------------------------
\* malloc.

\* Rounding the size up to a page, with a header and again, stays below WORD.
Small(n) == n + 3 * FRAME_SIZE <= WORD

\* What malloc may leave behind: a block big enough, unless rounding the size
\* wraps.
Served(o, h, size) ==
    /\ HeapOK(o.heap) /\ Pairs(o.heap) \subseteq Pairs(h) /\ o.heap.shrinks = h.shrinks
    /\ Small(size) => o.heap.fault = h.fault
    /\ \/ o.ptr = Null /\ SameUsed(o.heap, h)
       \/ \E b : /\ o.ptr = Data(b) /\ o.ptr \in Nat /\ o.ptr # Null /\ Grants(o.heap, h, b, 0)
                 /\ Small(size) => o.heap.hdr[b].size >= size

LEMMA MinMember ==
    ASSUME NEW T, T \subseteq Nat, T # {}
    PROVE  Min(T) \in T
BY LeastNat DEF Min

LEMMA OutcomeFields ==
    ASSUME NEW h, NEW p
    PROVE  Outcome(h, p).heap = h /\ Outcome(h, p).ptr = p
BY DEF Outcome

LEMMA Refused ==
    ASSUME NEW h, HeapOK(h), NEW asked
    PROVE  Served(Outcome(h, Null), h, asked)
<1>1. SameUsed(h, h)
  BY Itself, RearrangedSameUsed
<1> QED BY <1>1, OutcomeFields DEF Served

LEMMA FirstFitServes ==
    ASSUME NEW h, HeapOK(h), NEW size \in Nat, NEW asked \in Nat, Small(asked) => asked <= size
    PROVE  Served(FirstFit(h, size), h, asked)
<1> DEFINE i == Min(Fitting(h, size))
           b == h.blocks[i]
           g == Take(h, b, size)
<1>0. ListOK(h) /\ ListTyped(h)
  BY DEF HeapOK, Shape, ListOK
<1>1. CASE Fitting(h, size) = {}
  <2>1. FirstFit(h, size) = Outcome(h, Null)
    BY <1>1 DEF FirstFit
  <2> QED BY <2>1, Refused
<1>2. CASE Fitting(h, size) # {}
  <2>1. i \in Fitting(h, size)
    <3>1. Fitting(h, size) \subseteq Nat
      BY <1>0, LenProperties DEF Fitting, ListTyped
    <3> QED BY <1>2, <3>1, MinMember
  <2> HIDE DEF i
  <2>2. b \in BlocksOf(h) /\ h.hdr[b].is_free /\ h.hdr[b].size >= size
    BY <1>0, <2>1, FittingBlock
  <2>3. FirstFit(h, size) = Outcome(g, Data(b))
    BY <1>2 DEF FirstFit, i
  <2>4. b \in Address /\ Data(b) \in Nat /\ Data(b) # Null
    BY <1>0, <2>2, BlockTyped, BlockAssumption DEF Address, Null
  <2>5. b \notin UsedOf(h)
    BY <1>0, <2>2, UsedAreBlocks
  <2> HIDE DEF b
  <2>6. /\ HeapOK(g) /\ Kept(g, h) /\ Pairs(g) \subseteq Pairs(h)
        /\ UsedOf(g) = UsedOf(h) \cup {b}
        /\ g.hdr[b].size \in Nat /\ g.hdr[b].size >= size
        /\ \A c \in UsedOf(h) : g.hdr[c].size = h.hdr[c].size
    BY <2>2, TakeHeap
  <2> HIDE DEF g
  <2>7. Grants(g, h, b, 0)
    <3>1. g.hdr[b].size >= 0
      BY <2>6
    <3> QED BY <2>4, <2>5, <2>6, <3>1 DEF Grants
  <2>8. Small(asked) => g.hdr[b].size >= asked
    BY <2>6
  <2>9. g.shrinks = h.shrinks /\ g.fault = h.fault
    BY <2>6 DEF Kept
  <2> DEFINE o == Outcome(g, Data(b))
  <2>10. o.heap = g /\ o.ptr = Data(b)
    BY OutcomeFields
  <2> HIDE DEF o
  <2>11. Served(o, h, asked)
    BY <2>4, <2>6, <2>7, <2>8, <2>9, <2>10 DEF Served
  <2> QED BY <2>3, <2>11 DEF o
<1> QED BY <1>1, <1>2

\* What is served from the heap g is served from h, which g has grown from.
LEMMA ServedFrom ==
    ASSUME NEW h, NEW g, NEW o, NEW asked, Served(o, g, asked), SameUsed(g, h),
           Pairs(g) \subseteq Pairs(h), g.shrinks = h.shrinks, Small(asked) => g.fault = h.fault
    PROVE  Served(o, h, asked)
<1>1. /\ HeapOK(o.heap) /\ Pairs(o.heap) \subseteq Pairs(h) /\ o.heap.shrinks = h.shrinks
      /\ Small(asked) => o.heap.fault = h.fault
  BY DEF Served
<1>2. CASE o.ptr = Null /\ SameUsed(o.heap, g)
  BY <1>1, <1>2, SameUsedTwice DEF Served
<1>3. ASSUME NEW b, o.ptr = Data(b), o.ptr \in Nat, o.ptr # Null, Grants(o.heap, g, b, 0),
             Small(asked) => o.heap.hdr[b].size >= asked
      PROVE  Served(o, h, asked)
  <2>1. Grants(o.heap, h, b, 0)
    BY <1>3 DEF Grants, SameUsed
  <2> QED BY <1>1, <1>3, <2>1 DEF Served
<1> QED BY <1>2, <1>3 DEF Served

LEMMA MallocServes ==
    ASSUME NEW h, HeapOK(h), NEW asked \in Nat, NEW o \in Malloc(h, asked)
    PROVE  Served(o, h, asked)
<1> DEFINE size == ALIGN_UP(asked)
           more == ALIGN_UP(size + HDR)
<1>1. /\ size \in Nat /\ size + HDR \in Nat
      /\ asked + FRAME_SIZE <= WORD => size >= asked /\ size < asked + FRAME_SIZE
  BY AlignedUp, BlockAssumption
<1>2. CASE asked = 0
  <2>1. o = Outcome(h, Null)
    BY <1>2 DEF Malloc
  <2> QED BY <2>1, Refused
<1>3. CASE asked # 0
  <2>1. o \in IF Fitting(h, size) # {} THEN {FirstFit(h, size)}
              ELSE IF Regions(h, more) = {} THEN {Outcome(h, Null)}
              ELSE IF ~ Maps(h, more) THEN {Outcome(ExpandFails(h), Null)}
              ELSE {LET g == Expand(h, r)
                    IN IF g.fault THEN Outcome(g, Null) ELSE FirstFit(g, size) :
                      r \in Regions(h, more)}
    BY <1>3 DEF Malloc
  <2> HIDE DEF size
  <2>2. /\ Pages(more)
        /\ size + HDR + FRAME_SIZE <= WORD => more >= size + HDR
    <3> DEFINE k == size + HDR
    <3>1. k \in Nat
      BY <1>1
    <3> HIDE DEF k
    <3>2. Pages(ALIGN_UP(k)) /\ (k + FRAME_SIZE <= WORD => ALIGN_UP(k) >= k)
      BY <3>1, AlignedUp DEF Pages
    <3> QED BY <3>2 DEF k
  <2> HIDE DEF more
  <2>3. Small(asked) => asked <= size /\ more # 0
    <3> SUFFICES ASSUME Small(asked) PROVE asked <= size /\ more # 0
      OBVIOUS
    <3>1. FRAME_SIZE \in Nat /\ WORD \in Nat /\ HDR < FRAME_SIZE /\ HDR \in Nat /\ HDR > 0
      BY HeapAssumption, BlockAssumption
    <3>2. asked + 3 * FRAME_SIZE <= WORD /\ more \in Nat
      BY <2>2 DEF Small, Pages
    <3>3. asked + FRAME_SIZE <= WORD
      BY <3>1, <3>2
    <3>4. asked <= size /\ size < asked + FRAME_SIZE
      BY <1>1, <3>3
    <3>5. size + HDR + FRAME_SIZE <= WORD
      BY <1>1, <3>1, <3>2, <3>4
    <3> QED BY <1>1, <2>2, <3>1, <3>2, <3>4, <3>5
  <2>4. CASE o = FirstFit(h, size)
    BY <1>1, <2>3, <2>4, FirstFitServes
  <2>5. CASE o = Outcome(h, Null)
    BY <2>5, Refused
  <2>6. CASE o = Outcome(ExpandFails(h), Null)
    <3> DEFINE g == ExpandFails(h)
    <3>1. /\ HeapOK(g) /\ SameUsed(g, h) /\ Pairs(g) \subseteq Pairs(h)
          /\ g.shrinks = h.shrinks /\ g.fault = h.fault
      BY ExpandFailsHeap
    <3> HIDE DEF g
    <3>2. Served(Outcome(g, Null), g, asked)
      BY <3>1, Refused
    <3>3. o = Outcome(g, Null)
      BY <2>6 DEF g
    <3> QED BY <3>1, <3>2, <3>3, ServedFrom
  <2>7. ASSUME NEW r \in Regions(h, more), Maps(h, more),
               o = LET g == Expand(h, r) IN IF g.fault THEN Outcome(g, Null) ELSE FirstFit(g, size)
        PROVE  Served(o, h, asked)
    <3> DEFINE g == Expand(h, r)
    <3>1. /\ HeapOK(g) /\ SameUsed(g, h) /\ Pairs(g) \subseteq Pairs(h)
          /\ g.shrinks = h.shrinks /\ (more # 0 => g.fault = h.fault)
      BY <2>2, <2>7, ExpandHeap
    <3>2. o = Outcome(g, Null) \/ o = FirstFit(g, size)
      BY <2>7
    <3> HIDE DEF g
    <3>3. Served(o, g, asked)
      BY <1>1, <2>3, <3>1, <3>2, Refused, FirstFitServes
    <3> QED BY <2>3, <3>1, <3>3, ServedFrom
  <2> QED BY <2>1, <2>4, <2>5, <2>6, <2>7
<1> QED BY <1>2, <1>3

-----------------------------------------------------------------------------
\* The allocations and the blocks.

LEMMA HoldingOne ==
    ASSUME NEW p, p # Null, NEW size
    PROVE  Holding(p, size) = {Allocation(p, size)}
BY DEF Holding, Allocation

\* The block that malloc has found belongs to nobody else.
LEMMA ServedHeld ==
    ASSUME NEW h, NEW L, Held(h, L), NEW asked, NEW size \in Nat, NEW o, Served(o, h, asked)
    PROVE  LET M == L \cup Holding(o.ptr, size)
           IN  /\ Held(o.heap, M)
               /\ Fits(h, L) /\ Small(asked) /\ size <= asked /\ asked \in Nat => Fits(o.heap, M)
               /\ o.ptr # Null => o.ptr \in Nat /\ \A r \in L : r.ptr # o.ptr
<1>1. CASE o.ptr = Null /\ SameUsed(o.heap, h)
  <2>1. L \cup Holding(o.ptr, size) = L
    BY <1>1 DEF Holding
  <2> QED BY <1>1, <2>1, HeldSame
<1>2. ASSUME NEW b, o.ptr = Data(b), o.ptr \in Nat, o.ptr # Null, Grants(o.heap, h, b, 0),
             Small(asked) => o.heap.hdr[b].size >= asked
      PROVE  LET M == L \cup Holding(o.ptr, size)
             IN  /\ Held(o.heap, M)
                 /\ Fits(h, L) /\ Small(asked) /\ size <= asked /\ asked \in Nat => Fits(o.heap, M)
                 /\ o.ptr # Null => o.ptr \in Nat /\ \A r \in L : r.ptr # o.ptr
  <2> DEFINE p == o.ptr
             g == o.heap
             new == Allocation(p, 0)
             N == L \cup {new}
             M == L \cup {Allocation(p, size)}
  <2>1. p \in Nat /\ p = Data(b) /\ p # Null /\ Grants(g, h, b, 0) /\ 0 \in Nat
    BY <1>2
  <2>2. b \in Nat /\ b \notin UsedOf(h) /\ b = FromData(p) /\ b \in UsedOf(g)
    <3>1. b \in Nat /\ b \notin UsedOf(h) /\ b \in UsedOf(g)
      BY <2>1 DEF Grants, Address
    <3> QED BY <2>1, <3>1, HeaderAndData
  <2> HIDE DEF p, g
  <2>3. Held(g, N) /\ (Fits(h, L) => Fits(g, N))
    BY <2>1, HeldAdd
  <2>4. \A r \in L : r.ptr # p
    BY <2>2 DEF Held
  <2>5. new.ptr = p /\ new \in N
    BY DEF Allocation
  <2>6. N \ {new} = L
    BY <2>4, <2>5
  <2> HIDE DEF new, N
  <2>7. /\ Held(g, (N \ {new}) \cup {Allocation(new.ptr, size)})
        /\ Fits(g, N) /\ g.hdr[b].size >= size
             => Fits(g, (N \ {new}) \cup {Allocation(new.ptr, size)})
    <3>1. b = FromData(new.ptr) /\ new.ptr # Null
      BY <2>1, <2>2, <2>5
    <3> QED BY <2>3, <2>5, <3>1, HeldReplace
  <2>8. Held(g, M) /\ (Fits(g, N) /\ g.hdr[b].size >= size => Fits(g, M))
    BY <2>5, <2>6, <2>7
  <2>9. Small(asked) /\ size <= asked /\ asked \in Nat => g.hdr[b].size >= size
    <3> SUFFICES ASSUME Small(asked), size <= asked, asked \in Nat PROVE g.hdr[b].size >= size
      OBVIOUS
    <3>1. g.hdr[b].size >= asked
      BY <1>2 DEF g
    <3>2. b \in BlocksOf(g) /\ ListTyped(g)
      BY <2>2, UsedAreBlocks DEF Served, g, HeapOK, Shape, ListOK
    <3>3. g.hdr[b].size \in Nat
      BY <3>2, BlockTyped
    <3> QED BY <3>1, <3>3
  <2>10. L \cup Holding(o.ptr, size) = M
    BY <2>1, HoldingOne DEF p
  <2> HIDE DEF M
  <2>11. /\ Held(g, M)
         /\ Fits(h, L) /\ Small(asked) /\ size <= asked /\ asked \in Nat => Fits(g, M)
    BY <2>3, <2>8, <2>9
  <2> QED BY <2>1, <2>4, <2>10, <2>11 DEF p, g
<1> QED BY <1>1, <1>2 DEF Served

\* The allocations of aligned_alloc, by the pointers malloc has returned.
Raw(P) == {[ptr |-> p.raw, size |-> Requested(p)] : p \in P}

LEMMA RawMember ==
    ASSUME NEW P, NEW p \in P
    PROVE  \E s \in Raw(P) : s.ptr = p.raw
<1> DEFINE s == [ptr |-> p.raw, size |-> Requested(p)]
<1>1. s \in Raw(P)
  BY DEF Raw
<1>2. s.ptr = p.raw
  OBVIOUS
<1> QED BY <1>1, <1>2

LEMMA RawAdd ==
    ASSUME NEW P, NEW new
    PROVE  Raw(P \cup {new}) = Raw(P) \cup {Allocation(new.raw, Requested(new))}
BY Zenon DEF Raw, Allocation

\* Requests that do not wrap around when malloc and its callers add to them and
\* round them up.
RequestsFit ==
    /\ \A n \in Sizes : n + 4 * FRAME_SIZE <= WORD
    /\ \A a \in Arrays : a.num * a.size < WORD => Small(a.num * a.size)
    /\ \A n \in Sizes, alignment \in Alignments : Small(n + alignment + POINTER)

Pinned == [raw : Nat, ptr : Nat, size : Nat, alignment : Nat]

\* The address aligned_alloc returns: the raw pointer fits in front of it, and
\* it is the first page boundary where that is so.
Placed(p) == p.raw + POINTER <= p.ptr /\ p.ptr < p.raw + POINTER + FRAME_SIZE

Sound(h, L, P) ==
    /\ HeapOK(h) /\ PairsOK(h)
    /\ P \subseteq Pinned
    /\ RequestsFit => \A p \in P : Placed(p)
    /\ \A r \in L, p \in P : r.ptr # p.raw
    /\ Held(h, L \cup Raw(P))
    /\ RequestsFit => Fits(h, L \cup Raw(P)) /\ ~ h.fault

Inv == Sound(heap, live, pinned)

\* The lists and the counts, after malloc.
LEMMA ServedOK ==
    ASSUME NEW h, HeapOK(h), PairsOK(h), NEW o, NEW asked, Served(o, h, asked)
    PROVE  HeapOK(o.heap) /\ PairsOK(o.heap)
<1> DEFINE g == o.heap
<1>1. HeapOK(g) /\ Pairs(g) \subseteq Pairs(h) /\ g.shrinks = h.shrinks
  BY DEF Served
<1>2. ListOK(h) /\ h.shrinks \in Nat
  BY DEF HeapOK, Shape
<1> HIDE DEF g
<1>3. PairsOK(g)
  BY <1>1, <1>2, PairsFewer
<1> QED BY <1>1, <1>3 DEF g

\* malloc of `asked` bytes for a client that uses `size` of them.
LEMMA SoundMalloc ==
    ASSUME NEW h, NEW L, NEW P, Sound(h, L, P), NEW asked \in Nat, NEW size \in Nat,
           RequestsFit => Small(asked) /\ size <= asked,
           NEW o \in Malloc(h, asked)
    PROVE  Sound(o.heap, L \cup Holding(o.ptr, size), P)
<1> DEFINE A == L \cup Raw(P)
           M == A \cup Holding(o.ptr, size)
           N == L \cup Holding(o.ptr, size)
<1>1. HeapOK(h) /\ PairsOK(h) /\ Held(h, A) /\ (RequestsFit => Fits(h, A) /\ ~ h.fault)
  BY DEF Sound
<1>2. Served(o, h, asked)
  BY <1>1, MallocServes
<1>3. HeapOK(o.heap) /\ PairsOK(o.heap)
  BY <1>1, <1>2, ServedOK
<1> HIDE DEF A
<1>4. /\ Held(o.heap, M)
      /\ Fits(h, A) /\ Small(asked) /\ size <= asked /\ asked \in Nat => Fits(o.heap, M)
      /\ o.ptr # Null => o.ptr \in Nat /\ \A r \in A : r.ptr # o.ptr
  BY <1>1, <1>2, ServedHeld
<1>5. N \cup Raw(P) = M
  BY DEF A
<1>6. \A r \in N, p \in P : r.ptr # p.raw
  <2> SUFFICES ASSUME NEW r \in N, NEW p \in P PROVE r.ptr # p.raw
    OBVIOUS
  <2>1. CASE r \in L
    BY <2>1 DEF Sound
  <2>2. CASE r \in Holding(o.ptr, size)
    <3>1. o.ptr # Null /\ r.ptr = o.ptr
      BY <2>2 DEF Holding
    <3>2. PICK s \in Raw(P) : s.ptr = p.raw
      BY RawMember
    <3> QED BY <1>4, <3>1, <3>2 DEF A
  <2> QED BY <2>1, <2>2
<1>7. RequestsFit => Fits(o.heap, M) /\ ~ o.heap.fault
  BY <1>1, <1>2, <1>4 DEF Served
<1> HIDE DEF M, N
<1>8. P \subseteq Pinned /\ (RequestsFit => \A p \in P : Placed(p))
  BY DEF Sound
<1>9. Sound(o.heap, N, P)
  BY <1>3, <1>4, <1>5, <1>6, <1>7, <1>8 DEF Sound
<1> QED BY <1>9 DEF N

\* The same for aligned_alloc.
LEMMA SoundAligned ==
    ASSUME NEW h, NEW L, NEW P, Sound(h, L, P), NEW asked \in Nat, NEW new \in Pinned,
           RequestsFit => Small(asked) /\ Requested(new) <= asked /\ Placed(new),
           NEW o \in Malloc(h, asked), o.ptr # Null, new.raw = o.ptr
    PROVE  Sound(o.heap, L, P \cup {new})
<1> DEFINE size == Requested(new)
           A == L \cup Raw(P)
           M == A \cup Holding(o.ptr, size)
           Q == P \cup {new}
<1>0. size \in Nat
  BY HeapAssumption DEF Requested, Pinned
<1>1. HeapOK(h) /\ PairsOK(h) /\ Held(h, A) /\ (RequestsFit => Fits(h, A) /\ ~ h.fault)
  BY DEF Sound
<1>2. Served(o, h, asked)
  BY <1>1, MallocServes
<1>3. HeapOK(o.heap) /\ PairsOK(o.heap)
  BY <1>1, <1>2, ServedOK
<1>9. RequestsFit => Small(asked) /\ size <= asked
  OBVIOUS
<1>10. Raw(Q) = Raw(P) \cup {Allocation(o.ptr, size)}
  BY RawAdd
<1> HIDE DEF A, size
<1>4. /\ Held(o.heap, M)
      /\ Fits(h, A) /\ Small(asked) /\ size <= asked /\ asked \in Nat => Fits(o.heap, M)
      /\ o.ptr \in Nat /\ \A r \in A : r.ptr # o.ptr
  BY <1>0, <1>1, <1>2, ServedHeld
<1>5. L \cup Raw(Q) = M
  <2>1. Holding(o.ptr, size) = {Allocation(o.ptr, size)}
    BY HoldingOne
  <2> QED BY <1>10, <2>1 DEF A
<1>6. \A r \in L, p \in Q : r.ptr # p.raw
  <2> SUFFICES ASSUME NEW r \in L, NEW p \in Q PROVE r.ptr # p.raw
    OBVIOUS
  <2>1. CASE p \in P
    BY <2>1 DEF Sound
  <2>2. CASE p = new
    BY <1>4, <2>2 DEF A
  <2> QED BY <2>1, <2>2
<1>7. RequestsFit => Fits(o.heap, M) /\ ~ o.heap.fault
  BY <1>1, <1>2, <1>4, <1>9 DEF Served
<1>8. Q \subseteq Pinned /\ (RequestsFit => \A p \in Q : Placed(p))
  BY DEF Sound
<1> HIDE DEF M, Q
<1>11. Sound(o.heap, L, Q)
  BY <1>3, <1>4, <1>5, <1>6, <1>7, <1>8 DEF Sound
<1> QED BY <1>11 DEF Q

\* No block reaches into the last page there is.
LEMMA BlockBelowTop ==
    ASSUME NEW h, Shape(h), NEW b \in BlocksOf(h)
    PROVE  BlockEnd(h, b) + FRAME_SIZE <= WORD
<1>1. /\ ListTyped(h) /\ SpansOK(h.spans) /\ Covered(h) = SpanBytes(h.spans)
  BY DEF Shape, ListOK
<1> DEFINE e == BlockEnd(h, b)
<1>2. b \in Nat /\ e \in Nat /\ e > b
  BY <1>1, BlockTyped
<1> HIDE DEF e
<1>3. e - 1 \in b .. (e - 1)
  BY <1>2
<1>4. e - 1 \in SpanBytes(h.spans)
  BY <1>1, <1>3 DEF Covered, e
<1>5. PICK s \in h.spans : e - 1 \in s.start .. (s.start + s.size - 1)
  BY <1>4 DEF SpanBytes
<1>6. s.start \in Nat /\ s.size \in Nat /\ s.start + s.size + FRAME_SIZE <= WORD
  BY <1>1 DEF SpansOK
<1>7. e <= s.start + s.size
  BY <1>2, <1>5, <1>6
<1> QED BY <1>2, <1>6, <1>7, HeapAssumption DEF e

-----------------------------------------------------------------------------
\* The constructor.

LEMMA UnmappedHeap ==
    ASSUME NEW size \in 0 .. (WORD - 1)
    PROVE  LET h == Unmapped(size)
           IN  /\ HeapOK(h) /\ UsedOf(h) = {} /\ Pairs(h) = {} /\ h.shrinks = 0
               /\ h.spans = {} /\ h.fault = FALSE /\ h.allocated = 0 /\ Len(h.blocks) = 0
<1> DEFINE h == Unmapped(size)
<1>1. /\ DOMAIN h = HeapFields /\ h.blocks = <<>> /\ h.hdr = <<>>
      /\ h.size = size /\ h.allocated = 0 /\ h.free = 0 /\ h.spans = {} /\ h.frames = 0
      /\ h.shrinks = 0 /\ h.fault = FALSE
  BY DEF HeapFields, Unmapped
<1> HIDE DEF h
<1>2. /\ DOMAIN h.hdr = {} /\ DOMAIN h.blocks = {} /\ h.blocks \in Seq(Address)
      /\ Len(h.blocks) = 0
  BY <1>1
<1>3. BlocksOf(h) = {} /\ UsedOf(h) = {}
  BY <1>2 DEF BlocksOf, UsedOf
<1>4. Pairs(h) = {} /\ Covered(h) = {}
  BY <1>3 DEF Pairs, Covered
<1>5. h.hdr \in [DOMAIN h.hdr -> HeaderType]
  BY <1>1, <1>2
<1>6. ListOK(h)
  BY <1>1, <1>2, <1>3, <1>5 DEF ListOK, ListTyped, HasList, Once, PrevPointersRight, Apart, HeapFields
<1>7. SpansOK({}) /\ SpanBytes({}) = {}
  BY FS_EmptySet DEF SpansOK, SpanBytes
<1>8. Shape(h)
  <2>1. 0 \in 0 .. (WORD - 1) /\ 0 \in Nat
    BY HeapAssumption
  <2>2. h.allocated \in 0 .. (WORD - 1) /\ h.free \in 0 .. (WORD - 1) /\ h.size \in 0 .. (WORD - 1)
    BY <1>1, <2>1
  <2>3. h.fault \in BOOLEAN
    BY <1>1, Zenon
  <2>4. SpansOK(h.spans) /\ Covered(h) = SpanBytes(h.spans)
    BY <1>1, <1>4, <1>7
  <2> QED BY <1>1, <1>6, <2>1, <2>2, <2>3, <2>4 DEF Shape
<1>9. Law(h)
  BY <1>1 DEF Law
<1> QED BY <1>1, <1>2, <1>3, <1>4, <1>8, <1>9 DEF HeapOK, h

LEMMA OneBlockNoPair ==
    ASSUME NEW h, ListOK(h), Len(h.blocks) = 1
    PROVE  Pairs(h) = {}
<1> SUFFICES ASSUME NEW c \in Pairs(h) PROVE FALSE
  OBVIOUS
<1>1. c \in BlocksOf(h) /\ h.hdr[c].prev # Null
  BY PairOf
<1>2. PICK j \in 1 .. (Len(h.blocks) - 1) : TRUE
  BY <1>1, PrevPosition
<1> QED BY <1>2

LEMMA ConstructedHeap ==
    ASSUME NEW frames \in Nat
    PROVE  LET g == Constructed(ALIGN_UP(INITIAL), frames)
           IN  HeapOK(g) /\ PairsOK(g) /\ UsedOf(g) = {} /\ ~ g.fault
<1> DEFINE size == ALIGN_UP(INITIAL)
           h == Unmapped(size)
           m == size - HDR
           d == size \div FRAME_SIZE
           n == frames - d
           r == [start |-> HeapStart, size |-> size]
           g == Grown(AppendBlock(h, HeapStart, m), size, m, {r}, n)
<1>0. /\ FRAME_SIZE \in Nat /\ WORD \in Nat /\ INITIAL \in Nat \ {0} /\ HeapStart \in Nat \ {0}
      /\ HDR \in Nat /\ HDR > 0 /\ HDR < FRAME_SIZE /\ HeapStart + INITIAL + 2 * FRAME_SIZE <= WORD
  BY HeapAssumption, BlockAssumption
<1>1. /\ size \in Nat /\ size > 0 /\ size >= FRAME_SIZE /\ d \in Nat
      /\ HeapStart + size + FRAME_SIZE <= WORD
  <2>1. INITIAL \in Nat /\ INITIAL + FRAME_SIZE <= WORD
    BY <1>0
  <2>2. /\ size \in Nat /\ (size = 0 \/ size >= FRAME_SIZE) /\ d \in Nat
        /\ size >= INITIAL /\ size < INITIAL + FRAME_SIZE
    BY <2>1, AlignedUp
  <2> HIDE DEF size, d
  <2> QED BY <1>0, <2>2
<1> HIDE DEF size, d
<1>2. size \in 0 .. (WORD - 1) /\ m \in Nat /\ m \in 0 .. (WORD - 1) /\ size = HDR + m
  BY <1>0, <1>1
<1>3. /\ HeapOK(h) /\ UsedOf(h) = {} /\ Pairs(h) = {} /\ h.shrinks = 0
      /\ h.spans = {} /\ h.fault = FALSE /\ h.allocated = 0 /\ Len(h.blocks) = 0
  BY <1>2, UnmappedHeap
<1>4. CASE d > frames
  <2>1. Constructed(size, frames) = h
    BY <1>4 DEF Constructed, d
  <2>2. PairsOK(h)
    BY <1>3, FS_EmptySet DEF PairsOK
  <2> HIDE DEF h
  <2> QED BY <1>3, <2>1, <2>2 DEF size
<1>5. CASE ~ (d > frames)
  <2>1. Constructed(size, frames) = g
    <3>1. Constructed(size, frames) =
            [h EXCEPT !.blocks = <<HeapStart>>,
                      !.hdr = Put(@, HeapStart, Header(m, TRUE, Null)),
                      !.free = m,
                      !.spans = {r},
                      !.frames = n]
      BY <1>5 DEF Constructed, d
    <3>2. h.blocks = <<>> /\ h.size = size /\ DOMAIN h = HeapFields
      BY DEF Unmapped, HeapFields
    <3> HIDE DEF h, m, n, r
    <3>3. AppendBlock(h, HeapStart, m) =
            [h EXCEPT !.hdr = Put(@, HeapStart, Header(m, TRUE, Null)), !.blocks = <<HeapStart>>]
      BY <3>2 DEF AppendBlock
    <3> QED BY <3>1, <3>2, <3>3 DEF Grown, HeapFields
  <2>2. n \in Nat
    BY <1>1, <1>5
  <2>3. r.start = HeapStart /\ r.size = size
    OBVIOUS
  <2> HIDE DEF h, m, n, r
  <2>4. Shape(h) /\ SpansOK(h.spans) /\ h.spans = {}
    BY <1>3 DEF HeapOK, Shape
  <2>5. Separate(r, h.spans)
    BY <1>0, <1>1, <1>3, <2>3 DEF Separate
  <2>6. Fills(m, r) /\ Adds({r}, h.spans, r)
    BY <1>2, <2>3, <2>4 DEF Fills, Adds
  <2>7. Counts(size, {r})
    <3>1. {} \cup {r} = {r} /\ SpanBytes({}) = {}
      BY DEF SpanBytes
    <3>2. Cardinality(SpanBytes({} \cup {r})) = Cardinality(SpanBytes({})) + r.size
      BY <2>4, <2>5, SpanAdded
    <3>3. Cardinality(SpanBytes({})) = 0
      BY <3>1, FS_EmptySet
    <3>4. Cardinality(SpanBytes({r})) = size
      BY <1>1, <2>3, <3>1, <3>2, <3>3
    <3> QED BY <3>4 DEF Counts
  <2>8. Larger(g, h, r, size, m, {r}, n)
    <3> DEFINE S == {r}
    <3>1. Adds(S, h.spans, r) /\ Counts(size, S)
      BY <2>6, <2>7
    <3>2. g = Grown(AppendBlock(h, r.start, m), size, m, S, n)
      BY <2>3
    <3> HIDE DEF S
    <3>3. Larger(Grown(AppendBlock(h, r.start, m), size, m, S, n), h, r, size, m, S, n)
      BY <1>2, <2>2, <2>4, <2>5, <2>6, <3>1, GrowShape, Zenon
    <3> QED BY <3>2, <3>3 DEF S
  <2> HIDE DEF g
  <2>9. /\ Shape(g) /\ SameUsed(g, h) /\ Len(g.blocks) = 1 /\ g.allocated = 0
        /\ g.shrinks = 0 /\ ~ g.fault /\ g.size = size /\ g.free = m /\ g.spans = {r}
    BY <1>3, <2>8 DEF Larger
  <2>10. Law(g)
    <3>1. Cardinality(g.spans) = 1
      BY <2>9, FS_Singleton
    <3>2. size + HDR * 1 \in Int /\ 0 + m + 2 * HDR * 1 = size + HDR * 1
      BY <1>0, <1>1, <1>2
    <3>3. Cong(0 + m + 2 * HDR * 1, size + HDR * 1)
      BY <3>2, CongSame
    <3> QED BY <2>9, <3>1, <3>3 DEF Law
  <2>11. PairsOK(g)
    <3>1. Pairs(g) = {}
      BY <2>9, OneBlockNoPair DEF Shape
    <3> QED BY <2>9, <3>1, FS_EmptySet DEF PairsOK
  <2>12. UsedOf(g) = {}
    BY <1>3, <2>9 DEF SameUsed
  <2> QED BY <2>1, <2>9, <2>10, <2>11, <2>12 DEF HeapOK, size
<1> QED BY <1>1, <1>4, <1>5

LEMMA InitInv == Init => Inv
<1> SUFFICES ASSUME Init PROVE Inv
  OBVIOUS
<1>1. PICK frames \in Nat : heap = Constructed(ALIGN_UP(INITIAL), frames)
  BY HeapAssumption DEF Init
<1>2. HeapOK(heap) /\ PairsOK(heap) /\ UsedOf(heap) = {} /\ ~ heap.fault
  BY <1>1, ConstructedHeap
<1>3. live = {} /\ pinned = {} /\ live \cup Raw(pinned) = {}
  BY DEF Init, Raw
<1>4. Held(heap, live \cup Raw(pinned)) /\ Fits(heap, live \cup Raw(pinned))
  BY <1>2, <1>3, FS_EmptySet DEF Held, Fits
<1> QED BY <1>2, <1>3, <1>4 DEF Inv, Sound

-----------------------------------------------------------------------------
\* Each operation keeps the invariant.

LEMMA MallocStep ==
    ASSUME Inv, NEW size \in Sizes, malloc(size)
    PROVE  Inv'
<1>1. size \in Nat /\ (RequestsFit => Small(size))
  BY HeapAssumption DEF RequestsFit, Small
<1>2. PICK o \in Malloc(heap, size) : heap' = o.heap /\ live' = live \cup Holding(o.ptr, size)
  BY DEF malloc
<1>3. pinned' = pinned /\ Sound(heap, live, pinned) /\ (RequestsFit => Small(size) /\ size <= size)
  BY <1>1 DEF malloc, Inv
<1>4. Sound(o.heap, live \cup Holding(o.ptr, size), pinned)
  BY <1>1, <1>3, SoundMalloc
<1> QED BY <1>2, <1>3, <1>4 DEF Inv

\* A product that is divided back has not wrapped.
LEMMA NoOverflow ==
    ASSUME NEW num \in Nat, NEW size \in Nat, ~ Overflows(num, size)
    PROVE  num * size \in Nat /\ num * size < WORD /\ Wrap(num * size) = num * size
<1>0. WORD \in Nat /\ WORD > 0
  BY HeapAssumption
<1>1. num * size \in Nat
  OBVIOUS
<1>2. CASE num = 0
  <2>1. num * size = 0
    BY <1>2
  <2> QED BY <1>0, <2>1, WrapSmall
<1>3. CASE num # 0
  <2> DEFINE w == Wrap(num * size)
  <2>1. w \in 0 .. (WORD - 1)
    <3> DEFINE k == num * size
    <3>1. k \in Int
      BY <1>1
    <3> HIDE DEF k
    <3>2. Wrap(k) \in 0 .. (WORD - 1)
      BY <3>1, Wrapped
    <3> QED BY <3>2 DEF k
  <2>2. w \div num = size /\ num > 0
    BY <1>3 DEF Overflows
  <2> HIDE DEF w
  <2>3. w \in Nat /\ w < WORD
    BY <1>0, <2>1
  <2>4. num * (w \div num) <= w
    BY <2>2, <2>3, Z3
  <2>5. num * size <= w
    BY <2>2, <2>4
  <2>6. num * size < WORD
    BY <1>0, <1>1, <2>3, <2>5
  <2> QED BY <1>1, <2>6, WrapSmall
<1> QED BY <1>2, <1>3

LEMMA CallocStep ==
    ASSUME Inv, NEW a \in Arrays, calloc(a.num, a.size)
    PROVE  Inv'
<1> DEFINE n == a.num * a.size
<1>1. a.num \in Nat /\ a.size \in Nat
  BY HeapAssumption
<1>2. n \in Nat /\ n < WORD /\ Wrap(n) = n
  BY <1>1, NoOverflow DEF calloc
<1>3. PICK o \in Malloc(heap, Wrap(n)) : heap' = o.heap /\ live' = live \cup Holding(o.ptr, n)
  BY DEF calloc
<1>4. RequestsFit => Small(n)
  BY <1>2 DEF RequestsFit
<1> HIDE DEF n
<1>5. o \in Malloc(heap, n) /\ (RequestsFit => Small(n) /\ n <= n)
  BY <1>2, <1>4
<1>6. Sound(o.heap, live \cup Holding(o.ptr, n), pinned)
  BY <1>2, <1>5, SoundMalloc DEF Inv
<1> QED BY <1>3, <1>6 DEF Inv, calloc

LEMMA HeldByLive ==
    ASSUME NEW h, NEW L, NEW P, Sound(h, L, P), NEW r \in L
    PROVE  LET b == FromData(r.ptr)
           IN  /\ b \in UsedOf(h) /\ b \in BlocksOf(h) /\ b \in Nat
               /\ r.ptr \in Nat /\ r.ptr # Null /\ h.hdr[b].size \in Nat
               /\ r \notin Raw(P)
<1>1. ListOK(h) /\ Held(h, L \cup Raw(P)) /\ r \in L \cup Raw(P)
  BY DEF Sound, HeapOK, Shape
<1>2. LET b == FromData(r.ptr)
      IN  /\ b \in UsedOf(h) /\ b \in BlocksOf(h) /\ b \in Nat
          /\ r.ptr \in Nat /\ r.ptr # Null /\ h.hdr[b].size \in Nat
  BY <1>1, HeldBlock
<1>3. r \notin Raw(P)
  <2> SUFFICES ASSUME r \in Raw(P) PROVE FALSE
    OBVIOUS
  <2>1. PICK p \in P : r = [ptr |-> p.raw, size |-> Requested(p)]
    BY DEF Raw
  <2>2. r.ptr = p.raw
    BY <2>1
  <2> QED BY <2>2 DEF Sound
<1> QED BY <1>2, <1>3

\* The address aligned_alloc computes from what malloc returns.
LEMMA AlignedPlace ==
    ASSUME NEW h, NEW L, NEW P, Sound(h, L, P), RequestsFit, NEW r \in L, NEW k \in Nat,
           r.size = k, k >= POINTER
    PROVE  LET ptr == AlignedAddress(r.ptr)
           IN  r.ptr + POINTER <= ptr /\ ptr < r.ptr + POINTER + FRAME_SIZE
<1> DEFINE b == FromData(r.ptr)
           z == h.hdr[b].size
           a == r.ptr + POINTER
<1>0. /\ POINTER \in Nat /\ WORD \in Nat /\ FRAME_SIZE \in Nat /\ FRAME_SIZE > 0
      /\ HDR \in Nat
  BY HeapAssumption, BlockAssumption
<1>1. b \in BlocksOf(h) /\ b \in Nat /\ r.ptr \in Nat /\ z \in Nat
  BY HeldByLive
<1>2. BlockEnd(h, b) + FRAME_SIZE <= WORD
  BY <1>1, BlockBelowTop DEF Sound, HeapOK
<1>3. r.ptr = Data(b)
  BY <1>1, HeaderAndData
<1>4. BlockEnd(h, b) = r.ptr + z
  BY <1>3 DEF BlockEnd
<1>5. k <= z
  BY DEF Sound, Fits
<1> HIDE DEF b, z
<1>6. a \in Nat /\ a + FRAME_SIZE <= WORD
  BY <1>0, <1>1, <1>2, <1>4, <1>5
<1> HIDE DEF a
<1>7. Wrap(a) = a
  BY <1>0, <1>6, WrapSmall
<1>8. a <= ALIGN_UP(a) /\ ALIGN_UP(a) < a + FRAME_SIZE
  BY <1>6, AlignedUp
<1> QED BY <1>7, <1>8 DEF AlignedAddress, a

LEMMA AlignedStep ==
    ASSUME Inv, NEW alignment \in Alignments, NEW size \in Sizes, aligned_alloc(alignment, size)
    PROVE  Inv'
<1> DEFINE k == size + alignment + POINTER
           n == Wrap(k)
<1>0. size \in Nat /\ alignment \in Nat /\ POINTER \in Nat /\ WORD \in Nat /\ FRAME_SIZE \in Nat
  BY HeapAssumption
<1>1. k \in Nat /\ size <= k
  BY <1>0
<1>2. RequestsFit => Small(k)
  BY DEF RequestsFit
<1>3. PICK o \in Malloc(heap, n) :
        /\ heap' = o.heap
        /\ pinned' = IF o.ptr = Null THEN pinned
                     ELSE pinned \cup {[raw |-> o.ptr, ptr |-> AlignedAddress(o.ptr),
                                        size |-> size, alignment |-> alignment]}
  BY DEF aligned_alloc
<1>4. live' = live /\ Sound(heap, live, pinned)
  BY DEF aligned_alloc, Inv
<1> HIDE DEF k
<1>5. n \in Nat /\ (RequestsFit => Small(n) /\ size <= n /\ n = k)
  <2>1. n \in Nat
    BY <1>0, <1>1, Wrapped
  <2>2. ASSUME RequestsFit PROVE n = k
    <3>1. k + 3 * FRAME_SIZE <= WORD /\ FRAME_SIZE > 0
      BY <1>2, <2>2, HeapAssumption DEF Small
    <3>2. k < WORD
      BY <1>0, <1>1, <3>1
    <3> QED BY <1>1, <3>2, WrapSmall
  <2> QED BY <1>1, <1>2, <2>1, <2>2
<1> HIDE DEF n
<1>6. CASE o.ptr = Null
  <2>1. Sound(o.heap, live \cup Holding(o.ptr, size), pinned)
    BY <1>0, <1>4, <1>5, SoundMalloc
  <2>2. live \cup Holding(o.ptr, size) = live
    BY <1>6 DEF Holding
  <2> QED BY <1>3, <1>4, <1>6, <2>1, <2>2 DEF Inv
<1>7. CASE o.ptr # Null
  <2> DEFINE new == [raw |-> o.ptr, ptr |-> AlignedAddress(o.ptr),
                     size |-> size, alignment |-> alignment]
  <2>1. o.ptr \in Nat
    <3>1. Served(o, heap, n)
      BY <1>4, <1>5, MallocServes DEF Sound
    <3> QED BY <1>7, <3>1 DEF Served
  <2>2. AlignedAddress(o.ptr) \in Nat /\ (RequestsFit => Placed(new))
    <3> DEFINE q == Wrap(o.ptr + POINTER)
               r == Allocation(o.ptr, k)
    <3>1. q \in Nat
      BY <1>0, <2>1, Wrapped
    <3>2. ALIGN_UP(q) \in Nat
      <4> HIDE DEF q
      <4> QED BY <3>1, AlignedUp
    <3>3. ASSUME RequestsFit PROVE Placed(new)
      <4>1. Sound(o.heap, live \cup Holding(o.ptr, k), pinned)
        BY <1>1, <1>4, <1>5, SoundMalloc, <3>3
      <4>2. r \in live \cup Holding(o.ptr, k)
        BY <1>7, HoldingOne
      <4>3. r.ptr = o.ptr /\ r.size = k
        BY DEF Allocation
      <4> HIDE DEF r
      <4>4. k >= POINTER
        BY <1>0 DEF k
      <4>5. /\ o.ptr + POINTER <= AlignedAddress(o.ptr)
            /\ AlignedAddress(o.ptr) < o.ptr + POINTER + FRAME_SIZE
        BY <1>1, <3>3, <4>1, <4>2, <4>3, <4>4, AlignedPlace
      <4> QED BY <4>5 DEF Placed
    <3> QED BY <3>2, <3>3 DEF AlignedAddress
  <2>3. new \in Pinned /\ new.raw = o.ptr /\ Requested(new) = k
    BY <1>0, <2>1, <2>2 DEF Pinned, Requested, k
  <2>4. pinned' = pinned \cup {new}
    BY <1>3, <1>7
  <2> HIDE DEF new
  <2>5. Sound(o.heap, live, pinned \cup {new})
    BY <1>4, <1>5, <1>7, <2>2, <2>3, SoundAligned
  <2> QED BY <1>3, <1>4, <2>4, <2>5 DEF Inv
<1> QED BY <1>6, <1>7

\* free of r among the allocations M that r belongs to.
LEMMA SoundRelease ==
    ASSUME NEW h, HeapOK(h), PairsOK(h), NEW M, Held(h, M), NEW r \in M
    PROVE  LET g == Release(h, FromData(r.ptr))
           IN  /\ HeapOK(g) /\ PairsOK(g) /\ g.fault = h.fault
               /\ Held(g, M \ {r}) /\ (Fits(h, M) => Fits(g, M \ {r}))
<1> DEFINE b == FromData(r.ptr)
           g == Release(h, b)
<1>1. b \in BlocksOf(h) /\ ListOK(h) /\ h.shrinks \in Nat
  BY HeldBlock DEF HeapOK, Shape
<1> HIDE DEF b
<1>2. /\ HeapOK(g) /\ Kept(g, h) /\ Pairs(g) \subseteq Pairs(h)
      /\ UsedOf(g) = UsedOf(h) \ {b}
      /\ \A c \in UsedOf(h) \ {b} : g.hdr[c].size = h.hdr[c].size
  BY <1>1, ReleaseHeap
<1> HIDE DEF g
<1>3. Held(g, M \ {r}) /\ (Fits(h, M) => Fits(g, M \ {r}))
  BY <1>2, HeldRemove DEF b
<1>4. g.shrinks = h.shrinks /\ g.fault = h.fault
  BY <1>2 DEF Kept
<1>5. PairsOK(g)
  BY <1>1, <1>2, <1>4, PairsFewer
<1> QED BY <1>2, <1>3, <1>4, <1>5 DEF g, b

LEMMA FreeStep ==
    ASSUME Inv, NEW r \in live, free(r)
    PROVE  Inv'
<1> DEFINE M == live \cup Raw(pinned)
           g == Release(heap, FromData(r.ptr))
<1>1. /\ Sound(heap, live, pinned) /\ HeapOK(heap) /\ PairsOK(heap) /\ Held(heap, M)
      /\ (RequestsFit => Fits(heap, M) /\ ~ heap.fault) /\ r \in M
  BY DEF Inv, Sound
<1>2. heap' = g /\ live' = live \ {r} /\ pinned' = pinned
  BY DEF free
<1>3. M \ {r} = (live \ {r}) \cup Raw(pinned)
  BY <1>1, HeldByLive
<1> HIDE DEF M
<1>4. /\ HeapOK(g) /\ PairsOK(g) /\ g.fault = heap.fault
      /\ Held(g, M \ {r}) /\ (Fits(heap, M) => Fits(g, M \ {r}))
  BY <1>1, SoundRelease
<1> HIDE DEF g
<1>5. /\ pinned \subseteq Pinned /\ (RequestsFit => \A p \in pinned : Placed(p))
      /\ \A s \in live \ {r}, p \in pinned : s.ptr # p.raw
  BY <1>1 DEF Sound
<1>6. RequestsFit => Fits(g, M \ {r}) /\ ~ g.fault
  BY <1>1, <1>4
<1>7. Sound(g, live \ {r}, pinned)
  BY <1>3, <1>4, <1>5, <1>6 DEF Sound
<1> QED BY <1>2, <1>7 DEF Inv

\* A header that belongs to no allocation says "free", so that nothing changes.
LEMMA FreeAgainStep ==
    ASSUME Inv, NEW b \in DOMAIN heap.hdr, freeAgain(b)
    PROVE  Inv'
<1>1. heap' = Release(heap, b) /\ live' = live /\ pinned' = pinned
  BY DEF freeAgain
<1>2. b \notin UsedOf(heap)
  <2> SUFFICES ASSUME b \in UsedOf(heap) PROVE FALSE
    OBVIOUS
  <2>1. PICK s \in live \cup Raw(pinned) : FromData(s.ptr) = b
    BY DEF Inv, Sound, Held
  <2>2. CASE s \in live
    BY <2>1, <2>2 DEF freeAgain
  <2>3. CASE s \in Raw(pinned)
    <3>1. PICK p \in pinned : s = [ptr |-> p.raw, size |-> Requested(p)]
      BY <2>3 DEF Raw
    <3>2. s.ptr = p.raw
      BY <3>1
    <3> QED BY <2>1, <3>2 DEF freeAgain
  <2> QED BY <2>1, <2>2, <2>3
<1>3. heap.hdr[b].is_free
  BY <1>2 DEF UsedOf
<1>4. heap' = heap
  BY <1>1, <1>3 DEF Release
<1> QED BY <1>1, <1>4 DEF Inv, Sound

\* The size realloc rounds a request up to.
LEMMA RoundedUp ==
    ASSUME NEW n \in Sizes
    PROVE  LET size == ALIGN_UP(n)
           IN  /\ n \in Nat /\ size \in Nat
               /\ RequestsFit => n <= size /\ Small(size)
<1> DEFINE size == ALIGN_UP(n)
<1>0. n \in Nat /\ FRAME_SIZE \in Nat /\ WORD \in Nat
  BY HeapAssumption
<1>1. size \in Nat /\ (n + FRAME_SIZE <= WORD => size >= n /\ size < n + FRAME_SIZE)
  BY <1>0, AlignedUp
<1>2. RequestsFit => n + 4 * FRAME_SIZE <= WORD
  BY DEF RequestsFit
<1> HIDE DEF size
<1>3. RequestsFit => n <= size /\ Small(size)
  BY <1>0, <1>1, <1>2 DEF Small
<1> QED BY <1>0, <1>1, <1>3 DEF size

\* realloc within the block of r.
LEMMA SoundShrink ==
    ASSUME NEW h, NEW L, NEW P, Sound(h, L, P), NEW r \in L, NEW n \in Nat, NEW size \in Nat,
           RequestsFit => n <= size, size <= h.hdr[FromData(r.ptr)].size
    PROVE  Sound(Shrink(h, FromData(r.ptr), size), (L \ {r}) \cup Holding(r.ptr, n), P)
<1> DEFINE b == FromData(r.ptr)
           g == Shrink(h, b, size)
           M == L \cup Raw(P)
           new == Allocation(r.ptr, n)
           N == (L \ {r}) \cup {new}
           K == (M \ {r}) \cup {new}
<1>1. /\ HeapOK(h) /\ PairsOK(h) /\ Held(h, M) /\ r \in M
      /\ (RequestsFit => Fits(h, M) /\ ~ h.fault)
  BY DEF Sound
<1>2. b \in UsedOf(h) /\ r.ptr \in Nat /\ r.ptr # Null /\ r \notin Raw(P) /\ size <= h.hdr[b].size
  BY HeldByLive
<1>3. (L \ {r}) \cup Holding(r.ptr, n) = N
  BY <1>2, HoldingOne
<1>4. N \cup Raw(P) = K
  BY <1>2
<1>5. new.ptr = r.ptr
  BY DEF Allocation
<1>6. \A s \in N, p \in P : s.ptr # p.raw
  <2> HIDE DEF new
  <2> QED BY <1>5 DEF Sound
<1>7. b = FromData(r.ptr)
  OBVIOUS
<1> HIDE DEF b, M
<1>8. /\ HeapOK(g) /\ PairsOK(g) /\ g.fault = h.fault /\ UsedOf(g) = UsedOf(h)
      /\ g.hdr[b].size \in Nat /\ g.hdr[b].size >= size
      /\ \A c \in UsedOf(h) \ {b} : g.hdr[c].size = h.hdr[c].size
  BY <1>1, <1>2, ShrinkHeap
<1> HIDE DEF g
<1>9. Held(g, K) /\ (Fits(h, M) /\ g.hdr[b].size >= n => Fits(g, K))
  BY <1>1, <1>2, <1>7, <1>8, HeldReplace
<1>10. RequestsFit => g.hdr[b].size >= n
  BY <1>8
<1> HIDE DEF K, N, new
<1>11. RequestsFit => Fits(g, K) /\ ~ g.fault
  BY <1>1, <1>8, <1>9, <1>10
<1>12. P \subseteq Pinned /\ (RequestsFit => \A p \in P : Placed(p))
  BY DEF Sound
<1>13. Sound(g, N, P)
  BY <1>4, <1>6, <1>8, <1>9, <1>11, <1>12 DEF Sound
<1> QED BY <1>3, <1>13 DEF g, b

\* realloc that moves to another block: the old one is released afterwards.
LEMMA SoundMove ==
    ASSUME NEW h, NEW L, NEW P, Sound(h, L, P), NEW r \in L, NEW n \in Nat, NEW size \in Nat,
           RequestsFit => Small(size) /\ n <= size, NEW o \in Malloc(h, size), o.ptr # Null
    PROVE  Sound(Release(o.heap, FromData(r.ptr)), (L \ {r}) \cup Holding(o.ptr, n), P)
<1> DEFINE N == L \cup Holding(o.ptr, n)
           M == N \cup Raw(P)
           x == o.heap
           g == Release(x, FromData(r.ptr))
<1>1. Sound(x, N, P)
  BY SoundMalloc
<1>2. o.ptr # r.ptr
  <2> DEFINE A == L \cup Raw(P)
  <2>1. HeapOK(h) /\ Held(h, A) /\ r \in A
    BY DEF Sound
  <2>2. Served(o, h, size)
    BY <2>1, MallocServes
  <2> HIDE DEF A
  <2>3. \A s \in A : s.ptr # o.ptr
    BY <2>1, <2>2, ServedHeld
  <2> QED BY <2>1, <2>3
<1>3. r \notin Holding(o.ptr, n)
  BY <1>2 DEF Holding
<1>4. (L \ {r}) \cup Holding(o.ptr, n) = N \ {r} /\ r \in N
  BY <1>3
<1> HIDE DEF N
<1>5. /\ HeapOK(x) /\ PairsOK(x) /\ Held(x, M) /\ r \in M
      /\ (RequestsFit => Fits(x, M) /\ ~ x.fault)
  BY <1>1, <1>4 DEF Sound
<1>6. r \notin Raw(P)
  BY <1>1, <1>4, HeldByLive
<1>7. M \ {r} = (N \ {r}) \cup Raw(P)
  BY <1>6
<1> HIDE DEF M, x
<1>8. /\ HeapOK(g) /\ PairsOK(g) /\ g.fault = x.fault
      /\ Held(g, M \ {r}) /\ (Fits(x, M) => Fits(g, M \ {r}))
  BY <1>5, SoundRelease
<1> HIDE DEF g
<1>9. /\ P \subseteq Pinned /\ (RequestsFit => \A p \in P : Placed(p))
      /\ \A s \in N \ {r}, p \in P : s.ptr # p.raw
  BY <1>1 DEF Sound
<1>10. RequestsFit => Fits(g, M \ {r}) /\ ~ g.fault
  BY <1>5, <1>8
<1>11. Sound(g, N \ {r}, P)
  BY <1>7, <1>8, <1>9, <1>10 DEF Sound
<1> QED BY <1>4, <1>11 DEF g, x

LEMMA ReallocStep ==
    ASSUME Inv, NEW r \in live, NEW new_size \in Sizes, realloc(r, new_size)
    PROVE  Inv'
<1> DEFINE b == FromData(r.ptr)
           size == ALIGN_UP(new_size)
<1>1. Sound(heap, live, pinned) /\ pinned' = pinned
  BY DEF Inv, realloc
<1>2. new_size \in Nat /\ size \in Nat /\ (RequestsFit => new_size <= size /\ Small(size))
  BY RoundedUp
<1>3. IF size <= heap.hdr[b].size
        THEN heap' = Shrink(heap, b, size) /\ live' = (live \ {r}) \cup Holding(r.ptr, new_size)
        ELSE \E o \in Malloc(heap, size) :
               IF o.ptr = Null
                 THEN heap' = o.heap /\ live' = live
                 ELSE /\ heap' = Release(o.heap, b)
                      /\ live' = (live \ {r}) \cup Holding(o.ptr, new_size)
  BY DEF realloc
<1> HIDE DEF size
<1>4. CASE size <= heap.hdr[b].size
  <2>1. Sound(Shrink(heap, b, size), (live \ {r}) \cup Holding(r.ptr, new_size), pinned)
    BY <1>1, <1>2, <1>4, SoundShrink
  <2> QED BY <1>1, <1>3, <1>4, <2>1 DEF Inv
<1>5. ASSUME NEW o \in Malloc(heap, size), o.ptr = Null, heap' = o.heap, live' = live
      PROVE  Inv'
  <2>1. Sound(o.heap, live \cup Holding(o.ptr, new_size), pinned)
    BY <1>1, <1>2, SoundMalloc
  <2>2. live \cup Holding(o.ptr, new_size) = live
    BY <1>5 DEF Holding
  <2> QED BY <1>1, <1>5, <2>1, <2>2 DEF Inv
<1>6. ASSUME NEW o \in Malloc(heap, size), o.ptr # Null, heap' = Release(o.heap, b),
             live' = (live \ {r}) \cup Holding(o.ptr, new_size)
      PROVE  Inv'
  <2>1. Sound(Release(o.heap, b), (live \ {r}) \cup Holding(o.ptr, new_size), pinned)
    BY <1>1, <1>2, <1>6, SoundMove
  <2> QED BY <1>1, <1>6, <2>1 DEF Inv
<1> QED BY <1>3, <1>4, <1>5, <1>6

-----------------------------------------------------------------------------
LEMMA InvNext == Inv /\ [Next]_vars => Inv'
<1> SUFFICES ASSUME Inv, [Next]_vars PROVE Inv'
  OBVIOUS
<1>1. ASSUME NEW size \in Sizes, malloc(size) PROVE Inv'
  BY <1>1, MallocStep
<1>2. ASSUME NEW r \in live, free(r) PROVE Inv'
  BY <1>2, FreeStep
<1>3. ASSUME NEW b \in DOMAIN heap.hdr, freeAgain(b) PROVE Inv'
  BY <1>3, FreeAgainStep
<1>4. ASSUME NEW r \in live, NEW size \in Sizes, realloc(r, size) PROVE Inv'
  BY <1>4, ReallocStep
<1>5. ASSUME NEW a \in Arrays, calloc(a.num, a.size) PROVE Inv'
  BY <1>5, CallocStep
<1>6. ASSUME NEW alignment \in Alignments, NEW size \in Sizes, aligned_alloc(alignment, size)
      PROVE  Inv'
  BY <1>6, AlignedStep
<1>7. CASE UNCHANGED vars
  BY <1>7 DEF vars, Inv, Sound
<1> QED BY <1>1, <1>2, <1>3, <1>4, <1>5, <1>6, <1>7 DEF Next

\* The heap object and what its clients hold agree, after any calls.
THEOREM Invariance == Spec => []Inv
BY InitInv, InvNext, PTL DEF Spec

-----------------------------------------------------------------------------
\* Whatever is asked of the heap, wrapping requests included, its object, its
\* headers and the allocations have their types: the three size_t counters of
\* heap.hpp stay in a word.
THEOREM TypeCorrect == Spec => []TypeOK
<1>1. Inv => TypeOK
  <2> SUFFICES ASSUME Inv PROVE TypeOK
    OBVIOUS
  <2>1. Shape(heap) /\ ListTyped(heap) /\ live \subseteq live \cup Raw(pinned)
    BY DEF Inv, Sound, HeapOK, Shape, ListOK
  <2>2. HeadersTyped(heap)
    BY <2>1 DEF HeadersTyped, ListTyped, Address, HeaderType
  <2>3. /\ live \subseteq [ptr : Nat, size : Nat]
        /\ pinned \subseteq [raw : Nat, ptr : Nat, size : Nat, alignment : Nat]
    BY DEF Inv, Sound, Held, Pinned
  <2> QED BY <2>1, <2>2, <2>3 DEF TypeOK, Shape
<1> QED BY <1>1, Invariance, PTL

\* Whatever is asked of the heap, its blocks tile what is mapped, heap_size_
\* counts it and the list reads the same both ways: no sequence of splits,
\* merges and expansions (heap.cpp:107-230) leaks a byte or gives one away
\* twice.
THEOREM HeapAlwaysTiled == Spec => []Tiling
<1>1. Inv => Tiling
  <2> SUFFICES ASSUME Inv PROVE Tiling
    OBVIOUS
  <2>1. Shape(heap) /\ ListOK(heap) /\ ListTyped(heap)
    BY DEF Inv, Sound, HeapOK, Shape, ListOK
  <2>2. Mapped = SpanBytes(heap.spans)
    BY DEF Mapped, SpanBytes
  <2>3. Tiles(heap, Mapped)
    BY <2>1, <2>2 DEF Tiles, Shape, Covered, ListOK, Apart
  <2>4. heap.blocks # <<>> => heap.size = Cardinality(Mapped)
    BY <2>1, <2>2, BlocksWhereMapped DEF Shape
  <2> QED BY <2>1, <2>3, <2>4 DEF Tiling, ListLinked, ListOK
<1> QED BY <1>1, Invariance, PTL

\* total_allocated_ and total_free_ drift by two headers for each block beyond
\* one per region, modulo the word, whatever is asked (heap.cpp:186, 209, 227).
THEOREM StatisticsAlwaysDrift == Spec => []StatisticsLaw
<1>1. Inv => StatisticsLaw
  <2> SUFFICES ASSUME Inv, heap.blocks # <<>>
               PROVE  Wrap(heap.allocated + heap.free + 2 * HDR * Cardinality(heap.spans))
                        = Wrap(heap.size + HDR * Len(heap.blocks))
    BY DEF StatisticsLaw
  <2>1. Shape(heap) /\ Law(heap)
    BY DEF Inv, Sound, HeapOK
  <2>2. heap.spans # {}
    BY <2>1, BlocksWhereMapped
  <2>3. Cong(heap.allocated + heap.free + 2 * HDR * Cardinality(heap.spans),
             heap.size + HDR * Len(heap.blocks))
    BY <2>1, <2>2 DEF Law
  <2>4. /\ heap.allocated + heap.free + 2 * HDR * Cardinality(heap.spans) \in Int
        /\ heap.size + HDR * Len(heap.blocks) \in Int
    <3> DEFINE n == Cardinality(heap.spans)
               m == Len(heap.blocks)
    <3>1. n \in Nat /\ m \in Nat
      BY <2>1, FS_CardinalityType, LenProperties DEF Shape, SpansOK, ListOK, ListTyped
    <3> HIDE DEF n, m
    <3>2. HDR * m \in Int /\ 2 * HDR * n \in Int
      BY <3>1, ProductsInt
    <3>3. heap.allocated + heap.free \in Int /\ heap.size \in Int
      BY <2>1, CountsInt
    <3>4. heap.allocated + heap.free + 2 * HDR * n \in Int /\ heap.size + HDR * m \in Int
      BY <3>2, <3>3
    <3> QED BY <3>4 DEF n, m
  <2> QED BY <2>3, <2>4, CongWrap
<1> QED BY <1>1, Invariance, PTL

\* Free neighbours that touch are there only for a split of realloc each
\* (heap.cpp:320-328): free and expand_heap leave none behind.
THEOREM AlwaysCoalesced == Spec => []CoalescedUpToShrinks
<1>1. Inv => CoalescedUpToShrinks
  <2> SUFFICES ASSUME Inv PROVE CoalescedUpToShrinks
    OBVIOUS
  <2>1. ListOK(heap) /\ PairsOK(heap)
    BY DEF Inv, Sound, HeapOK, Shape
  <2>2. FreePairs = {i \in 1 .. (Len(heap.blocks) - 1) :
                       /\ heap.hdr[heap.blocks[i]].is_free /\ heap.hdr[heap.blocks[i + 1]].is_free
                       /\ BlockEnd(heap, heap.blocks[i]) = heap.blocks[i + 1]}
    BY DEF FreePairs
  <2>3. Cardinality(FreePairs) = Cardinality(Pairs(heap))
    BY <2>1, <2>2, PairsCounted
  <2> QED BY <2>1, <2>3 DEF PairsOK, CoalescedUpToShrinks
<1> QED BY <1>1, Invariance, PTL

\* When no request wraps around, expand_heap never walks from a null
\* first_block_ (heap.cpp:129-135).
THEOREM NeverFaults ==
    ASSUME RequestsFit
    PROVE  Spec => []NoFault
<1>1. Inv => NoFault
  BY DEF Inv, Sound, NoFault
<1> QED BY <1>1, Invariance, PTL

\* When no request wraps around, every client has a block of its own that is
\* as big as what malloc was asked for, and no other header says "used": what a
\* client holds is never handed out again, and a second free of a pointer is
\* rejected (heap.cpp:279-285).  The bytes behind an address of aligned_alloc
\* run past the block by less than a page minus the alignment, and so never for
\* an alignment of a page or more (heap.cpp:370-386).
THEOREM UsedAlwaysHeld ==
    ASSUME RequestsFit
    PROVE  Spec => []UsedIsHeld
<1>1. Inv => UsedIsHeld
  <2> SUFFICES ASSUME Inv PROVE UsedIsHeld
    OBVIOUS
  <2> DEFINE M == live \cup Raw(pinned)
  <2>1. Held(heap, M) /\ Fits(heap, M) /\ UsedOf(heap) \subseteq BlocksOf(heap)
    BY DEF Inv, Sound, HeapOK, Shape, ListOK
  <2>2. M = live \cup {[ptr |-> p.raw, size |-> Requested(p)] : p \in pinned}
    BY DEF Raw
  <2> HIDE DEF M
  <2>3. UsedOf(heap) = {FromData(r.ptr) : r \in M} /\ Cardinality(UsedOf(heap)) = Cardinality(M)
    BY <2>1, HeldCardinality
  <2>4. BlocksMatch(heap, M)
    BY <2>1, <2>3 DEF BlocksMatch, Fits
  <2>5. \A r \in live, p \in pinned : r.ptr # p.raw
    BY DEF Inv, Sound
  <2>6. ASSUME NEW p \in pinned
        PROVE  /\ p.raw + POINTER <= p.ptr
               /\ p.ptr + p.size + p.alignment < BlockEnd(heap, FromData(p.raw)) + FRAME_SIZE
    <3> DEFINE b == FromData(p.raw)
               z == heap.hdr[b].size
               s == Allocation(p.raw, Requested(p))
    <3>1. p \in Pinned /\ Placed(p)
      BY DEF Inv, Sound
    <3>2. s \in M /\ s.ptr = p.raw /\ s.size = Requested(p)
      BY <2>2 DEF Allocation
    <3>3. ListOK(heap)
      BY DEF Inv, Sound, HeapOK, Shape
    <3> HIDE DEF s
    <3>4. b \in Nat /\ z \in Nat /\ Requested(p) <= z
      BY <2>1, <3>2, <3>3, HeldBlock DEF Fits
    <3>5. p.raw = Data(b)
      BY <3>1, <3>4, HeaderAndData DEF Pinned
    <3>6. BlockEnd(heap, b) = p.raw + z
      BY <3>5 DEF BlockEnd
    <3> HIDE DEF b, z
    <3>7. p.ptr + p.size + p.alignment < BlockEnd(heap, b) + FRAME_SIZE
      BY <3>1, <3>4, <3>6, HeapAssumption DEF Pinned, Placed, Requested
    <3> QED BY <3>1, <3>7 DEF Placed, b
  <2> QED BY <2>2, <2>4, <2>5, <2>6 DEF UsedIsHeld
<1> QED BY <1>1, Invariance, PTL

=============================================================================
