-------------------------- MODULE BlockListProofs --------------------------
(***************************************************************************)
(* What the operations on a block list keep, for every list: lemmas that   *)
(* the proofs about both heaps rest on.                                    *)
(***************************************************************************)
EXTENDS BlockList, SequenceTheorems, FiniteSetTheorems, WellFoundedInduction, TLAPS

Address == Nat \ {0}
HeaderType == [size : Nat, is_free : BOOLEAN, prev : Nat]

\* The bytes of the blocks of the list.
Covered(h) == UNION {b .. (BlockEnd(h, b) - 1) : b \in BlocksOf(h)}

\* h has a block list.
HasList(h) == "hdr" \in DOMAIN h /\ "blocks" \in DOMAIN h

ListTyped(h) ==
    /\ HasList(h)
    /\ h.blocks \in Seq(Address)
    /\ h.hdr \in [DOMAIN h.hdr -> HeaderType]
    /\ BlocksOf(h) \subseteq DOMAIN h.hdr

\* No block is in the list twice.
Once(h) == \A i, j \in DOMAIN h.blocks : h.blocks[i] = h.blocks[j] => i = j

\* No byte belongs to two blocks.
Apart(h) == \A b, c \in BlocksOf(h) : b # c => BlockEnd(h, b) <= c \/ BlockEnd(h, c) <= b

ListOK(h) ==
    /\ ListTyped(h)
    /\ Once(h)
    /\ PrevPointersRight(h)
    /\ Apart(h)
    /\ UsedOf(h) \subseteq BlocksOf(h)

-----------------------------------------------------------------------------
\* Numbers and sequences.

LEMMA LeastNat ==
    ASSUME NEW T, T \subseteq Nat, T # {}
    PROVE  \E x \in T : \A y \in T : x <= y
<1>1. PICK x \in T : \A y \in T : ~ (<<y, x>> \in OpToRel(<, Nat))
  BY WFMin, NatLessThanWellFounded
<1>2. \A y \in T : ~ (y < x)
  BY <1>1 DEF OpToRel
<1> QED BY <1>2

\* A sequence with x after position i, and without its element i + 1.
WithAfter(s, i, x) == SubSeq(s, 1, i) \o <<x>> \o SubSeq(s, i + 1, Len(s))
Without(s, i) == SubSeq(s, 1, i) \o SubSeq(s, i + 2, Len(s))

\* t has the elements of s, and x in addition after the first i.
HasAfter(t, s, i, x, S) ==
    /\ t \in Seq(S) /\ Len(t) = Len(s) + 1 /\ DOMAIN t = 1 .. (Len(s) + 1)
    /\ \A j \in 1 .. i : t[j] = s[j]
    /\ t[i + 1] = x
    /\ \A j \in (i + 2) .. (Len(s) + 1) : t[j] = s[j - 1]

LEMMA WithAfterElements ==
    ASSUME NEW S, NEW s \in Seq(S), NEW i \in 0 .. Len(s), NEW x \in S
    PROVE  HasAfter(WithAfter(s, i, x), s, i, x, S)
<1> DEFINE u == SubSeq(s, 1, i)
           v == SubSeq(s, i + 1, Len(s))
           ux == u \o <<x>>
           t == WithAfter(s, i, x)
<1>0. Len(s) \in Nat /\ i \in Nat /\ i <= Len(s) /\ \A j \in 1 .. Len(s) : s[j] \in S
  BY LenProperties, ElementOfSeq
<1>1. u \in Seq(S) /\ Len(u) = i /\ \A j \in 1 .. i : u[j] = s[j]
  BY <1>0, SubSeqProperties
<1>2. v \in Seq(S) /\ Len(v) = Len(s) - i /\ \A j \in 1 .. (Len(s) - i) : v[j] = s[i + j]
  BY <1>0, SubSeqProperties
<1>3. <<x>> \in Seq(S) /\ Len(<<x>>) = 1 /\ <<x>>[1] = x
  OBVIOUS
<1> HIDE DEF u, v
<1>4. /\ ux \in Seq(S) /\ Len(ux) = i + 1
      /\ \A j \in 1 .. (i + 1) : ux[j] = IF j <= i THEN s[j] ELSE x
  BY <1>0, <1>1, <1>3, ConcatProperties
<1>5. t = ux \o v
  BY DEF u, v, WithAfter
<1> HIDE DEF ux, t
<1>6. /\ t \in Seq(S) /\ Len(t) = Len(ux) + Len(v)
      /\ \A j \in 1 .. (Len(ux) + Len(v)) :
           t[j] = IF j <= Len(ux) THEN ux[j] ELSE v[j - Len(ux)]
  BY <1>2, <1>4, <1>5, ConcatProperties
<1>7. /\ Len(t) = Len(s) + 1
      /\ \A j \in 1 .. (Len(s) + 1) : t[j] = IF j <= i + 1 THEN ux[j] ELSE v[j - (i + 1)]
  <2>1. Len(ux) = i + 1 /\ Len(ux) + Len(v) = Len(s) + 1
    BY <1>0, <1>2, <1>4
  <2> QED BY <1>6, <2>1
<1>8. \A j \in 1 .. i : t[j] = s[j]
  BY <1>0, <1>4, <1>7
<1>9. t[i + 1] = x
  BY <1>0, <1>4, <1>7
<1>10. \A j \in (i + 2) .. (Len(s) + 1) : t[j] = s[j - 1]
  <2> TAKE j \in (i + 2) .. (Len(s) + 1)
  <2>1. t[j] = v[j - (i + 1)] /\ j - (i + 1) \in 1 .. (Len(s) - i)
    BY <1>0, <1>7
  <2>2. i + (j - (i + 1)) = j - 1
    BY <1>0
  <2> QED BY <1>2, <2>1, <2>2
<1>11. DOMAIN t = 1 .. (Len(s) + 1)
  BY <1>6, <1>7, LenProperties
<1>12. HasAfter(t, s, i, x, S)
  BY <1>6, <1>7, <1>8, <1>9, <1>10, <1>11 DEF HasAfter
<1> QED BY <1>12 DEF t

LEMMA WithoutElements ==
    ASSUME NEW S, NEW s \in Seq(S), NEW i \in 0 .. (Len(s) - 1)
    PROVE  /\ Without(s, i) \in Seq(S)
           /\ Len(Without(s, i)) = Len(s) - 1
           /\ DOMAIN Without(s, i) = 1 .. (Len(s) - 1)
           /\ \A j \in 1 .. i : Without(s, i)[j] = s[j]
           /\ \A j \in (i + 1) .. (Len(s) - 1) : Without(s, i)[j] = s[j + 1]
<1> DEFINE u == SubSeq(s, 1, i)
           v == SubSeq(s, i + 2, Len(s))
           t == Without(s, i)
<1>0. Len(s) \in Nat /\ i \in Nat /\ i < Len(s) /\ \A j \in 1 .. Len(s) : s[j] \in S
  BY LenProperties, ElementOfSeq
<1>1. u \in Seq(S) /\ Len(u) = i /\ \A j \in 1 .. i : u[j] = s[j]
  BY <1>0, SubSeqProperties
<1>2. /\ v \in Seq(S) /\ Len(v) = Len(s) - i - 1
      /\ \A j \in 1 .. (Len(s) - i - 1) : v[j] = s[i + 1 + j]
  BY <1>0, SubSeqProperties
<1>3. t = u \o v
  BY DEF Without
<1> HIDE DEF u, v, t
<1>4. /\ t \in Seq(S) /\ Len(t) = Len(u) + Len(v)
      /\ \A j \in 1 .. (Len(u) + Len(v)) :
           t[j] = IF j <= Len(u) THEN u[j] ELSE v[j - Len(u)]
  <2>1. u \in Seq(S) /\ v \in Seq(S)
    BY <1>1, <1>2
  <2> QED BY <1>3, <2>1, ConcatProperties
<1>5. /\ Len(t) = Len(s) - 1
      /\ \A j \in 1 .. (Len(s) - 1) : t[j] = IF j <= i THEN u[j] ELSE v[j - i]
  <2>1. Len(u) = i /\ Len(u) + Len(v) = Len(s) - 1
    BY <1>0, <1>1, <1>2
  <2> QED BY <1>4, <2>1
<1>6. \A j \in 1 .. i : t[j] = s[j]
  BY <1>0, <1>1, <1>5
<1>7. \A j \in (i + 1) .. (Len(s) - 1) : t[j] = s[j + 1]
  <2> TAKE j \in (i + 1) .. (Len(s) - 1)
  <2>1. t[j] = v[j - i] /\ j - i \in 1 .. (Len(s) - i - 1)
    BY <1>0, <1>5
  <2>2. i + 1 + (j - i) = j + 1
    BY <1>0
  <2> QED BY <1>2, <2>1, <2>2
<1>8. DOMAIN t = 1 .. (Len(s) - 1)
  BY <1>4, <1>5, LenProperties
<1> QED BY <1>4, <1>5, <1>6, <1>7, <1>8 DEF t

-----------------------------------------------------------------------------
\* Headers.

LEMMA HeaderMade ==
    ASSUME NEW size \in Nat, NEW prev \in Nat
    PROVE  /\ Header(size, TRUE, prev) \in HeaderType
           /\ Header(size, TRUE, prev).size = size
           /\ Header(size, TRUE, prev).is_free = TRUE
           /\ Header(size, TRUE, prev).prev = prev
BY DEF Header, HeaderType

WithSize(hdr, b, n) == [hdr EXCEPT ![b].size = n]

LEMMA Resized ==
    ASSUME NEW D, NEW hdr \in [D -> HeaderType], NEW b \in D, NEW n \in Nat
    PROVE  /\ WithSize(hdr, b, n) \in [D -> HeaderType]
           /\ \A a \in D :
                /\ WithSize(hdr, b, n)[a].size = IF a = b THEN n ELSE hdr[a].size
                /\ WithSize(hdr, b, n)[a].is_free = hdr[a].is_free
                /\ WithSize(hdr, b, n)[a].prev = hdr[a].prev
<1> DEFINE r == [hdr[b] EXCEPT !.size = n]
           g == WithSize(hdr, b, n)
<1>1. /\ r \in HeaderType /\ r.size = n
      /\ r.is_free = hdr[b].is_free /\ r.prev = hdr[b].prev
  BY DEF HeaderType
<1>2. g \in [D -> HeaderType]
  BY DEF HeaderType, WithSize
<1>3. \A a \in D : g[a] = IF a = b THEN r ELSE hdr[a]
  BY DEF WithSize
<1> HIDE DEF r, g
<1>4. \A a \in D :
        /\ g[a].size = IF a = b THEN n ELSE hdr[a].size
        /\ g[a].is_free = hdr[a].is_free
        /\ g[a].prev = hdr[a].prev
  BY <1>1, <1>3
<1> QED BY <1>2, <1>4 DEF g

LEMMA Reprevious ==
    ASSUME NEW D, NEW hdr \in [D -> HeaderType], NEW b \in D, NEW n \in Nat
    PROVE  /\ WithPrev(hdr, b, n) \in [D -> HeaderType]
           /\ \A a \in D :
                /\ WithPrev(hdr, b, n)[a].size = hdr[a].size
                /\ WithPrev(hdr, b, n)[a].is_free = hdr[a].is_free
                /\ WithPrev(hdr, b, n)[a].prev = IF a = b THEN n ELSE hdr[a].prev
<1> DEFINE r == [hdr[b] EXCEPT !.prev = n]
           g == WithPrev(hdr, b, n)
<1>1. /\ r \in HeaderType /\ r.prev = n
      /\ r.is_free = hdr[b].is_free /\ r.size = hdr[b].size
  BY DEF HeaderType
<1>2. g \in [D -> HeaderType]
  BY DEF HeaderType, WithPrev
<1>3. \A a \in D : g[a] = IF a = b THEN r ELSE hdr[a]
  BY DEF WithPrev
<1> HIDE DEF r, g
<1>4. \A a \in D :
        /\ g[a].size = hdr[a].size
        /\ g[a].is_free = hdr[a].is_free
        /\ g[a].prev = IF a = b THEN n ELSE hdr[a].prev
  BY <1>1, <1>3
<1> QED BY <1>2, <1>4 DEF g

-----------------------------------------------------------------------------
\* Blocks.

LEMMA BlockAt ==
    ASSUME NEW h, ListTyped(h), NEW i \in 1 .. Len(h.blocks)
    PROVE  h.blocks[i] \in BlocksOf(h)
BY LenProperties DEF BlocksOf, ListTyped

LEMMA BlockPosition ==
    ASSUME NEW h, ListTyped(h), NEW b \in BlocksOf(h)
    PROVE  \E i \in 1 .. Len(h.blocks) : h.blocks[i] = b
BY LenProperties DEF BlocksOf, ListTyped

LEMMA BlockTyped ==
    ASSUME NEW h, ListTyped(h), NEW b \in BlocksOf(h)
    PROVE  /\ b \in Nat /\ b # Null /\ b >= 1
           /\ b \in DOMAIN h.hdr /\ h.hdr[b] \in HeaderType
           /\ h.hdr[b].size \in Nat /\ h.hdr[b].is_free \in BOOLEAN /\ h.hdr[b].prev \in Nat
           /\ Data(b) \in Nat /\ Data(b) = b + HDR
           /\ BlockEnd(h, b) \in Nat
           /\ BlockEnd(h, b) = b + HDR + h.hdr[b].size
           /\ BlockEnd(h, b) > b
<1>1. b \in Nat /\ b # 0 /\ b >= 1
  BY LenProperties, ElementOfSeq DEF BlocksOf, ListTyped, Address
<1>2. b \in DOMAIN h.hdr /\ h.hdr[b] \in HeaderType
  BY DEF ListTyped
<1>3. h.hdr[b].size \in Nat /\ h.hdr[b].is_free \in BOOLEAN /\ h.hdr[b].prev \in Nat
  BY <1>2 DEF HeaderType
<1> QED BY <1>1, <1>2, <1>3, BlockAssumption DEF BlockEnd, Data, Null

LEMMA IndexOfAt ==
    ASSUME NEW h, ListTyped(h), Once(h), NEW i \in 1 .. Len(h.blocks)
    PROVE  IndexOf(h, h.blocks[i]) = i
<1>1. DOMAIN h.blocks = 1 .. Len(h.blocks)
  BY LenProperties DEF ListTyped
<1> QED BY <1>1 DEF IndexOf, Once

LEMMA NextAt ==
    ASSUME NEW h, ListTyped(h), Once(h), NEW i \in 1 .. Len(h.blocks)
    PROVE  /\ HasNext(h, h.blocks[i]) <=> i < Len(h.blocks)
           /\ NextOf(h, h.blocks[i]) = h.blocks[i + 1]
BY IndexOfAt DEF HasNext, NextOf

\* The block after position i, if there is one, gets n as its previous.
LEMMA Relinked ==
    ASSUME NEW h, ListTyped(h), Once(h), NEW i \in 1 .. Len(h.blocks), NEW n \in Nat
    PROVE  LET hdr == Relink(h, h.hdr, h.blocks[i], n)
           IN  /\ hdr \in [DOMAIN h.hdr -> HeaderType]
               /\ \A a \in DOMAIN h.hdr :
                    /\ hdr[a].size = h.hdr[a].size
                    /\ hdr[a].is_free = h.hdr[a].is_free
                    /\ hdr[a].prev = IF i < Len(h.blocks) /\ a = h.blocks[i + 1]
                                       THEN n ELSE h.hdr[a].prev
<1> DEFINE b == h.blocks[i]
           c == h.blocks[i + 1]
           hdr == Relink(h, h.hdr, b, n)
<1>1. h.hdr \in [DOMAIN h.hdr -> HeaderType] /\ Len(h.blocks) \in Nat
  BY LenProperties DEF ListTyped
<1>2. CASE i < Len(h.blocks)
  <2>1. i + 1 \in 1 .. Len(h.blocks)
    BY <1>1, <1>2
  <2>2. c \in DOMAIN h.hdr
    BY <2>1, BlockAt, BlockTyped
  <2>3. hdr = WithPrev(h.hdr, c, n)
    BY <1>2, NextAt DEF Relink
  <2> HIDE DEF hdr, c
  <2>4. /\ hdr \in [DOMAIN h.hdr -> HeaderType]
        /\ \A a \in DOMAIN h.hdr :
             /\ hdr[a].size = h.hdr[a].size
             /\ hdr[a].is_free = h.hdr[a].is_free
             /\ hdr[a].prev = IF a = c THEN n ELSE h.hdr[a].prev
    BY <1>1, <2>2, <2>3, Reprevious
  <2> QED BY <1>2, <2>4 DEF hdr, c
<1>3. CASE ~ (i < Len(h.blocks))
  <2>1. hdr = h.hdr
    BY <1>3, NextAt DEF Relink
  <2> QED BY <1>1, <1>3, <2>1
<1> QED BY <1>2, <1>3

-----------------------------------------------------------------------------
\* A record whose list alone is replaced.
Relisted(h, hdr, blocks) == [h EXCEPT !.hdr = hdr, !.blocks = blocks]

\* Everything but the list is the same.
SameBesides(g, h) ==
    DOMAIN g = DOMAIN h /\ \A x \in DOMAIN h \ {"hdr", "blocks"} : g[x] = h[x]

LEMMA ListReplaced ==
    ASSUME NEW h, HasList(h), NEW hdr, NEW blocks
    PROVE  /\ SameBesides(Relisted(h, hdr, blocks), h)
           /\ HasList(Relisted(h, hdr, blocks))
           /\ Relisted(h, hdr, blocks).hdr = hdr
           /\ Relisted(h, hdr, blocks).blocks = blocks
BY DEF HasList, Relisted, SameBesides

LEMMA SplitRoom ==
    ASSUME NEW h, NEW b, NEW size \in Nat, h.hdr[b].size \in Nat, Splits(h, b, size)
    PROVE  /\ h.hdr[b].size - size - HDR \in Nat
           /\ h.hdr[b].size >= size + HDR
<1> DEFINE n == h.hdr[b].size
<1>1. n \in Nat /\ n >= size + HDR + SLACK
  BY BlockAssumption DEF Splits, MIN_BLOCK_SIZE
<1> HIDE DEF n
<1>2. n - size - HDR \in Nat /\ n >= size + HDR
  BY <1>1, BlockAssumption
<1> QED BY <1>2 DEF n

\* g is h after block b, at position i, has been split at new: field by field.
SplitShaped(g, h, i, b, size, new) ==
    /\ SameBesides(g, h) /\ HasList(g)
    /\ g.blocks = WithAfter(h.blocks, i, new)
    /\ g.hdr \in [DOMAIN h.hdr \cup {new} -> HeaderType]
    /\ g.hdr[new] = Header(h.hdr[b].size - size - HDR, TRUE, b)
    /\ \A a \in DOMAIN h.hdr \ {new} :
         /\ g.hdr[a].size = IF a = b THEN size ELSE h.hdr[a].size
         /\ g.hdr[a].is_free = h.hdr[a].is_free
         /\ g.hdr[a].prev = IF i < Len(h.blocks) /\ a = h.blocks[i + 1]
                              THEN new ELSE h.hdr[a].prev

LEMMA SplitShape ==
    ASSUME NEW h, ListTyped(h), Once(h), NEW i \in 1 .. Len(h.blocks),
           NEW size \in Nat, Splits(h, h.blocks[i], size)
    PROVE  SplitShaped(SplitAt(h, h.blocks[i], size), h, i, h.blocks[i], size,
                       Data(h.blocks[i]) + size)
<1> DEFINE b    == h.blocks[i]
           g    == SplitAt(h, b, size)
           new  == Data(b) + size
           D    == DOMAIN h.hdr
           link == Relink(h, h.hdr, b, new)
           cut  == WithSize(link, b, size)
           head == Header(h.hdr[b].size - size - HDR, TRUE, b)
           hdr  == Put(cut, new, head)
           list == WithAfter(h.blocks, i, new)
<1>1. b \in BlocksOf(h) /\ b \in D /\ b \in Nat /\ h.hdr[b].size \in Nat /\ new \in Nat
  BY BlockAt, BlockTyped
<1>2. head \in HeaderType
  <2>1. h.hdr[b].size - size - HDR \in Nat
    BY <1>1, SplitRoom
  <2> QED BY <1>1, <2>1, HeaderMade
<1>3. IndexOf(h, b) = i
  BY IndexOfAt
<1>4. g = Relisted(h, hdr, list)
  BY <1>3 DEF SplitAt, WithAfter, WithSize, Relisted
<1>5. SameBesides(g, h) /\ HasList(g) /\ g.hdr = hdr /\ g.blocks = list
  <2> HIDE DEF hdr, list, g
  <2> QED BY <1>4, ListReplaced DEF ListTyped
<1>6. /\ link \in [D -> HeaderType]
      /\ \A a \in D :
           /\ link[a].size = h.hdr[a].size
           /\ link[a].is_free = h.hdr[a].is_free
           /\ link[a].prev = IF i < Len(h.blocks) /\ a = h.blocks[i + 1]
                               THEN new ELSE h.hdr[a].prev
  <2> HIDE DEF new
  <2> QED BY <1>1, Relinked
<1> HIDE DEF link
<1>7. /\ cut \in [D -> HeaderType]
      /\ \A a \in D :
           /\ cut[a].size = IF a = b THEN size ELSE link[a].size
           /\ cut[a].is_free = link[a].is_free
           /\ cut[a].prev = link[a].prev
  <2>1. link \in [D -> HeaderType] /\ b \in D
    BY <1>1, <1>6
  <2> HIDE DEF b, D
  <2> QED BY <2>1, Resized
<1> HIDE DEF cut, head
<1>8. /\ hdr \in [D \cup {new} -> HeaderType]
      /\ hdr[new] = head
      /\ \A a \in D \ {new} : hdr[a] = cut[a]
  <2>1. cut \in [D -> HeaderType]
    BY <1>7
  <2> HIDE DEF D, new
  <2> QED BY <1>2, <2>1 DEF Put
<1> HIDE DEF hdr, list, g
<1> QED BY <1>5, <1>6, <1>7, <1>8 DEF SplitShaped, g, head, list

\* A split keeps the list in order, and gives every byte to one block still.
LEMMA SplitKeeps ==
    ASSUME NEW h, ListOK(h), NEW b \in BlocksOf(h), NEW size \in Nat, Splits(h, b, size)
    PROVE  LET g   == SplitAt(h, b, size)
               new == Data(b) + size
           IN  /\ ListOK(g) /\ SameBesides(g, h)
               /\ new \notin BlocksOf(h) /\ BlocksOf(g) = BlocksOf(h) \cup {new}
               /\ Len(g.blocks) = Len(h.blocks) + 1
               /\ UsedOf(g) = UsedOf(h)
               /\ Covered(g) = Covered(h)
               /\ g.hdr[b].size = size /\ g.hdr[b].is_free = h.hdr[b].is_free
               /\ \A c \in BlocksOf(h) \ {b} : g.hdr[c].size = h.hdr[c].size
<1> DEFINE g   == SplitAt(h, b, size)
           new == Data(b) + size
           s   == h.blocks
           t   == g.blocks
           n   == Len(s)
           D   == DOMAIN h.hdr
<1>0. ListTyped(h) /\ Once(h) /\ PrevPointersRight(h) /\ Apart(h) /\ UsedOf(h) \subseteq BlocksOf(h)
  BY DEF ListOK
<1>1. PICK i \in 1 .. n : s[i] = b
  BY <1>0, BlockPosition
<1>2. /\ SameBesides(g, h) /\ HasList(g)
      /\ t = WithAfter(s, i, new)
      /\ g.hdr \in [D \cup {new} -> HeaderType]
      /\ g.hdr[new] = Header(h.hdr[b].size - size - HDR, TRUE, b)
      /\ \A a \in D \ {new} :
           /\ g.hdr[a].size = IF a = b THEN size ELSE h.hdr[a].size
           /\ g.hdr[a].is_free = h.hdr[a].is_free
           /\ g.hdr[a].prev = IF i < n /\ a = s[i + 1] THEN new ELSE h.hdr[a].prev
  <2>1. SplitShaped(g, h, i, b, size, new)
    BY <1>0, <1>1, SplitShape
  <2> HIDE DEF g, new
  <2> QED BY <2>1 DEF SplitShaped
<1>3. /\ b \in D /\ b \in Nat /\ b # 0 /\ h.hdr[b].size \in Nat
      /\ BlockEnd(h, b) = b + HDR + h.hdr[b].size
      /\ new = b + HDR + size /\ new \in Nat
      /\ HDR \in Nat /\ HDR >= 1
  BY <1>0, BlockTyped, BlockAssumption DEF Null
<1>4. h.hdr[b].size - size - HDR \in Nat /\ h.hdr[b].size >= size + HDR
  BY <1>3, SplitRoom
<1>5. /\ g.hdr[new].size = h.hdr[b].size - size - HDR
      /\ g.hdr[new].is_free = TRUE /\ g.hdr[new].prev = b
  <2> DEFINE z == h.hdr[b].size - size - HDR
  <2>1. z \in Nat /\ b \in Nat /\ g.hdr[new] = Header(z, TRUE, b)
    BY <1>2, <1>3, <1>4
  <2> HIDE DEF z, g, new
  <2>2. g.hdr[new].size = z /\ g.hdr[new].is_free = TRUE /\ g.hdr[new].prev = b
    BY <2>1 DEF Header
  <2> QED BY <2>2 DEF z
<1>6. n \in Nat /\ s \in Seq(Address) /\ DOMAIN s = 1 .. n /\ DOMAIN h.hdr = D
  BY <1>0, LenProperties DEF ListTyped
<1>7. /\ t \in Seq(Address) /\ Len(t) = n + 1 /\ DOMAIN t = 1 .. (n + 1)
      /\ \A j \in 1 .. i : t[j] = s[j]
      /\ t[i + 1] = new
      /\ \A j \in (i + 2) .. (n + 1) : t[j] = s[j - 1]
  <2>1. new \in Address /\ i \in 0 .. Len(s) /\ s \in Seq(Address)
    BY <1>3, <1>6 DEF Address
  <2> HIDE DEF s, t, new
  <2>2. HasAfter(WithAfter(s, i, new), s, i, new, Address)
    BY <2>1, WithAfterElements, Zenon
  <2>3. HasAfter(t, s, i, new, Address)
    BY <1>2, <2>2
  <2> QED BY <2>3 DEF HasAfter, n
<1> HIDE DEF t, s, n, g, D, new
<1>8. new \notin BlocksOf(h)
  <2> SUFFICES ASSUME new \in BlocksOf(h) PROVE FALSE
    OBVIOUS
  <2>1. BlockEnd(h, new) > new /\ BlockEnd(h, new) \in Nat
    BY <1>0, BlockTyped
  <2>2. BlockEnd(h, new) <= b \/ BlockEnd(h, b) <= new
    BY <1>0, <1>3 DEF Apart
  <2> QED BY <1>3, <1>4, <2>1, <2>2
<1>9. BlocksOf(g) = BlocksOf(h) \cup {new}
  <2>1. \A c \in BlocksOf(g) : c \in BlocksOf(h) \/ c = new
    <3> TAKE c \in BlocksOf(g)
    <3>1. PICK j \in 1 .. (n + 1) : t[j] = c
      BY <1>7 DEF BlocksOf, t
    <3>2. j \in 1 .. i \/ j = i + 1 \/ j \in (i + 2) .. (n + 1)
      BY <1>6
    <3>3. j \in (i + 2) .. (n + 1) => j - 1 \in 1 .. n
      BY <1>6
    <3>4. j \in 1 .. i => j \in 1 .. n
      BY <1>6
    <3> QED BY <1>6, <1>7, <3>1, <3>2, <3>3, <3>4 DEF BlocksOf, s
  <2>2. new \in BlocksOf(g)
    <3>1. i + 1 \in 1 .. (n + 1)
      BY <1>6
    <3> QED BY <1>7, <3>1 DEF BlocksOf, t
  <2>3. \A c \in BlocksOf(h) : c \in BlocksOf(g)
    <3> TAKE c \in BlocksOf(h)
    <3>1. PICK j \in 1 .. n : s[j] = c
      BY <1>6 DEF BlocksOf, s
    <3>2. CASE j <= i
      <4>1. j \in 1 .. i /\ j \in 1 .. (n + 1)
        BY <1>6, <3>2
      <4> QED BY <1>7, <3>1, <4>1 DEF BlocksOf, t
    <3>3. CASE j > i
      <4>1. j + 1 \in (i + 2) .. (n + 1) /\ j + 1 \in 1 .. (n + 1) /\ (j + 1) - 1 = j
        BY <1>6, <3>3
      <4>2. t[j + 1] = c
        BY <1>7, <3>1, <4>1
      <4> QED BY <1>7, <4>1, <4>2 DEF BlocksOf, t
    <3> QED BY <1>6, <3>2, <3>3
  <2> QED BY <2>1, <2>2, <2>3
<1>10. DOMAIN g.hdr = D \cup {new} /\ BlocksOf(h) \subseteq D
  BY <1>0, <1>2 DEF ListTyped, D
<1>11. ListTyped(g)
  BY <1>2, <1>7, <1>9, <1>10 DEF ListTyped, t
<1>12. \A j \in 1 .. n : s[j] # new /\ s[j] \in BlocksOf(h)
  BY <1>0, <1>8, BlockAt DEF n, s
<1>13. \A j, k \in 1 .. n : s[j] = s[k] => j = k
  BY <1>0, <1>6 DEF Once, s
<1>14. Once(g)
  <2> SUFFICES ASSUME NEW j \in 1 .. (n + 1), NEW k \in 1 .. (n + 1), t[j] = t[k] PROVE j = k
    BY <1>7 DEF Once, t
  <2> DEFINE old(x) == IF x <= i THEN x ELSE x - 1
  <2>1. \A x \in 1 .. (n + 1) : x # i + 1 => old(x) \in 1 .. n /\ t[x] = s[old(x)]
    <3> TAKE x \in 1 .. (n + 1)
    <3>1. CASE x <= i
      <4>1. x \in 1 .. i /\ x \in 1 .. n
        BY <1>6, <3>1
      <4> QED BY <1>7, <3>1, <4>1
    <3>2. CASE x > i + 1
      <4>1. x \in (i + 2) .. (n + 1) /\ x - 1 \in 1 .. n /\ ~ (x <= i)
        BY <1>6, <3>2
      <4> QED BY <1>7, <4>1
    <3> QED BY <1>6, <3>1, <3>2
  <2>2. CASE j = i + 1 /\ k = i + 1
    BY <2>2
  <2>3. CASE j = i + 1 /\ k # i + 1
    BY <1>7, <1>12, <2>1, <2>3
  <2>4. CASE j # i + 1 /\ k = i + 1
    BY <1>7, <1>12, <2>1, <2>4
  <2>5. CASE j # i + 1 /\ k # i + 1
    <3>1. old(j) = old(k)
      BY <1>13, <2>1, <2>5
    <3> QED BY <1>6, <2>5, <3>1
  <2> QED BY <2>2, <2>3, <2>4, <2>5
<1>15. /\ \A j \in 1 .. n : h.hdr[s[j]].prev = IF j = 1 THEN Null ELSE s[j - 1]
  BY <1>0, <1>6 DEF PrevPointersRight, s
<1>16. PrevPointersRight(g)
  <2> SUFFICES ASSUME NEW j \in 1 .. (n + 1)
               PROVE  g.hdr[t[j]].prev = IF j = 1 THEN Null ELSE t[j - 1]
    BY <1>7 DEF PrevPointersRight, t
  <2>0. \A c \in BlocksOf(h) : g.hdr[c].prev = IF i < n /\ c = s[i + 1] THEN new ELSE h.hdr[c].prev
    BY <1>2, <1>8, <1>10
  <2>1. CASE j <= i
    <3>1. j \in 1 .. i /\ j \in 1 .. n /\ i \in 1 .. n
      BY <1>6, <2>1
    <3>2. ~ (i < n /\ s[j] = s[i + 1])
      <4>1. i < n => i + 1 \in 1 .. n /\ j # i + 1
        BY <1>6, <2>1
      <4> QED BY <1>13, <3>1, <4>1
    <3>3. g.hdr[t[j]].prev = IF j = 1 THEN Null ELSE s[j - 1]
      <4>1. t[j] = s[j] /\ s[j] \in BlocksOf(h)
        BY <1>7, <1>12, <3>1
      <4>2. g.hdr[s[j]].prev = h.hdr[s[j]].prev
        BY <2>0, <3>2, <4>1
      <4> QED BY <1>15, <3>1, <4>1, <4>2
    <3>4. j # 1 => j - 1 \in 1 .. i
      BY <1>6, <2>1
    <3> QED BY <1>7, <3>3, <3>4
  <2>2. CASE j = i + 1
    <3>1. j # 1 /\ j - 1 = i /\ i \in 1 .. i
      BY <1>6, <2>2
    <3> QED BY <1>1, <1>5, <1>7, <2>2, <3>1
  <2>3. CASE j = i + 2
    <3>1. j \in (i + 2) .. (n + 1) /\ j - 1 = i + 1 /\ i < n /\ i + 1 \in 1 .. n /\ j # 1
      BY <1>6, <2>3
    <3>2. t[j] = s[i + 1] /\ t[j - 1] = new
      BY <1>7, <3>1
    <3> QED BY <1>12, <2>0, <3>1, <3>2
  <2>4. CASE j > i + 2
    <3>1. /\ j \in (i + 2) .. (n + 1) /\ j - 1 \in (i + 2) .. (n + 1)
          /\ j - 1 \in 1 .. n /\ (j - 1) - 1 = j - 2 /\ j # 1 /\ j - 1 # 1 /\ j - 1 # i + 1
          /\ i + 1 \in 1 .. n
      BY <1>6, <2>4
    <3>2. t[j] = s[j - 1] /\ t[j - 1] = s[j - 2]
      BY <1>7, <3>1
    <3>3. s[j - 1] # s[i + 1]
      BY <1>13, <3>1
    <3> QED BY <1>12, <1>15, <2>0, <3>1, <3>2, <3>3
  <2> QED BY <1>6, <2>1, <2>2, <2>3, <2>4
<1>17. /\ BlockEnd(g, b) = new
       /\ BlockEnd(g, new) = BlockEnd(h, b)
       /\ \A c \in BlocksOf(h) \ {b} :
            g.hdr[c].size = h.hdr[c].size /\ BlockEnd(g, c) = BlockEnd(h, c)
  <2>1. g.hdr[b].size = size
    BY <1>2, <1>3, <1>8
  <2>2. \A c \in BlocksOf(h) \ {b} : g.hdr[c].size = h.hdr[c].size
    BY <1>2, <1>8, <1>10
  <2>3. BlockEnd(g, b) = new
    BY <1>3, <2>1 DEF BlockEnd, Data
  <2>4. BlockEnd(g, new) = new + HDR + (h.hdr[b].size - size - HDR)
    BY <1>5 DEF BlockEnd, Data
  <2> QED BY <1>3, <2>2, <2>3, <2>4 DEF BlockEnd
<1>18. b < new /\ new < BlockEnd(h, b) /\ BlockEnd(h, b) \in Nat
  BY <1>3, <1>4
<1>19. Apart(g)
  <2> SUFFICES ASSUME NEW c \in BlocksOf(g), NEW d \in BlocksOf(g), c # d
               PROVE  BlockEnd(g, c) <= d \/ BlockEnd(g, d) <= c
    BY DEF Apart
  <2>1. \A x \in BlocksOf(h) : x \in Nat /\ BlockEnd(h, x) \in Nat /\ x < BlockEnd(h, x)
    BY <1>0, BlockTyped
  <2>2. \A x \in BlocksOf(h) \ {b} : BlockEnd(h, x) <= b \/ BlockEnd(h, b) <= x
    BY <1>0 DEF Apart
  <2>3. CASE c \in BlocksOf(h) \ {b} /\ d \in BlocksOf(h) \ {b}
    BY <1>0, <1>17, <2>3 DEF Apart
  <2>4. CASE c \in {b, new} /\ d \in BlocksOf(h) \ {b}
    BY <1>3, <1>17, <1>18, <2>1, <2>2, <2>4
  <2>5. CASE c \in BlocksOf(h) \ {b} /\ d \in {b, new}
    BY <1>3, <1>17, <1>18, <2>1, <2>2, <2>5
  <2>6. CASE c \in {b, new} /\ d \in {b, new}
    BY <1>3, <1>17, <1>18, <2>6
  <2> QED BY <1>9, <2>3, <2>4, <2>5, <2>6
<1>20. UsedOf(g) = UsedOf(h)
  <2>1. \A a \in D \ {new} : g.hdr[a].is_free = h.hdr[a].is_free
    BY <1>2
  <2>2. new \notin UsedOf(h) /\ new \notin UsedOf(g)
    BY <1>0, <1>5, <1>8 DEF UsedOf
  <2> QED BY <1>10, <2>1, <2>2 DEF UsedOf, D
<1>21. Covered(g) = Covered(h)
  <2>1. b .. (BlockEnd(h, b) - 1)
          = (b .. (BlockEnd(g, b) - 1)) \cup (new .. (BlockEnd(g, new) - 1))
    BY <1>3, <1>17, <1>18
  <2>2. \A a : a \in Covered(h) <=> \E c \in BlocksOf(h) : a \in c .. (BlockEnd(h, c) - 1)
    BY DEF Covered
  <2>3. \A a : a \in Covered(g) <=> \E c \in BlocksOf(g) : a \in c .. (BlockEnd(g, c) - 1)
    BY DEF Covered
  <2>4. \A c \in BlocksOf(h) \ {b} : c .. (BlockEnd(h, c) - 1) = c .. (BlockEnd(g, c) - 1)
    BY <1>17
  <2> HIDE DEF Covered
  <2>5. ASSUME NEW a PROVE a \in Covered(g) <=> a \in Covered(h)
    BY <1>9, <2>1, <2>2, <2>3, <2>4
  <2> QED BY <2>5
<1>22. ListOK(g)
  BY <1>0, <1>9, <1>11, <1>14, <1>16, <1>19, <1>20 DEF ListOK
<1>23. g.hdr[b].size = size /\ g.hdr[b].is_free = h.hdr[b].is_free
  BY <1>2, <1>3, <1>8
<1> QED BY <1>2, <1>7, <1>8, <1>9, <1>17, <1>20, <1>21, <1>22, <1>23 DEF g, new, t, n, s

-----------------------------------------------------------------------------
\* The block at position i takes in the one after it: what JoinNext and JoinPrev
\* both do.
Joined(h, i) ==
    LET b    == h.blocks[i]
        next == h.blocks[i + 1]
    IN  Relisted(h, WithSize(Relink(h, h.hdr, next, b), b, h.hdr[b].size + HDR + h.hdr[next].size),
                 Without(h.blocks, i))

JoinShaped(g, h, i, b, next) ==
    /\ SameBesides(g, h) /\ HasList(g)
    /\ g.blocks = Without(h.blocks, i)
    /\ g.hdr \in [DOMAIN h.hdr -> HeaderType]
    /\ \A a \in DOMAIN h.hdr :
         /\ g.hdr[a].size = IF a = b THEN h.hdr[b].size + HDR + h.hdr[next].size ELSE h.hdr[a].size
         /\ g.hdr[a].is_free = h.hdr[a].is_free
         /\ g.hdr[a].prev = IF i + 1 < Len(h.blocks) /\ a = h.blocks[i + 2]
                              THEN b ELSE h.hdr[a].prev

LEMMA JoinShape ==
    ASSUME NEW h, ListTyped(h), Once(h), NEW i \in 1 .. (Len(h.blocks) - 1)
    PROVE  /\ JoinShaped(Joined(h, i), h, i, h.blocks[i], h.blocks[i + 1])
           /\ Joined(h, i) = JoinNext(h, h.blocks[i])
           /\ PrevPointersRight(h) => Joined(h, i) = JoinPrev(h, h.blocks[i + 1])
<1> DEFINE b    == h.blocks[i]
           next == h.blocks[i + 1]
           D    == DOMAIN h.hdr
           link == Relink(h, h.hdr, next, b)
           z    == h.hdr[b].size + HDR + h.hdr[next].size
           hdr  == WithSize(link, b, z)
           g    == Joined(h, i)
<1>0. /\ Len(h.blocks) \in Nat /\ i \in 1 .. Len(h.blocks) /\ i + 1 \in 1 .. Len(h.blocks)
      /\ DOMAIN h.blocks = 1 .. Len(h.blocks) /\ i + 1 # 1
      /\ (i + 1) + 1 = i + 2 /\ (i + 1) - 1 = i
  BY LenProperties DEF ListTyped
<1>1. b \in D /\ next \in D /\ b \in Nat /\ b # Null /\ z \in Nat /\ h.hdr[b].size \in Nat
  <2>1. b \in BlocksOf(h) /\ next \in BlocksOf(h)
    BY <1>0, BlockAt
  <2> HIDE DEF b, next
  <2>2. b \in D /\ b \in Nat /\ b # Null /\ h.hdr[b].size \in Nat
    BY <2>1, BlockTyped
  <2>3. next \in D /\ h.hdr[next].size \in Nat
    BY <2>1, BlockTyped
  <2>4. \A m, n \in Nat : m + HDR + n \in Nat
    BY BlockAssumption
  <2>5. z \in Nat
    BY <2>2, <2>3, <2>4, Zenon
  <2> QED BY <2>2, <2>3, <2>5, Zenon
<1>2. /\ link \in [D -> HeaderType]
      /\ \A a \in D :
           /\ link[a].size = h.hdr[a].size
           /\ link[a].is_free = h.hdr[a].is_free
           /\ link[a].prev = IF i + 1 < Len(h.blocks) /\ a = h.blocks[i + 2]
                               THEN b ELSE h.hdr[a].prev
  <2>1. /\ link \in [D -> HeaderType]
        /\ \A a \in D :
             /\ link[a].size = h.hdr[a].size
             /\ link[a].is_free = h.hdr[a].is_free
             /\ link[a].prev = IF i + 1 < Len(h.blocks) /\ a = h.blocks[(i + 1) + 1]
                                 THEN b ELSE h.hdr[a].prev
    BY <1>0, <1>1, Relinked
  <2> QED BY <1>0, <2>1
<1>3. IndexOf(h, b) = i /\ IndexOf(h, next) = i + 1 /\ NextOf(h, b) = next
  BY <1>0, IndexOfAt, NextAt
<1>4. g = Relisted(h, hdr, Without(h.blocks, i))
  BY DEF Joined
<1>5. g = JoinNext(h, b)
  <2> DEFINE r(x) == Relink(h, h.hdr, x, b)
  <2>1. JoinNext(h, b)
          = Relisted(h, WithSize(r(NextOf(h, b)), b, r(NextOf(h, b))[b].size + HDR + h.hdr[NextOf(h, b)].size),
                     Without(h.blocks, IndexOf(h, b)))
    BY DEF JoinNext, Relisted, WithSize, Without
  <2>2. link[b].size = h.hdr[b].size
    BY <1>1, <1>2
  <2> HIDE DEF link
  <2>3. r(NextOf(h, b)) = link
    BY <1>3 DEF link
  <2> HIDE DEF r
  <2> QED BY <1>3, <1>4, <2>1, <2>2, <2>3
<1>6. PrevPointersRight(h) => g = JoinPrev(h, next)
  <2> SUFFICES ASSUME PrevPointersRight(h) PROVE g = JoinPrev(h, next)
    OBVIOUS
  <2>1. h.hdr[next].prev = b
    BY <1>0 DEF PrevPointersRight
  <2> DEFINE p    == h.hdr[next].prev
             r(x) == Relink(h, h.hdr, next, x)
             list == SubSeq(h.blocks, 1, IndexOf(h, p))
                       \o SubSeq(h.blocks, IndexOf(h, next) + 1, Len(h.blocks))
  <2>2. JoinPrev(h, next)
          = Relisted(h, WithSize(r(p), p, r(p)[p].size + HDR + h.hdr[next].size), list)
    BY DEF JoinPrev, Relisted, WithSize
  <2>3. link[b].size = h.hdr[b].size
    BY <1>1, <1>2
  <2>4. list = Without(h.blocks, i)
    BY <1>0, <1>3, <2>1 DEF Without
  <2> HIDE DEF link, list
  <2>5. r(p) = link
    BY <2>1 DEF link
  <2> HIDE DEF r, p
  <2>6. p = b
    BY <2>1 DEF p
  <2> QED BY <1>4, <2>2, <2>3, <2>4, <2>5, <2>6
<1>7. SameBesides(g, h) /\ HasList(g) /\ g.hdr = hdr /\ g.blocks = Without(h.blocks, i)
  <2> HIDE DEF hdr, g
  <2> QED BY <1>4, ListReplaced DEF ListTyped
<1>8. /\ hdr \in [D -> HeaderType]
      /\ \A a \in D :
           /\ hdr[a].size = IF a = b THEN z ELSE link[a].size
           /\ hdr[a].is_free = link[a].is_free
           /\ hdr[a].prev = link[a].prev
  <2>1. link \in [D -> HeaderType] /\ b \in D /\ z \in Nat
    BY <1>1, <1>2
  <2> HIDE DEF b, D, z, link
  <2> QED BY <2>1, Resized
<1> HIDE DEF link, hdr, g
<1>9. JoinShaped(g, h, i, b, next)
  BY <1>2, <1>7, <1>8 DEF JoinShaped
<1> QED BY <1>5, <1>6, <1>9 DEF g

\* Blocks b and next, at positions i and i + 1, are free and adjacent.
Joins(h, i, b, next) ==
    /\ h.blocks[i] = b /\ h.blocks[i + 1] = next
    /\ h.hdr[b].is_free /\ h.hdr[next].is_free
    /\ BlockEnd(h, b) = next

\* Two free blocks that are neighbours in the list and in memory become one.
LEMMA JoinedKeeps ==
    ASSUME NEW h, ListOK(h), NEW i \in 1 .. (Len(h.blocks) - 1),
           NEW b, NEW next, Joins(h, i, b, next)
    PROVE  LET g == Joined(h, i)
           IN  /\ ListOK(g) /\ SameBesides(g, h)
               /\ next # b /\ b \in BlocksOf(g) /\ next \in BlocksOf(h)
               /\ BlocksOf(g) = BlocksOf(h) \ {next}
               /\ Len(g.blocks) = Len(h.blocks) - 1
               /\ UsedOf(g) = UsedOf(h)
               /\ Covered(g) = Covered(h)
               /\ g.hdr[b].size >= h.hdr[b].size /\ g.hdr[b].is_free
               /\ \A c \in BlocksOf(g) \ {b} : g.hdr[c].size = h.hdr[c].size
<1> DEFINE g == Joined(h, i)
           s == h.blocks
           t == g.blocks
           n == Len(s)
           D == DOMAIN h.hdr
<1>0. ListTyped(h) /\ Once(h) /\ PrevPointersRight(h) /\ Apart(h) /\ UsedOf(h) \subseteq BlocksOf(h)
  BY DEF ListOK
<1>1. /\ SameBesides(g, h) /\ HasList(g)
      /\ t = Without(s, i)
      /\ g.hdr \in [D -> HeaderType]
      /\ \A a \in D :
           /\ g.hdr[a].size = IF a = b THEN h.hdr[b].size + HDR + h.hdr[next].size ELSE h.hdr[a].size
           /\ g.hdr[a].is_free = h.hdr[a].is_free
           /\ g.hdr[a].prev = IF i + 1 < n /\ a = s[i + 2] THEN b ELSE h.hdr[a].prev
  <2>1. JoinShaped(g, h, i, b, next)
    BY <1>0, JoinShape DEF Joins
  <2> HIDE DEF g
  <2> QED BY <2>1 DEF JoinShaped
<1>2. /\ n \in Nat /\ s \in Seq(Address) /\ DOMAIN s = 1 .. n
      /\ i \in Nat /\ 1 <= i /\ i < n /\ i \in 1 .. n /\ i + 1 \in 1 .. n
  BY <1>0, LenProperties DEF ListTyped
<1>3. b \in BlocksOf(h) /\ next \in BlocksOf(h)
  BY <1>0, <1>2, BlockAt DEF Joins
<1>4. /\ b \in D /\ b \in Nat /\ h.hdr[b].size \in Nat
      /\ next \in D /\ next \in Nat /\ h.hdr[next].size \in Nat
      /\ BlockEnd(h, next) \in Nat
  BY <1>0, <1>3, BlockTyped
<1>4a. /\ b < next /\ next < BlockEnd(h, next)
       /\ b + HDR + (h.hdr[b].size + HDR + h.hdr[next].size) = BlockEnd(h, next)
       /\ h.hdr[b].size + HDR + h.hdr[next].size >= h.hdr[b].size
  <2> DEFINE x == h.hdr[b].size
             y == h.hdr[next].size
             z == BlockEnd(h, next)
  <2>1. next = b + HDR + x
    BY <1>0, <1>3, BlockTyped DEF Joins
  <2>2. z = next + HDR + y
    BY <1>0, <1>3, BlockTyped
  <2>3. b \in Nat /\ next \in Nat /\ x \in Nat /\ y \in Nat
    BY <1>4
  <2> HIDE DEF x, y, z
  <2>4. HDR \in Nat /\ HDR >= 1
    BY BlockAssumption
  <2>5. b < next /\ next < z /\ b + HDR + (x + HDR + y) = z /\ x + HDR + y >= x
    BY <2>1, <2>2, <2>3, <2>4
  <2> QED BY <2>5 DEF x, y, z
<1>5. /\ t \in Seq(Address) /\ Len(t) = n - 1 /\ DOMAIN t = 1 .. (n - 1)
      /\ \A j \in 1 .. i : t[j] = s[j]
      /\ \A j \in (i + 1) .. (n - 1) : t[j] = s[j + 1]
  <2>1. i \in 0 .. (Len(s) - 1) /\ s \in Seq(Address)
    BY <1>2
  <2> HIDE DEF s, t
  <2>2. /\ Without(s, i) \in Seq(Address)
        /\ Len(Without(s, i)) = Len(s) - 1
        /\ DOMAIN Without(s, i) = 1 .. (Len(s) - 1)
        /\ \A j \in 1 .. i : Without(s, i)[j] = s[j]
        /\ \A j \in (i + 1) .. (Len(s) - 1) : Without(s, i)[j] = s[j + 1]
    BY <2>1, WithoutElements
  <2> QED BY <1>1, <2>2
<1>6. \A j, k \in 1 .. n : s[j] = s[k] => j = k
  BY <1>0, <1>2 DEF Once
<1>7. \A j \in 1 .. n : s[j] \in BlocksOf(h)
  BY <1>0, BlockAt
<1>8. \A j \in 1 .. n : h.hdr[s[j]].prev = IF j = 1 THEN Null ELSE s[j - 1]
  BY <1>0, <1>2 DEF PrevPointersRight
<1>9. s[i] = b /\ s[i + 1] = next
  BY DEF Joins
<1>10. BlocksOf(h) \subseteq D /\ DOMAIN g.hdr = D
  <2> HIDE DEF g
  <2> QED BY <1>0, <1>1 DEF ListTyped
<1> DEFINE old(j) == IF j <= i THEN j ELSE j + 1
<1>11. \A j \in 1 .. (n - 1) : old(j) \in 1 .. n /\ old(j) # i + 1 /\ t[j] = s[old(j)]
  <2> HIDE DEF s, t, n
  <2> TAKE j \in 1 .. (n - 1)
  <2>1. CASE j <= i
    <3>1. j \in 1 .. i /\ j \in 1 .. n /\ j # i + 1
      BY <1>2, <2>1
    <3> QED BY <1>5, <2>1, <3>1
  <2>2. CASE j > i
    <3>1. j \in (i + 1) .. (n - 1) /\ j + 1 \in 1 .. n /\ j + 1 # i + 1 /\ ~ (j <= i)
      BY <1>2, <2>2
    <3> QED BY <1>5, <3>1
  <2> QED BY <1>2, <2>1, <2>2
<1>12. \A k \in 1 .. n : k # i + 1 => \E j \in 1 .. (n - 1) : old(j) = k
  <2> HIDE DEF s, t, n
  <2> TAKE k \in 1 .. n
  <2> HAVE k # i + 1
  <2>1. CASE k <= i
    <3>1. k \in 1 .. (n - 1) /\ old(k) = k
      BY <1>2, <2>1
    <3> QED BY <3>1
  <2>2. CASE k > i + 1
    <3>1. k - 1 \in 1 .. (n - 1) /\ old(k - 1) = k
      BY <1>2, <2>2
    <3> QED BY <3>1
  <2> QED BY <1>2, <2>1, <2>2
<1> HIDE DEF s, t, n, g, D, old
<1>13. \A j, k \in 1 .. (n - 1) : old(j) = old(k) => j = k
  BY <1>2 DEF old
<1>14. BlocksOf(g) = BlocksOf(h) \ {next}
  <2>1. \A c \in BlocksOf(g) : c \in BlocksOf(h) /\ c # next
    <3> TAKE c \in BlocksOf(g)
    <3>1. PICK j \in 1 .. (n - 1) : t[j] = c
      BY <1>5 DEF BlocksOf, t
    <3>2. c = s[old(j)] /\ old(j) \in 1 .. n /\ old(j) # i + 1
      BY <1>11, <3>1
    <3> QED BY <1>2, <1>6, <1>7, <1>9, <3>2
  <2>2. \A c \in BlocksOf(h) \ {next} : c \in BlocksOf(g)
    <3> TAKE c \in BlocksOf(h) \ {next}
    <3>1. PICK k \in 1 .. n : s[k] = c
      BY <1>2 DEF BlocksOf, s
    <3>2. k # i + 1
      BY <1>9, <3>1
    <3>3. PICK j \in 1 .. (n - 1) : old(j) = k
      BY <1>12, <3>2
    <3>4. t[j] = c
      BY <1>11, <3>1, <3>3
    <3> QED BY <1>5, <3>4 DEF BlocksOf, t
  <2> QED BY <2>1, <2>2
<1>15. ListTyped(g)
  BY <1>1, <1>5, <1>10, <1>14 DEF ListTyped, t
<1>16. Once(g)
  <2> SUFFICES ASSUME NEW j \in 1 .. (n - 1), NEW k \in 1 .. (n - 1), t[j] = t[k] PROVE j = k
    BY <1>5 DEF Once, t
  <2> QED BY <1>6, <1>11, <1>13
<1>17. PrevPointersRight(g)
  <2> SUFFICES ASSUME NEW j \in 1 .. (n - 1)
               PROVE  g.hdr[t[j]].prev = IF j = 1 THEN Null ELSE t[j - 1]
    BY <1>5 DEF PrevPointersRight, t
  <2>0. \A c \in BlocksOf(h) : g.hdr[c].prev = IF i + 1 < n /\ c = s[i + 2] THEN b ELSE h.hdr[c].prev
    BY <1>1, <1>10
  <2>1. CASE j <= i
    <3>1. j \in 1 .. i /\ j \in 1 .. n
      BY <1>2, <2>1
    <3>2. ~ (i + 1 < n /\ s[j] = s[i + 2])
      <4>1. i + 1 < n => i + 2 \in 1 .. n /\ j # i + 2
        BY <1>2, <2>1
      <4> QED BY <1>6, <3>1, <4>1
    <3>3. t[j] = s[j] /\ s[j] \in BlocksOf(h)
      BY <1>5, <1>7, <3>1
    <3>4. g.hdr[s[j]].prev = h.hdr[s[j]].prev
      BY <2>0, <3>2, <3>3
    <3>5. j # 1 => j - 1 \in 1 .. i
      BY <1>2, <2>1
    <3>6. j # 1 => t[j - 1] = s[j - 1]
      BY <1>5, <3>5
    <3> QED BY <1>8, <3>1, <3>3, <3>4, <3>6
  <2>2. CASE j = i + 1
    <3>1. /\ j \in (i + 1) .. (n - 1) /\ j # 1 /\ j - 1 = i /\ i \in 1 .. i
          /\ i + 1 < n /\ j + 1 = i + 2 /\ i + 2 \in 1 .. n
      BY <1>2, <2>2
    <3>2. t[j] = s[i + 2] /\ t[j - 1] = b
      BY <1>5, <1>9, <3>1
    <3> QED BY <1>7, <2>0, <3>1, <3>2
  <2>3. CASE j > i + 1
    <3>1. /\ j \in (i + 1) .. (n - 1) /\ j # 1 /\ j - 1 \in (i + 1) .. (n - 1)
          /\ (j - 1) + 1 = j /\ (j + 1) - 1 = j /\ j + 1 # 1
          /\ j + 1 \in 1 .. n /\ i + 2 \in 1 .. n /\ j + 1 # i + 2
      BY <1>2, <2>3
    <3>2. t[j] = s[j + 1] /\ t[j - 1] = s[j]
      BY <1>5, <3>1
    <3>3. s[j + 1] # s[i + 2]
      BY <1>6, <3>1
    <3>4. g.hdr[s[j + 1]].prev = h.hdr[s[j + 1]].prev
      BY <1>7, <2>0, <3>1, <3>3
    <3> QED BY <1>8, <3>1, <3>2, <3>4
  <2> QED BY <1>2, <2>1, <2>2, <2>3
<1>18. b # next /\ b \in BlocksOf(g)
  <2>1. b # next
    BY <1>4, <1>4a
  <2> QED BY <1>3, <1>14, <2>1
<1>19. /\ g.hdr[b].size = h.hdr[b].size + HDR + h.hdr[next].size
       /\ \A c \in BlocksOf(g) \ {b} : g.hdr[c].size = h.hdr[c].size
       /\ g.hdr[b].is_free
  <2>1. g.hdr[b].is_free = h.hdr[b].is_free
    BY <1>1, <1>4
  <2>2. g.hdr[b].is_free
    BY <2>1, Zenon DEF Joins
  <2> QED BY <1>1, <1>4, <1>10, <1>14, <2>2
<1>20. /\ BlockEnd(g, b) = BlockEnd(h, next)
       /\ \A c \in BlocksOf(g) \ {b} : BlockEnd(g, c) = BlockEnd(h, c)
  <2>1. BlockEnd(g, b) = BlockEnd(h, next)
    <3>1. BlockEnd(g, b) = b + HDR + (h.hdr[b].size + HDR + h.hdr[next].size)
      BY <1>19 DEF BlockEnd, Data
    <3> QED BY <1>4a, <3>1
  <2> QED BY <1>19, <2>1 DEF BlockEnd
<1>21. Apart(g)
  <2>1. \A x \in BlocksOf(h) : x \in Nat /\ BlockEnd(h, x) \in Nat /\ x < BlockEnd(h, x)
    BY <1>0, BlockTyped
  <2>2. \A x \in BlocksOf(g) \ {b} : BlockEnd(h, x) <= b \/ BlockEnd(h, next) <= x
    <3> TAKE x \in BlocksOf(g) \ {b}
    <3>1. x \in BlocksOf(h) /\ x # b /\ x # next
      BY <1>14
    <3>2. BlockEnd(h, x) <= b \/ next <= x
      BY <1>0, <1>3, <3>1 DEF Apart, Joins
    <3>3. BlockEnd(h, x) <= next \/ BlockEnd(h, next) <= x
      BY <1>0, <1>3, <3>1 DEF Apart
    <3> QED BY <1>4, <1>4a, <2>1, <3>1, <3>2, <3>3
  <2> SUFFICES ASSUME NEW c \in BlocksOf(g), NEW d \in BlocksOf(g), c # d
               PROVE  BlockEnd(g, c) <= d \/ BlockEnd(g, d) <= c
    BY DEF Apart
  <2>3. CASE c # b /\ d # b
    BY <1>0, <1>14, <1>20, <2>3 DEF Apart
  <2>4. CASE c = b
    BY <1>20, <2>2, <2>4
  <2>5. CASE d = b
    BY <1>20, <2>2, <2>5
  <2> QED BY <2>3, <2>4, <2>5
<1>22. UsedOf(g) = UsedOf(h)
  BY <1>1, <1>10 DEF UsedOf, D
<1>23. Covered(g) = Covered(h)
  <2>1. b .. (BlockEnd(g, b) - 1)
          = (b .. (BlockEnd(h, b) - 1)) \cup (next .. (BlockEnd(h, next) - 1))
    <3>1. BlockEnd(g, b) = BlockEnd(h, next) /\ BlockEnd(h, b) = next
      BY <1>20 DEF Joins
    <3>2. b .. (BlockEnd(h, next) - 1) = (b .. (next - 1)) \cup (next .. (BlockEnd(h, next) - 1))
      BY <1>4, <1>4a
    <3> QED BY <3>1, <3>2
  <2>2. \A a : a \in Covered(h) <=> \E c \in BlocksOf(h) : a \in c .. (BlockEnd(h, c) - 1)
    BY DEF Covered
  <2>3. \A a : a \in Covered(g) <=> \E c \in BlocksOf(g) : a \in c .. (BlockEnd(g, c) - 1)
    BY DEF Covered
  <2>4. \A c \in BlocksOf(g) \ {b} : c .. (BlockEnd(h, c) - 1) = c .. (BlockEnd(g, c) - 1)
    BY <1>20
  <2>5. ASSUME NEW a PROVE a \in Covered(g) <=> a \in Covered(h)
    BY <1>3, <1>14, <1>18, <2>1, <2>2, <2>3, <2>4
  <2> QED BY <2>5
<1>24. UsedOf(h) \subseteq BlocksOf(g)
  <2>1. next \notin UsedOf(h)
    BY Zenon DEF UsedOf, Joins
  <2> QED BY <1>0, <1>14, <2>1
<1>25. ListOK(g)
  BY <1>15, <1>16, <1>17, <1>21, <1>22, <1>24 DEF ListOK
<1>26. g.hdr[b].size >= h.hdr[b].size
  BY <1>4a, <1>19
<1> QED BY <1>1, <1>3, <1>5, <1>14, <1>18, <1>19, <1>22, <1>23, <1>25, <1>26 DEF g, t, n, s

-----------------------------------------------------------------------------
\* A list whose headers change in nothing that the list is about.
LEMMA SameSizes ==
    ASSUME NEW h, ListOK(h), NEW g, SameBesides(g, h), HasList(g), g.blocks = h.blocks,
           g.hdr \in [DOMAIN g.hdr -> HeaderType],
           \A c \in BlocksOf(h) : /\ c \in DOMAIN g.hdr
                                  /\ g.hdr[c].size = h.hdr[c].size
                                  /\ g.hdr[c].prev = h.hdr[c].prev,
           UsedOf(g) \subseteq BlocksOf(h)
    PROVE  ListOK(g) /\ BlocksOf(g) = BlocksOf(h) /\ Covered(g) = Covered(h)
<1>0. ListTyped(h) /\ Once(h) /\ PrevPointersRight(h) /\ Apart(h) /\ UsedOf(h) \subseteq BlocksOf(h)
  BY DEF ListOK
<1>1. BlocksOf(g) = BlocksOf(h)
  BY DEF BlocksOf
<1>2. \A c \in BlocksOf(h) : BlockEnd(g, c) = BlockEnd(h, c)
  BY DEF BlockEnd
<1>3. Covered(g) = Covered(h)
  <2>1. {b .. (BlockEnd(g, b) - 1) : b \in BlocksOf(g)} = {b .. (BlockEnd(h, b) - 1) : b \in BlocksOf(h)}
    BY <1>1, <1>2
  <2> QED BY <2>1 DEF Covered
<1>4. ListTyped(g) /\ Once(g) /\ Apart(g)
  BY <1>0, <1>1, <1>2 DEF ListTyped, Once, Apart
<1>5. PrevPointersRight(g)
  BY <1>0 DEF PrevPointersRight, BlocksOf
<1> QED BY <1>1, <1>3, <1>4, <1>5 DEF ListOK

\* A block whose header alone is out of the way of the data of block b.
LEMMA BlocksOutside ==
    ASSUME NEW h, ListOK(h), NEW b \in BlocksOf(h)
    PROVE  BlocksOf(h) \subseteq Outside(h, b)
<1>0. ListTyped(h) /\ Apart(h)
  BY DEF ListOK
<1> SUFFICES ASSUME NEW c \in BlocksOf(h)
             PROVE  c \in DOMAIN h.hdr /\ (c + HDR <= Data(b) \/ c >= BlockEnd(h, b))
  BY DEF Outside
<1>1. b \in Nat /\ Data(b) = b + HDR /\ BlockEnd(h, b) \in Nat /\ BlockEnd(h, b) >= b + HDR
  BY <1>0, BlockTyped, BlockAssumption
<1>2. c \in Nat /\ c \in DOMAIN h.hdr /\ BlockEnd(h, c) \in Nat /\ BlockEnd(h, c) > c
  BY <1>0, BlockTyped
<1>3. c = b \/ BlockEnd(h, c) <= b \/ BlockEnd(h, b) <= c
  BY <1>0 DEF Apart
<1> QED BY <1>1, <1>2, <1>3, BlockAssumption

\* A block is handed out: it is used, and nothing else of the list changes.
LEMMA HandOutKeeps ==
    ASSUME NEW h, ListOK(h), NEW b \in BlocksOf(h)
    PROVE  LET g == HandOut(h, b)
           IN  /\ ListOK(g) /\ SameBesides(g, h) /\ g.blocks = h.blocks
               /\ BlocksOf(g) = BlocksOf(h) /\ Covered(g) = Covered(h)
               /\ UsedOf(g) = UsedOf(h) \cup {b}
               /\ \A c \in BlocksOf(h) : g.hdr[c].size = h.hdr[c].size
               /\ \A c \in BlocksOf(h) \ {b} : g.hdr[c].is_free = h.hdr[c].is_free
<1> DEFINE g   == HandOut(h, b)
           r   == [h.hdr[b] EXCEPT !.is_free = FALSE]
           O   == Outside(h, b)
           hdr == [a \in O |-> IF a = b THEN r ELSE h.hdr[a]]
<1>0. ListTyped(h) /\ HasList(h) /\ UsedOf(h) \subseteq BlocksOf(h) /\ h.hdr \in [DOMAIN h.hdr -> HeaderType]
  BY DEF ListOK, ListTyped
<1>1. BlocksOf(h) \subseteq O /\ O \subseteq DOMAIN h.hdr
  BY BlocksOutside DEF Outside
<1>2. h.hdr[b] \in HeaderType
  BY <1>0, <1>1
<1>3. /\ r \in HeaderType /\ r.size = h.hdr[b].size /\ r.is_free = FALSE /\ r.prev = h.hdr[b].prev
  BY <1>2 DEF HeaderType
<1>4. g = [h EXCEPT !.hdr = hdr]
  BY DEF HandOut
<1> HIDE DEF r, O
<1>5. hdr \in [O -> HeaderType] /\ DOMAIN hdr = O
  BY <1>0, <1>1, <1>3
<1>6. hdr[b] = r /\ \A a \in O \ {b} : hdr[a] = h.hdr[a]
  BY <1>1
<1> HIDE DEF hdr, g
<1>7. SameBesides(g, h) /\ HasList(g) /\ g.blocks = h.blocks /\ g.hdr = hdr
  BY <1>0, <1>4 DEF SameBesides, HasList
<1>8. \A c \in BlocksOf(h) :
        /\ c \in DOMAIN g.hdr
        /\ g.hdr[c].size = h.hdr[c].size
        /\ g.hdr[c].prev = h.hdr[c].prev
  BY <1>1, <1>3, <1>5, <1>6, <1>7
<1>9. UsedOf(g) = UsedOf(h) \cup {b}
  <2>1. b \in UsedOf(g)
    BY <1>1, <1>3, <1>5, <1>6, <1>7 DEF UsedOf
  <2>2. \A a \in O \ {b} : a \in UsedOf(g) <=> a \in UsedOf(h)
    BY <1>1, <1>5, <1>6, <1>7 DEF UsedOf
  <2>3. UsedOf(g) \subseteq O /\ UsedOf(h) \subseteq O
    BY <1>0, <1>1, <1>5, <1>7 DEF UsedOf
  <2> QED BY <2>1, <2>2, <2>3
<1>10. UsedOf(g) \subseteq BlocksOf(h)
  BY <1>0, <1>9
<1>11. g.hdr \in [DOMAIN g.hdr -> HeaderType]
  BY <1>5, <1>7
<1>12. ListOK(g) /\ BlocksOf(g) = BlocksOf(h) /\ Covered(g) = Covered(h)
  BY <1>7, <1>8, <1>10, <1>11, SameSizes
<1>13. \A c \in BlocksOf(h) \ {b} : g.hdr[c].is_free = h.hdr[c].is_free
  BY <1>1, <1>6, <1>7
<1> QED BY <1>7, <1>8, <1>9, <1>12, <1>13 DEF g

\* A block is marked as free.
LEMMA MarkFreeKeeps ==
    ASSUME NEW h, ListOK(h), NEW b \in BlocksOf(h)
    PROVE  LET g == MarkFree(h, b)
           IN  /\ ListOK(g) /\ SameBesides(g, h) /\ g.blocks = h.blocks
               /\ BlocksOf(g) = BlocksOf(h) /\ Covered(g) = Covered(h)
               /\ UsedOf(g) = UsedOf(h) \ {b}
               /\ g.hdr[b].is_free
               /\ \A c \in BlocksOf(h) : g.hdr[c].size = h.hdr[c].size
               /\ \A c \in BlocksOf(h) \ {b} : g.hdr[c].is_free = h.hdr[c].is_free
<1> DEFINE g   == MarkFree(h, b)
           r   == [h.hdr[b] EXCEPT !.is_free = TRUE]
           D   == DOMAIN h.hdr
           hdr == [h.hdr EXCEPT ![b].is_free = TRUE]
<1>0. ListTyped(h) /\ HasList(h) /\ UsedOf(h) \subseteq BlocksOf(h) /\ h.hdr \in [D -> HeaderType]
  BY DEF ListOK, ListTyped
<1>1. BlocksOf(h) \subseteq D
  BY <1>0 DEF ListTyped
<1>2. h.hdr[b] \in HeaderType
  BY <1>0, <1>1
<1>3. /\ r \in HeaderType /\ r.size = h.hdr[b].size /\ r.is_free = TRUE /\ r.prev = h.hdr[b].prev
  BY <1>2 DEF HeaderType
<1>4. g = [h EXCEPT !.hdr = hdr]
  BY DEF MarkFree
<1>5. hdr \in [D -> HeaderType] /\ DOMAIN hdr = D
  <2>1. b \in D
    BY <1>1
  <2> HIDE DEF D
  <2> QED BY <1>0, <2>1 DEF HeaderType
<1>6. hdr[b] = r /\ \A a \in D \ {b} : hdr[a] = h.hdr[a]
  BY <1>0, <1>1
<1> HIDE DEF hdr, g, r
<1>7. SameBesides(g, h) /\ HasList(g) /\ g.blocks = h.blocks /\ g.hdr = hdr
  BY <1>0, <1>4 DEF SameBesides, HasList
<1>8. \A c \in BlocksOf(h) :
        /\ c \in DOMAIN g.hdr
        /\ g.hdr[c].size = h.hdr[c].size
        /\ g.hdr[c].prev = h.hdr[c].prev
  BY <1>1, <1>3, <1>5, <1>6, <1>7
<1>9. UsedOf(g) = UsedOf(h) \ {b}
  <2>1. b \notin UsedOf(g)
    BY <1>1, <1>3, <1>5, <1>6, <1>7 DEF UsedOf
  <2>2. \A a \in D \ {b} : a \in UsedOf(g) <=> a \in UsedOf(h)
    BY <1>1, <1>5, <1>6, <1>7 DEF UsedOf
  <2>3. UsedOf(g) \subseteq D /\ UsedOf(h) \subseteq D
    BY <1>0, <1>1, <1>5, <1>7 DEF UsedOf
  <2> QED BY <2>1, <2>2, <2>3
<1>10. UsedOf(g) \subseteq BlocksOf(h)
  BY <1>0, <1>9
<1>11. g.hdr \in [DOMAIN g.hdr -> HeaderType]
  BY <1>5, <1>7
<1>12. ListOK(g) /\ BlocksOf(g) = BlocksOf(h) /\ Covered(g) = Covered(h)
  BY <1>7, <1>8, <1>10, <1>11, SameSizes
<1>13. \A c \in BlocksOf(h) \ {b} : g.hdr[c].is_free = h.hdr[c].is_free
  BY <1>1, <1>6, <1>7
<1>14. g.hdr[b].is_free
  BY <1>3, <1>6, <1>7
<1> QED BY <1>7, <1>8, <1>9, <1>12, <1>13, <1>14 DEF g

\* The bytes of a block with its header at b.
Bytes(b, size) == b .. ((b + HDR + size) - 1)

LEMMA BytesRange ==
    ASSUME NEW b, NEW size
    PROVE  Bytes(b, size) = b .. ((b + HDR + size) - 1)
BY DEF Bytes

\* A free block goes last in the list, over bytes that were in no block.
LEMMA AppendKeeps ==
    ASSUME NEW h, ListOK(h), NEW b \in Address, NEW size \in Nat,
           \A a \in Covered(h) : a \notin Bytes(b, size)
    PROVE  LET g == AppendBlock(h, b, size)
           IN  /\ ListOK(g) /\ SameBesides(g, h)
               /\ b \notin BlocksOf(h) /\ BlocksOf(g) = BlocksOf(h) \cup {b}
               /\ Len(g.blocks) = Len(h.blocks) + 1 /\ g.blocks[Len(h.blocks) + 1] = b
               /\ \A j \in 1 .. Len(h.blocks) : g.blocks[j] = h.blocks[j]
               /\ UsedOf(g) = UsedOf(h)
               /\ Covered(g) = Covered(h) \cup Bytes(b, size)
               /\ g.hdr[b].size = size /\ g.hdr[b].is_free
               /\ \A c \in BlocksOf(h) :
                    g.hdr[c].size = h.hdr[c].size /\ g.hdr[c].is_free = h.hdr[c].is_free
<1> DEFINE g    == AppendBlock(h, b, size)
           s    == h.blocks
           n    == Len(s)
           t    == Append(s, b)
           p    == IF s = <<>> THEN Null ELSE s[n]
           r    == Header(size, TRUE, p)
           D    == DOMAIN h.hdr
           hdr  == Put(h.hdr, b, r)
           End  == b + HDR + size
<1>0. ListTyped(h) /\ Once(h) /\ PrevPointersRight(h) /\ Apart(h) /\ UsedOf(h) \subseteq BlocksOf(h)
  BY DEF ListOK
<1>1. /\ n \in Nat /\ s \in Seq(Address) /\ DOMAIN s = 1 .. n /\ HasList(h)
      /\ h.hdr \in [D -> HeaderType] /\ BlocksOf(h) \subseteq D
  BY <1>0, LenProperties DEF ListTyped
<1>2. b \in Nat /\ b # 0 /\ HDR \in Nat /\ HDR >= 1 /\ End \in Nat /\ b < End
  BY BlockAssumption DEF Address
<1>2a. Bytes(b, size) = b .. (End - 1)
  BY BytesRange
<1>3. p \in Nat /\ (n = 0 => p = Null) /\ (n # 0 => p = s[n])
  <2>1. CASE s = <<>>
    <3>1. n = 0
      BY <2>1
    <3> QED BY <2>1, <3>1 DEF Null
  <2>2. CASE s # <<>>
    <3>1. n \in 1 .. n /\ n # 0
      BY <1>1, <2>2, EmptySeq
    <3>2. s[n] \in Nat
      BY <1>0, <3>1, BlockAt, BlockTyped
    <3> QED BY <2>2, <3>1, <3>2
  <2> QED BY <2>1, <2>2
<1> HIDE DEF p
<1>4. r \in HeaderType /\ r.size = size /\ r.is_free = TRUE /\ r.prev = p
  BY <1>3 DEF Header, HeaderType
<1>5. g = Relisted(h, hdr, t)
  BY DEF AppendBlock, Relisted, p
<1>6. hdr \in [D \cup {b} -> HeaderType] /\ hdr[b] = r /\ \A a \in D \ {b} : hdr[a] = h.hdr[a]
  <2> HIDE DEF r, D
  <2> QED BY <1>1, <1>4 DEF Put
<1> HIDE DEF hdr, g, r, D
<1>7. /\ t \in Seq(Address) /\ Len(t) = n + 1 /\ DOMAIN t = 1 .. (n + 1)
      /\ t[n + 1] = b /\ \A j \in 1 .. n : t[j] = s[j]
  <2>1. /\ t \in Seq(Address) /\ Len(t) = n + 1
        /\ t[n + 1] = b /\ \A j \in 1 .. n : t[j] = s[j]
    BY <1>1, AppendProperties
  <2> QED BY <2>1, LenProperties
<1> HIDE DEF t
<1>8. SameBesides(g, h) /\ HasList(g) /\ g.hdr = hdr /\ g.blocks = t
  BY <1>1, <1>5, ListReplaced
<1>9. \A c \in BlocksOf(h) : c \in Nat /\ BlockEnd(h, c) \in Nat /\ c < BlockEnd(h, c)
  BY <1>0, BlockTyped
<1>10. \A c \in BlocksOf(h) : BlockEnd(h, c) <= b \/ End <= c
  <2> TAKE c \in BlocksOf(h)
  <2>0. c \in Nat /\ BlockEnd(h, c) \in Nat /\ c < BlockEnd(h, c)
    BY <1>9
  <2>1. \A a \in c .. (BlockEnd(h, c) - 1) : a \in Covered(h)
    <3>1. \A a : a \in Covered(h) <=> \E d \in BlocksOf(h) : a \in d .. (BlockEnd(h, d) - 1)
      BY DEF Covered
    <3> QED BY <3>1
  <2> HIDE DEF End
  <2>2. \A a \in c .. (BlockEnd(h, c) - 1) : a \notin b .. (End - 1)
    BY <1>2a, <2>1
  <2>3. c \notin b .. (End - 1)
    BY <2>0, <2>2
  <2>4. ~ (c <= b /\ b < BlockEnd(h, c))
    BY <1>2, <2>0, <2>2
  <2> QED BY <1>2, <2>0, <2>3, <2>4
<1>11. b \notin BlocksOf(h)
  BY <1>2, <1>9, <1>10
<1> HIDE DEF s, n
<1>12. BlocksOf(g) = BlocksOf(h) \cup {b}
  <2>1. \A c \in BlocksOf(g) : c \in BlocksOf(h) \cup {b}
    <3> TAKE c \in BlocksOf(g)
    <3>1. PICK j \in 1 .. (n + 1) : t[j] = c
      BY <1>7, <1>8 DEF BlocksOf
    <3>2. j \in 1 .. n \/ j = n + 1
      BY <1>1
    <3> QED BY <1>1, <1>7, <3>1, <3>2 DEF BlocksOf, s
  <2>2. b \in BlocksOf(g)
    <3>1. n + 1 \in 1 .. (n + 1)
      BY <1>1
    <3> QED BY <1>7, <1>8, <3>1 DEF BlocksOf
  <2>3. \A c \in BlocksOf(h) : c \in BlocksOf(g)
    <3> TAKE c \in BlocksOf(h)
    <3>1. PICK j \in 1 .. n : s[j] = c
      BY <1>1 DEF BlocksOf, s
    <3>2. j \in 1 .. (n + 1)
      BY <1>1
    <3> QED BY <1>7, <1>8, <3>1, <3>2 DEF BlocksOf
  <2> QED BY <2>1, <2>2, <2>3
<1>13. DOMAIN g.hdr = D \cup {b}
  BY <1>6, <1>8
<1>14. ListTyped(g)
  BY <1>1, <1>6, <1>7, <1>8, <1>12, <1>13 DEF ListTyped
<1>15. \A j \in 1 .. n : s[j] \in BlocksOf(h)
  BY <1>1 DEF BlocksOf, s
<1>16. \A j, k \in 1 .. n : s[j] = s[k] => j = k
  BY <1>0, <1>1 DEF Once, s
<1>17. Once(g)
  <2> SUFFICES ASSUME NEW j \in 1 .. (n + 1), NEW k \in 1 .. (n + 1), t[j] = t[k] PROVE j = k
    BY <1>7, <1>8 DEF Once
  <2>1. \A x \in 1 .. (n + 1) : x # n + 1 => x \in 1 .. n /\ t[x] = s[x] /\ t[x] # b
    <3> TAKE x \in 1 .. (n + 1)
    <3> HAVE x # n + 1
    <3>1. x \in 1 .. n
      BY <1>1
    <3> QED BY <1>7, <1>11, <1>15, <3>1
  <2> QED BY <1>7, <1>16, <2>1
<1>18. \A c \in BlocksOf(h) : g.hdr[c] = h.hdr[c]
  BY <1>1, <1>6, <1>8, <1>11
<1>19. PrevPointersRight(g)
  <2> SUFFICES ASSUME NEW j \in 1 .. (n + 1)
               PROVE  g.hdr[t[j]].prev = IF j = 1 THEN Null ELSE t[j - 1]
    BY <1>7, <1>8 DEF PrevPointersRight
  <2>1. CASE j \in 1 .. n
    <3>1. h.hdr[s[j]].prev = IF j = 1 THEN Null ELSE s[j - 1]
      BY <1>0, <1>1, <2>1 DEF PrevPointersRight, s
    <3>2. t[j] = s[j] /\ g.hdr[s[j]] = h.hdr[s[j]]
      BY <1>7, <1>15, <1>18, <2>1
    <3>3. j # 1 => j - 1 \in 1 .. n
      BY <1>1, <2>1
    <3>4. j # 1 => t[j - 1] = s[j - 1]
      BY <1>7, <3>3
    <3> QED BY <3>1, <3>2, <3>4
  <2>2. CASE j = n + 1
    <3>1. g.hdr[t[j]].prev = p
      BY <1>4, <1>6, <1>7, <1>8, <2>2
    <3>2. n # 0 => j # 1 /\ j - 1 = n /\ n \in 1 .. n
      BY <1>1, <2>2
    <3>3. n = 0 => j = 1
      BY <2>2
    <3>4. n # 0 => t[j - 1] = s[n]
      BY <1>7, <3>2
    <3> QED BY <1>3, <3>1, <3>2, <3>3, <3>4
  <2>3. j \in 1 .. n \/ j = n + 1
    BY <1>1
  <2> QED BY <2>1, <2>2, <2>3
<1>20. BlockEnd(g, b) = End /\ \A c \in BlocksOf(h) : BlockEnd(g, c) = BlockEnd(h, c)
  BY <1>4, <1>6, <1>8, <1>18 DEF BlockEnd, Data
<1> HIDE DEF End
<1>21. Apart(g)
  <2> SUFFICES ASSUME NEW c \in BlocksOf(g), NEW d \in BlocksOf(g), c # d
               PROVE  BlockEnd(g, c) <= d \/ BlockEnd(g, d) <= c
    BY DEF Apart
  <2>1. CASE c \in BlocksOf(h) /\ d \in BlocksOf(h)
    BY <1>0, <1>20, <2>1 DEF Apart
  <2>2. CASE c = b /\ d \in BlocksOf(h)
    BY <1>10, <1>20, <2>2
  <2>3. CASE d = b /\ c \in BlocksOf(h)
    BY <1>10, <1>20, <2>3
  <2> QED BY <1>12, <2>1, <2>2, <2>3
<1>22. UsedOf(g) = UsedOf(h)
  <2>1. \A a \in D \ {b} : a \in UsedOf(g) <=> a \in UsedOf(h)
    BY <1>6, <1>8, <1>13 DEF UsedOf, D
  <2>2. b \notin UsedOf(g)
    BY <1>4, <1>6, <1>8 DEF UsedOf
  <2>3. b \notin UsedOf(h) /\ UsedOf(h) \subseteq D /\ UsedOf(g) \subseteq D \cup {b}
    BY <1>0, <1>11, <1>13 DEF UsedOf, D
  <2> QED BY <2>1, <2>2, <2>3
<1>23. Covered(g) = Covered(h) \cup (b .. (End - 1))
  <2>1. \A a : a \in Covered(h) <=> \E c \in BlocksOf(h) : a \in c .. (BlockEnd(h, c) - 1)
    BY DEF Covered
  <2>2. \A a : a \in Covered(g) <=> \E c \in BlocksOf(g) : a \in c .. (BlockEnd(g, c) - 1)
    BY DEF Covered
  <2>3. \A c \in BlocksOf(h) : c .. (BlockEnd(h, c) - 1) = c .. (BlockEnd(g, c) - 1)
    BY <1>20
  <2>4. b .. (BlockEnd(g, b) - 1) = b .. (End - 1)
    BY <1>20
  <2>5. ASSUME NEW a PROVE a \in Covered(g) <=> a \in Covered(h) \cup (b .. (End - 1))
    BY <1>12, <2>1, <2>2, <2>3, <2>4
  <2> QED BY <2>5
<1>24. ListOK(g)
  BY <1>0, <1>12, <1>14, <1>17, <1>19, <1>21, <1>22 DEF ListOK
<1>25. g.hdr[b].size = size /\ g.hdr[b].is_free
  BY <1>4, <1>6, <1>8
<1>26. /\ Len(g.blocks) = Len(h.blocks) + 1 /\ g.blocks[Len(h.blocks) + 1] = b
       /\ \A j \in 1 .. Len(h.blocks) : g.blocks[j] = h.blocks[j]
  BY <1>7, <1>8 DEF n, s
<1>27. Covered(g) = Covered(h) \cup Bytes(b, size)
  BY <1>2a, <1>23
<1>28. \A c \in BlocksOf(h) : g.hdr[c].size = h.hdr[c].size /\ g.hdr[c].is_free = h.hdr[c].is_free
  BY <1>18, Zenon
<1> QED BY <1>8, <1>11, <1>12, <1>22, <1>24, <1>25, <1>26, <1>27, <1>28 DEF g

-----------------------------------------------------------------------------
\* What the heaps do to the list without handing out or taking back a block:
\* the same bytes, the same used blocks, each as big as before.
Rearranged(g, h) ==
    /\ ListOK(g) /\ DOMAIN g = DOMAIN h
    /\ UsedOf(g) = UsedOf(h)
    /\ Covered(g) = Covered(h)
    /\ \A c \in UsedOf(h) : g.hdr[c].size = h.hdr[c].size

LEMMA RearrangedTwice ==
    ASSUME NEW f, NEW g, NEW h, Rearranged(f, g), Rearranged(g, h)
    PROVE  Rearranged(f, h)
BY DEF Rearranged

LEMMA SameList ==
    ASSUME NEW h, NEW g, ListOK(h), DOMAIN g = DOMAIN h, g.hdr = h.hdr, g.blocks = h.blocks
    PROVE  Rearranged(g, h) /\ BlocksOf(g) = BlocksOf(h)
<1>1. BlocksOf(g) = BlocksOf(h) /\ UsedOf(g) = UsedOf(h)
  BY DEF BlocksOf, UsedOf
<1>2. \A c : BlockEnd(g, c) = BlockEnd(h, c)
  BY DEF BlockEnd
<1>3. Covered(g) = Covered(h)
  BY <1>1, <1>2 DEF Covered
<1>4. ListTyped(h) /\ Once(h) /\ PrevPointersRight(h) /\ Apart(h) /\ UsedOf(h) \subseteq BlocksOf(h)
  BY DEF ListOK
<1>5. ListTyped(g) /\ Once(g) /\ PrevPointersRight(g)
  BY <1>1, <1>4 DEF ListTyped, HasList, Once, PrevPointersRight
<1>6. Apart(g)
  BY <1>1, <1>2, <1>4 DEF Apart
<1>7. ListOK(g)
  BY <1>1, <1>4, <1>5, <1>6 DEF ListOK
<1> QED BY <1>1, <1>3, <1>7 DEF Rearranged

LEMMA UsedAreBlocks ==
    ASSUME NEW h, ListOK(h), NEW b
    PROVE  b \in UsedOf(h) <=> b \in BlocksOf(h) /\ ~ h.hdr[b].is_free
BY DEF ListOK, ListTyped, UsedOf

\* coalesce_block, forwards and backwards.
LEMMA MergeNextKeeps ==
    ASSUME NEW h, ListOK(h), NEW b \in BlocksOf(h), h.hdr[b].is_free, MergesNext(h, b)
    PROVE  LET g == JoinNext(h, b)
           IN  /\ Rearranged(g, h) /\ SameBesides(g, h)
               /\ Len(g.blocks) = Len(h.blocks) - 1
               /\ b \in BlocksOf(g) /\ g.hdr[b].is_free
<1>0. ListTyped(h) /\ Once(h)
  BY DEF ListOK
<1>1. PICK i \in 1 .. Len(h.blocks) : h.blocks[i] = b
  BY <1>0, BlockPosition
<1>2. i < Len(h.blocks) /\ NextOf(h, b) = h.blocks[i + 1]
  BY <1>0, <1>1, NextAt DEF MergesNext
<1>3. i \in 1 .. (Len(h.blocks) - 1)
  BY <1>0, <1>2, LenProperties DEF ListTyped
<1>4. JoinNext(h, b) = Joined(h, i)
  BY <1>0, <1>1, <1>3, JoinShape
<1>5. Joins(h, i, b, NextOf(h, b))
  BY <1>1, <1>2 DEF Joins, MergesNext
<1> DEFINE g == Joined(h, i)
           next == NextOf(h, b)
<1> HIDE DEF g, next
<1>6. /\ ListOK(g) /\ SameBesides(g, h)
      /\ b \in BlocksOf(g) /\ BlocksOf(g) = BlocksOf(h) \ {next}
      /\ Len(g.blocks) = Len(h.blocks) - 1
      /\ UsedOf(g) = UsedOf(h)
      /\ Covered(g) = Covered(h)
      /\ g.hdr[b].is_free
      /\ \A c \in BlocksOf(g) \ {b} : g.hdr[c].size = h.hdr[c].size
  BY <1>3, <1>5, JoinedKeeps DEF g, next
<1>7. \A c \in UsedOf(h) : c \in BlocksOf(g) \ {b}
  BY <1>6, UsedAreBlocks
<1>8. Rearranged(g, h)
  BY <1>6, <1>7 DEF Rearranged, SameBesides
<1> QED BY <1>4, <1>6, <1>8 DEF g

LEMMA MergePrevKeeps ==
    ASSUME NEW h, ListOK(h), NEW b \in BlocksOf(h), h.hdr[b].is_free, MergesPrev(h, b)
    PROVE  LET g == JoinPrev(h, b)
           IN  /\ Rearranged(g, h) /\ SameBesides(g, h)
               /\ Len(g.blocks) = Len(h.blocks) - 1
<1>0. ListTyped(h) /\ Once(h) /\ PrevPointersRight(h)
  BY DEF ListOK
<1>1. PICK j \in 1 .. Len(h.blocks) : h.blocks[j] = b
  BY <1>0, BlockPosition
<1>2. /\ DOMAIN h.blocks = 1 .. Len(h.blocks) /\ Len(h.blocks) \in Nat
  BY <1>0, LenProperties DEF ListTyped
<1>3. j # 1 /\ h.hdr[b].prev = h.blocks[j - 1]
  BY <1>0, <1>1, <1>2 DEF PrevPointersRight, MergesPrev
<1>4. PICK i \in 1 .. (Len(h.blocks) - 1) : j = i + 1 /\ i = j - 1
  <2>1. j - 1 \in 1 .. (Len(h.blocks) - 1) /\ j = (j - 1) + 1
    BY <1>2, <1>3
  <2> QED BY <2>1
<1>5. h.blocks[i + 1] = b /\ h.blocks[i] = h.hdr[b].prev
  BY <1>1, <1>3, <1>4
<1>6. JoinPrev(h, b) = Joined(h, i)
  BY <1>0, <1>5, JoinShape
<1> DEFINE p == h.hdr[b].prev
<1>7. Joins(h, i, p, b)
  BY <1>5 DEF Joins, MergesPrev
<1> DEFINE g == Joined(h, i)
<1> HIDE DEF g, p
<1>8. /\ ListOK(g) /\ SameBesides(g, h)
      /\ BlocksOf(g) = BlocksOf(h) \ {b}
      /\ Len(g.blocks) = Len(h.blocks) - 1
      /\ UsedOf(g) = UsedOf(h)
      /\ Covered(g) = Covered(h)
      /\ \A c \in BlocksOf(g) \ {p} : g.hdr[c].size = h.hdr[c].size
  BY <1>7, JoinedKeeps DEF g
<1>9. p \in BlocksOf(h) /\ h.hdr[p].is_free
  BY <1>0, <1>2, <1>4, <1>5, BlockAt DEF p, MergesPrev
<1>10. \A c \in UsedOf(h) : c \in BlocksOf(g) \ {p}
  BY <1>8, <1>9, UsedAreBlocks
<1>11. Rearranged(g, h)
  BY <1>8, <1>10 DEF Rearranged, SameBesides
<1> QED BY <1>6, <1>8, <1>11 DEF g

\* split_block of a block that is free.
LEMMA SplitFreeKeeps ==
    ASSUME NEW h, ListOK(h), NEW b \in BlocksOf(h), h.hdr[b].is_free,
           NEW size \in Nat, Splits(h, b, size)
    PROVE  LET g == SplitAt(h, b, size)
           IN  /\ Rearranged(g, h) /\ SameBesides(g, h)
               /\ Len(g.blocks) = Len(h.blocks) + 1
               /\ b \in BlocksOf(g) /\ g.hdr[b].is_free /\ g.hdr[b].size = size
<1> DEFINE g == SplitAt(h, b, size)
           new == Data(b) + size
<1> HIDE DEF g, new
<1>1. /\ ListOK(g) /\ SameBesides(g, h)
      /\ BlocksOf(g) = BlocksOf(h) \cup {new}
      /\ Len(g.blocks) = Len(h.blocks) + 1
      /\ UsedOf(g) = UsedOf(h)
      /\ Covered(g) = Covered(h)
      /\ g.hdr[b].size = size
      /\ \A c \in BlocksOf(h) \ {b} : g.hdr[c].size = h.hdr[c].size
  BY SplitKeeps DEF g, new
<1>1a. g.hdr[b].is_free
  <2>1. g.hdr[b].is_free = h.hdr[b].is_free
    BY SplitKeeps, ZenonT(30) DEF g
  <2> QED BY <2>1, Zenon
<1>2. \A c \in UsedOf(h) : c \in BlocksOf(h) \ {b}
  BY UsedAreBlocks
<1>3. Rearranged(g, h)
  BY <1>1, <1>2 DEF Rearranged, SameBesides
<1> QED BY <1>1, <1>1a, <1>3 DEF g

\* Whichever block fits is a free block of the list, and big enough.
LEMMA FittingBlock ==
    ASSUME NEW h, ListOK(h), NEW size \in Nat, NEW i \in Fitting(h, size)
    PROVE  /\ h.blocks[i] \in BlocksOf(h)
           /\ h.hdr[h.blocks[i]].is_free
           /\ h.hdr[h.blocks[i]].size >= size
BY DEF Fitting, BlocksOf

-----------------------------------------------------------------------------
\* The allocations and the blocks.

\* The used blocks are the same, and as big.
SameUsed(g, h) ==
    UsedOf(g) = UsedOf(h) /\ \A c \in UsedOf(h) : g.hdr[c].size = h.hdr[c].size

LEMMA RearrangedSameUsed ==
    ASSUME NEW g, NEW h, Rearranged(g, h)
    PROVE  SameUsed(g, h)
BY DEF Rearranged, SameUsed

LEMMA SameUsedTwice ==
    ASSUME NEW f, NEW g, NEW h, SameUsed(f, g), SameUsed(g, h)
    PROVE  SameUsed(f, h)
BY DEF SameUsed

\* Block b, which was not used, is used in g, and has room for size bytes.
Grants(g, h, b, size) ==
    /\ b \in Address /\ b \notin UsedOf(h)
    /\ UsedOf(g) = UsedOf(h) \cup {b}
    /\ g.hdr[b].size >= size
    /\ \A c \in UsedOf(h) : g.hdr[c].size = h.hdr[c].size

\* Every allocation has a used block of its own, and every used block has one.
Held(h, L) ==
    /\ L \subseteq [ptr : Nat, size : Nat] /\ IsFiniteSet(L)
    /\ \A r \in L : FromData(r.ptr) \in UsedOf(h)
    /\ \A b \in UsedOf(h) : \E r \in L : FromData(r.ptr) = b
    /\ \A r, s \in L : r.ptr = s.ptr => r = s

\* Its block is big enough for what was asked for.
Fits(h, L) == \A r \in L : r.size <= h.hdr[FromData(r.ptr)].size

\* An allocation, as both heaps record it.
Allocation(p, size) == [ptr |-> p, size |-> size]

LEMMA HeaderAndData ==
    /\ \A b \in Nat : FromData(Data(b)) = b /\ Data(b) \in Nat
    /\ \A p, q \in Nat : FromData(p) = FromData(q) => p = q
    /\ \A p \in Nat, b \in Nat : FromData(p) = b => p = Data(b)
BY BlockAssumption DEF FromData, Data

LEMMA HeldSame ==
    ASSUME NEW g, NEW h, NEW L, SameUsed(g, h), Held(h, L)
    PROVE  Held(g, L) /\ (Fits(h, L) => Fits(g, L))
BY DEF SameUsed, Held, Fits

LEMMA HeldAdd ==
    ASSUME NEW g, NEW h, NEW L, Held(h, L), NEW b, NEW size \in Nat, NEW p \in Nat,
           p = Data(b), p # Null, Grants(g, h, b, size)
    PROVE  LET M == L \cup {Allocation(p, size)}
           IN  Held(g, M) /\ (Fits(h, L) => Fits(g, M))
<1> DEFINE new == [ptr |-> p, size |-> size]
           M == L \cup {new}
<1>1. {Allocation(p, size)} = {new}
  BY DEF Allocation
<1>2. b \in Nat /\ FromData(p) = b
  BY HeaderAndData DEF Grants, Address
<1>3. new \in [ptr : Nat, size : Nat] /\ new.ptr = p /\ new.size = size
  OBVIOUS
<1> HIDE DEF new
<1>4. M \subseteq [ptr : Nat, size : Nat]
  BY <1>3 DEF Held
<1>5. IsFiniteSet(M)
  BY FS_AddElement DEF Held
<1>6. \A r \in L : r.ptr # p
  BY <1>2 DEF Held, Grants
<1>7. \A r, s \in M : r.ptr = s.ptr => r = s
  BY <1>3, <1>6 DEF Held
<1>8. \A r \in M : FromData(r.ptr) \in UsedOf(g)
  BY <1>2, <1>3 DEF Held, Grants
<1>9. \A c \in UsedOf(g) : \E r \in M : FromData(r.ptr) = c
  BY <1>2, <1>3 DEF Held, Grants
<1>10. Fits(h, L) => Fits(g, M)
  BY <1>2, <1>3 DEF Held, Grants, Fits
<1>11. Held(g, M)
  BY <1>4, <1>5, <1>7, <1>8, <1>9 DEF Held
<1> QED BY <1>1, <1>10, <1>11

LEMMA HeldRemove ==
    ASSUME NEW g, NEW h, NEW L, Held(h, L), NEW r \in L, NEW b, b = FromData(r.ptr),
           UsedOf(g) = UsedOf(h) \ {b},
           \A c \in UsedOf(h) \ {b} : g.hdr[c].size = h.hdr[c].size
    PROVE  Held(g, L \ {r}) /\ (Fits(h, L) => Fits(g, L \ {r}))
<1>1. \A s \in L \ {r} : FromData(s.ptr) # b /\ FromData(s.ptr) \in UsedOf(h)
  BY HeaderAndData DEF Held
<1>2. IsFiniteSet(L \ {r})
  BY FS_RemoveElement DEF Held
<1>3. \A s \in L \ {r} : FromData(s.ptr) \in UsedOf(g)
  BY <1>1
<1>4. \A c \in UsedOf(g) : \E s \in L \ {r} : FromData(s.ptr) = c
  BY DEF Held
<1>5. Held(g, L \ {r})
  BY <1>2, <1>3, <1>4 DEF Held
<1>6. Fits(h, L) => Fits(g, L \ {r})
  BY <1>1 DEF Fits
<1> QED BY <1>5, <1>6

\* The size of an allocation changes, and its block with it.
LEMMA HeldReplace ==
    ASSUME NEW g, NEW h, NEW L, Held(h, L), NEW r \in L, NEW b, b = FromData(r.ptr),
           NEW size \in Nat, UsedOf(g) = UsedOf(h), r.ptr # Null,
           \A c \in UsedOf(h) \ {b} : g.hdr[c].size = h.hdr[c].size
    PROVE  LET M == (L \ {r}) \cup {Allocation(r.ptr, size)}
           IN  Held(g, M) /\ (Fits(h, L) /\ g.hdr[b].size >= size => Fits(g, M))
<1> DEFINE new == [ptr |-> r.ptr, size |-> size]
           M == (L \ {r}) \cup {new}
<1>1. {Allocation(r.ptr, size)} = {new}
  BY DEF Allocation
<1>2. r.ptr \in Nat /\ b \in UsedOf(h)
  BY DEF Held
<1>3. new \in [ptr : Nat, size : Nat] /\ new.ptr = r.ptr /\ new.size = size
  BY <1>2
<1> HIDE DEF new
<1>4. \A s \in L \ {r} : s.ptr # r.ptr /\ FromData(s.ptr) # b /\ FromData(s.ptr) \in UsedOf(h)
  BY HeaderAndData DEF Held
<1>5. IsFiniteSet(M)
  <2>1. IsFiniteSet(L \ {r})
    BY FS_RemoveElement DEF Held
  <2> QED BY <2>1, FS_AddElement
<1>6. M \subseteq [ptr : Nat, size : Nat]
  BY <1>3 DEF Held
<1>7. \A s, t \in M : s.ptr = t.ptr => s = t
  BY <1>3, <1>4 DEF Held
<1>8. \A s \in M : FromData(s.ptr) \in UsedOf(g)
  BY <1>2, <1>3, <1>4
<1>9. \A c \in UsedOf(g) : \E s \in M : FromData(s.ptr) = c
  BY <1>3 DEF Held
<1>10. Held(g, M)
  BY <1>5, <1>6, <1>7, <1>8, <1>9 DEF Held
<1>11. ASSUME Fits(h, L), g.hdr[b].size >= size PROVE Fits(g, M)
  <2>1. g.hdr[FromData(new.ptr)].size >= new.size
    BY <1>3, <1>11
  <2>2. new.size <= g.hdr[FromData(new.ptr)].size
    BY <2>1, <1>3
  <2>3. \A s \in L \ {r} : s.size <= g.hdr[FromData(s.ptr)].size
    BY <1>4, <1>11 DEF Fits
  <2> QED BY <2>2, <2>3 DEF Fits
<1> QED BY <1>1, <1>10, <1>11

LEMMA HeldBlock ==
    ASSUME NEW h, NEW L, ListOK(h), Held(h, L), NEW r \in L
    PROVE  LET b == FromData(r.ptr)
           IN  /\ b \in UsedOf(h) /\ b \in BlocksOf(h) /\ b \in Nat
               /\ r.ptr \in Nat /\ r.ptr # Null /\ r.ptr = Data(b) /\ h.hdr[b].size \in Nat
<1> DEFINE b == FromData(r.ptr)
<1>1. b \in UsedOf(h) /\ r.ptr \in Nat
  BY DEF Held
<1> HIDE DEF b
<1>2. b \in BlocksOf(h)
  BY <1>1, UsedAreBlocks
<1>3. b \in Nat /\ b >= 1 /\ h.hdr[b].size \in Nat
  BY <1>2, BlockTyped DEF ListOK
<1>4. r.ptr = Data(b)
  BY <1>1, <1>3, HeaderAndData DEF b
<1>5. r.ptr # Null
  BY <1>3, <1>4, BlockAssumption DEF Data, Null
<1> QED BY <1>1, <1>2, <1>3, <1>4, <1>5 DEF b

LEMMA HeldCardinality ==
    ASSUME NEW h, NEW L, Held(h, L)
    PROVE  /\ UsedOf(h) = {FromData(r.ptr) : r \in L}
           /\ Cardinality(UsedOf(h)) = Cardinality(L)
<1> DEFINE f == [r \in L |-> FromData(r.ptr)]
<1>1. UsedOf(h) = {FromData(r.ptr) : r \in L}
  BY DEF Held
<1>2. f \in Bijection(L, UsedOf(h))
  <2>1. f \in [L -> UsedOf(h)]
    BY DEF Held
  <2>2. \A r, s \in L : f[r] = f[s] => r = s
    BY HeaderAndData DEF Held
  <2>3. \A b \in UsedOf(h) : \E r \in L : f[r] = b
    BY DEF Held
  <2> QED BY <2>1, <2>2, <2>3 DEF Bijection, Injection, Surjection, IsInjective
<1>3. ExistsBijection(L, UsedOf(h))
  BY <1>2 DEF ExistsBijection
<1> QED BY <1>1, <1>3, FS_Bijection DEF Held

-----------------------------------------------------------------------------
\* Free neighbours.

\* Free blocks that the block before them could take in: coalescing is not
\* complete where there is one.
Pairs(h) == {c \in BlocksOf(h) : h.hdr[c].is_free /\ MergesPrev(h, c)}

\* The block after b, if there is one.
After(h, b) == {c \in BlocksOf(h) : h.hdr[c].prev = b}

LEMMA PrevPosition ==
    ASSUME NEW h, ListOK(h), NEW c \in BlocksOf(h), h.hdr[c].prev # Null
    PROVE  \E j \in 1 .. (Len(h.blocks) - 1) : h.blocks[j] = h.hdr[c].prev /\ h.blocks[j + 1] = c
<1>0. ListTyped(h) /\ PrevPointersRight(h)
  BY DEF ListOK
<1>1. Len(h.blocks) \in Nat /\ DOMAIN h.blocks = 1 .. Len(h.blocks)
  BY <1>0, LenProperties DEF ListTyped
<1>2. PICK i \in 1 .. Len(h.blocks) : h.blocks[i] = c
  BY <1>0, BlockPosition
<1>3. i # 1 /\ h.hdr[c].prev = h.blocks[i - 1]
  BY <1>0, <1>1, <1>2 DEF PrevPointersRight
<1>4. i - 1 \in 1 .. (Len(h.blocks) - 1) /\ (i - 1) + 1 = i
  BY <1>1, <1>3
<1> QED BY <1>2, <1>3, <1>4

LEMMA PrevBlock ==
    ASSUME NEW h, ListOK(h), NEW c \in BlocksOf(h), h.hdr[c].prev # Null
    PROVE  h.hdr[c].prev \in BlocksOf(h)
<1>1. PICK j \in 1 .. (Len(h.blocks) - 1) : h.blocks[j] = h.hdr[c].prev
  BY PrevPosition
<1>2. ListTyped(h) /\ j \in 1 .. Len(h.blocks)
  BY LenProperties DEF ListOK, ListTyped
<1> QED BY <1>1, <1>2, BlockAt

Neighbours(h, i, b, next) == h.blocks[i] = b /\ h.blocks[i + 1] = next

\* Two blocks with the same previous are the same.
LEMMA AfterAlone ==
    ASSUME NEW h, ListOK(h), NEW i \in 1 .. (Len(h.blocks) - 1), NEW b, NEW next,
           Neighbours(h, i, b, next)
    PROVE  /\ After(h, b) = {next} /\ next \in BlocksOf(h) /\ b \in BlocksOf(h)
           /\ h.hdr[next].prev = b
<1>a. h.blocks[i] = b /\ h.blocks[i + 1] = next
  BY DEF Neighbours
<1>0. ListTyped(h) /\ Once(h) /\ PrevPointersRight(h)
  BY DEF ListOK
<1>1. /\ Len(h.blocks) \in Nat /\ DOMAIN h.blocks = 1 .. Len(h.blocks)
      /\ i \in 1 .. Len(h.blocks) /\ i + 1 \in 1 .. Len(h.blocks) /\ (i + 1) - 1 = i /\ i + 1 # 1
  BY <1>0, LenProperties DEF ListTyped
<1>2. next \in BlocksOf(h) /\ b \in BlocksOf(h)
  BY <1>a, <1>0, <1>1, BlockAt
<1>3. h.hdr[next].prev = b
  BY <1>a, <1>0, <1>1 DEF PrevPointersRight
<1>4. b # Null
  BY <1>0, <1>2, BlockTyped
<1>5. ASSUME NEW c \in BlocksOf(h), h.hdr[c].prev = b PROVE c = next
  <2>1. PICK j \in 1 .. (Len(h.blocks) - 1) : h.blocks[j] = b /\ h.blocks[j + 1] = c
    BY <1>4, <1>5, PrevPosition
  <2>2. j \in 1 .. Len(h.blocks)
    BY <1>1
  <2>3. j = i
    BY <1>a, <1>0, <1>1, <2>1, <2>2 DEF Once
  <2> QED BY <1>a, <2>1, <2>3
<1> QED BY <1>2, <1>3, <1>5 DEF After

LEMMA NoNextNoAfter ==
    ASSUME NEW h, ListOK(h), NEW b \in BlocksOf(h), ~ HasNext(h, b)
    PROVE  After(h, b) = {}
<1>0. ListTyped(h) /\ Once(h)
  BY DEF ListOK
<1>1. Len(h.blocks) \in Nat /\ DOMAIN h.blocks = 1 .. Len(h.blocks)
  BY <1>0, LenProperties DEF ListTyped
<1>2. b # Null
  BY <1>0, BlockTyped
<1> SUFFICES ASSUME NEW c \in BlocksOf(h), h.hdr[c].prev = b PROVE FALSE
  BY DEF After
<1>3. PICK j \in 1 .. (Len(h.blocks) - 1) : h.blocks[j] = b
  BY <1>2, PrevPosition
<1>4. j \in 1 .. Len(h.blocks) /\ j < Len(h.blocks)
  BY <1>1
<1> QED BY <1>0, <1>3, <1>4, NextAt

\* Two neighbours that become one: the second is no longer there to be taken in.
LEMMA JoinedPairs ==
    ASSUME NEW h, ListOK(h), NEW i \in 1 .. (Len(h.blocks) - 1),
           NEW b, NEW next, Joins(h, i, b, next)
    PROVE  Pairs(Joined(h, i)) \subseteq Pairs(h) \ {next}
<1> DEFINE g == Joined(h, i)
<1>0. ListTyped(h) /\ Once(h) /\ PrevPointersRight(h)
  BY DEF ListOK
<1>1. /\ Len(h.blocks) \in Nat /\ DOMAIN h.blocks = 1 .. Len(h.blocks)
      /\ i \in 1 .. Len(h.blocks) /\ i + 1 \in 1 .. Len(h.blocks)
  BY <1>0, LenProperties DEF ListTyped
<1>2. h.blocks[i] = b /\ h.blocks[i + 1] = next /\ h.hdr[b].is_free /\ h.hdr[next].is_free
      /\ BlockEnd(h, b) = next
  BY DEF Joins
<1>3. JoinShaped(g, h, i, b, next)
  BY <1>0, <1>2, JoinShape
<1>4. BlocksOf(g) = BlocksOf(h) \ {next}
  BY JoinedKeeps
<1> HIDE DEF g
<1>5. After(h, b) = {next} /\ next \in BlocksOf(h) /\ b \in BlocksOf(h)
  <2>1. Neighbours(h, i, b, next)
    BY <1>2 DEF Neighbours
  <2> QED BY <2>1, AfterAlone
<1>6. \A a \in BlocksOf(h) \ {b} : BlockEnd(g, a) = BlockEnd(h, a)
  BY <1>0, <1>3 DEF JoinShaped, BlockEnd, ListTyped
<1>7. BlockEnd(g, b) = BlockEnd(h, next)
  <2> DEFINE m == h.hdr[b].size
             n == h.hdr[next].size
  <2>1. m \in Nat /\ n \in Nat /\ b \in Nat /\ next = b + HDR + m
        /\ BlockEnd(h, next) = next + HDR + n
    BY <1>0, <1>2, <1>5, BlockTyped
  <2>2. g.hdr[b].size = m + HDR + n
    BY <1>0, <1>3, <1>5 DEF JoinShaped, ListTyped
  <2>3. BlockEnd(g, b) = (b + HDR) + (m + HDR + n)
    BY <2>2 DEF BlockEnd, Data
  <2> HIDE DEF m, n
  <2> QED BY <2>1, <2>3, BlockAssumption
<1> SUFFICES ASSUME NEW c \in BlocksOf(g), g.hdr[c].is_free, MergesPrev(g, c)
             PROVE  c \in Pairs(h) /\ c # next
  BY DEF Pairs, g
<1>8. c \in BlocksOf(h) /\ c # next /\ c \in DOMAIN h.hdr
  BY <1>0, <1>4 DEF ListTyped
<1>9. h.hdr[c].is_free
  <2>1. g.hdr[c].is_free = h.hdr[c].is_free
    BY <1>3, <1>8, Zenon DEF JoinShaped
  <2> QED BY <2>1, Zenon
<1>10. CASE i + 1 < Len(h.blocks) /\ c = h.blocks[i + 2]
  <2>1. g.hdr[c].prev = b
    BY <1>3, <1>8, <1>10 DEF JoinShaped
  <2>2. BlockEnd(g, b) = c
    BY <2>1 DEF MergesPrev
  <2>3. h.hdr[c].prev = next
    <3>1. i + 1 \in 1 .. (Len(h.blocks) - 1) /\ (i + 1) + 1 = i + 2
      BY <1>1, <1>10
    <3>2. Neighbours(h, i + 1, next, c)
      BY <1>2, <1>10, <3>1 DEF Neighbours
    <3> QED BY <3>1, <3>2, AfterAlone
  <2>4. next # Null
    BY <1>0, <1>5, BlockTyped
  <2> QED BY <1>2, <1>7, <1>8, <1>9, <2>2, <2>3, <2>4 DEF Pairs, MergesPrev
<1>11. CASE ~ (i + 1 < Len(h.blocks) /\ c = h.blocks[i + 2])
  <2> DEFINE p == h.hdr[c].prev
  <2>1. g.hdr[c].prev = p
    BY <1>3, <1>8, <1>11 DEF JoinShaped
  <2> HIDE DEF p
  <2>2. p # Null /\ g.hdr[p].is_free /\ BlockEnd(g, p) = c
    BY <2>1 DEF MergesPrev
  <2>3. p \in BlocksOf(h) /\ p \in DOMAIN h.hdr
    BY <1>0, <1>8, <2>2, PrevBlock DEF p, ListTyped
  <2>4. p # b
    BY <1>5, <1>8 DEF After, p
  <2>5. h.hdr[p].is_free
    <3>1. g.hdr[p].is_free = h.hdr[p].is_free
      BY <1>3, <2>3, Zenon DEF JoinShaped
    <3> QED BY <2>2, <3>1, Zenon
  <2>6. BlockEnd(h, p) = c
    BY <1>6, <2>2, <2>3, <2>4
  <2> QED BY <1>8, <1>9, <2>2, <2>5, <2>6 DEF Pairs, MergesPrev, p
<1> QED BY <1>10, <1>11

\* Coalescing forwards leaves no pair (b, next), whether it merges or not ...
LEMMA MergeNextPairs ==
    ASSUME NEW h, ListOK(h), NEW b \in BlocksOf(h), h.hdr[b].is_free, NEW S,
           Pairs(h) \subseteq S \cup {b} \cup After(h, b)
    PROVE  /\ MergesNext(h, b) => Pairs(JoinNext(h, b)) \subseteq S \cup {b}
           /\ ~ MergesNext(h, b) => Pairs(h) \subseteq S \cup {b}
<1>0. ListTyped(h) /\ Once(h)
  BY DEF ListOK
<1>1. PICK i \in 1 .. Len(h.blocks) : h.blocks[i] = b
  BY <1>0, BlockPosition
<1>2. CASE ~ HasNext(h, b)
  BY <1>2, NoNextNoAfter DEF MergesNext
<1>3. CASE HasNext(h, b)
  <2> DEFINE next == NextOf(h, b)
  <2>1. i < Len(h.blocks) /\ next = h.blocks[i + 1]
    BY <1>0, <1>1, <1>3, NextAt
  <2>2. i \in 1 .. (Len(h.blocks) - 1)
    BY <1>0, <2>1, LenProperties DEF ListTyped
  <2> HIDE DEF next
  <2>3. After(h, b) = {next} /\ h.hdr[next].prev = b
    <3>1. Neighbours(h, i, b, next)
      BY <1>1, <2>1 DEF Neighbours
    <3> QED BY <2>2, <3>1, AfterAlone
  <2>4. CASE MergesNext(h, b)
    <3>1. JoinNext(h, b) = Joined(h, i)
      BY <1>0, <1>1, <2>2, JoinShape
    <3>2. Joins(h, i, b, next)
      BY <1>1, <2>1, <2>4 DEF Joins, MergesNext, next
    <3>3. Pairs(Joined(h, i)) \subseteq Pairs(h) \ {next}
      BY <2>2, <3>2, JoinedPairs
    <3> QED BY <2>3, <2>4, <3>1, <3>3
  <2>5. CASE ~ MergesNext(h, b)
    <3>1. next \notin Pairs(h)
      BY <1>3, <2>3, <2>5 DEF Pairs, MergesPrev, MergesNext, next
    <3> QED BY <2>3, <2>5, <3>1
  <2> QED BY <2>4, <2>5
<1> QED BY <1>2, <1>3

\* ... and backwards none (prev, b).
LEMMA MergePrevPairs ==
    ASSUME NEW h, ListOK(h), NEW b \in BlocksOf(h), h.hdr[b].is_free, NEW S,
           Pairs(h) \subseteq S \cup {b}
    PROVE  /\ MergesPrev(h, b) => Pairs(JoinPrev(h, b)) \subseteq S
           /\ ~ MergesPrev(h, b) => Pairs(h) \subseteq S
<1>0. ListTyped(h) /\ Once(h) /\ PrevPointersRight(h)
  BY DEF ListOK
<1>1. CASE MergesPrev(h, b)
  <2> DEFINE p == h.hdr[b].prev
  <2>1. PICK i \in 1 .. (Len(h.blocks) - 1) : h.blocks[i] = p /\ h.blocks[i + 1] = b
    BY <1>1, PrevPosition DEF MergesPrev
  <2>2. JoinPrev(h, b) = Joined(h, i)
    BY <1>0, <2>1, JoinShape
  <2>3. Joins(h, i, p, b)
    BY <1>1, <2>1 DEF Joins, MergesPrev
  <2> HIDE DEF p
  <2>4. Pairs(Joined(h, i)) \subseteq Pairs(h) \ {b}
    BY <2>3, JoinedPairs
  <2> QED BY <1>1, <2>2, <2>4
<1>2. CASE ~ MergesPrev(h, b)
  BY <1>2 DEF Pairs
<1> QED BY <1>1, <1>2

LEMMA FreeBlock ==
    ASSUME NEW h, ListOK(h), NEW c \in BlocksOf(h)
    PROVE  h.hdr[c].is_free <=> c \notin UsedOf(h)
BY DEF ListOK, ListTyped, UsedOf

\* A pair, by the two blocks it is about.
LEMMA PairOf ==
    ASSUME NEW h, ListOK(h), NEW c \in Pairs(h)
    PROVE  /\ c \in BlocksOf(h) /\ c \notin UsedOf(h)
           /\ h.hdr[c].prev # Null /\ h.hdr[c].prev \in BlocksOf(h)
           /\ h.hdr[c].prev \notin UsedOf(h) /\ BlockEnd(h, h.hdr[c].prev) = c
<1>1. c \in BlocksOf(h) /\ h.hdr[c].is_free /\ h.hdr[c].prev # Null
  BY DEF Pairs, MergesPrev
<1>2. h.hdr[c].prev \in BlocksOf(h)
  BY <1>1, PrevBlock
<1>3. h.hdr[h.hdr[c].prev].is_free /\ BlockEnd(h, h.hdr[c].prev) = c
  BY DEF Pairs, MergesPrev
<1> QED BY <1>1, <1>2, <1>3, FreeBlock

LEMMA PairMade ==
    ASSUME NEW h, ListOK(h), NEW c \in BlocksOf(h), NEW p \in BlocksOf(h), h.hdr[c].prev = p,
           c \notin UsedOf(h), p \notin UsedOf(h), BlockEnd(h, p) = c
    PROVE  c \in Pairs(h)
<1>1. p # Null
  BY BlockTyped DEF ListOK
<1>2. h.hdr[c].is_free /\ h.hdr[p].is_free
  BY FreeBlock
<1> QED BY <1>1, <1>2 DEF Pairs, MergesPrev

LEMMA SamePrevious ==
    ASSUME NEW g, NEW h, ListOK(g), ListOK(h), g.blocks = h.blocks
    PROVE  \A c \in BlocksOf(h) : g.hdr[c].prev = h.hdr[c].prev
BY DEF ListOK, PrevPointersRight, BlocksOf

\* A block that is handed out is in no pair any more.
LEMMA HandOutPairs ==
    ASSUME NEW h, ListOK(h), NEW b \in BlocksOf(h)
    PROVE  Pairs(HandOut(h, b)) \subseteq {c \in Pairs(h) : c # b /\ h.hdr[c].prev # b}
<1> DEFINE g == HandOut(h, b)
<1>1. /\ ListOK(g) /\ g.blocks = h.blocks /\ BlocksOf(g) = BlocksOf(h)
      /\ UsedOf(g) = UsedOf(h) \cup {b}
      /\ \A c \in BlocksOf(h) : g.hdr[c].size = h.hdr[c].size
  BY HandOutKeeps
<1> HIDE DEF g
<1>2. \A c \in BlocksOf(h) : g.hdr[c].prev = h.hdr[c].prev /\ BlockEnd(g, c) = BlockEnd(h, c)
  BY <1>1, SamePrevious DEF BlockEnd
<1> SUFFICES ASSUME NEW c \in Pairs(g) PROVE c \in Pairs(h) /\ c # b /\ h.hdr[c].prev # b
  BY DEF g
<1> DEFINE p == g.hdr[c].prev
<1>3. /\ c \in BlocksOf(g) /\ c \notin UsedOf(g)
      /\ p \in BlocksOf(g) /\ p \notin UsedOf(g) /\ BlockEnd(g, p) = c
  BY <1>1, PairOf
<1>4. h.hdr[c].prev = p
  BY <1>1, <1>2, <1>3
<1> HIDE DEF p
<1> QED BY <1>1, <1>2, <1>3, <1>4, PairMade

\* A block that is freed may be the second of a pair, and the first of another.
LEMMA MarkFreePairs ==
    ASSUME NEW h, ListOK(h), NEW b \in BlocksOf(h)
    PROVE  Pairs(MarkFree(h, b)) \subseteq Pairs(h) \cup {b} \cup After(MarkFree(h, b), b)
<1> DEFINE g == MarkFree(h, b)
<1>1. /\ ListOK(g) /\ g.blocks = h.blocks /\ BlocksOf(g) = BlocksOf(h)
      /\ UsedOf(g) = UsedOf(h) \ {b}
      /\ \A c \in BlocksOf(h) : g.hdr[c].size = h.hdr[c].size
  BY MarkFreeKeeps
<1> HIDE DEF g
<1>2. \A c \in BlocksOf(h) : g.hdr[c].prev = h.hdr[c].prev /\ BlockEnd(g, c) = BlockEnd(h, c)
  BY <1>1, SamePrevious DEF BlockEnd
<1> SUFFICES ASSUME NEW c \in Pairs(g), c # b, c \notin After(g, b) PROVE c \in Pairs(h)
  BY DEF g
<1> DEFINE p == g.hdr[c].prev
<1>3. /\ c \in BlocksOf(g) /\ c \notin UsedOf(g)
      /\ p \in BlocksOf(g) /\ p \notin UsedOf(g) /\ BlockEnd(g, p) = c
  BY <1>1, PairOf
<1>4. h.hdr[c].prev = p /\ p # b
  BY <1>1, <1>2, <1>3 DEF After
<1> HIDE DEF p
<1> QED BY <1>1, <1>2, <1>3, <1>4, PairMade

\* The block that is appended may be the second of a pair.
LEMMA AppendPairs ==
    ASSUME NEW h, ListOK(h), NEW b \in Address, NEW size \in Nat,
           \A a \in Covered(h) : a \notin Bytes(b, size)
    PROVE  Pairs(AppendBlock(h, b, size)) \subseteq Pairs(h) \cup {b}
<1> DEFINE g == AppendBlock(h, b, size)
<1>1. /\ ListOK(g) /\ BlocksOf(g) = BlocksOf(h) \cup {b} /\ UsedOf(g) = UsedOf(h)
      /\ Len(g.blocks) = Len(h.blocks) + 1 /\ g.blocks[Len(h.blocks) + 1] = b
      /\ \A j \in 1 .. Len(h.blocks) : g.blocks[j] = h.blocks[j]
  BY AppendKeeps
<1>2. \A c \in BlocksOf(h) : BlockEnd(g, c) = BlockEnd(h, c)
  BY AppendKeeps DEF BlockEnd
<1> HIDE DEF g
<1>3. /\ Len(h.blocks) \in Nat /\ DOMAIN h.blocks = 1 .. Len(h.blocks)
      /\ DOMAIN g.blocks = 1 .. Len(g.blocks)
  BY <1>1, LenProperties DEF ListOK, ListTyped
<1>4. \A c \in BlocksOf(h) : g.hdr[c].prev = h.hdr[c].prev
  <2> TAKE c \in BlocksOf(h)
  <2>1. PICK j \in 1 .. Len(h.blocks) : h.blocks[j] = c
    BY BlockPosition DEF ListOK
  <2>2. g.blocks[j] = c /\ j \in DOMAIN g.blocks /\ j \in DOMAIN h.blocks
    BY <1>1, <1>3, <2>1
  <2>3. /\ h.hdr[c].prev = IF j = 1 THEN Null ELSE h.blocks[j - 1]
        /\ g.hdr[c].prev = IF j = 1 THEN Null ELSE g.blocks[j - 1]
    BY <1>1, <2>1, <2>2 DEF ListOK, PrevPointersRight
  <2>4. j # 1 => j - 1 \in 1 .. Len(h.blocks)
    BY <1>3
  <2> QED BY <1>1, <2>3, <2>4
<1> SUFFICES ASSUME NEW c \in Pairs(g), c # b PROVE c \in Pairs(h)
  BY DEF g
<1> DEFINE p == g.hdr[c].prev
<1>5. /\ c \in BlocksOf(g) /\ c \notin UsedOf(g)
      /\ p # Null /\ p \notin UsedOf(g) /\ BlockEnd(g, p) = c
  BY <1>1, PairOf
<1>6. c \in BlocksOf(h) /\ h.hdr[c].prev = p
  BY <1>1, <1>4, <1>5
<1> HIDE DEF p
<1>7. p \in BlocksOf(h)
  BY <1>5, <1>6, PrevBlock
<1> QED BY <1>1, <1>2, <1>5, <1>6, <1>7, PairMade

\* A split of a free block adds the pair of its two halves; one of a used block
\* adds the pair of its tail and the block after it.
LEMMA SplitPairs ==
    ASSUME NEW h, ListOK(h), NEW b \in BlocksOf(h), NEW size \in Nat, Splits(h, b, size)
    PROVE  LET g   == SplitAt(h, b, size)
               new == Data(b) + size
           IN  /\ g.hdr[new].prev = b
               /\ h.hdr[b].is_free => Pairs(g) \subseteq Pairs(h) \cup {new}
               /\ ~ h.hdr[b].is_free => Pairs(g) \subseteq Pairs(h) \cup After(h, b)
<1> DEFINE g   == SplitAt(h, b, size)
           new == Data(b) + size
<1>0. ListTyped(h) /\ Once(h) /\ PrevPointersRight(h) /\ BlocksOf(h) \subseteq DOMAIN h.hdr
  BY DEF ListOK, ListTyped
<1>1. PICK i \in 1 .. Len(h.blocks) : h.blocks[i] = b
  BY <1>0, BlockPosition
<1>2. SplitShaped(g, h, i, b, size, new)
  BY <1>0, <1>1, SplitShape
<1>3. /\ ListOK(g) /\ new \notin BlocksOf(h) /\ BlocksOf(g) = BlocksOf(h) \cup {new}
      /\ UsedOf(g) = UsedOf(h)
      /\ \A c \in BlocksOf(h) \ {b} : g.hdr[c].size = h.hdr[c].size
  BY SplitKeeps
<1>4. /\ b \in Nat /\ h.hdr[b].size \in Nat /\ BlockEnd(h, b) = b + HDR + h.hdr[b].size /\ b # Null
  BY <1>0, BlockTyped
<1>5. h.hdr[b].size - size - HDR \in Nat
  BY <1>4, SplitRoom
<1> HIDE DEF g
<1>6. g.hdr[new].prev = b /\ g.hdr[new].size = h.hdr[b].size - size - HDR
  <2> DEFINE m == h.hdr[b].size - size - HDR
  <2>1. g.hdr[new] = Header(m, TRUE, b) /\ m \in Nat
    BY <1>2, <1>5 DEF SplitShaped
  <2> HIDE DEF m
  <2>2. g.hdr[new].prev = b /\ g.hdr[new].size = m
    <3>1. g.hdr[new] = [size |-> m, is_free |-> TRUE, prev |-> b]
      BY <2>1 DEF Header
    <3> QED BY <3>1
  <2> QED BY <2>2 DEF m
<1>7. BlockEnd(g, new) = BlockEnd(h, b)
  <2> DEFINE z == h.hdr[b].size
  <2>1. BlockEnd(g, new) = ((b + HDR) + size) + HDR + (z - size - HDR)
    BY <1>6 DEF BlockEnd, Data
  <2>2. z \in Nat /\ BlockEnd(h, b) = b + HDR + z
    BY <1>4
  <2> HIDE DEF z
  <2> QED BY <1>4, <2>1, <2>2, BlockAssumption
<1>8. \A c \in BlocksOf(h) \ {b} : BlockEnd(g, c) = BlockEnd(h, c)
  BY <1>3 DEF BlockEnd
<1>9. ASSUME NEW c \in Pairs(g), c # new, c \notin After(h, b) PROVE c \in Pairs(h)
  <2> DEFINE p == g.hdr[c].prev
  <2>1. /\ c \in BlocksOf(g) /\ c \notin UsedOf(g)
        /\ p # Null /\ p \notin UsedOf(g) /\ BlockEnd(g, p) = c
    BY <1>3, <1>9, PairOf
  <2>2. c \in BlocksOf(h) /\ c \in DOMAIN h.hdr \ {new}
    BY <1>0, <1>3, <1>9, <2>1
  <2>3. h.hdr[c].prev = p
    <3>1. ~ (i < Len(h.blocks) /\ c = h.blocks[i + 1])
      <4> SUFFICES ASSUME i < Len(h.blocks), c = h.blocks[i + 1] PROVE FALSE
        OBVIOUS
      <4>1. i \in 1 .. (Len(h.blocks) - 1)
        BY <1>0, LenProperties DEF ListTyped
      <4>2. Neighbours(h, i, b, c)
        BY <1>1 DEF Neighbours
      <4>3. After(h, b) = {c}
        BY <4>1, <4>2, AfterAlone
      <4> QED BY <1>9, <4>3
    <3> QED BY <1>2, <2>2, <3>1 DEF SplitShaped
  <2> HIDE DEF p
  <2>4. p \in BlocksOf(h)
    BY <2>1, <2>2, <2>3, PrevBlock
  <2>5. p # b
    BY <1>9, <2>2, <2>3 DEF After
  <2>6. BlockEnd(h, p) = c
    BY <1>8, <2>1, <2>4, <2>5
  <2> QED BY <1>3, <2>1, <2>2, <2>3, <2>4, <2>6, PairMade
<1>10. ASSUME h.hdr[b].is_free, NEW c \in Pairs(g), c \in After(h, b) PROVE c \in Pairs(h)
  <2>1. c \in BlocksOf(h) /\ h.hdr[c].prev = b
    BY <1>10 DEF After
  <2>2. PICK j \in 1 .. (Len(h.blocks) - 1) : h.blocks[j] = b /\ h.blocks[j + 1] = c
    BY <1>4, <2>1, PrevPosition
  <2>3. j \in 1 .. Len(h.blocks) /\ j < Len(h.blocks) /\ DOMAIN h.blocks = 1 .. Len(h.blocks)
    BY <1>0, LenProperties DEF ListTyped
  <2>4. j = i
    BY <1>0, <1>1, <2>2, <2>3 DEF Once
  <2>5. g.hdr[c].prev = new
    <3>1. c \in DOMAIN h.hdr \ {new}
      BY <1>0, <1>3, <2>1
    <3> QED BY <1>2, <2>2, <2>3, <2>4, <3>1 DEF SplitShaped
  <2> HIDE DEF new
  <2>6. c \notin UsedOf(h) /\ BlockEnd(h, b) = c
    BY <1>3, <1>7, <1>10, <2>5, PairOf
  <2>7. b \notin UsedOf(h)
    BY <1>10, FreeBlock
  <2> QED BY <2>1, <2>6, <2>7, PairMade
<1>11. ~ h.hdr[b].is_free => new \notin Pairs(g)
  <2> SUFFICES ASSUME ~ h.hdr[b].is_free, new \in Pairs(g) PROVE FALSE
    OBVIOUS
  <2> HIDE DEF new
  <2>1. b \notin UsedOf(g)
    BY <1>3, <1>6, PairOf
  <2> QED BY <1>3, <2>1, FreeBlock
<1> QED BY <1>6, <1>9, <1>10, <1>11 DEF g

\* There are as many pairs as positions with a free block that the one before,
\* free too, ends at.
LEMMA PairsCounted ==
    ASSUME NEW h, ListOK(h), NEW T,
           T = {i \in 1 .. (Len(h.blocks) - 1) :
                  /\ h.hdr[h.blocks[i]].is_free /\ h.hdr[h.blocks[i + 1]].is_free
                  /\ BlockEnd(h, h.blocks[i]) = h.blocks[i + 1]}
    PROVE  /\ IsFiniteSet(Pairs(h)) /\ Cardinality(T) = Cardinality(Pairs(h))
<1> DEFINE f == [i \in T |-> h.blocks[i + 1]]
<1>0. ListTyped(h) /\ Once(h)
  BY DEF ListOK
<1>1. /\ Len(h.blocks) \in Nat /\ DOMAIN h.blocks = 1 .. Len(h.blocks)
  BY <1>0, LenProperties DEF ListTyped
<1>2. IsFiniteSet(T)
  <2>1. IsFiniteSet(1 .. (Len(h.blocks) - 1))
    BY <1>1, FS_Interval
  <2> QED BY <2>1, FS_Subset
<1>3. ASSUME NEW i \in T PROVE h.blocks[i + 1] \in Pairs(h)
  <2>1. /\ i \in 1 .. (Len(h.blocks) - 1)
        /\ h.hdr[h.blocks[i]].is_free /\ h.hdr[h.blocks[i + 1]].is_free
        /\ BlockEnd(h, h.blocks[i]) = h.blocks[i + 1]
    BY <1>3
  <2> DEFINE b == h.blocks[i]
             c == h.blocks[i + 1]
  <2>2. Neighbours(h, i, b, c)
    BY DEF Neighbours
  <2>3. h.hdr[b].is_free /\ h.hdr[c].is_free /\ BlockEnd(h, b) = c
    BY <2>1
  <2> HIDE DEF b, c
  <2>4. b \in BlocksOf(h) /\ c \in BlocksOf(h) /\ h.hdr[c].prev = b
    BY <2>1, <2>2, AfterAlone
  <2>5. c \in Pairs(h)
    BY <2>3, <2>4, FreeBlock, PairMade
  <2> QED BY <2>5 DEF c
<1>4. ASSUME NEW i \in T, NEW j \in T, h.blocks[i + 1] = h.blocks[j + 1] PROVE i = j
  <2>1. i \in Nat /\ j \in Nat /\ i + 1 \in DOMAIN h.blocks /\ j + 1 \in DOMAIN h.blocks
    BY <1>1, <1>4
  <2>2. i + 1 = j + 1
    BY <1>0, <1>4, <2>1 DEF Once
  <2> QED BY <2>1, <2>2
<1>5. ASSUME NEW c \in Pairs(h) PROVE \E i \in T : h.blocks[i + 1] = c
  <2>1. /\ c \in BlocksOf(h) /\ h.hdr[c].is_free /\ h.hdr[c].prev # Null
        /\ h.hdr[h.hdr[c].prev].is_free /\ BlockEnd(h, h.hdr[c].prev) = c
    BY <1>5 DEF Pairs, MergesPrev
  <2>2. PICK j \in 1 .. (Len(h.blocks) - 1) : h.blocks[j] = h.hdr[c].prev /\ h.blocks[j + 1] = c
    BY <2>1, PrevPosition
  <2> QED BY <2>1, <2>2
<1>6. f \in Bijection(T, Pairs(h))
  <2>1. f \in [T -> Pairs(h)]
    BY <1>3
  <2>2. \A i, j \in T : f[i] = f[j] => i = j
    BY <1>4
  <2>3. \A c \in Pairs(h) : \E i \in T : f[i] = c
    BY <1>5
  <2> QED BY <2>1, <2>2, <2>3 DEF Bijection, Injection, Surjection, IsInjective
<1>7. ExistsBijection(T, Pairs(h))
  BY <1>6 DEF ExistsBijection
<1> QED BY <1>2, <1>7, FS_Bijection

=============================================================================
