------------------------- MODULE VirtualSpaceProofs -------------------------
(***************************************************************************)
(* What holds of the virtual memory manager for every page size, space,    *)
(* set of sizes and bound on the list: its state is well typed, no byte    *)
(* has two owners, no byte is lost, every region starts on a page, and the *)
(* list implements AddressSpace.                                           *)
(***************************************************************************)
EXTENDS VirtualSpace, SequenceTheorems, TLAPS

\* A region at the null address is lost, any other is held: the request being
\* freed is not one of those that stay.
NullSplit ==
    /\ \A r \in held : r.start # Null
    /\ \A r \in lost : r.start = Null

IInv == TypeOK /\ ExclusiveOwnership /\ NullSplit

-----------------------------------------------------------------------------
\* Rounding to a page gives a natural number.
LEMMA AlignUpNat ==
    ASSUME NEW size \in Nat
    PROVE  ALIGN_UP(size) \in Nat
<1>1. FRAME_SIZE \in Nat \ {0} /\ WORD \in Nat \ {0}
  BY VirtualAssumption
<1> DEFINE a == size + FRAME_SIZE - 1
<1>2. a \in Nat
  BY <1>1
<1>3. a % WORD \in Nat
  BY <1>1, <1>2
<1> DEFINE b == a % WORD
<1>4. (b \div FRAME_SIZE) \in Nat
  <2>1. b \in Nat
    BY <1>3
  <2> HIDE DEF b
  <2> QED BY <2>1, <1>1
<1> DEFINE c == b \div FRAME_SIZE
<1>5. c * FRAME_SIZE \in Nat
  <2>1. c \in Nat
    BY <1>4
  <2> HIDE DEF c
  <2> QED BY <2>1, <1>1
<1> QED BY <1>5 DEF ALIGN_UP

\* The region a request really takes is a region.
LEMMA RoundedRegion ==
    ASSUME NEW r \in Region
    PROVE  /\ Rounded(r) \in Region
           /\ Rounded(r).start = r.start
           /\ Rounded(r).size = ALIGN_UP(r.size)
BY AlignUpNat DEF Rounded, Region0, Region

\* Taking the front of a usable region leaves a region that is empty or ends
\* where the old one did.
LEMMA TakeFrontRegion ==
    ASSUME NEW m \in Region, NEW n \in Nat, Usable(m, n)
    PROVE  LET t == TakeFront(m, n)
           IN  /\ t \in Region
               /\ \/ t.size = 0 /\ m.size = n
                  \/ t.start = m.start + n /\ t.size = m.size - n
BY DEF TakeFront, Usable, Region0, Region

\* Replacing an element of a list of regions.
LEMMA ReplaceRegion ==
    ASSUME NEW s \in Seq(Region), NEW i \in DOMAIN s, NEW r \in Region
    PROVE  LET t == [s EXCEPT ![i] = r]
           IN  /\ t \in Seq(Region)
               /\ DOMAIN t = DOMAIN s
               /\ Len(t) = Len(s)
               /\ t[i] = r
               /\ \A j \in DOMAIN s : j # i => t[j] = s[j]
BY ExceptSeq, LenProperties

-----------------------------------------------------------------------------
\* What alloc does, in terms of the list before and after: region i gives its
\* front, n bytes of it, to the request r.
AllocEffect(r, n, i) ==
    LET m == free_mem_list_[i]
        t == free_mem_list_'[i]
    IN  /\ r \in Region /\ r.start = m.start /\ n = ALIGN_UP(r.size)
        /\ m.size # 0 /\ n <= m.size
        /\ free_mem_list_' \in Seq(Region)
        /\ DOMAIN free_mem_list_' = DOMAIN free_mem_list_
        /\ \/ t.size = 0 /\ m.size = n
           \/ t.start = m.start + n /\ t.size = m.size - n
        /\ \A j \in DOMAIN free_mem_list_ : j # i => free_mem_list_'[j] = free_mem_list_[j]
        /\ \/ m.start = Null /\ lost' = lost \cup {r} /\ held' = held
           \/ m.start # Null /\ held' = held \cup {r} /\ lost' = lost

LEMMA AllocSplits ==
    ASSUME TypeOK, NEW size \in Sizes, Alloc(size)
    PROVE  \E i \in DOMAIN free_mem_list_, r \in Region, n \in Nat : AllocEffect(r, n, i)
<1>1. PICK i \in DOMAIN free_mem_list_ :
        LET m == free_mem_list_[i]
            r == Region0(m.start, size)
        IN  /\ FirstFit(i, ALIGN_UP(size))
            /\ free_mem_list_' = [free_mem_list_ EXCEPT ![i] = TakeFront(m, ALIGN_UP(size))]
            /\ IF m.start = Null
                 THEN lost' = lost \cup {r} /\ held' = held
                 ELSE held' = held \cup {r} /\ lost' = lost
  BY DEF Alloc
<1> DEFINE m == free_mem_list_[i]
           r == Region0(m.start, size)
           n == ALIGN_UP(size)
<1>2. free_mem_list_ \in Seq(Region)
  BY DEF TypeOK
<1>3. m \in Region
  BY <1>2, ElementOfSeq
<1>4. size \in Nat
  BY VirtualAssumption
<1>5. n \in Nat
  BY <1>4, AlignUpNat
<1>6. Usable(m, n)
  BY <1>1 DEF FirstFit
<1>7. r \in Region /\ r.start = m.start /\ r.size = size
  BY <1>3, <1>4 DEF Region0, Region
<1> HIDE DEF m, n, r
<1>8. /\ TakeFront(m, n) \in Region
      /\ \/ TakeFront(m, n).size = 0 /\ m.size = n
         \/ TakeFront(m, n).start = m.start + n /\ TakeFront(m, n).size = m.size - n
  BY <1>3, <1>5, <1>6, TakeFrontRegion
<1>9. free_mem_list_' = [free_mem_list_ EXCEPT ![i] = TakeFront(m, n)]
  BY <1>1 DEF m, n
<1>10. /\ free_mem_list_' \in Seq(Region)
       /\ DOMAIN free_mem_list_' = DOMAIN free_mem_list_
       /\ free_mem_list_'[i] = TakeFront(m, n)
       /\ \A j \in DOMAIN free_mem_list_ : j # i => free_mem_list_'[j] = free_mem_list_[j]
  BY <1>2, <1>8, <1>9, ReplaceRegion
<1>11. \/ m.start = Null /\ lost' = lost \cup {r} /\ held' = held
       \/ m.start # Null /\ held' = held \cup {r} /\ lost' = lost
  BY <1>1 DEF m, r
<1>12. n = ALIGN_UP(r.size)
  BY <1>7 DEF n
<1>13. m.size # 0 /\ n <= m.size
  BY <1>3, <1>5, <1>6 DEF Usable, Region
<1>14. AllocEffect(r, n, i)
  BY <1>7, <1>8, <1>10, <1>11, <1>12, <1>13 DEF AllocEffect, m
<1> QED BY <1>5, <1>7, <1>14

\* What free does to the list: f joins region i, which may also take in region
\* j, or f becomes the last region.
JoinsBelow(f, i) ==
    /\ DOMAIN free_mem_list_' = DOMAIN free_mem_list_
    /\ free_mem_list_[i].size # 0
    /\ End(f) = free_mem_list_[i].start
    /\ free_mem_list_'[i] = Region0(f.start, free_mem_list_[i].size + f.size)
    /\ \A k \in DOMAIN free_mem_list_ : k # i => free_mem_list_'[k] = free_mem_list_[k]

JoinsAbove(f, i) ==
    /\ DOMAIN free_mem_list_' = DOMAIN free_mem_list_
    /\ free_mem_list_[i].size # 0
    /\ End(free_mem_list_[i]) = f.start
    /\ free_mem_list_'[i] = Region0(free_mem_list_[i].start, free_mem_list_[i].size + f.size)
    /\ \A k \in DOMAIN free_mem_list_ : k # i => free_mem_list_'[k] = free_mem_list_[k]

JoinsBoth(f, i, j) ==
    /\ DOMAIN free_mem_list_' = DOMAIN free_mem_list_
    /\ i # j
    /\ free_mem_list_[i].size # 0 /\ free_mem_list_[j].size # 0
    /\ End(free_mem_list_[i]) = f.start
    /\ End(f) = free_mem_list_[j].start
    /\ free_mem_list_'[i] =
         Region0(free_mem_list_[i].start, free_mem_list_[i].size + f.size + free_mem_list_[j].size)
    /\ free_mem_list_'[j] = Region0(free_mem_list_[j].start, 0)
    /\ \A k \in DOMAIN free_mem_list_ :
         k # i /\ k # j => free_mem_list_'[k] = free_mem_list_[k]

Appended(f) ==
    /\ DOMAIN free_mem_list_' = 1 .. (Len(free_mem_list_) + 1)
    /\ free_mem_list_'[Len(free_mem_list_) + 1] = f
    /\ \A k \in DOMAIN free_mem_list_ : free_mem_list_'[k] = free_mem_list_[k]

LEMMA ReleaseJoins ==
    ASSUME TypeOK, NEW f \in Region, Release(f)
    PROVE  /\ free_mem_list_' \in Seq(Region)
           /\ \/ \E i \in DOMAIN free_mem_list_ : JoinsBelow(f, i) \/ JoinsAbove(f, i)
              \/ \E i, j \in DOMAIN free_mem_list_ : JoinsBoth(f, i, j)
              \/ Appended(f)
<1>1. free_mem_list_ \in Seq(Region)
  BY DEF TypeOK
<1>2. \A k \in DOMAIN free_mem_list_ : free_mem_list_[k] \in Region
  BY <1>1, ElementOfSeq
<1>3. ASSUME NEW i \in DOMAIN free_mem_list_, MergeBelow(i, f)
      PROVE  free_mem_list_' \in Seq(Region) /\ JoinsBelow(f, i)
  <2> DEFINE t == Region0(f.start, free_mem_list_[i].size + f.size)
  <2>1. t \in Region
    BY <1>2 DEF Region0, Region
  <2>2. free_mem_list_' = [free_mem_list_ EXCEPT ![i] = t]
    BY <1>3 DEF MergeBelow
  <2>3. free_mem_list_[i].size # 0 /\ End(f) = free_mem_list_[i].start
    BY <1>3 DEF MergeBelow, FirstTouching, Touches
  <2> HIDE DEF t
  <2>4. /\ free_mem_list_' \in Seq(Region)
        /\ DOMAIN free_mem_list_' = DOMAIN free_mem_list_
        /\ free_mem_list_'[i] = t
        /\ \A j \in DOMAIN free_mem_list_ : j # i => free_mem_list_'[j] = free_mem_list_[j]
    BY <1>1, <2>1, <2>2, ReplaceRegion
  <2> QED BY <2>3, <2>4 DEF JoinsBelow, t
<1>4. ASSUME NEW i \in DOMAIN free_mem_list_, MergeAbove(i, f)
      PROVE  /\ free_mem_list_' \in Seq(Region)
             /\ \/ JoinsAbove(f, i)
                \/ \E j \in DOMAIN free_mem_list_ : JoinsBoth(f, i, j)
  <2> DEFINE m == free_mem_list_[i]
  <2>1. m.size # 0 /\ End(m) = f.start /\ m \in Region
    BY <1>2, <1>4 DEF MergeAbove, FirstTouching, Touches
  <2>2. CASE free_mem_list_' = [free_mem_list_ EXCEPT ![i].size = m.size + f.size]
    <3> DEFINE t == Region0(m.start, m.size + f.size)
    <3>1. t \in Region /\ t = [m EXCEPT !.size = m.size + f.size]
      BY <2>1 DEF Region0, Region
    <3>2. free_mem_list_' = [free_mem_list_ EXCEPT ![i] = t]
      BY <2>2, <3>1
    <3> HIDE DEF t
    <3>3. /\ free_mem_list_' \in Seq(Region)
          /\ DOMAIN free_mem_list_' = DOMAIN free_mem_list_
          /\ free_mem_list_'[i] = t
          /\ \A j \in DOMAIN free_mem_list_ : j # i => free_mem_list_'[j] = free_mem_list_[j]
      BY <1>1, <3>1, <3>2, ReplaceRegion
    <3> QED BY <2>1, <3>3 DEF JoinsAbove, t
  <2>3. CASE \E j \in DOMAIN free_mem_list_ :
               /\ FirstFollowing(j, i, f)
               /\ free_mem_list_' =
                    [free_mem_list_ EXCEPT ![i].size = m.size + f.size + free_mem_list_[j].size,
                                           ![j].size = 0]
    <3>1. PICK j \in DOMAIN free_mem_list_ :
               /\ FirstFollowing(j, i, f)
               /\ free_mem_list_' =
                    [free_mem_list_ EXCEPT ![i].size = m.size + f.size + free_mem_list_[j].size,
                                           ![j].size = 0]
      BY <2>3
    <3> DEFINE q == free_mem_list_[j]
               t == Region0(m.start, m.size + f.size + q.size)
               z == Region0(q.start, 0)
               one == [free_mem_list_ EXCEPT ![i] = t]
    <3>2. j # i /\ q.size # 0 /\ End(m) + f.size = q.start /\ q \in Region
      BY <1>2, <3>1 DEF FirstFollowing, Follows
    <3>3. t \in Region /\ z \in Region
      BY <2>1, <3>2 DEF Region0, Region
    <3>4. /\ t = [m EXCEPT !.size = m.size + f.size + q.size]
          /\ z = [q EXCEPT !.size = 0]
      BY <2>1, <3>2 DEF Region0, Region
    <3>5. /\ one \in Seq(Region) /\ DOMAIN one = DOMAIN free_mem_list_
          /\ one[i] = t
          /\ \A k \in DOMAIN free_mem_list_ : k # i => one[k] = free_mem_list_[k]
      BY <1>1, <3>3, ReplaceRegion
    <3>6. free_mem_list_' = [one EXCEPT ![j] = z]
      BY <3>1, <3>2, <3>4, <3>5
    <3> HIDE DEF t, z, one
    <3>7. /\ free_mem_list_' \in Seq(Region) /\ DOMAIN free_mem_list_' = DOMAIN one
          /\ free_mem_list_'[j] = z
          /\ \A k \in DOMAIN one : k # j => free_mem_list_'[k] = one[k]
      BY <3>3, <3>5, <3>6, ReplaceRegion
    <3>8. End(f) = q.start
      BY <2>1, <3>2 DEF End, Region
    <3>9. JoinsBoth(f, i, j)
      BY <2>1, <3>2, <3>5, <3>7, <3>8 DEF JoinsBoth, t, z
    <3> QED BY <3>7, <3>9
  <2> QED BY <1>4, <2>2, <2>3 DEF MergeAbove
<1>5. ASSUME NewNode(f)
      PROVE  free_mem_list_' \in Seq(Region) /\ Appended(f)
  <2>1. free_mem_list_' = Append(free_mem_list_, f)
    BY <1>5 DEF NewNode
  <2> QED BY <1>1, <2>1, AppendProperties, LenProperties DEF Appended
<1> QED BY <1>3, <1>4, <1>5 DEF Release

-----------------------------------------------------------------------------
\* Being disjoint has no direction.
LEMMA DisjointSym ==
    ASSUME NEW p \in Region, NEW q \in Region, Disjoint(p, q)
    PROVE  Disjoint(q, p)
BY DEF Disjoint

\* Whatever avoids a region avoids its parts.
LEMMA DisjointPart ==
    ASSUME NEW m \in Region, NEW p \in Region, NEW q \in Region,
           Disjoint(m, q),
           p.size = 0 \/ (m.size # 0 /\ m.start <= p.start /\ End(p) <= End(m))
    PROVE  Disjoint(p, q)
BY DEF Disjoint, End, Region

\* Whatever avoids two regions that touch avoids the region they make.
LEMMA DisjointJoin ==
    ASSUME NEW p \in Region, NEW q \in Region, NEW u \in Region, NEW s \in Region,
           Disjoint(p, s), Disjoint(q, s), End(p) = q.start,
           u.start = p.start, u.size = p.size + q.size
    PROVE  Disjoint(u, s)
BY DEF Disjoint, End, Region

\* alloc keeps the invariant: the request and what is left of region i are
\* disjoint parts of it.
LEMMA AllocPreserves ==
    ASSUME IInv, NEW size \in Sizes, Alloc(size)
    PROVE  IInv'
<1>1. PICK i \in DOMAIN free_mem_list_, r \in Region, n \in Nat : AllocEffect(r, n, i)
  BY AllocSplits DEF IInv
<1> DEFINE m == free_mem_list_[i]
           t == free_mem_list_'[i]
           f == Rounded(r)
<1>2. \A k \in DOMAIN free_mem_list_ :
        free_mem_list_[k] \in Region /\ free_mem_list_'[k] \in Region
  <2>1. free_mem_list_ \in Seq(Region) /\ free_mem_list_' \in Seq(Region)
    BY <1>1 DEF AllocEffect, IInv, TypeOK
  <2> QED BY <1>1, <2>1, ElementOfSeq DEF AllocEffect
<1>3. f \in Region /\ f.start = m.start /\ f.size = n
  BY <1>1, RoundedRegion DEF AllocEffect
<1>4. m.size # 0 /\ n <= m.size
  BY <1>1 DEF AllocEffect
<1>5. \/ t.size = 0 /\ m.size = n
      \/ t.start = m.start + n /\ t.size = m.size - n
  BY <1>1 DEF AllocEffect
<1>6. \A k \in DOMAIN free_mem_list_ : k # i => free_mem_list_'[k] = free_mem_list_[k]
  BY <1>1 DEF AllocEffect
<1>7. DOMAIN free_mem_list_' = DOMAIN free_mem_list_
  BY <1>1 DEF AllocEffect
<1>8. held' \cup lost' = held \cup lost \cup {r}
  BY <1>1 DEF AllocEffect
<1>9. \A s \in held \cup lost : s \in Region /\ Rounded(s) \in Region
  BY RoundedRegion DEF IInv, TypeOK
<1> HIDE DEF m, t, f
<1>10. m \in Region /\ t \in Region
  BY <1>2 DEF m, t
<1>11. ASSUME NEW q \in Region, Disjoint(m, q)
       PROVE  Disjoint(t, q) /\ Disjoint(f, q)
  <2>1. t.size = 0 \/ (m.size # 0 /\ m.start <= t.start /\ End(t) <= End(m))
    BY <1>3, <1>4, <1>5, <1>10 DEF End, Region
  <2>2. m.size # 0 /\ m.start <= f.start /\ End(f) <= End(m)
    BY <1>3, <1>4, <1>10 DEF End, Region
  <2> QED BY <1>3, <1>10, <1>11, <2>1, <2>2, DisjointPart
<1>12. Disjoint(t, f)
  BY <1>3, <1>4, <1>5, <1>10 DEF Disjoint, End, Region
<1>13. TypeOK'
  BY <1>1 DEF AllocEffect, IInv, TypeOK
<1>14. FreeRegionsDisjoint'
  <2> SUFFICES ASSUME NEW j \in DOMAIN free_mem_list_, NEW k \in DOMAIN free_mem_list_, j # k
               PROVE  Disjoint(free_mem_list_'[j], free_mem_list_'[k])
    BY <1>7 DEF FreeRegionsDisjoint, Disjoint, End
  <2>1. Disjoint(free_mem_list_[j], free_mem_list_[k]) /\ Disjoint(free_mem_list_[k], free_mem_list_[j])
    BY DEF IInv, ExclusiveOwnership, FreeRegionsDisjoint
  <2>2. CASE j # i /\ k # i
    BY <1>6, <2>1, <2>2
  <2>3. CASE j = i
    BY <1>2, <1>6, <1>11, <2>1, <2>3 DEF m, t
  <2>4. CASE k = i
    <3>1. Disjoint(t, free_mem_list_[j])
      BY <1>2, <1>11, <2>1, <2>4 DEF m
    <3> QED BY <1>2, <1>6, <1>10, <2>4, <3>1, DisjointSym DEF t
  <2> QED BY <2>2, <2>3, <2>4
<1>15. ASSUME NEW j \in DOMAIN free_mem_list_, NEW s \in held \cup lost \cup {r}
       PROVE  Disjoint(free_mem_list_'[j], Rounded(s))
  <2>1. CASE s = r /\ j = i
    BY <1>12, <2>1 DEF t, f
  <2>2. CASE s = r /\ j # i
    <3>1. Disjoint(m, free_mem_list_[j])
      BY <2>2 DEF IInv, ExclusiveOwnership, FreeRegionsDisjoint, m
    <3> QED BY <1>2, <1>3, <1>6, <1>11, <2>2, <3>1, DisjointSym DEF f
  <2>3. CASE s \in held \cup lost
    <3>1. Disjoint(free_mem_list_[j], Rounded(s)) /\ Rounded(s) \in Region
      BY <1>9, <2>3 DEF IInv, ExclusiveOwnership
    <3> QED BY <1>6, <1>11, <3>1 DEF m, t
  <2> QED BY <2>1, <2>2, <2>3
<1>16. ASSUME NEW s \in held \cup lost \cup {r}, NEW u \in held \cup lost \cup {r}, s # u
       PROVE  Disjoint(Rounded(s), Rounded(u))
  <2>1. ASSUME NEW v \in held \cup lost
        PROVE  Disjoint(f, Rounded(v)) /\ Disjoint(Rounded(v), f)
    <3>1. Disjoint(m, Rounded(v)) /\ Rounded(v) \in Region
      BY <1>9 DEF IInv, ExclusiveOwnership, m
    <3> QED BY <1>3, <1>11, <3>1, DisjointSym
  <2>2. CASE s = r \/ u = r
    BY <1>16, <2>1, <2>2 DEF f
  <2>3. CASE s \in held \cup lost /\ u \in held \cup lost
    BY <1>16, <2>3 DEF IInv, ExclusiveOwnership
  <2> QED BY <2>2, <2>3
<1>17. ExclusiveOwnership'
  BY <1>7, <1>8, <1>14, <1>15, <1>16 DEF ExclusiveOwnership, Disjoint, End, Rounded, Region0, ALIGN_UP
<1>18. NullSplit'
  BY <1>1 DEF AllocEffect, IInv, NullSplit
<1> QED BY <1>13, <1>17, <1>18 DEF IInv

\* The list after free is disjoint in itself, and avoids what f and the list
\* before avoided.
FreeApart(f) ==
    /\ FreeRegionsDisjoint'
    /\ \A q \in Region :
         /\ Disjoint(f, q)
         /\ \A k \in DOMAIN free_mem_list_ : Disjoint(free_mem_list_[k], q)
         => \A k \in DOMAIN free_mem_list_' : Disjoint(free_mem_list_'[k], q)

\* One region grows by f, on either side.
LEMMA JoinedOneApart ==
    ASSUME IInv, free_mem_list_' \in Seq(Region), NEW f \in Region,
           \A k \in DOMAIN free_mem_list_ : Disjoint(f, free_mem_list_[k]),
           NEW i \in DOMAIN free_mem_list_, JoinsBelow(f, i) \/ JoinsAbove(f, i)
    PROVE  FreeApart(f)
<1> DEFINE m == free_mem_list_[i]
           u == free_mem_list_'[i]
<1>1. /\ DOMAIN free_mem_list_' = DOMAIN free_mem_list_
      /\ \A k \in DOMAIN free_mem_list_ : k # i => free_mem_list_'[k] = free_mem_list_[k]
  BY DEF JoinsBelow, JoinsAbove
<1>2. \A k \in DOMAIN free_mem_list_ :
        free_mem_list_[k] \in Region /\ free_mem_list_'[k] \in Region
  BY <1>1, ElementOfSeq DEF IInv, TypeOK
<1>3. \/ End(f) = m.start /\ u.start = f.start /\ u.size = f.size + m.size
      \/ End(m) = f.start /\ u.start = m.start /\ u.size = m.size + f.size
  BY <1>2 DEF JoinsBelow, JoinsAbove, Region0, Region
<1> HIDE DEF m, u
<1>4. m \in Region /\ u \in Region
  BY <1>2 DEF m, u
<1>5. ASSUME NEW q \in Region, Disjoint(f, q), Disjoint(m, q)
      PROVE  Disjoint(u, q)
  BY <1>3, <1>4, <1>5, DisjointJoin
<1>6. FreeRegionsDisjoint'
  <2> SUFFICES ASSUME NEW j \in DOMAIN free_mem_list_, NEW k \in DOMAIN free_mem_list_, j # k
               PROVE  Disjoint(free_mem_list_'[j], free_mem_list_'[k])
    BY <1>1 DEF FreeRegionsDisjoint, Disjoint, End
  <2>1. Disjoint(free_mem_list_[j], free_mem_list_[k]) /\ Disjoint(free_mem_list_[k], free_mem_list_[j])
    BY DEF IInv, ExclusiveOwnership, FreeRegionsDisjoint
  <2>2. CASE j # i /\ k # i
    BY <1>1, <2>1, <2>2
  <2>3. CASE j = i
    BY <1>1, <1>2, <1>5, <2>1, <2>3 DEF m, u
  <2>4. CASE k = i
    <3>1. Disjoint(u, free_mem_list_[j])
      BY <1>2, <1>5, <2>1, <2>4 DEF m
    <3> QED BY <1>1, <1>2, <1>4, <2>4, <3>1, DisjointSym DEF u
  <2> QED BY <2>2, <2>3, <2>4
<1>7. ASSUME NEW q \in Region, Disjoint(f, q),
             \A k \in DOMAIN free_mem_list_ : Disjoint(free_mem_list_[k], q),
             NEW k \in DOMAIN free_mem_list_'
      PROVE  Disjoint(free_mem_list_'[k], q)
  <2>1. CASE k = i
    BY <1>5, <1>7, <2>1 DEF m, u
  <2>2. CASE k # i
    BY <1>1, <1>7, <2>2
  <2> QED BY <2>1, <2>2
<1> QED BY <1>6, <1>7 DEF FreeApart

\* f fills the gap between two regions: the lower one takes in both.
LEMMA JoinedBothApart ==
    ASSUME IInv, free_mem_list_' \in Seq(Region), NEW f \in Region,
           \A k \in DOMAIN free_mem_list_ : Disjoint(f, free_mem_list_[k]),
           NEW i \in DOMAIN free_mem_list_, NEW n \in DOMAIN free_mem_list_,
           JoinsBoth(f, i, n)
    PROVE  FreeApart(f)
<1> DEFINE m == free_mem_list_[i]
           p == free_mem_list_[n]
           u == free_mem_list_'[i]
           v == Region0(m.start, m.size + f.size)
<1>1. /\ DOMAIN free_mem_list_' = DOMAIN free_mem_list_
      /\ \A k \in DOMAIN free_mem_list_ :
           k # i /\ k # n => free_mem_list_'[k] = free_mem_list_[k]
      /\ i # n
  BY DEF JoinsBoth
<1>2. \A k \in DOMAIN free_mem_list_ :
        free_mem_list_[k] \in Region /\ free_mem_list_'[k] \in Region
  BY <1>1, ElementOfSeq DEF IInv, TypeOK
<1>3. /\ End(m) = f.start /\ End(f) = p.start
      /\ u.start = m.start /\ u.size = m.size + f.size + p.size
      /\ free_mem_list_'[n].size = 0
  BY <1>2 DEF JoinsBoth, Region0, Region
<1>4. m \in Region /\ p \in Region /\ u \in Region /\ v \in Region
  <2>1. m \in Region /\ p \in Region /\ u \in Region
    BY <1>2
  <2> HIDE DEF m
  <2>2. m.start \in Nat /\ m.size + f.size \in Nat
    BY <2>1 DEF Region
  <2>3. v \in Region
    BY <2>2 DEF Region0, Region
  <2> QED BY <2>1, <2>3
<1>5. v.start = m.start /\ v.size = m.size + f.size /\ End(v) = End(f)
  BY <1>3, <1>4 DEF End, Region0, Region
<1> HIDE DEF m, p, u, v
<1>6. ASSUME NEW q \in Region, Disjoint(f, q), Disjoint(m, q), Disjoint(p, q)
      PROVE  Disjoint(u, q)
  <2>1. Disjoint(v, q)
    BY <1>3, <1>4, <1>5, <1>6, DisjointJoin
  <2>2. End(v) = p.start /\ u.start = v.start /\ u.size = v.size + p.size
    BY <1>3, <1>4, <1>5 DEF Region
  <2> QED BY <1>4, <1>6, <2>1, <2>2, DisjointJoin
<1>7. ASSUME NEW q \in Region
      PROVE  Disjoint(free_mem_list_'[n], q) /\ Disjoint(q, free_mem_list_'[n])
  BY <1>3 DEF Disjoint
<1>8. FreeRegionsDisjoint'
  <2> SUFFICES ASSUME NEW j \in DOMAIN free_mem_list_, NEW k \in DOMAIN free_mem_list_, j # k
               PROVE  Disjoint(free_mem_list_'[j], free_mem_list_'[k])
    BY <1>1 DEF FreeRegionsDisjoint, Disjoint, End
  <2>1. \A a, b \in DOMAIN free_mem_list_ : a # b => Disjoint(free_mem_list_[a], free_mem_list_[b])
    BY DEF IInv, ExclusiveOwnership, FreeRegionsDisjoint
  <2>2. CASE j = n \/ k = n
    BY <1>2, <1>7, <2>2
  <2>3. CASE j # n /\ k # n /\ j # i /\ k # i
    BY <1>1, <2>1, <2>3
  <2>4. ASSUME NEW a \in DOMAIN free_mem_list_, a # i, a # n
        PROVE  Disjoint(u, free_mem_list_'[a]) /\ Disjoint(free_mem_list_'[a], u)
    <3>1. Disjoint(m, free_mem_list_[a]) /\ Disjoint(p, free_mem_list_[a])
      BY <2>1, <2>4 DEF m, p
    <3>2. Disjoint(u, free_mem_list_[a])
      BY <1>2, <1>6, <3>1
    <3> QED BY <1>1, <1>2, <1>4, <2>4, <3>2, DisjointSym
  <2> QED BY <2>2, <2>3, <2>4 DEF u
<1>9. ASSUME NEW q \in Region, Disjoint(f, q),
             \A k \in DOMAIN free_mem_list_ : Disjoint(free_mem_list_[k], q),
             NEW k \in DOMAIN free_mem_list_'
      PROVE  Disjoint(free_mem_list_'[k], q)
  <2>1. CASE k = i
    BY <1>6, <1>9, <2>1 DEF m, p, u
  <2>2. CASE k = n
    BY <1>7, <2>2
  <2>3. CASE k # i /\ k # n
    BY <1>1, <1>9, <2>3
  <2> QED BY <2>1, <2>2, <2>3
<1> QED BY <1>8, <1>9 DEF FreeApart

\* f becomes the last region.
LEMMA AppendedApart ==
    ASSUME IInv, free_mem_list_' \in Seq(Region), NEW f \in Region,
           \A k \in DOMAIN free_mem_list_ : Disjoint(f, free_mem_list_[k]),
           Appended(f)
    PROVE  FreeApart(f)
<1> DEFINE n == Len(free_mem_list_) + 1
<1>1. free_mem_list_ \in Seq(Region)
  BY DEF IInv, TypeOK
<1>2. DOMAIN free_mem_list_ = 1 .. Len(free_mem_list_) /\ Len(free_mem_list_) \in Nat
  BY <1>1, LenProperties
<1>3. \A k \in DOMAIN free_mem_list_' : k \in DOMAIN free_mem_list_ \/ k = n
  BY <1>2 DEF Appended
<1>4. /\ free_mem_list_'[n] = f
      /\ \A k \in DOMAIN free_mem_list_ : free_mem_list_'[k] = free_mem_list_[k]
  BY DEF Appended
<1> HIDE DEF n
<1>5. \A k \in DOMAIN free_mem_list_ : free_mem_list_[k] \in Region
  BY <1>1, ElementOfSeq
<1>6. FreeRegionsDisjoint'
  <2> SUFFICES ASSUME NEW j \in DOMAIN free_mem_list_', NEW k \in DOMAIN free_mem_list_', j # k
               PROVE  Disjoint(free_mem_list_'[j], free_mem_list_'[k])
    BY DEF FreeRegionsDisjoint, Disjoint, End
  <2>1. CASE j \in DOMAIN free_mem_list_ /\ k \in DOMAIN free_mem_list_
    BY <1>4, <2>1 DEF IInv, ExclusiveOwnership, FreeRegionsDisjoint
  <2>2. CASE j = n /\ k \in DOMAIN free_mem_list_
    BY <1>4, <2>2
  <2>3. CASE k = n /\ j \in DOMAIN free_mem_list_
    BY <1>4, <1>5, <2>3, DisjointSym
  <2> QED BY <1>3, <2>1, <2>2, <2>3
<1>7. ASSUME NEW q \in Region, Disjoint(f, q),
             \A k \in DOMAIN free_mem_list_ : Disjoint(free_mem_list_[k], q),
             NEW k \in DOMAIN free_mem_list_'
      PROVE  Disjoint(free_mem_list_'[k], q)
  BY <1>3, <1>4, <1>7
<1> QED BY <1>6, <1>7 DEF FreeApart

\* free keeps the invariant: the region it returns was nobody else's.
LEMMA FreePreserves ==
    ASSUME IInv, NEW r \in held, Free(r)
    PROVE  IInv'
<1> DEFINE f == Rounded(r)
<1>1. r \in Region /\ f \in Region
  BY RoundedRegion DEF IInv, TypeOK
<1>2. Release(f) /\ held' = held \ {r} /\ lost' = lost
  BY DEF Free
<1>3. \A s \in held \cup lost : s \in Region /\ Rounded(s) \in Region
  BY RoundedRegion DEF IInv, TypeOK
<1>4. held' \cup lost' = (held \cup lost) \ {r}
  BY <1>2 DEF IInv, NullSplit
<1> HIDE DEF f
<1>5. /\ free_mem_list_' \in Seq(Region)
      /\ \/ \E i \in DOMAIN free_mem_list_ : JoinsBelow(f, i) \/ JoinsAbove(f, i)
         \/ \E i, j \in DOMAIN free_mem_list_ : JoinsBoth(f, i, j)
         \/ Appended(f)
  BY <1>1, <1>2, ReleaseJoins DEF IInv
<1>6. \A k \in DOMAIN free_mem_list_ : free_mem_list_[k] \in Region
  BY ElementOfSeq DEF IInv, TypeOK
<1>7. \A k \in DOMAIN free_mem_list_ : Disjoint(f, free_mem_list_[k])
  BY <1>1, <1>6, DisjointSym DEF IInv, ExclusiveOwnership, f
<1>8. FreeApart(f)
  BY <1>1, <1>5, <1>7, JoinedOneApart, JoinedBothApart, AppendedApart
<1>9. \A s, u \in held' \cup lost' : s # u => Disjoint(Rounded(s), Rounded(u))
  BY <1>4 DEF IInv, ExclusiveOwnership
<1>10. ASSUME NEW k \in DOMAIN free_mem_list_', NEW s \in held' \cup lost'
       PROVE  Disjoint(free_mem_list_'[k], Rounded(s))
  <2>1. Rounded(s) \in Region /\ Disjoint(f, Rounded(s))
    BY <1>3, <1>4 DEF IInv, ExclusiveOwnership, f
  <2>2. \A j \in DOMAIN free_mem_list_ : Disjoint(free_mem_list_[j], Rounded(s))
    BY <1>4 DEF IInv, ExclusiveOwnership
  <2> QED BY <1>8, <2>1, <2>2 DEF FreeApart
<1>11. ExclusiveOwnership'
  BY <1>8, <1>9, <1>10
     DEF FreeApart, ExclusiveOwnership, Disjoint, End, Rounded, Region0, ALIGN_UP
<1>12. TypeOK' /\ NullSplit'
  BY <1>2, <1>5 DEF IInv, TypeOK, NullSplit
<1> QED BY <1>11, <1>12 DEF IInv

-----------------------------------------------------------------------------
\* One region, the whole space, and no client.
LEMMA InitHolds ==
    ASSUME Init
    PROVE  IInv /\ Accounted
<1>1. /\ DOMAIN free_mem_list_ = {1}
      /\ free_mem_list_[1] = Region0(0, VADDR_SIZE)
      /\ free_mem_list_ \in Seq(Region)
      /\ held = {} /\ lost = {}
  BY VirtualAssumption DEF Init, VADDR_START, Region0, Region
<1>2. IInv
  BY <1>1 DEF IInv, TypeOK, ExclusiveOwnership, FreeRegionsDisjoint, NullSplit
<1>3. \A a \in Space : Covers(free_mem_list_[1], a)
  BY <1>1, VirtualAssumption DEF Space, VADDR_START, Covers, End, Region0
<1>4. Accounted
  BY <1>1, <1>3 DEF Accounted
<1> QED BY <1>2, <1>4

\* IInv is inductive.
LEMMA StepPreserves ==
    ASSUME IInv, [Next]_vars
    PROVE  IInv'
<1>1. ASSUME NEW size \in Sizes, Alloc(size)
      PROVE  IInv'
  BY <1>1, AllocPreserves
<1>2. ASSUME NEW r \in held, Free(r)
      PROVE  IInv'
  BY <1>2, FreePreserves
<1>3. CASE UNCHANGED vars
  <2>1. free_mem_list_' = free_mem_list_ /\ held' = held /\ lost' = lost
    BY <1>3 DEF vars
  <2> QED BY <2>1 DEF IInv, TypeOK, ExclusiveOwnership, FreeRegionsDisjoint, Disjoint, End,
                      Rounded, Region0, ALIGN_UP, NullSplit
<1> QED BY <1>1, <1>2, <1>3 DEF Next

LEMMA InvariantHolds == Spec => []IInv
<1>1. Init => IInv
  BY InitHolds
<1>2. IInv /\ [Next]_vars => IInv'
  BY StepPreserves
<1> QED BY <1>1, <1>2, PTL DEF Spec

-----------------------------------------------------------------------------
\* alloc drops no byte: each byte of region i goes to the request or stays.
LEMMA AllocAccounts ==
    ASSUME IInv, Accounted, NEW size \in Sizes, Alloc(size)
    PROVE  Accounted'
<1>1. PICK i \in DOMAIN free_mem_list_, r \in Region, n \in Nat : AllocEffect(r, n, i)
  BY AllocSplits DEF IInv
<1> DEFINE m == free_mem_list_[i]
           t == free_mem_list_'[i]
<1>2. \A k \in DOMAIN free_mem_list_ :
        free_mem_list_[k] \in Region /\ free_mem_list_'[k] \in Region
  <2>1. free_mem_list_ \in Seq(Region) /\ free_mem_list_' \in Seq(Region)
    BY <1>1 DEF AllocEffect, IInv, TypeOK
  <2> QED BY <1>1, <2>1, ElementOfSeq DEF AllocEffect
<1>3. Taken' = Taken \cup {Rounded(r)}
  BY <1>1 DEF AllocEffect, Taken, Rounded, Region0, ALIGN_UP
<1>4. Rounded(r) \in Region /\ Rounded(r).start = m.start /\ Rounded(r).size = n
  BY <1>1, RoundedRegion DEF AllocEffect
<1>5. ASSUME NEW a \in Space, Covers(m, a)
      PROVE  Covers(Rounded(r), a) \/ Covers(t, a)
  <2>1. \/ t.size = 0 /\ m.size = n
        \/ t.start = m.start + n /\ t.size = m.size - n
    BY <1>1 DEF AllocEffect
  <2>2. a \in Nat
    BY VirtualAssumption DEF Space, VADDR_START
  <2>3. m \in Region /\ t \in Region
    BY <1>2
  <2> HIDE DEF m, t
  <2> QED BY <1>4, <1>5, <2>1, <2>2, <2>3 DEF Covers, End, Region
<1>6. SUFFICES ASSUME NEW a \in Space
               PROVE  \/ \E k \in DOMAIN free_mem_list_' : Covers(free_mem_list_'[k], a)
                      \/ \E q \in Taken' : Covers(q, a)
  BY DEF Accounted, Space, Covers, End
<1>7. CASE \E q \in Taken : Covers(q, a)
  BY <1>3, <1>7
<1>8. CASE \E k \in DOMAIN free_mem_list_ : Covers(free_mem_list_[k], a)
  <2>1. PICK k \in DOMAIN free_mem_list_ : Covers(free_mem_list_[k], a)
    BY <1>8
  <2>2. DOMAIN free_mem_list_' = DOMAIN free_mem_list_
    BY <1>1 DEF AllocEffect
  <2>3. CASE k = i
    BY <1>3, <1>5, <2>1, <2>2, <2>3
  <2>4. CASE k # i
    BY <1>1, <2>1, <2>2, <2>4 DEF AllocEffect
  <2> QED BY <2>3, <2>4
<1> QED BY <1>7, <1>8 DEF Accounted

\* free drops no byte: the list after it covers what the list before it and
\* the region returned covered.
LEMMA ReleaseCovers ==
    ASSUME TypeOK, NEW f \in Region, Release(f), NEW a \in Nat,
           Covers(f, a) \/ \E k \in DOMAIN free_mem_list_ : Covers(free_mem_list_[k], a)
    PROVE  \E k \in DOMAIN free_mem_list_' : Covers(free_mem_list_'[k], a)
<1>1. \A k \in DOMAIN free_mem_list_ : free_mem_list_[k] \in Region
  BY ElementOfSeq DEF TypeOK
<1>2. ASSUME NEW i \in DOMAIN free_mem_list_, JoinsBelow(f, i) \/ JoinsAbove(f, i)
      PROVE  \E k \in DOMAIN free_mem_list_' : Covers(free_mem_list_'[k], a)
  <2>1. Covers(f, a) \/ Covers(free_mem_list_[i], a) => Covers(free_mem_list_'[i], a)
    BY <1>1, <1>2 DEF JoinsBelow, JoinsAbove, Covers, End, Region0, Region
  <2> QED BY <1>2, <2>1 DEF JoinsBelow, JoinsAbove
<1>3. ASSUME NEW i \in DOMAIN free_mem_list_, NEW j \in DOMAIN free_mem_list_, JoinsBoth(f, i, j)
      PROVE  \E k \in DOMAIN free_mem_list_' : Covers(free_mem_list_'[k], a)
  <2>1. Covers(f, a) \/ Covers(free_mem_list_[i], a) \/ Covers(free_mem_list_[j], a)
          => Covers(free_mem_list_'[i], a)
    BY <1>1, <1>3 DEF JoinsBoth, Covers, End, Region0, Region
  <2> QED BY <1>3, <2>1 DEF JoinsBoth
<1>4. ASSUME Appended(f)
      PROVE  \E k \in DOMAIN free_mem_list_' : Covers(free_mem_list_'[k], a)
  <2>1. DOMAIN free_mem_list_ = 1 .. Len(free_mem_list_) /\ Len(free_mem_list_) \in Nat
    BY LenProperties DEF TypeOK
  <2> QED BY <1>4, <2>1 DEF Appended
<1> QED BY <1>2, <1>3, <1>4, ReleaseJoins

LEMMA FreeAccounts ==
    ASSUME IInv, Accounted, NEW r \in held, Free(r)
    PROVE  Accounted'
<1>1. Release(Rounded(r)) /\ held' = held \ {r} /\ lost' = lost
  BY DEF Free
<1>2. Rounded(r) \in Region
  BY RoundedRegion DEF IInv, TypeOK
<1>3. Taken \subseteq Taken' \cup {Rounded(r)}
  BY <1>1 DEF Taken, Rounded, Region0, ALIGN_UP
<1>4. SUFFICES ASSUME NEW a \in Space
               PROVE  \/ \E k \in DOMAIN free_mem_list_' : Covers(free_mem_list_'[k], a)
                      \/ \E q \in Taken' : Covers(q, a)
  BY DEF Accounted, Space, Covers, End
<1>5. a \in Nat
  BY VirtualAssumption DEF Space, VADDR_START
<1>6. CASE Covers(Rounded(r), a) \/ \E k \in DOMAIN free_mem_list_ : Covers(free_mem_list_[k], a)
  BY <1>1, <1>2, <1>5, <1>6, ReleaseCovers DEF IInv
<1>7. CASE \E q \in Taken' : Covers(q, a)
  BY <1>7
<1> QED BY <1>3, <1>6, <1>7 DEF Accounted

-----------------------------------------------------------------------------
\* The state of the virtual memory manager is well typed.
THEOREM TypeCorrect == Spec => []TypeOK
<1>1. IInv => TypeOK
  BY DEF IInv
<1> QED BY <1>1, InvariantHolds, PTL

\* No byte of the virtual space ever has two owners, whatever the order of
\* virt::alloc and virt::free: the list, the clients and the region lost at
\* address 0 stay pairwise disjoint.
THEOREM Exclusive == Spec => []ExclusiveOwnership
<1>1. IInv => ExclusiveOwnership
  BY DEF IInv
<1> QED BY <1>1, InvariantHolds, PTL

\* No byte of the virtual space is ever lost from the books by a split or a
\* merge.
THEOREM AllAccounted == Spec => []Accounted
<1>1. Init => IInv /\ Accounted
  BY InitHolds
<1>2. IInv /\ Accounted /\ [Next]_vars => Accounted'
  <2> SUFFICES ASSUME IInv, Accounted, [Next]_vars
               PROVE  Accounted'
    OBVIOUS
  <2>1. ASSUME NEW size \in Sizes, Alloc(size)
        PROVE  Accounted'
    BY <2>1, AllocAccounts
  <2>2. ASSUME NEW r \in held, Free(r)
        PROVE  Accounted'
    BY <2>2, FreeAccounts
  <2>3. CASE UNCHANGED vars
    <3>1. free_mem_list_' = free_mem_list_ /\ held' = held /\ lost' = lost
      BY <2>3 DEF vars
    <3> QED BY <3>1 DEF Accounted, Covers, Taken, End, Rounded, Region0, ALIGN_UP, Space
  <2> QED BY <2>1, <2>2, <2>3 DEF Next
<1> QED BY <1>1, <1>2, InvariantHolds, PTL DEF Spec

-----------------------------------------------------------------------------
\* Starts of regions stay on a page boundary.

LEMMA AlignUpAligned ==
    ASSUME NEW size \in Nat
    PROVE  ALIGN_UP(size) % FRAME_SIZE = 0
<1>1. FRAME_SIZE \in Nat \ {0} /\ WORD \in Nat \ {0}
  BY VirtualAssumption
<1> DEFINE b == (size + FRAME_SIZE - 1) % WORD
           c == b \div FRAME_SIZE
<1>2. b \in Nat
  BY <1>1
<1> HIDE DEF b
<1>3. c \in Nat
  BY <1>1, <1>2
<1> HIDE DEF c
<1>4. (c * FRAME_SIZE) % FRAME_SIZE = 0
  BY <1>1, <1>3
<1> QED BY <1>4 DEF ALIGN_UP, b, c

LEMMA AlignedSum ==
    ASSUME NEW a \in Nat, NEW b \in Nat, a % FRAME_SIZE = 0, b % FRAME_SIZE = 0
    PROVE  (a + b) % FRAME_SIZE = 0
<1> DEFINE F == FRAME_SIZE
           p == a \div F
           q == b \div F
<1>1. F \in Nat \ {0}
  BY VirtualAssumption
<1>2. p \in Nat /\ a = p * F /\ q \in Nat /\ b = q * F
  BY <1>1
<1> HIDE DEF p, q
<1>3. a + b = (p + q) * F
  BY <1>1, <1>2
<1>4. ((p + q) * F) % F = 0
  BY <1>1, <1>2
<1> QED BY <1>3, <1>4

LEMMA AllocAligned ==
    ASSUME IInv, PageAligned, NEW size \in Sizes, Alloc(size)
    PROVE  PageAligned'
<1>1. PICK i \in DOMAIN free_mem_list_, r \in Region, n \in Nat : AllocEffect(r, n, i)
  BY AllocSplits DEF IInv
<1>2. free_mem_list_[i] \in Region /\ free_mem_list_[i].start % FRAME_SIZE = 0
  BY ElementOfSeq DEF IInv, TypeOK, PageAligned
<1>3. r.start % FRAME_SIZE = 0
  BY <1>1, <1>2 DEF AllocEffect
<1>5. free_mem_list_'[i].start % FRAME_SIZE = 0
  <2>0. ALIGN_UP(size) \in Nat /\ ALIGN_UP(size) % FRAME_SIZE = 0
    BY AlignUpNat, AlignUpAligned, VirtualAssumption
  <2>1. PICK k \in DOMAIN free_mem_list_ :
          free_mem_list_' =
            [free_mem_list_ EXCEPT ![k] = TakeFront(free_mem_list_[k], ALIGN_UP(size))]
    BY DEF Alloc
  <2>2. free_mem_list_[k] \in Region /\ free_mem_list_[k].start % FRAME_SIZE = 0
    BY ElementOfSeq DEF IInv, TypeOK, PageAligned
  <2> DEFINE t == TakeFront(free_mem_list_[k], ALIGN_UP(size))
  <2>3. t.start = free_mem_list_[k].start \/ t.start = free_mem_list_[k].start + ALIGN_UP(size)
    BY <2>2 DEF TakeFront, Region0, Region
  <2>4. t.start % FRAME_SIZE = 0
    BY <2>0, <2>2, <2>3, AlignedSum DEF Region
  <2> HIDE DEF t
  <2>5. free_mem_list_' = [free_mem_list_ EXCEPT ![k] = t]
    BY <2>1 DEF t
  <2> QED BY <1>2, <2>4, <2>5 DEF IInv, TypeOK
<1> QED BY <1>1, <1>3, <1>5 DEF AllocEffect, PageAligned

LEMMA FreeAligned ==
    ASSUME IInv, PageAligned, NEW r \in held, Free(r)
    PROVE  PageAligned'
<1> DEFINE f == Rounded(r)
<1>1. Release(f) /\ held' = held \ {r} /\ lost' = lost
  BY DEF Free
<1>2. f \in Region /\ f.start % FRAME_SIZE = 0
  BY RoundedRegion DEF IInv, TypeOK, PageAligned
<1> HIDE DEF f
<1>3. \/ \E i \in DOMAIN free_mem_list_ : JoinsBelow(f, i) \/ JoinsAbove(f, i)
      \/ \E i, j \in DOMAIN free_mem_list_ : JoinsBoth(f, i, j)
      \/ Appended(f)
  BY <1>1, <1>2, ReleaseJoins DEF IInv
<1>4. \A k \in DOMAIN free_mem_list_ : free_mem_list_[k].start % FRAME_SIZE = 0
  BY DEF PageAligned
<1>5. \A k \in DOMAIN free_mem_list_' : free_mem_list_'[k].start % FRAME_SIZE = 0
  <2>1. CASE \E i \in DOMAIN free_mem_list_ : JoinsBelow(f, i) \/ JoinsAbove(f, i)
    BY <1>2, <1>4, <2>1 DEF JoinsBelow, JoinsAbove, Region0
  <2>2. CASE \E i, j \in DOMAIN free_mem_list_ : JoinsBoth(f, i, j)
    BY <1>4, <2>2 DEF JoinsBoth, Region0
  <2>3. CASE Appended(f)
    <3>1. DOMAIN free_mem_list_ = 1 .. Len(free_mem_list_) /\ Len(free_mem_list_) \in Nat
      BY LenProperties DEF IInv, TypeOK
    <3> QED BY <1>2, <1>4, <2>3, <3>1 DEF Appended
  <2> QED BY <1>3, <2>1, <2>2, <2>3
<1> QED BY <1>1, <1>5 DEF PageAligned

\* Every region the list offers and every region a client holds starts on a
\* page, whatever sizes were asked for and returned.
THEOREM AlwaysPageAligned == Spec => []PageAligned
<1>1. Init => PageAligned
  <2> SUFFICES ASSUME Init PROVE PageAligned
    OBVIOUS
  <2>1. DOMAIN free_mem_list_ = {1} /\ free_mem_list_[1].start = 0 /\ held = {} /\ lost = {}
    BY DEF Init, VADDR_START, Region0
  <2>2. 0 % FRAME_SIZE = 0
    BY VirtualAssumption
  <2> QED BY <2>1, <2>2 DEF PageAligned
<1>2. IInv /\ PageAligned /\ [Next]_vars => PageAligned'
  <2> SUFFICES ASSUME IInv, PageAligned, [Next]_vars PROVE PageAligned'
    OBVIOUS
  <2>1. ASSUME UNCHANGED vars PROVE PageAligned'
    BY <2>1 DEF vars, PageAligned
  <2> QED BY <2>1, AllocAligned, FreeAligned DEF Next
<1> QED BY <1>1, <1>2, InvariantHolds, PTL DEF Spec

-----------------------------------------------------------------------------
\* The refinement: alloc grants the front of a region, free reclaims it.  Requests
\* that wrap to nothing are granted and reclaimed as empty extents, and two of
\* them at one address are one extent, whose first return is a stuttering step.

\* Nothing reaches past the end of the space.
InSpace ==
    /\ \A i \in DOMAIN free_mem_list_ : End(free_mem_list_[i]) <= VADDR_SIZE
    /\ \A r \in held \cup lost : End(Rounded(r)) <= VADDR_SIZE

LEMMA AllocInSpace ==
    ASSUME IInv, InSpace, NEW size \in Sizes, Alloc(size)
    PROVE  InSpace'
<1>1. PICK i \in DOMAIN free_mem_list_, r \in Region, n \in Nat : AllocEffect(r, n, i)
  BY AllocSplits DEF IInv
<1> DEFINE m == free_mem_list_[i]
           t == free_mem_list_'[i]
<1>2. m \in Region /\ End(m) <= VADDR_SIZE /\ VADDR_SIZE \in Nat
  BY ElementOfSeq, VirtualAssumption DEF IInv, TypeOK, InSpace
<1>3. End(Rounded(r)) <= VADDR_SIZE
  <2>1. Rounded(r).start = m.start /\ Rounded(r).size = n /\ n <= m.size
    BY <1>1, RoundedRegion DEF AllocEffect
  <2> HIDE DEF m
  <2> QED BY <1>2, <2>1 DEF End, Region
<1>4. End(t) <= VADDR_SIZE
  <2>1. PICK k \in DOMAIN free_mem_list_ :
          /\ Usable(free_mem_list_[k], ALIGN_UP(size))
          /\ free_mem_list_' =
               [free_mem_list_ EXCEPT ![k] = TakeFront(free_mem_list_[k], ALIGN_UP(size))]
    BY DEF Alloc, FirstFit
  <2> DEFINE u == TakeFront(free_mem_list_[k], ALIGN_UP(size))
  <2>2. free_mem_list_[k] \in Region /\ End(free_mem_list_[k]) <= VADDR_SIZE
    BY ElementOfSeq DEF IInv, TypeOK, InSpace
  <2>3. ALIGN_UP(size) \in Nat
    BY AlignUpNat, VirtualAssumption
  <2>4. End(u) <= VADDR_SIZE
    BY <1>2, <2>1, <2>2, <2>3 DEF TakeFront, Usable, End, Region0, Region
  <2> HIDE DEF u
  <2>5. free_mem_list_' = [free_mem_list_ EXCEPT ![k] = u]
    BY <2>1 DEF u
  <2> QED BY <1>2, <2>4, <2>5 DEF IInv, TypeOK
<1>5. \A k \in DOMAIN free_mem_list_' : End(free_mem_list_'[k]) <= VADDR_SIZE
  BY <1>1, <1>4 DEF AllocEffect, InSpace
<1>6. \A q \in held' \cup lost' : End(Rounded(q)) <= VADDR_SIZE
  BY <1>1, <1>3 DEF AllocEffect, InSpace
<1> QED BY <1>5, <1>6 DEF InSpace

LEMMA FreeInSpace ==
    ASSUME IInv, InSpace, NEW r \in held, Free(r)
    PROVE  InSpace'
<1> DEFINE f == Rounded(r)
<1>1. Release(f) /\ held' = held \ {r} /\ lost' = lost
  BY DEF Free
<1>2. f \in Region /\ End(f) <= VADDR_SIZE /\ VADDR_SIZE \in Nat
  BY RoundedRegion, VirtualAssumption DEF IInv, TypeOK, InSpace
<1> HIDE DEF f
<1>3. \/ \E i \in DOMAIN free_mem_list_ : JoinsBelow(f, i) \/ JoinsAbove(f, i)
      \/ \E i, j \in DOMAIN free_mem_list_ : JoinsBoth(f, i, j)
      \/ Appended(f)
  BY <1>1, <1>2, ReleaseJoins DEF IInv
<1>4. \A k \in DOMAIN free_mem_list_ :
        free_mem_list_[k] \in Region /\ End(free_mem_list_[k]) <= VADDR_SIZE
  BY ElementOfSeq DEF IInv, TypeOK, InSpace
<1>5. \A k \in DOMAIN free_mem_list_' : End(free_mem_list_'[k]) <= VADDR_SIZE
  <2>1. ASSUME NEW i \in DOMAIN free_mem_list_, JoinsBelow(f, i)
        PROVE  \A k \in DOMAIN free_mem_list_' : End(free_mem_list_'[k]) <= VADDR_SIZE
    <3>1. End(free_mem_list_'[i]) <= VADDR_SIZE
      BY <1>2, <1>4, <2>1 DEF JoinsBelow, End, Region0, Region
    <3> QED BY <1>4, <2>1, <3>1 DEF JoinsBelow
  <2>2. ASSUME NEW i \in DOMAIN free_mem_list_, JoinsAbove(f, i)
        PROVE  \A k \in DOMAIN free_mem_list_' : End(free_mem_list_'[k]) <= VADDR_SIZE
    <3>1. End(free_mem_list_'[i]) <= VADDR_SIZE
      BY <1>2, <1>4, <2>2 DEF JoinsAbove, End, Region0, Region
    <3> QED BY <1>4, <2>2, <3>1 DEF JoinsAbove
  <2>3. ASSUME NEW i \in DOMAIN free_mem_list_, NEW j \in DOMAIN free_mem_list_, JoinsBoth(f, i, j)
        PROVE  \A k \in DOMAIN free_mem_list_' : End(free_mem_list_'[k]) <= VADDR_SIZE
    <3>1. End(free_mem_list_'[i]) <= VADDR_SIZE
      BY <1>2, <1>4, <2>3 DEF JoinsBoth, End, Region0, Region
    <3>2. End(free_mem_list_'[j]) <= VADDR_SIZE
      BY <1>2, <1>4, <2>3 DEF JoinsBoth, End, Region0, Region
    <3> QED BY <1>4, <2>3, <3>1, <3>2 DEF JoinsBoth
  <2>4. CASE Appended(f)
    <3>1. DOMAIN free_mem_list_ = 1 .. Len(free_mem_list_) /\ Len(free_mem_list_) \in Nat
      BY LenProperties DEF IInv, TypeOK
    <3> QED BY <1>2, <1>4, <2>4, <3>1 DEF Appended
  <2> QED BY <1>3, <2>1, <2>2, <2>3, <2>4
<1> QED BY <1>1, <1>5 DEF InSpace

LEMMA InSpaceHolds == Spec => []InSpace
<1>1. Init => InSpace
  <2> SUFFICES ASSUME Init PROVE InSpace
    OBVIOUS
  <2>1. DOMAIN free_mem_list_ = {1} /\ free_mem_list_[1] = Region0(0, VADDR_SIZE)
        /\ held = {} /\ lost = {}
    BY DEF Init, VADDR_START
  <2> QED BY <2>1, VirtualAssumption DEF InSpace, End, Region0
<1>2. IInv /\ InSpace /\ [Next]_vars => InSpace'
  <2> SUFFICES ASSUME IInv, InSpace, [Next]_vars PROVE InSpace'
    OBVIOUS
  <2>1. ASSUME UNCHANGED vars PROVE InSpace'
    BY <2>1 DEF vars, InSpace
  <2> QED BY <2>1, AllocInSpace, FreeInSpace DEF Next
<1> QED BY <1>1, <1>2, InvariantHolds, PTL DEF Spec

\* free adds no byte but those of f: the converse of ReleaseCovers.
LEMMA ReleaseAddsOnly ==
    ASSUME TypeOK, NEW f \in Region, Release(f), NEW a \in Nat,
           \E k \in DOMAIN free_mem_list_' : Covers(free_mem_list_'[k], a)
    PROVE  Covers(f, a) \/ \E k \in DOMAIN free_mem_list_ : Covers(free_mem_list_[k], a)
<1>1. \A k \in DOMAIN free_mem_list_ : free_mem_list_[k] \in Region
  BY ElementOfSeq DEF TypeOK
<1>2. PICK k \in DOMAIN free_mem_list_' : Covers(free_mem_list_'[k], a)
  OBVIOUS
<1>3. ASSUME NEW i \in DOMAIN free_mem_list_, JoinsBelow(f, i) \/ JoinsAbove(f, i)
      PROVE  Covers(f, a) \/ \E l \in DOMAIN free_mem_list_ : Covers(free_mem_list_[l], a)
  <2>1. Covers(free_mem_list_'[i], a) => Covers(f, a) \/ Covers(free_mem_list_[i], a)
    BY <1>1, <1>3 DEF JoinsBelow, JoinsAbove, Covers, End, Region0, Region
  <2> QED BY <1>2, <1>3, <2>1 DEF JoinsBelow, JoinsAbove
<1>4. ASSUME NEW i \in DOMAIN free_mem_list_, NEW j \in DOMAIN free_mem_list_, JoinsBoth(f, i, j)
      PROVE  Covers(f, a) \/ \E l \in DOMAIN free_mem_list_ : Covers(free_mem_list_[l], a)
  <2>1. Covers(free_mem_list_'[i], a)
          => Covers(f, a) \/ Covers(free_mem_list_[i], a) \/ Covers(free_mem_list_[j], a)
    BY <1>1, <1>4 DEF JoinsBoth, Covers, End, Region0, Region
  <2>2. ~ Covers(free_mem_list_'[j], a)
    BY <1>1, <1>4 DEF JoinsBoth, Covers, End, Region0, Region
  <2> QED BY <1>2, <1>4, <2>1, <2>2 DEF JoinsBoth
<1>5. ASSUME Appended(f)
      PROVE  Covers(f, a) \/ \E l \in DOMAIN free_mem_list_ : Covers(free_mem_list_[l], a)
  <2>1. DOMAIN free_mem_list_ = 1 .. Len(free_mem_list_) /\ Len(free_mem_list_) \in Nat
    BY LenProperties DEF TypeOK
  <2> QED BY <1>2, <1>5, <2>1 DEF Appended
<1> QED BY <1>3, <1>4, <1>5, ReleaseJoins

\* The addresses of a region, as AddressSpace sees them.
LEMMA ExtentIs ==
    ASSUME NEW r \in Region
    PROVE  Abstract!Extent(r.start, r.size) = {a \in Space : Covers(r, a)}
BY DEF Abstract!Extent, Abstract!Space, Space, Covers, End

LEMMA AllocGrants ==
    ASSUME IInv, InSpace, NEW size \in Sizes, Alloc(size)
    PROVE  Abstract!ASNext
<1>1. PICK i \in DOMAIN free_mem_list_, r \in Region, n \in Nat : AllocEffect(r, n, i)
  BY AllocSplits DEF IInv
<1> DEFINE m == free_mem_list_[i]
           t == free_mem_list_'[i]
           g == Rounded(r)
<1>2. \A k \in DOMAIN free_mem_list_ :
        free_mem_list_[k] \in Region /\ free_mem_list_'[k] \in Region
  <2>1. free_mem_list_ \in Seq(Region) /\ free_mem_list_' \in Seq(Region)
    BY <1>1 DEF AllocEffect, IInv, TypeOK
  <2> QED BY <1>1, <2>1, ElementOfSeq DEF AllocEffect
<1>3. /\ m.size # 0 /\ n <= m.size
      /\ \/ t.size = 0 /\ m.size = n
         \/ t.start = m.start + n /\ t.size = m.size - n
      /\ DOMAIN free_mem_list_' = DOMAIN free_mem_list_
      /\ \A j \in DOMAIN free_mem_list_ : j # i => free_mem_list_'[j] = free_mem_list_[j]
  BY <1>1 DEF AllocEffect
<1>4. g \in Region /\ g.start = m.start /\ g.size = n
  BY <1>1, RoundedRegion DEF AllocEffect
<1>5. Taken' = Taken \cup {g}
  BY <1>1 DEF AllocEffect, Taken, Rounded, Region0, ALIGN_UP
<1>6. m \in Region /\ t \in Region /\ End(m) <= VADDR_SIZE /\ VADDR_SIZE \in Nat
  BY <1>2, VirtualAssumption DEF InSpace
<1>7. \A a \in Space : a \in Nat
  BY VirtualAssumption DEF Space, VADDR_START
<1>8. \A k \in DOMAIN free_mem_list_ : k # i => Disjoint(free_mem_list_[k], m)
  BY DEF IInv, ExclusiveOwnership, FreeRegionsDisjoint
<1> HIDE DEF g, m, t
<1>9. \A a \in Nat : /\ Covers(m, a) <=> Covers(g, a) \/ Covers(t, a)
                     /\ ~ (Covers(g, a) /\ Covers(t, a))
  BY <1>3, <1>4, <1>6 DEF Covers, End, Region
<1>10. \A k \in DOMAIN free_mem_list_ : \A a \in Nat :
         k # i /\ Covers(m, a) => ~ Covers(free_mem_list_[k], a)
  BY <1>2, <1>6, <1>8 DEF Disjoint, Covers, End, Region
<1>11. ASSUME NEW a \in Space
       PROVE  (\E k \in DOMAIN free_mem_list_' : Covers(free_mem_list_'[k], a))
              <=> (\E k \in DOMAIN free_mem_list_ : Covers(free_mem_list_[k], a)) /\ ~ Covers(g, a)
  <2>0. a \in Nat
    BY <1>7
  <2>1. ASSUME NEW k \in DOMAIN free_mem_list_, k # i
        PROVE  Covers(free_mem_list_'[k], a) <=> Covers(free_mem_list_[k], a)
    BY <1>3, <2>1
  <2>2. ASSUME NEW k \in DOMAIN free_mem_list_, k # i, Covers(free_mem_list_[k], a)
        PROVE  ~ Covers(g, a)
    BY <1>9, <1>10, <2>0, <2>2
  <2>3. Covers(free_mem_list_'[i], a) <=> Covers(free_mem_list_[i], a) /\ ~ Covers(g, a)
    BY <1>9, <2>0 DEF m, t
  <2> QED BY <1>3, <2>1, <2>2, <2>3
<1>12. FreeAddresses' = FreeAddresses \ {a \in Space : Covers(g, a)}
  BY <1>11 DEF FreeAddresses, Space
<1>13. {a \in Space : Covers(g, a)} \subseteq FreeAddresses
  BY <1>7, <1>9 DEF FreeAddresses, m
<1>14. Abstract!Extent(g.start, g.size) = {a \in Space : Covers(g, a)}
  BY <1>4, ExtentIs
<1>15. g.start + g.size <= VADDR_SIZE /\ g.start \in Nat /\ g.size \in Nat
       /\ g = [start |-> g.start, size |-> g.size]
  BY <1>3, <1>4, <1>6 DEF End, Region
<1>16. Abstract!Grant(g.start, g.size)
  <2>1. g.start + g.size <= VADDR_START + VADDR_SIZE
    BY <1>6, <1>15 DEF VADDR_START
  <2>2. Taken' = Taken \cup {[start |-> g.start, size |-> g.size]}
    BY <1>5, <1>15
  <2> QED BY <1>12, <1>13, <1>14, <2>1, <2>2 DEF Abstract!Grant
<1>17. g.start \in VADDR_START .. (VADDR_START + VADDR_SIZE) /\ g.size \in 0 .. VADDR_SIZE
  BY <1>6, <1>15 DEF VADDR_START
<1> QED BY <1>16, <1>17 DEF Abstract!ASNext

LEMMA FreeReclaims ==
    ASSUME IInv, NEW r \in held, Free(r)
    PROVE  [Abstract!ASNext]_(Abstract!asVars)
<1> DEFINE f == Rounded(r)
<1>1. Release(f) /\ held' = held \ {r} /\ lost' = lost
  BY DEF Free
<1>2. r \in Region /\ f \in Region /\ TypeOK
  BY RoundedRegion DEF IInv, TypeOK
<1>3. f \in Taken
  BY DEF Taken
<1>4. FreeAddresses' = FreeAddresses \cup {a \in Space : Covers(f, a)}
  <2>1. \A a \in Space : a \in Nat
    BY VirtualAssumption DEF Space, VADDR_START
  <2> HIDE DEF f
  <2>2. ASSUME NEW a \in Space
        PROVE  (\E k \in DOMAIN free_mem_list_' : Covers(free_mem_list_'[k], a))
               <=> Covers(f, a) \/ (\E k \in DOMAIN free_mem_list_ : Covers(free_mem_list_[k], a))
    BY <1>1, <1>2, <2>1, ReleaseCovers, ReleaseAddsOnly
  <2> QED BY <2>2 DEF FreeAddresses, Space
<1>5. Abstract!Extent(f.start, f.size) = {a \in Space : Covers(f, a)}
  BY <1>2, ExtentIs
<1>6. held' \cup lost' = (held \cup lost) \ {r}
  BY <1>1 DEF IInv, NullSplit
<1>7. Taken' = {Rounded(s) : s \in (held \cup lost) \ {r}}
  BY <1>6 DEF Taken
<1>8. CASE Taken' = Taken \ {f}
  <2>1. Abstract!Reclaim(f)
    BY <1>3, <1>4, <1>5, <1>8 DEF Abstract!Reclaim
  <2> HIDE DEF f
  <2> QED BY <1>3, <2>1 DEF Abstract!ASNext
<1>9. CASE Taken' # Taken \ {f}
  <2>1. PICK s \in (held \cup lost) \ {r} : Rounded(s) = f
    BY <1>7, <1>9 DEF Taken
  <2>2. Disjoint(f, f)
    BY <2>1 DEF IInv, ExclusiveOwnership
  <2>3. f.size = 0
    <3> HIDE DEF f
    <3> QED BY <1>2, <2>2 DEF Disjoint, End, Region
  <2>4. Taken' = Taken
    BY <1>7, <2>1 DEF Taken
  <2>5. \A a \in Space : ~ Covers(f, a)
    <3> HIDE DEF f
    <3>1. \A a \in Space : a \in Nat
      BY VirtualAssumption DEF Space, VADDR_START
    <3> QED BY <1>2, <2>3, <3>1 DEF Covers, End, Region
  <2>6. FreeAddresses' = FreeAddresses
    BY <1>4, <2>5
  <2> QED BY <2>4, <2>6 DEF Abstract!asVars
<1> QED BY <1>8, <1>9

\* The list of regions, with its merges, splits and empty nodes, does what
\* AddressSpace promises: an extent that is granted was nobody's, and what comes
\* back is what was granted.
THEOREM ImplementsAddressSpace == Spec => AbstractSpec
<1>1. Init => Abstract!ASInit
  <2> SUFFICES ASSUME Init PROVE Abstract!ASInit
    OBVIOUS
  <2>1. DOMAIN free_mem_list_ = {1} /\ free_mem_list_[1] = Region0(0, VADDR_SIZE)
        /\ held = {} /\ lost = {}
    BY DEF Init, VADDR_START
  <2>2. \A a \in Space : Covers(free_mem_list_[1], a)
    BY <2>1, VirtualAssumption DEF Space, VADDR_START, Covers, End, Region0
  <2>3. FreeAddresses = Space /\ Taken = {}
    BY <2>1, <2>2 DEF FreeAddresses, Taken
  <2> QED BY <2>3 DEF Abstract!ASInit, Abstract!Space, Space
<1>2. IInv /\ InSpace /\ [Next]_vars => [Abstract!ASNext]_(Abstract!asVars)
  <2> SUFFICES ASSUME IInv, InSpace, [Next]_vars PROVE [Abstract!ASNext]_(Abstract!asVars)
    OBVIOUS
  <2>1. ASSUME UNCHANGED vars PROVE UNCHANGED Abstract!asVars
    BY <2>1 DEF vars, Abstract!asVars, FreeAddresses, Taken
  <2> QED BY <2>1, AllocGrants, FreeReclaims DEF Next
<1> QED BY <1>1, <1>2, InvariantHolds, InSpaceHolds, PTL DEF Spec, AbstractSpec, Abstract!ASSpec
=============================================================================
