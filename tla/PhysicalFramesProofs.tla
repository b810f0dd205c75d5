------------------------ MODULE PhysicalFramesProofs ------------------------
(***************************************************************************)
(* What holds of the physical memory manager for every frame size, every   *)
(* pool and any amount of kernel memory: the list in memory is the stack   *)
(* of free frames, no frame is lost, invented or held twice, and the       *)
(* manager implements FramePool.                                           *)
(***************************************************************************)
EXTENDS PhysicalFrames, Integers, TLAPS

-----------------------------------------------------------------------------
\* Division, and the frames of a pool.

LEMMA DivBounds ==
    ASSUME NEW a \in Nat
    PROVE  LET q == a \div FRAME_SIZE
           IN  /\ q \in Nat
               /\ q * FRAME_SIZE <= a /\ a < q * FRAME_SIZE + FRAME_SIZE
               /\ a % FRAME_SIZE = a - q * FRAME_SIZE
BY PhysicalAssumption

LEMMA MultipleAligned ==
    ASSUME NEW q \in Nat
    PROVE  (q * FRAME_SIZE) % FRAME_SIZE = 0
BY PhysicalAssumption

LEMMA MultipleOrder ==
    ASSUME NEW p \in Int, NEW q \in Int
    PROVE  /\ p < q => p * FRAME_SIZE + FRAME_SIZE <= q * FRAME_SIZE
           /\ p <= q => p * FRAME_SIZE <= q * FRAME_SIZE
           /\ p * FRAME_SIZE < q * FRAME_SIZE => p < q
           /\ p * FRAME_SIZE <= q * FRAME_SIZE => p <= q
<1> DEFINE F == FRAME_SIZE
<1>0. F \in Nat /\ F >= 1
  BY PhysicalAssumption
<1>1. ASSUME NEW x \in Int, NEW y \in Int, x < y PROVE x * F + F <= y * F
  <2> HIDE DEF F
  <2>1. y * F - x * F = (y - x) * F
    BY <1>0, <1>1
  <2>2. (y - x) * F >= F
    BY <1>0, <1>1
  <2> QED BY <1>0, <1>1, <2>1, <2>2
<1> HIDE DEF F
<1>2. p * F \in Int /\ q * F \in Int
  BY <1>0
<1>3. p < q => p * F + F <= q * F
  BY <1>1
<1>4. q < p => q * F + F <= p * F
  BY <1>1
<1>5. p < q \/ p = q \/ q < p
  OBVIOUS
<1> QED BY <1>0, <1>2, <1>3, <1>4, <1>5 DEF F

\* How many frames setup finds in a pool, as it computes it.
Count(start, len) ==
    IF ALIGN_UP(start) < ALIGN_DOWN(start + len)
      THEN (ALIGN_DOWN(start + len) - ALIGN_UP(start)) \div FRAME_SIZE
    ELSE 0

\* The frames that setup frees one after the other are all frames of the pool.
LEMMA FramesEnumerated ==
    ASSUME NEW start \in Nat, NEW len \in Nat
    PROVE  /\ Count(start, len) \in Nat
           /\ FramesOf(start, len) =
                {ALIGN_UP(start) + (k - 1) * FRAME_SIZE : k \in 1 .. Count(start, len)}
           /\ \A j, k \in 1 .. Count(start, len) :
                j # k => ALIGN_UP(start) + (j - 1) * FRAME_SIZE
                         # ALIGN_UP(start) + (k - 1) * FRAME_SIZE
           /\ ALIGN_UP(start) \in Nat
<1> DEFINE F == FRAME_SIZE
           up == (start + F - 1) \div F
           down == (start + len) \div F
           n == IF up < down THEN down - up ELSE 0
<1>0. F \in Nat /\ F >= 1
  BY PhysicalAssumption
<1>1. /\ up \in Nat /\ up * F <= start + F - 1 /\ start + F - 1 < up * F + F
      /\ down \in Nat /\ down * F <= start + len /\ start + len < down * F + F
  <2>1. start + F - 1 \in Nat /\ start + len \in Nat
    BY <1>0
  <2> QED BY <2>1, DivBounds
<1>2. ALIGN_UP(start) = up * F /\ ALIGN_DOWN(start + len) = down * F
  BY DEF ALIGN_UP, ALIGN_DOWN
<1> HIDE DEF up, down
<1>3. Count(start, len) = n
  <2>1. up * F < down * F <=> up < down
    BY <1>0, <1>1, MultipleOrder
  <2>2. CASE up < down
    <3>1. down * F - up * F = (down - up) * F
      BY <1>0, <1>1
    <3>2. ((down - up) * F) \div F = down - up
      BY <1>0, <1>1, <2>2
    <3> QED BY <1>2, <2>1, <2>2, <3>1, <3>2 DEF Count
  <2>3. CASE ~ (up < down)
    BY <1>2, <2>1, <2>3 DEF Count
  <2> QED BY <2>2, <2>3
<1>4. n \in Nat
  BY <1>1
<1>5. \A k \in Int : up * F + (k - 1) * F = (up + k - 1) * F
  BY <1>0, <1>1
<1>6. ASSUME NEW a \in FramesOf(start, len)
      PROVE  \E k \in 1 .. n : a = up * F + (k - 1) * F
  <2> DEFINE q == a \div F
  <2>0. a \in Nat /\ a >= start /\ a % F = 0 /\ a + F <= start + len
    BY <1>0, <1>6 DEF FramesOf, IS_ALIGNED
  <2>1. q \in Nat /\ a = q * F
    BY <1>0, <2>0, DivBounds
  <2> HIDE DEF q
  <2>2. up <= q
    <3>1. up * F < (q + 1) * F
      <4>1. (q + 1) * F = q * F + F
        BY <1>0, <2>1
      <4> QED BY <1>0, <1>1, <2>0, <2>1, <4>1
    <3> QED BY <1>1, <2>1, <3>1, MultipleOrder
  <2>3. q + 1 <= down
    <3>1. q * F < down * F
      BY <1>0, <1>1, <2>0, <2>1
    <3> QED BY <1>1, <2>1, <3>1, MultipleOrder
  <2>4. q - up + 1 \in 1 .. n /\ up + (q - up + 1) - 1 = q
    BY <1>1, <2>1, <2>2, <2>3
  <2> QED BY <1>5, <2>1, <2>4
<1>7. ASSUME NEW k \in 1 .. n
      PROVE  up * F + (k - 1) * F \in FramesOf(start, len)
  <2> DEFINE q == up + k - 1
  <2>1. q \in Nat /\ up <= q /\ q < down /\ up * F + (k - 1) * F = q * F
    BY <1>1, <1>5
  <2> HIDE DEF q
  <2>2. q * F \in Nat /\ (q * F) % F = 0
    BY <1>0, <2>1, MultipleAligned
  <2>3. up * F <= q * F /\ q * F + F <= down * F
    BY <1>1, <2>1, MultipleOrder
  <2>4. q * F >= start /\ q * F + F <= start + len
    BY <1>0, <1>1, <2>2, <2>3
  <2> QED BY <1>0, <2>1, <2>2, <2>4 DEF FramesOf, IS_ALIGNED
<1>8. ASSUME NEW j \in 1 .. n, NEW k \in 1 .. n, j # k
      PROVE  up * F + (j - 1) * F # up * F + (k - 1) * F
  <2>1. (up + j - 1) * F # (up + k - 1) * F
    BY <1>0, <1>1, <1>8, MultipleOrder
  <2> QED BY <1>5, <2>1
<1>9. up * F \in Nat
  BY <1>0, <1>1
<1> HIDE DEF n
<1>10. FramesOf(start, len) = {up * F + (k - 1) * F : k \in 1 .. n}
  BY <1>6, <1>7
<1> QED BY <1>2, <1>3, <1>4, <1>8, <1>9, <1>10

-----------------------------------------------------------------------------
\* The inductive invariant.

\* The nodes are where placement has been.
Layout ==
    /\ nodes \in Seq(Words)
    /\ placement \in KBASE .. (KBASE + KWORDS)

\* Nothing has happened before setup.
Fresh ==
    physical_end_ = 0 =>
        /\ nodes = <<>> /\ placement = KBASE
        /\ \A f \in AllFrames : owners[f] = 0

Inv == TypeOK /\ Layout /\ ListSound /\ FramesConserved /\ Fresh

LEMMA FrameFacts ==
    /\ \A p \in Pools : p.start \in Nat /\ p.start >= 1 /\ p.len \in Nat
    /\ \A p \in Pools : FramesOf(p.start, p.len) \subseteq AllFrames
    /\ AllFrames \subseteq Nat
<1>1. \A p \in Pools : p.start \in Nat /\ p.start >= 1 /\ p.len \in Nat
  BY PhysicalAssumption
<1>2. \A p \in Pools : FramesOf(p.start, p.len) \subseteq Nat
  BY <1>1 DEF FramesOf
<1> QED BY <1>1, <1>2 DEF AllFrames

LEMMA InvInit == Init => Inv
<1> SUFFICES ASSUME Init PROVE Inv
  OBVIOUS
<1>0. KBASE \in Nat /\ KWORDS \in Nat
  BY PhysicalAssumption
<1>1. TypeOK
  BY <1>0 DEF Init, TypeOK, Null
<1>2. Layout
  BY <1>0 DEF Init, Layout
<1>3. ListSound
  BY DEF Init, ListSound
<1>4. FramesConserved
  BY DEF Init, FramesConserved, NoDoubleGrant
<1>5. Fresh
  BY DEF Init, Fresh
<1> QED BY <1>1, <1>2, <1>3, <1>4, <1>5 DEF Inv

\* Setup writes one node after the other, each pointing at the one before.
LEMMA SetupInv ==
    ASSUME Inv, NEW p \in Pools, Setup(p.start, p.len)
    PROVE  Inv' /\ nodes = <<>> /\ ListFrames' = FramesOf(p.start, p.len)
<1> DEFINE n == Count(p.start, p.len)
           first == ALIGN_UP(p.start)
           frame(k) == first + (k - 1) * FRAME_SIZE
           at(k) == KBASE + (k - 1) * NODE
<1>0. KBASE \in Nat /\ KBASE >= 1 /\ KWORDS \in Nat /\ FRAME_SIZE \in Nat
  BY PhysicalAssumption
<1>1. p.start \in Nat /\ p.start >= 1 /\ p.len \in Nat
  BY FrameFacts
<1>2. /\ n \in Nat /\ first \in Nat
      /\ FramesOf(p.start, p.len) = {frame(k) : k \in 1 .. n}
      /\ \A j, k \in 1 .. n : j # k => frame(j) # frame(k)
  BY <1>1, FramesEnumerated
<1>3. /\ physical_end_ = 0 /\ physical_end_' = p.start + p.len
      /\ placement + n * NODE <= KBASE + KWORDS /\ placement' = placement + n * NODE
      /\ mem' = [w \in Words |->
                   IF w >= KBASE + n * NODE THEN mem[w]
                   ELSE IF (w - KBASE) % NODE = 0 THEN first + ((w - KBASE) \div NODE) * FRAME_SIZE
                   ELSE IF (w - KBASE) \div NODE = 0 THEN Null ELSE w - 1 - NODE]
      /\ free_list_' = (IF n = 0 THEN Null ELSE KBASE + (n - 1) * NODE)
      /\ nodes' = [k \in 1 .. n |-> KBASE + (k - 1) * NODE]
      /\ owners' = owners
  BY DEF Setup, Fits, Count
<1>4. /\ placement = KBASE /\ nodes = <<>> /\ \A f \in AllFrames : owners[f] = 0
      /\ mem \in [Words -> Nat] /\ owners \in [AllFrames -> Nat]
  BY <1>3 DEF Inv, Fresh, TypeOK
<1> HIDE DEF n, first
<1>5. \A k \in 1 .. n : at(k) \in Words /\ at(k) + 1 \in Words /\ at(k) + NODE <= placement'
  <2>1. n \in Nat /\ placement' = KBASE + n * NODE /\ KBASE + n * NODE <= KBASE + KWORDS
    BY <1>2, <1>3, <1>4
  <2> QED BY <1>0, <2>1 DEF Words, NODE
<1>6. /\ nodes' \in Seq(Words) /\ Len(nodes') = n /\ DOMAIN nodes' = 1 .. n
      /\ \A k \in 1 .. n : nodes'[k] = at(k)
  <2>1. \A k \in 1 .. n : KBASE + (k - 1) * NODE \in Words
    BY <1>5
  <2>2. nodes' \in [1 .. n -> Words]
    BY <1>3, <2>1
  <2>3. nodes' \in Seq(Words) /\ Len(nodes') = n
    BY <1>2, <2>2
  <2> QED BY <1>3, <2>2, <2>3
<1>7. ASSUME NEW k \in 1 .. n
      PROVE  /\ mem'[at(k)] = frame(k)
             /\ mem'[at(k) + 1] = IF k = 1 THEN Null ELSE at(k - 1)
  <2> DEFINE v == at(k)
             w == at(k) + 1
  <2>1. /\ (v - KBASE) % NODE = 0 /\ (v - KBASE) \div NODE = k - 1
        /\ ~ (v >= KBASE + n * NODE)
    BY <1>0, <1>2 DEF NODE
  <2>2. /\ (w - KBASE) % NODE # 0 /\ (w - KBASE) \div NODE = k - 1
        /\ ~ (w >= KBASE + n * NODE)
    BY <1>0, <1>2 DEF NODE
  <2>3. w - 1 - NODE = at(k - 1)
    BY <1>0, <1>2 DEF NODE
  <2>4. v \in Words /\ w \in Words
    BY <1>5
  <2>5. ASSUME NEW x \in Words, ~ (x >= KBASE + n * NODE)
        PROVE  mem'[x] = IF (x - KBASE) % NODE = 0
                           THEN first + ((x - KBASE) \div NODE) * FRAME_SIZE
                         ELSE IF (x - KBASE) \div NODE = 0 THEN Null ELSE x - 1 - NODE
    BY <1>3, <2>5
  <2> HIDE DEF v, w
  <2>6. mem'[v] = frame(k)
    BY <2>1, <2>4, <2>5
  <2>7. mem'[w] = IF k - 1 = 0 THEN Null ELSE w - 1 - NODE
    BY <2>2, <2>4, <2>5
  <2>8. mem'[w] = IF k = 1 THEN Null ELSE at(k - 1)
    BY <2>3, <2>7
  <2> QED BY <2>6, <2>8 DEF v, w
<1>8. TypeOK'
  <2>1. mem' \in [Words -> Nat]
    <3>1. ASSUME NEW w \in Words
          PROVE  (IF w >= KBASE + n * NODE THEN mem[w]
                  ELSE IF (w - KBASE) % NODE = 0 THEN first + ((w - KBASE) \div NODE) * FRAME_SIZE
                  ELSE IF (w - KBASE) \div NODE = 0 THEN Null ELSE w - 1 - NODE) \in Nat
      <4>1. (w - KBASE) \div NODE \in Nat
        BY <1>0 DEF Words, NODE
      <4>2. first + ((w - KBASE) \div NODE) * FRAME_SIZE \in Nat
        BY <1>0, <1>2, <4>1
      <4>3. (w - KBASE) \div NODE # 0 => w - 1 - NODE \in Nat
        BY <1>0 DEF Words, NODE
      <4> QED BY <1>4, <4>2, <4>3 DEF Null
    <3> QED BY <1>3, <3>1
  <2>2. free_list_' \in Words \cup {Null}
    <3>1. n # 0 => n \in 1 .. n /\ at(n) \in Words
      BY <1>2, <1>5
    <3> QED BY <1>2, <1>3, <3>1
  <2> QED BY <1>0, <1>1, <1>2, <1>3, <1>4, <2>1, <2>2 DEF TypeOK, NODE
<1>9. Layout'
  BY <1>0, <1>2, <1>3, <1>4, <1>6 DEF Layout, NODE
<1>10. ListSound'
  <2>1. free_list_' = IF nodes' = <<>> THEN Null ELSE nodes'[Len(nodes')]
    <3>1. nodes' = <<>> <=> n = 0
      BY <1>2, <1>6
    <3>2. n # 0 => nodes'[n] = at(n)
      BY <1>2, <1>6
    <3>3. free_list_' = IF n = 0 THEN Null ELSE at(n)
      BY <1>3
    <3> HIDE DEF at
    <3> QED BY <1>6, <3>1, <3>2, <3>3
  <2>2. ASSUME NEW k \in 1 .. n
        PROVE  /\ nodes'[k] + NODE <= placement'
               /\ mem'[nodes'[k] + 1] = IF k = 1 THEN Null ELSE nodes'[k - 1]
               /\ k > 1 => nodes'[k - 1] + NODE <= nodes'[k]
    <3>1. k > 1 => k - 1 \in 1 .. n /\ nodes'[k - 1] = at(k - 1)
      BY <1>2, <1>6
    <3>2. at(k - 1) + NODE <= at(k)
      BY <1>0, <1>2 DEF NODE
    <3>3. nodes'[k] = at(k)
      BY <1>6
    <3> HIDE DEF at
    <3> QED BY <1>2, <1>5, <1>7, <3>1, <3>2, <3>3
  <2> QED BY <1>6, <2>1, <2>2 DEF ListSound
<1>11. ListFrames' = {frame(k) : k \in 1 .. n}
  <2>1. \A k \in 1 .. n : mem'[nodes'[k]] = frame(k)
    BY <1>6, <1>7
  <2> HIDE DEF frame
  <2> QED BY <1>6, <2>1 DEF ListFrames
<1>12. FramesConserved'
  <2>1. NoDoubleGrant'
    BY <1>3, <1>4 DEF NoDoubleGrant
  <2>2. \A j, k \in DOMAIN nodes' : j # k => mem'[nodes'[j]] # mem'[nodes'[k]]
    <3>1. \A j, k \in 1 .. n : j # k => frame(j) # frame(k)
      BY <1>2
    <3>2. \A k \in 1 .. n : mem'[nodes'[k]] = frame(k)
      BY <1>6, <1>7
    <3> HIDE DEF frame
    <3> QED BY <1>6, <3>1, <3>2
  <2>3. {f \in AllFrames : owners'[f] > 0} = {}
    BY <1>3, <1>4
  <2>4. \A f \in ListFrames' : owners'[f] = 0
    BY <1>2, <1>3, <1>4, <1>11, FrameFacts
  <2>5. FramesOf(p.start, p.len) = ListFrames' \cup {f \in AllFrames : owners'[f] > 0}
    BY <1>2, <1>11, <2>3
  <2> QED BY <1>3, <2>1, <2>2, <2>4, <2>5 DEF FramesConserved
<1>13. Fresh'
  BY <1>1, <1>3 DEF Fresh
<1> QED BY <1>2, <1>4, <1>8, <1>9, <1>10, <1>11, <1>12, <1>13 DEF Inv

\* The frames that somebody holds.
Held == {f \in AllFrames : owners[f] > 0}

\* Alloc takes the top node's frame off the list, and its holder is its first.
LEMMA AllocInv ==
    ASSUME Inv, Alloc
    PROVE  /\ Inv' /\ Top \in ListFrames /\ Top \in AllFrames
           /\ ListFrames' = ListFrames \ {Top} /\ Held' = Held \cup {Top}
<1> DEFINE n == Len(nodes)
<1>0. /\ KBASE \in Nat /\ KBASE >= 1 /\ KWORDS \in Nat
      /\ nodes \in Seq(Words) /\ n \in Nat /\ DOMAIN nodes = 1 .. n
      /\ \A k \in 1 .. n : nodes[k] \in Words
      /\ mem \in [Words -> Nat] /\ owners \in [AllFrames -> Nat]
  BY PhysicalAssumption DEF Inv, Layout, TypeOK
<1>1. /\ free_list_ # Null /\ Top \in AllFrames /\ free_list_' = mem[free_list_ + 1]
      /\ owners' = [owners EXCEPT ![Top] = @ + 1]
      /\ nodes' = SubSeq(nodes, 1, n - 1) /\ UNCHANGED <<physical_end_, mem, placement>>
  BY <1>0 DEF Alloc, Previous, Pop
<1>2. n \in 1 .. n /\ free_list_ = nodes[n]
  BY <1>0, <1>1 DEF Inv, ListSound
<1>3. Top = mem[nodes[n]] /\ Top \in ListFrames
  BY <1>0, <1>2 DEF Top, ListFrames
<1> HIDE DEF n
<1>4. /\ nodes' \in Seq(Words) /\ Len(nodes') = n - 1 /\ DOMAIN nodes' = 1 .. (n - 1)
      /\ \A k \in 1 .. (n - 1) : nodes'[k] = nodes[k]
  BY <1>0, <1>1, <1>2 DEF n
<1>5. /\ physical_end_ # 0 /\ owners[Top] = 0
      /\ \A j, k \in 1 .. n : j # k => mem[nodes[j]] # mem[nodes[k]]
  <2>1. physical_end_ # 0
    BY <1>0, <1>2 DEF Inv, Fresh, n
  <2>2. /\ \A f \in ListFrames : owners[f] = 0
        /\ \A j, k \in DOMAIN nodes : j # k => mem[nodes[j]] # mem[nodes[k]]
    BY <2>1 DEF Inv, FramesConserved
  <2> QED BY <1>0, <1>3, <2>1, <2>2
<1>6. ListFrames' = ListFrames \ {Top}
  <2>1. ListFrames' = {mem[nodes[k]] : k \in 1 .. (n - 1)}
    BY <1>1, <1>4 DEF ListFrames
  <2>2. ListFrames = {mem[nodes[k]] : k \in 1 .. n}
    BY <1>0 DEF ListFrames
  <2>3. \A k \in 1 .. (n - 1) : k \in 1 .. n /\ mem[nodes[k]] # Top
    BY <1>0, <1>2, <1>3, <1>5
  <2>4. \A k \in 1 .. n : mem[nodes[k]] # Top => k \in 1 .. (n - 1)
    BY <1>0, <1>2, <1>3
  <2> QED BY <2>1, <2>2, <2>3, <2>4
<1>7. /\ owners' \in [AllFrames -> Nat] /\ owners'[Top] = 1
      /\ \A f \in AllFrames : f # Top => owners'[f] = owners[f]
  BY <1>0, <1>1, <1>5
<1>8. Held' = Held \cup {Top}
  BY <1>0, <1>1, <1>7 DEF Held
<1>9. ListSound'
  <2>1. \A k \in 1 .. (n - 1) :
          /\ nodes'[k] + NODE <= placement'
          /\ mem'[nodes'[k] + 1] = IF k = 1 THEN Null ELSE nodes'[k - 1]
          /\ k > 1 => nodes'[k - 1] + NODE <= nodes'[k]
    <3> SUFFICES ASSUME NEW k \in 1 .. (n - 1)
                 PROVE  /\ nodes'[k] + NODE <= placement'
                        /\ mem'[nodes'[k] + 1] = IF k = 1 THEN Null ELSE nodes'[k - 1]
                        /\ k > 1 => nodes'[k - 1] + NODE <= nodes'[k]
      OBVIOUS
    <3>1. k \in 1 .. n /\ nodes'[k] = nodes[k] /\ (k > 1 => nodes'[k - 1] = nodes[k - 1])
      BY <1>0, <1>4
    <3>2. /\ nodes[k] + NODE <= placement
          /\ mem[nodes[k] + 1] = IF k = 1 THEN Null ELSE nodes[k - 1]
          /\ k > 1 => nodes[k - 1] + NODE <= nodes[k]
      BY <1>0, <3>1 DEF Inv, ListSound
    <3>3. k = 1 \/ k > 1
      BY <1>0
    <3>4. mem' = mem /\ placement' = placement
      BY <1>1
    <3> QED BY <3>1, <3>2, <3>3, <3>4
  <2>2. free_list_' = IF n = 1 THEN Null ELSE nodes[n - 1]
    BY <1>0, <1>1, <1>2 DEF Inv, ListSound
  <2>3. free_list_' = IF nodes' = <<>> THEN Null ELSE nodes'[Len(nodes')]
    <3>1. CASE n = 1
      BY <1>4, <2>2, <3>1
    <3>2. CASE n > 1
      <4>1. n - 1 \in 1 .. (n - 1) /\ nodes' # <<>>
        BY <1>0, <1>4, <3>2
      <4> QED BY <1>4, <2>2, <3>2, <4>1
    <3> QED BY <1>0, <1>2, <3>1, <3>2
  <2> QED BY <1>4, <2>1, <2>3 DEF ListSound
<1>10. TypeOK'
  <2>1. free_list_' \in Words \cup {Null}
    BY <1>4, <1>9 DEF ListSound
  <2> QED BY <1>1, <1>7, <2>1 DEF Inv, TypeOK
<1>11. Layout'
  BY <1>1, <1>4 DEF Inv, Layout
<1>12. FramesConserved'
  <2>1. NoDoubleGrant'
    BY <1>0, <1>7 DEF Inv, FramesConserved, NoDoubleGrant
  <2>2. \A j, k \in DOMAIN nodes' : j # k => mem'[nodes'[j]] # mem'[nodes'[k]]
    BY <1>0, <1>1, <1>4, <1>5
  <2>3. ListFrames' \cup Held' = ListFrames \cup Held
    BY <1>3, <1>6, <1>8
  <2>4. \A f \in ListFrames' : owners'[f] = 0
    <3>1. \A f \in ListFrames : owners[f] = 0 /\ f \in AllFrames
      BY <1>5, FrameFacts DEF Inv, FramesConserved
    <3> QED BY <1>6, <1>7, <3>1
  <2> QED BY <1>1, <1>5, <2>1, <2>2, <2>3, <2>4 DEF Inv, FramesConserved, Held
<1>13. Fresh'
  BY <1>1, <1>5 DEF Fresh
<1> QED BY <1>1, <1>3, <1>6, <1>8, <1>9, <1>10, <1>11, <1>12, <1>13 DEF Inv

\* Free writes its node above every node of the list.
LEMMA FreeInv ==
    ASSUME Inv, NEW addr \in Addresses, Free(addr), ~ Rejected(addr)
    PROVE  /\ Inv' /\ addr \in AllFrames /\ addr \in Held
           /\ ListFrames' = ListFrames \cup {addr} /\ Held' = Held \ {addr}
<1> DEFINE n == Len(nodes)
<1>0. /\ KBASE \in Nat /\ KBASE >= 1 /\ KWORDS \in Nat
      /\ nodes \in Seq(Words) /\ n \in Nat /\ DOMAIN nodes = 1 .. n
      /\ \A k \in 1 .. n : nodes[k] \in Words
      /\ mem \in [Words -> Nat] /\ owners \in [AllFrames -> Nat]
      /\ placement \in KBASE .. (KBASE + KWORDS) /\ physical_end_ \in Nat
      /\ free_list_ \in Words \cup {Null}
  BY PhysicalAssumption DEF Inv, Layout, TypeOK
<1>1. /\ addr \in AllFrames /\ owners[addr] > 0 /\ placement + NODE <= KBASE + KWORDS
      /\ mem' = [mem EXCEPT ![placement] = addr, ![placement + 1] = free_list_]
      /\ free_list_' = placement /\ placement' = placement + NODE
      /\ nodes' = Append(nodes, placement)
      /\ owners' = [owners EXCEPT ![addr] = @ - 1] /\ UNCHANGED physical_end_
  BY <1>0 DEF Free, Push, Fits
<1>2. addr \in Nat /\ owners[addr] = 1 /\ physical_end_ # 0
  <2>1. addr \in Nat
    BY <1>1, FrameFacts
  <2>2. owners[addr] <= 1
    BY <1>0, <1>1 DEF Inv, FramesConserved, NoDoubleGrant
  <2>3. physical_end_ # 0
    BY <1>0, <2>1 DEF Rejected
  <2> QED BY <1>0, <1>1, <2>1, <2>2, <2>3
<1>3. placement \in Words /\ placement + 1 \in Words
  BY <1>0, <1>1 DEF Words, NODE
<1> HIDE DEF n
<1>4. /\ mem' \in [Words -> Nat] /\ mem'[placement] = addr /\ mem'[placement + 1] = free_list_
      /\ \A w \in Words : w < placement => mem'[w] = mem[w]
  <2>1. free_list_ \in Nat /\ placement \in Nat /\ placement # placement + 1 /\ Words \subseteq Nat
    BY <1>0 DEF Words, Null
  <2>2. mem' \in [Words -> Nat]
    BY <1>0, <1>1, <1>2, <1>3, <2>1
  <2>3. mem'[placement] = addr /\ mem'[placement + 1] = free_list_
    BY <1>0, <1>1, <1>3, <2>1
  <2>4. ASSUME NEW w \in Words, w < placement PROVE mem'[w] = mem[w]
    <3>1. w # placement /\ w # placement + 1
      BY <2>1, <2>4
    <3> QED BY <1>0, <1>1, <3>1
  <2> QED BY <2>2, <2>3, <2>4
<1>5. /\ nodes' \in Seq(Words) /\ Len(nodes') = n + 1 /\ DOMAIN nodes' = 1 .. (n + 1)
      /\ nodes'[n + 1] = placement /\ \A k \in 1 .. n : nodes'[k] = nodes[k]
  BY <1>0, <1>1, <1>3 DEF n
<1>6. \A k \in 1 .. n :
        /\ nodes[k] + NODE <= placement /\ nodes[k] \in Nat /\ nodes[k] + 1 \in Words
        /\ mem'[nodes[k]] = mem[nodes[k]] /\ mem'[nodes[k] + 1] = mem[nodes[k] + 1]
        /\ mem[nodes[k] + 1] = IF k = 1 THEN Null ELSE nodes[k - 1]
        /\ k > 1 => nodes[k - 1] + NODE <= nodes[k]
  <2> SUFFICES ASSUME NEW k \in 1 .. n
               PROVE  /\ nodes[k] + NODE <= placement /\ nodes[k] \in Nat /\ nodes[k] + 1 \in Words
                      /\ mem'[nodes[k]] = mem[nodes[k]] /\ mem'[nodes[k] + 1] = mem[nodes[k] + 1]
                      /\ mem[nodes[k] + 1] = IF k = 1 THEN Null ELSE nodes[k - 1]
                      /\ k > 1 => nodes[k - 1] + NODE <= nodes[k]
    OBVIOUS
  <2>1. /\ nodes[k] + NODE <= placement
        /\ mem[nodes[k] + 1] = IF k = 1 THEN Null ELSE nodes[k - 1]
        /\ k > 1 => nodes[k - 1] + NODE <= nodes[k]
    BY <1>0 DEF Inv, ListSound
  <2>2. nodes[k] \in Words /\ nodes[k] \in Nat
    BY <1>0 DEF Words
  <2>3. nodes[k] + 1 \in Words /\ nodes[k] < placement /\ nodes[k] + 1 < placement
    <3> DEFINE a == nodes[k]
    <3>1. a \in KBASE .. (KBASE + KWORDS - 1) /\ a + 2 <= placement
      BY <2>1, <2>2 DEF Words, NODE
    <3>2. placement \in Nat /\ placement <= KBASE + KWORDS /\ KBASE \in Nat /\ KWORDS \in Nat
      BY <1>0
    <3> HIDE DEF a
    <3>3. a + 1 \in KBASE .. (KBASE + KWORDS - 1) /\ a < placement /\ a + 1 < placement
      BY <3>1, <3>2
    <3> QED BY <3>3 DEF a, Words
  <2> QED BY <1>4, <2>1, <2>2, <2>3
<1>7. ListFrames' = ListFrames \cup {addr}
  <2>1. ListFrames' = {mem'[nodes'[k]] : k \in 1 .. (n + 1)}
    BY <1>5 DEF ListFrames
  <2>2. ListFrames = {mem[nodes[k]] : k \in 1 .. n}
    BY <1>0 DEF ListFrames
  <2>3. \A k \in 1 .. n : k \in 1 .. (n + 1) /\ mem'[nodes'[k]] = mem[nodes[k]]
    <3>1. \A k \in 1 .. n : k \in 1 .. (n + 1)
      BY <1>0
    <3>2. \A k \in 1 .. n : nodes'[k] = nodes[k]
      BY <1>5
    <3>3. \A k \in 1 .. n : mem'[nodes[k]] = mem[nodes[k]]
      BY <1>6
    <3> QED BY <3>1, <3>2, <3>3
  <2>4. n + 1 \in 1 .. (n + 1) /\ mem'[nodes'[n + 1]] = addr
    BY <1>0, <1>4, <1>5
  <2>5. \A k \in 1 .. (n + 1) : k \in 1 .. n \/ k = n + 1
    BY <1>0
  <2> QED BY <2>1, <2>2, <2>3, <2>4, <2>5
<1>8. /\ owners' \in [AllFrames -> Nat] /\ owners'[addr] = 0
      /\ \A f \in AllFrames : f # addr => owners'[f] = owners[f]
  BY <1>0, <1>1, <1>2
<1>9. addr \in Held /\ Held' = Held \ {addr}
  BY <1>0, <1>1, <1>8 DEF Held
<1>10. ListSound'
  <2>1. ASSUME NEW k \in 1 .. (n + 1)
        PROVE  /\ nodes'[k] + NODE <= placement'
               /\ mem'[nodes'[k] + 1] = IF k = 1 THEN Null ELSE nodes'[k - 1]
               /\ k > 1 => nodes'[k - 1] + NODE <= nodes'[k]
    <3>1. CASE k \in 1 .. n
      <4>1. nodes'[k] = nodes[k] /\ (k > 1 => nodes'[k - 1] = nodes[k - 1])
        BY <1>0, <1>5, <3>1
      <4>2. nodes[k] + NODE <= placement'
        BY <1>0, <1>1, <1>6, <3>1 DEF NODE
      <4>3. /\ mem'[nodes[k] + 1] = IF k = 1 THEN Null ELSE nodes[k - 1]
            /\ k > 1 => nodes[k - 1] + NODE <= nodes[k]
        BY <1>6, <3>1
      <4> QED BY <4>1, <4>2, <4>3
    <3>2. CASE k = n + 1
      <4>1. free_list_ = IF n = 0 THEN Null ELSE nodes[n]
        BY <1>0 DEF Inv, ListSound, n
      <4>2. k > 1 => nodes'[k - 1] = nodes[n] /\ nodes[n] + NODE <= placement
        BY <1>0, <1>5, <1>6, <3>2
      <4>3. nodes'[k] = placement /\ placement + NODE <= placement'
        BY <1>0, <1>1, <1>5, <3>2 DEF NODE
      <4> QED BY <1>0, <1>4, <3>2, <4>1, <4>2, <4>3
    <3> QED BY <1>0, <3>1, <3>2
  <2>2. free_list_' = IF nodes' = <<>> THEN Null ELSE nodes'[Len(nodes')]
    <3>1. Len(nodes') = n + 1 /\ n + 1 # 0 /\ nodes'[n + 1] = placement /\ free_list_' = placement
      BY <1>0, <1>1, <1>5
    <3>2. nodes' # <<>>
      <4>1. Len(<<>>) = 0
        OBVIOUS
      <4> QED BY <3>1, <4>1
    <3> QED BY <3>1, <3>2
  <2> QED BY <1>5, <2>1, <2>2 DEF ListSound
<1>11. TypeOK' /\ Layout'
  BY <1>0, <1>1, <1>3, <1>4, <1>5, <1>8 DEF TypeOK, Layout, NODE
<1>12. FramesConserved'
  <2>1. NoDoubleGrant'
    <3>1. DOMAIN owners = AllFrames /\ DOMAIN owners' = AllFrames
      BY <1>0, <1>8
    <3>2. \A f \in AllFrames : owners[f] <= 1
      BY <3>1 DEF Inv, FramesConserved, NoDoubleGrant
    <3>3. \A f \in AllFrames : owners'[f] <= 1
      BY <1>8, <3>2
    <3> QED BY <3>1, <3>3 DEF NoDoubleGrant
  <2>2. \A f \in ListFrames : owners[f] = 0 /\ f \in AllFrames
    BY <1>2, FrameFacts DEF Inv, FramesConserved
  <2>3. \A j, k \in DOMAIN nodes' : j # k => mem'[nodes'[j]] # mem'[nodes'[k]]
    <3>1. \A k \in 1 .. n : mem'[nodes'[k]] = mem[nodes[k]] /\ mem[nodes[k]] \in ListFrames
      BY <1>0, <1>5, <1>6 DEF ListFrames
    <3>2. \A j, k \in 1 .. n : j # k => mem[nodes[j]] # mem[nodes[k]]
      BY <1>0, <1>2 DEF Inv, FramesConserved
    <3>3. mem'[nodes'[n + 1]] = addr /\ addr \notin ListFrames
      BY <1>1, <1>4, <1>5, <1>2, <2>2
    <3>4. \A k \in 1 .. (n + 1) : k \in 1 .. n \/ k = n + 1
      BY <1>0
    <3> QED BY <1>5, <3>1, <3>2, <3>3, <3>4
  <2>4. ListFrames' \cup Held' = ListFrames \cup Held
    BY <1>7, <1>9
  <2>5. \A f \in ListFrames' : owners'[f] = 0
    BY <1>7, <1>8, <2>2
  <2> QED BY <1>1, <1>2, <2>1, <2>3, <2>4, <2>5 DEF Inv, FramesConserved, Held
<1>13. Fresh'
  BY <1>1, <1>2 DEF Fresh
<1> QED BY <1>1, <1>7, <1>9, <1>10, <1>11, <1>12, <1>13 DEF Inv

LEMMA InvStep ==
    ASSUME Inv, [Next]_vars
    PROVE  Inv'
<1>1. ASSUME UNCHANGED vars PROVE Inv'
  BY <1>1 DEF vars, Inv, TypeOK, Layout, ListSound, FramesConserved, NoDoubleGrant, ListFrames,
     Fresh
<1>2. ASSUME NEW addr \in Addresses, Free(addr) PROVE Inv'
  BY <1>1, <1>2, FreeInv DEF Free
<1> QED BY <1>1, <1>2, SetupInv, AllocInv DEF Next

LEMMA InvAlways == Spec => []Inv
BY InvInit, InvStep, PTL DEF Spec

\* Types; the top of the list is null or a word of kernel memory.
THEOREM TypeCorrect == Spec => []TypeOK
<1>1. Inv => TypeOK
  BY DEF Inv
<1> QED BY <1>1, InvAlways, PTL

\* However often frames are allocated and freed, the list that the kernel reads
\* in memory is the stack of the nodes it pushed, and no push overwrites one.
THEOREM ListAlwaysSound == Spec => []ListSound
<1>1. Inv => ListSound
  BY DEF Inv
<1> QED BY <1>1, InvAlways, PTL

\* No sequence of calls loses, invents or repeats a frame of the pool, for every
\* pool, aligned or not.
THEOREM FramesAlwaysConserved == Spec => []FramesConserved
<1>1. Inv => FramesConserved
  BY DEF Inv
<1> QED BY <1>1, InvAlways, PTL

-----------------------------------------------------------------------------
\* The refinement: setup manages the frames of its pool, alloc takes the top one,
\* free gives its frame back, and a call that is rejected does nothing.

LEMMA PoolInit == Init => Pool!FPInit
<1> SUFFICES ASSUME Init PROVE Pool!FPInit
  OBVIOUS
<1>1. ListFrames = {}
  BY DEF Init, ListFrames
<1>2. {f \in AllFrames : owners[f] > 0} = {}
  BY DEF Init
<1> QED BY <1>1, <1>2 DEF Pool!FPInit

LEMMA PoolStep ==
    ASSUME Inv, [Next]_vars
    PROVE  [Pool!FPNext]_(Pool!fpVars)
<1>1. ASSUME NEW p \in Pools, Setup(p.start, p.len) PROVE Pool!FPNext
  <2> DEFINE S == FramesOf(p.start, p.len)
  <2>1. nodes = <<>> /\ ListFrames' = S
    BY <1>1, SetupInv
  <2>2. ListFrames = {}
    BY <2>1 DEF ListFrames
  <2>3. Held = {} /\ owners' = owners
    BY <1>1 DEF Setup, Inv, Fresh, Held
  <2>4. S \in SUBSET AllFrames
    BY FrameFacts
  <2>5. Pool!Manage(S)
    BY <2>1, <2>2, <2>3 DEF Pool!Manage, Held
  <2> HIDE DEF S
  <2> QED BY <2>4, <2>5 DEF Pool!FPNext
<1>2. ASSUME Alloc PROVE Pool!FPNext
  <2>1. /\ Top \in AllFrames /\ Top \in ListFrames
        /\ ListFrames' = ListFrames \ {Top} /\ Held' = Held \cup {Top}
    BY <1>2, AllocInv
  <2>2. PICK f \in AllFrames : f = Top
    BY <2>1
  <2>3. Pool!Take(f)
    BY <2>1, <2>2 DEF Pool!Take, Held
  <2> QED BY <2>3 DEF Pool!FPNext
<1>3. ASSUME NEW addr \in Addresses, Free(addr), ~ Rejected(addr) PROVE Pool!FPNext
  <2>1. Pool!Give(addr)
    BY <1>3, FreeInv DEF Pool!Give, Held
  <2> QED BY <1>3, <2>1, FreeInv DEF Pool!FPNext
<1>4. ASSUME UNCHANGED vars PROVE UNCHANGED Pool!fpVars
  BY <1>4 DEF vars, Pool!fpVars, ListFrames
<1>5. ASSUME NEW addr \in Addresses, Free(addr), Rejected(addr) PROVE UNCHANGED vars
  BY <1>5 DEF Free
<1> QED BY <1>1, <1>2, <1>3, <1>4, <1>5 DEF Next

\* The stack of nodes in kernel memory does what FramePool promises: a frame that
\* is handed out was free, and one that comes back was held.
THEOREM ImplementsPool == Spec => PoolSpec
<1>1. Inv /\ [Next]_vars => [Pool!FPNext]_(Pool!fpVars)
  BY PoolStep
<1> QED BY <1>1, PoolInit, InvAlways, PTL DEF Spec, PoolSpec, Pool!FPSpec
=============================================================================
