------------------------------ MODULE BootProofs ------------------------------
(***************************************************************************)
(* The two things kmain does on its own while the kernel boots, whatever   *)
(* it finds on the machine: it brings memory up and it scans the PCI buses.*)
(*                                                                         *)
(* Bringing memory up, for every memory map the boot loader can pass, of   *)
(* any length and in any order, and for every frame size: the pool is the  *)
(* largest piece of RAM above the kernel, and the objects that the kernel  *)
(* places share no byte, but for what the architecture object spills over  *)
(* its reservation.                                                        *)
(*                                                                         *)
(* The scan, for every number of slots and functions and whatever the      *)
(* configuration space answers.  The three nested loops visit the places   *)
(* bus:slot:function in lexicographic order, so the invariant says that    *)
(* what has been found is what is there before the place the loops have    *)
(* come to.                                                                *)
(***************************************************************************)
EXTENDS BootMemory, PciScan, TLAPS

MapEntry == [addr : Nat, len : Nat, available : BOOLEAN]

InfoOK ==
    /\ info.kind \in {"mmap", "basic", "none"}
    /\ info.entries \in Seq(MapEntry)
    /\ info.upper \in Nat

-----------------------------------------------------------------------------
\* Numbers.

LEMMA AlignUpAbove ==
    ASSUME NEW a \in Nat
    PROVE  ALIGN_UP(a) \in Nat /\ ALIGN_UP(a) >= a
<1> DEFINE F == FRAME_SIZE
           x == a + F - 1
           q == x \div F
<1>0. F \in Nat /\ F >= 1
  BY BootAssumption
<1>1. x \in Nat
  BY <1>0
<1>2. q \in Nat /\ x < q * F + F
  <2> HIDE DEF x
  <2> QED BY <1>0, <1>1
<1> HIDE DEF q
<1>3. q * F \in Nat
  BY <1>0, <1>2
<1> QED BY <1>0, <1>2, <1>3 DEF ALIGN_UP, ALIGN_DOWN, q

LEMMA AlignDownNat ==
    ASSUME NEW a \in Nat
    PROVE  ALIGN_DOWN(a) \in Nat
<1> DEFINE F == FRAME_SIZE
           q == a \div F
<1>0. F \in Nat /\ F >= 1
  BY BootAssumption
<1>1. q \in Nat
  BY <1>0
<1> HIDE DEF q
<1> QED BY <1>0, <1>1 DEF ALIGN_DOWN, q

\* Rounding up keeps the order of addresses.
LEMMA AlignUpMonotone ==
    ASSUME NEW a \in Nat, NEW b \in Nat, a <= b
    PROVE  ALIGN_UP(a) <= ALIGN_UP(b)
<1> DEFINE F == FRAME_SIZE
           x == a + F - 1
           y == b + F - 1
           p == x \div F
           q == y \div F
<1>0. F \in Nat /\ F >= 1
  BY BootAssumption
<1>1. x \in Nat /\ y \in Nat /\ x <= y
  BY <1>0
<1>2. p \in Nat /\ q \in Nat /\ p * F <= x /\ y < q * F + F
  <2> HIDE DEF x, y
  <2> QED BY <1>0, <1>1
<1> HIDE DEF p, q, x, y
<1>3. p <= q
  <2> SUFFICES ASSUME q + 1 <= p PROVE FALSE
    BY <1>2
  <2>1. (q + 1) * F <= p * F
    BY <1>0, <1>2
  <2>2. (q + 1) * F = q * F + F /\ q * F \in Nat /\ p * F \in Nat
    BY <1>0, <1>2
  <2> QED BY <1>0, <1>1, <1>2, <2>1, <2>2
<1>4. p * F <= q * F
  BY <1>0, <1>2, <1>3
<1> QED BY <1>4 DEF ALIGN_UP, ALIGN_DOWN, p, q, x, y

LEMMA ExtentFacts ==
    ASSUME NEW s \in Nat, NEW z \in Nat
    PROVE  /\ Extent(s, z) \in ExtentType
           /\ Extent(s, z).start = s /\ Extent(s, z).size = z
           /\ EndOf(Extent(s, z)) = s + z
BY DEF Extent, ExtentType, EndOf

LEMMA FramesNat ==
    ASSUME NEW e \in ExtentType
    PROVE  Frames(e) \in Nat
<1> DEFINE from == (e.start + FRAME_SIZE - 1) % WORD
           to == EndOf(e) % WORD
           lo == ALIGN_DOWN(from)
           hi == ALIGN_DOWN(to)
<1>0. from \in Nat /\ to \in Nat
  <2>1. e.start + FRAME_SIZE - 1 \in Nat /\ EndOf(e) \in Nat
    BY BootAssumption DEF ExtentType, EndOf
  <2>2. WORD \in Nat /\ WORD > 0
    BY BootAssumption
  <2> QED BY <2>1, <2>2
<1> HIDE DEF from, to
<1>1. lo \in Nat /\ hi \in Nat
  BY <1>0, AlignDownNat
<1>2. FRAME_SIZE \in Nat /\ FRAME_SIZE >= 1
  BY BootAssumption
<1> HIDE DEF lo, hi
<1>3. lo < hi => (hi - lo) \div FRAME_SIZE \in Nat
  BY <1>1, <1>2
<1> QED BY <1>3 DEF Frames, lo, hi, from, to

\* The upper memory past KERNEL_TOP; within range, nothing wraps.
LEMMA BasicInfoSize ==
    ASSUME InfoOK
    PROVE  /\ BasicInfo \in ExtentType /\ BasicInfo.start = KERNEL_TOP
           /\ KERNEL_TOP - UPPER_START <= info.upper /\ info.upper < WORD32
              => BasicInfo.size = info.upper - (KERNEL_TOP - UPPER_START)
<1> DEFINE d == KERNEL_TOP - UPPER_START
           u == info.upper % WORD32
           z == (u + WORD - d) % WORD
<1>1. /\ KERNEL_TOP \in Nat /\ WORD \in Nat /\ WORD >= 1 /\ WORD32 \in Nat /\ WORD32 >= 1
      /\ WORD32 <= WORD /\ d \in Nat /\ d <= WORD /\ info.upper \in Nat
  BY BootAssumption DEF InfoOK
<1> HIDE DEF d
<1>2. u \in Nat /\ u < WORD32 /\ (info.upper < WORD32 => u = info.upper)
  BY <1>1
<1> HIDE DEF u
<1>3. z \in Nat
  BY <1>1, <1>2
<1>4. d <= u => z = u - d
  <2> SUFFICES ASSUME d <= u PROVE z = u - d
    OBVIOUS
  <2>1. u - d \in Nat /\ u - d < WORD /\ u + WORD - d = (u - d) + WORD
    BY <1>1, <1>2
  <2> QED BY <1>1, <2>1
<1> HIDE DEF z
<1>5. BasicInfo = Extent(KERNEL_TOP, z)
  BY DEF BasicInfo, UpperMemory, z, u, d
<1>6. BasicInfo \in ExtentType /\ BasicInfo.start = KERNEL_TOP /\ BasicInfo.size = z
  BY <1>1, <1>3, <1>5, ExtentFacts
<1>7. d <= info.upper /\ info.upper < WORD32 => z = info.upper - d
  BY <1>2, <1>4
<1> QED BY <1>6, <1>7 DEF d

LEMMA UsableExtent ==
    ASSUME NEW e \in MapEntry
    PROVE  /\ Usable(e) \in ExtentType
           /\ Usable(e).size > 0 =>
                /\ e.available /\ Usable(e).start >= KERNEL_TOP /\ e.addr <= Usable(e).start
                /\ EndOf(Usable(e)) = e.addr + e.len
           /\ e.available =>
                e.addr + e.len <= (IF e.addr > KERNEL_TOP THEN e.addr ELSE KERNEL_TOP)
                                  + Usable(e).size
<1>0. e.addr \in Nat /\ e.len \in Nat /\ e.available \in BOOLEAN /\ KERNEL_TOP \in Nat
  BY BootAssumption DEF MapEntry
<1> DEFINE U == Usable(e)
<1>1. CASE ~ e.available \/ e.addr + e.len <= KERNEL_TOP
  <2>1. U = Extent(0, 0)
    BY <1>1 DEF Usable, None, Null
  <2>2. U \in ExtentType /\ U.start = 0 /\ U.size = 0
    BY <2>1, ExtentFacts
  <2> HIDE DEF U
  <2> QED BY <1>0, <1>1, <2>2 DEF U
<1>2. CASE e.available /\ e.addr + e.len > KERNEL_TOP /\ e.addr < KERNEL_TOP
  <2>1. U = Extent(KERNEL_TOP, e.addr + e.len - KERNEL_TOP)
    BY <1>0, <1>2 DEF Usable
  <2>2. e.addr + e.len - KERNEL_TOP \in Nat
    BY <1>0, <1>2
  <2> HIDE DEF U
  <2>3. /\ U \in ExtentType /\ U.start = KERNEL_TOP /\ U.size = e.addr + e.len - KERNEL_TOP
        /\ EndOf(U) = KERNEL_TOP + (e.addr + e.len - KERNEL_TOP)
    BY <1>0, <2>1, <2>2, ExtentFacts
  <2> QED BY <1>0, <1>2, <2>3 DEF U
<1>3. CASE e.available /\ e.addr + e.len > KERNEL_TOP /\ e.addr >= KERNEL_TOP
  <2>1. U = Extent(e.addr, e.len)
    BY <1>0, <1>3 DEF Usable
  <2> HIDE DEF U
  <2>2. U \in ExtentType /\ U.start = e.addr /\ U.size = e.len /\ EndOf(U) = e.addr + e.len
    BY <1>0, <2>1, ExtentFacts
  <2> QED BY <1>0, <1>3, <2>2 DEF U
<1> QED BY <1>0, <1>1, <1>2, <1>3

-----------------------------------------------------------------------------
\* The inductive invariant.

\* What the scan has settled on is a piece of an entry seen so far, and no piece
\* seen so far is larger.
Best ==
    /\ info.kind = "mmap" =>
         /\ \A i \in DOMAIN info.entries :
              i < entry \/ step # "scan" => Usable(info.entries[i]).size <= largest.size
         /\ largest.size > 0 => \E i \in DOMAIN info.entries : largest = Usable(info.entries[i])
    /\ info.kind = "basic" /\ step # "scan" => largest = BasicInfo

\* The pool is what the scan has settled on, from the step that sets it up on.
Given ==
    /\ step \in {"scan", "physical"} => pool = None
    /\ pool = None \/ pool = largest
    /\ info.kind = "none" => step \in {"scan", "done"} /\ pool = None
    /\ step = "heap" => region = Extent(VADDR_START, VADDR_SIZE)

\* Everything placed lies below __placement and above the reservation of the
\* architecture object, which may itself run past __placement.
BelowPlacement ==
    /\ placement >= image + IARCH
    /\ \A o \in objects \ {Architecture} : EndOf(o) <= placement

Inv == TypeOK /\ InfoOK /\ Best /\ Given /\ BelowPlacement /\ ObjectsDisjoint

LEMMA NoneExtent == None \in ExtentType /\ None.size = 0 /\ None.start = 0
BY ExtentFacts DEF None, Null

LEMMA InvInit == Init => Inv
<1> SUFFICES ASSUME Init PROVE Inv
  OBVIOUS
<1>1. InfoOK
  BY BootAssumption DEF Init, InfoOK, MapEntry
<1>0. image \in Nat /\ IARCH \in Nat /\ AMD64 \in Nat
  BY BootAssumption DEF Init
<1>2. TypeOK
  <2>1. Architecture \in ExtentType
    BY <1>0, ExtentFacts DEF Architecture
  <2> QED BY <1>0, <2>1, NoneExtent DEF Init, TypeOK, Null
<1>3. Best
  <2>1. largest.size = 0 /\ entry = 1 /\ step = "scan" /\ DOMAIN info.entries \subseteq Nat \ {0}
    BY <1>1, NoneExtent DEF Init, InfoOK
  <2> QED BY <2>1 DEF Best
<1>4. Given
  BY DEF Init, Given
<1>5. BelowPlacement /\ ObjectsDisjoint
  BY <1>0 DEF Init, BelowPlacement, ObjectsDisjoint
<1> QED BY <1>1, <1>2, <1>3, <1>4, <1>5 DEF Inv

\* What is placed from __placement on, on a page boundary, meets nothing placed
\* before but the architecture object, and that one only when it overruns.
LEMMA PlaceKeeps ==
    ASSUME Inv, NEW size \in Nat, Place(Aligned(placement), size), image' = image
    PROVE  /\ placement' \in Nat /\ objects' \subseteq ExtentType
           /\ BelowPlacement' /\ ObjectsDisjoint'
<1> DEFINE at == Aligned(placement)
           new == Extent(at, size)
           A == Architecture
<1>0. /\ placement \in Nat /\ objects \subseteq ExtentType /\ image \in Nat
      /\ IARCH \in Nat /\ IARCH >= 1 /\ AMD64 \in Nat
      /\ placement >= image + IARCH
  BY BootAssumption DEF Inv, TypeOK, BelowPlacement
<1>1. at \in Nat /\ at >= placement
  BY <1>0, AlignUpAbove DEF Aligned
<1>2. placement' = at + size /\ objects' = objects \cup {new}
  BY DEF Place
<1>3. Architecture' = A /\ (Overruns' <=> Overruns)
  BY DEF Architecture, Overruns
<1>4. A \in ExtentType /\ A.start = image /\ EndOf(A) = image + AMD64
  BY <1>0, ExtentFacts DEF Architecture
<1>5. ALIGN_UP(image + IARCH) \in Nat /\ ALIGN_UP(image + IARCH) <= at
  BY <1>0, AlignUpAbove, AlignUpMonotone DEF Aligned
<1> HIDE DEF at
<1>6. new \in ExtentType /\ new.start = at /\ EndOf(new) = at + size
  BY <1>1, ExtentFacts
<1> HIDE DEF new, A
<1>7. new # A
  BY <1>0, <1>1, <1>4, <1>6
<1>8. \A o \in objects \ {A} : EndOf(o) <= placement /\ EndOf(o) \in Nat /\ o.start \in Nat
  BY <1>0 DEF Inv, BelowPlacement, EndOf, ExtentType, A
<1>9. \A o \in objects \ {A} : ~ Meets(o, new) /\ ~ Meets(new, o)
  BY <1>0, <1>1, <1>6, <1>8 DEF Meets
<1>10. Meets(A, new) \/ Meets(new, A) => Overruns /\ image + IARCH <= new.start
  BY <1>0, <1>1, <1>4, <1>5, <1>6 DEF Meets, Overruns
<1>11. BelowPlacement'
  <2>1. placement' >= image' + IARCH /\ placement' >= placement
    BY <1>0, <1>1, <1>2
  <2>2. \A o \in objects \ {A} : EndOf(o) <= placement'
    BY <1>0, <1>1, <1>2, <1>8
  <2>3. EndOf(new) <= placement'
    BY <1>1, <1>2, <1>6
  <2> QED BY <1>2, <1>3, <2>1, <2>2, <2>3 DEF BelowPlacement, A
<1>12. ObjectsDisjoint'
  <2>1. \A o, q \in objects : o # q /\ Meets(o, q) => TakesSpilled(o, q) \/ TakesSpilled(q, o)
    BY DEF Inv, ObjectsDisjoint
  <2>2. \A o \in objects : Meets(o, new) \/ Meets(new, o) => TakesSpilled(new, o)
    BY <1>9, <1>10 DEF TakesSpilled, A
  <2>3. \A o, q \in objects \cup {new} :
          o # q /\ Meets(o, q) => TakesSpilled(o, q) \/ TakesSpilled(q, o)
    BY <2>1, <2>2
  <2>4. image' = image /\ objects' = objects \cup {new}
    BY <1>2
  <2> QED BY <1>3, <2>3, <2>4 DEF ObjectsDisjoint, TakesSpilled, Meets, A
<1> QED BY <1>0, <1>1, <1>2, <1>6, <1>11, <1>12

\* A step that places nothing.
LEMMA PlacedNothing ==
    ASSUME Inv, UNCHANGED <<image, placement, objects>>
    PROVE  BelowPlacement' /\ ObjectsDisjoint'
BY DEF Inv, BelowPlacement, ObjectsDisjoint, TakesSpilled, Overruns, Architecture, Meets

LEMMA ScanEntryInv ==
    ASSUME Inv, ScanEntry
    PROVE  Inv'
<1> DEFINE U == Usable(info.entries[entry])
<1>0. /\ step = "scan" /\ info.kind = "mmap" /\ entry <= Len(info.entries)
      /\ largest' = (IF U.size > largest.size THEN U ELSE largest) /\ entry' = entry + 1
      /\ UNCHANGED <<image, info, step, placement, objects, pool, region, g_kernel_heap>>
  BY DEF ScanEntry, Larger
<1>1. /\ entry \in Nat \ {0} /\ largest \in ExtentType
      /\ info.entries \in Seq(MapEntry) /\ entry \in DOMAIN info.entries
      /\ info.entries[entry] \in MapEntry
  BY <1>0 DEF Inv, TypeOK, InfoOK
<1>2. U \in ExtentType
  BY <1>1, UsableExtent
<1>3. TypeOK'
  BY <1>0, <1>1, <1>2 DEF Inv, TypeOK
<1>4. InfoOK' /\ BelowPlacement' /\ ObjectsDisjoint'
  BY <1>0, PlacedNothing DEF Inv, InfoOK
<1>5. Best'
  <2>1. largest'.size >= largest.size /\ largest'.size >= U.size
        /\ (largest' = U \/ largest' = largest)
    BY <1>0, <1>1, <1>2 DEF ExtentType
  <2>2. \A i \in DOMAIN info.entries : i < entry => Usable(info.entries[i]).size <= largest.size
    BY <1>0 DEF Inv, Best
  <2>3. ASSUME NEW i \in DOMAIN info.entries, i < entry + 1
        PROVE  Usable(info.entries[i]).size <= largest'.size
    <3>0. i \in Nat /\ info.entries[i] \in MapEntry
      BY <1>1
    <3>1. CASE i = entry
      BY <1>1, <1>2, <2>1, <3>1 DEF ExtentType
    <3>2. CASE i < entry
      <4>1. Usable(info.entries[i]).size <= largest.size
        BY <2>2, <3>2
      <4>2. Usable(info.entries[i]).size \in Nat
        BY <3>0, UsableExtent DEF ExtentType
      <4>3. largest.size \in Nat /\ largest'.size \in Nat
        BY <1>0, <1>1, <1>2 DEF ExtentType
      <4> QED BY <2>1, <4>1, <4>2, <4>3
    <3> QED BY <1>1, <2>3, <3>0, <3>1, <3>2
  <2>4. largest'.size > 0 => \E i \in DOMAIN info.entries : largest' = Usable(info.entries[i])
    BY <1>0, <1>1, <2>1 DEF Inv, Best
  <2>5. \A i \in DOMAIN info.entries : i < entry + 1 => Usable(info.entries[i]).size <= largest'.size
    BY <2>3
  <2> QED BY <1>0, <2>4, <2>5 DEF Best
<1>6. Given'
  BY <1>0 DEF Inv, Given
<1> QED BY <1>3, <1>4, <1>5, <1>6 DEF Inv

LEMMA ScanDoneInv ==
    ASSUME Inv, ScanDone
    PROVE  Inv'
<1>0. /\ step = "scan" /\ Scanned /\ largest' = Chosen
      /\ step' \in {"done", "physical"} /\ (info.kind = "none" => step' = "done")
      /\ UNCHANGED <<image, info, entry, placement, objects, pool, region, g_kernel_heap>>
  BY DEF ScanDone
<1>1. Chosen \in ExtentType
  BY BasicInfoSize DEF Inv, TypeOK, Chosen
<1>2. TypeOK'
  BY <1>0, <1>1 DEF Inv, TypeOK
<1>3. InfoOK' /\ BelowPlacement' /\ ObjectsDisjoint'
  BY <1>0, PlacedNothing DEF Inv, InfoOK
<1>4. Best'
  <2>1. CASE info.kind = "mmap"
    <3>1. largest' = largest /\ entry > Len(info.entries)
      BY <1>0, <2>1 DEF Chosen, Scanned
    <3>2. \A i \in DOMAIN info.entries : i < entry
      BY <3>1 DEF Inv, InfoOK, TypeOK
    <3> QED BY <1>0, <2>1, <3>1, <3>2 DEF Inv, Best
  <2>2. CASE info.kind = "basic"
    <3>1. largest' = BasicInfo /\ BasicInfo' = BasicInfo
      BY <1>0, <2>2 DEF Chosen, BasicInfo, UpperMemory
    <3> QED BY <1>0, <2>2, <3>1 DEF Best
  <2>3. CASE info.kind = "none"
    BY <1>0, <2>3 DEF Best
  <2> QED BY <2>1, <2>2, <2>3 DEF Inv, InfoOK
<1>5. Given'
  BY <1>0 DEF Inv, Given
<1> QED BY <1>2, <1>3, <1>4, <1>5 DEF Inv

\* Steps past the scan leave what it has found as it is.
LEMMA PastScan ==
    ASSUME Inv, step # "scan", step' # "scan", UNCHANGED <<image, info, entry, largest>>
    PROVE  InfoOK' /\ Best'
<1>1. BasicInfo' = BasicInfo
  BY DEF BasicInfo, UpperMemory
<1> QED BY <1>1 DEF Inv, InfoOK, Best

LEMMA InvStep ==
    ASSUME Inv, [Next]_vars
    PROVE  Inv'
<1>1. CASE InitPhysical
  <2>0. /\ step = "physical" /\ step' = "virtual" /\ pool' = largest
        /\ Place(Aligned(placement), PHYSICAL + Frames(largest) * NODE)
        /\ UNCHANGED <<image, info, entry, largest, region, g_kernel_heap>>
    BY <1>1 DEF InitPhysical
  <2>1. largest \in ExtentType
    BY DEF Inv, TypeOK
  <2>2. PHYSICAL + Frames(largest) * NODE \in Nat
    <3>1. PHYSICAL \in Nat /\ NODE \in Nat /\ Frames(largest) \in Nat
      BY <2>1, FramesNat, BootAssumption
    <3> QED BY <3>1
  <2>3. placement' \in Nat /\ objects' \subseteq ExtentType /\ BelowPlacement' /\ ObjectsDisjoint'
    BY <2>0, <2>2, PlaceKeeps
  <2>4. TypeOK'
    BY <2>0, <2>1, <2>3 DEF Inv, TypeOK
  <2>5. Given'
    BY <2>0 DEF Inv, Given
  <2> QED BY <2>0, <2>3, <2>4, <2>5, PastScan DEF Inv
<1>2. CASE InitVirtual
  <2>0. /\ step = "virtual" /\ step' = "heap" /\ region' = Extent(VADDR_START, VADDR_SIZE)
        /\ Place(Aligned(placement), VIRT)
        /\ UNCHANGED <<image, info, entry, largest, pool, g_kernel_heap>>
    BY <1>2 DEF InitVirtual
  <2>1. placement' \in Nat /\ objects' \subseteq ExtentType /\ BelowPlacement' /\ ObjectsDisjoint'
    BY <2>0, PlaceKeeps, BootAssumption
  <2>2. region' \in ExtentType
    BY <2>0, ExtentFacts, BootAssumption DEF VADDR_START
  <2>3. TypeOK'
    BY <2>0, <2>1, <2>2 DEF Inv, TypeOK
  <2>4. Given'
    BY <2>0 DEF Inv, Given
  <2> QED BY <2>0, <2>1, <2>3, <2>4, PastScan DEF Inv
<1>3. CASE InitHeap
  <2>0. /\ step = "heap" /\ step' = "done"
        /\ region' = Extent(region.start + HEAP_INITIAL, region.size - HEAP_INITIAL)
        /\ \/ UNCHANGED <<placement, objects, g_kernel_heap>>
           \/ Place(Aligned(placement), HEAP) /\ g_kernel_heap' = region.start
        /\ UNCHANGED <<image, info, entry, largest, pool>>
    BY <1>3 DEF InitHeap
  <2>1. region.start = 0 /\ region.size = VADDR_SIZE
    BY <2>0, ExtentFacts, BootAssumption DEF Inv, Given, VADDR_START
  <2>2. region' \in ExtentType
    <3>1. 0 + HEAP_INITIAL \in Nat /\ VADDR_SIZE - HEAP_INITIAL \in Nat
      BY BootAssumption
    <3> QED BY <2>0, <2>1, <3>1, ExtentFacts
  <2>3. placement' \in Nat /\ objects' \subseteq ExtentType /\ BelowPlacement' /\ ObjectsDisjoint'
    <3>1. CASE UNCHANGED <<placement, objects, g_kernel_heap>>
      BY <2>0, <3>1, PlacedNothing DEF Inv, TypeOK
    <3>2. CASE Place(Aligned(placement), HEAP)
      BY <2>0, <3>2, PlaceKeeps, BootAssumption
    <3> QED BY <2>0, <3>1, <3>2
  <2>4. TypeOK'
    BY <2>0, <2>1, <2>2, <2>3 DEF Inv, TypeOK
  <2>5. Given'
    BY <2>0 DEF Inv, Given
  <2> QED BY <2>0, <2>3, <2>4, <2>5, PastScan DEF Inv
<1>4. ASSUME NEW size \in Requests, Kalloc(size) PROVE Inv'
  <2>0. /\ step = "done" /\ Place(Aligned(placement), size)
        /\ UNCHANGED <<image, info, step, entry, largest, pool, region, g_kernel_heap>>
    BY <1>4 DEF Kalloc
  <2>1. placement' \in Nat /\ objects' \subseteq ExtentType /\ BelowPlacement' /\ ObjectsDisjoint'
    BY <2>0, PlaceKeeps, BootAssumption
  <2>2. TypeOK'
    BY <2>0, <2>1 DEF Inv, TypeOK
  <2>3. Given'
    BY <2>0 DEF Inv, Given
  <2> QED BY <2>0, <2>1, <2>2, <2>3, PastScan DEF Inv
<1>5. CASE UNCHANGED vars
  <2>1. BasicInfo' = BasicInfo
    BY <1>5 DEF vars, BasicInfo, UpperMemory
  <2>2. BelowPlacement' /\ ObjectsDisjoint'
    BY <1>5, PlacedNothing DEF vars
  <2> QED BY <1>5, <2>1, <2>2 DEF vars, Inv, TypeOK, InfoOK, Best, Given
<1> QED BY <1>1, <1>2, <1>3, <1>4, <1>5, ScanEntryInv, ScanDoneInv DEF Next

LEMMA InvAlways == Spec => []Inv
BY InvInit, InvStep, PTL DEF Spec

\* Types; no address or size computed on the way is negative, whatever the boot
\* loader passes.
THEOREM TypeCorrect == Spec => []TypeOK
<1>1. Inv => TypeOK
  BY DEF Inv
<1> QED BY <1>1, InvAlways, PTL

\* Whatever the memory map, what the physical memory manager is given is RAM,
\* above the kernel, and no piece of RAM above the kernel is larger.
THEOREM PoolAlwaysLargestRam == Spec => []PoolIsLargestRam
<1>1. Inv => PoolIsLargestRam
  <2> SUFFICES ASSUME Inv, pool.size > 0, InfoInRange
               PROVE  /\ pool.start >= KERNEL_TOP
                      /\ \E r \in Ram : r.start <= pool.start /\ EndOf(pool) <= EndOf(r)
                      /\ \A r \in Ram : EndOf(r) <= AboveKernel(r) + pool.size
    BY DEF PoolIsLargestRam
  <2>0. pool = largest /\ step # "scan" /\ info.kind \in {"mmap", "basic"}
    BY NoneExtent DEF Inv, Given, InfoOK
  <2>1. CASE info.kind = "mmap"
    <3>0. info.entries \in Seq(MapEntry) /\ \A i \in DOMAIN info.entries : info.entries[i] \in MapEntry
      BY DEF Inv, InfoOK
    <3>1. PICK i \in DOMAIN info.entries : pool = Usable(info.entries[i])
      BY <2>0, <2>1 DEF Inv, Best
    <3> DEFINE e == info.entries[i]
               r == Extent(e.addr, e.len)
    <3>2. /\ e \in MapEntry /\ e.available /\ pool.start >= KERNEL_TOP /\ e.addr <= pool.start
          /\ EndOf(pool) = e.addr + e.len
      BY <3>0, <3>1, UsableExtent
    <3>3. r \in Ram
      BY <2>1, <3>2 DEF Ram
    <3>4. r.start = e.addr /\ EndOf(r) = e.addr + e.len
      BY <3>2, ExtentFacts DEF MapEntry
    <3>5. ASSUME NEW s \in Ram PROVE EndOf(s) <= AboveKernel(s) + pool.size
      <4>1. PICK j \in DOMAIN info.entries :
              /\ info.entries[j].available
              /\ s = Extent(info.entries[j].addr, info.entries[j].len)
        BY <2>1 DEF Ram
      <4> DEFINE f == info.entries[j]
      <4>2. f \in MapEntry /\ f.addr \in Nat /\ f.len \in Nat
        BY <3>0 DEF MapEntry
      <4>3. s.start = f.addr /\ EndOf(s) = f.addr + f.len
        BY <4>1, <4>2, ExtentFacts
      <4>4. f.addr + f.len <= AboveKernel(s) + Usable(f).size
        BY <4>1, <4>2, <4>3, UsableExtent DEF AboveKernel
      <4>5. Usable(f).size <= pool.size
        BY <2>0, <2>1 DEF Inv, Best
      <4>6. AboveKernel(s) \in Nat /\ Usable(f).size \in Nat /\ pool.size \in Nat
        BY <4>2, <4>3, UsableExtent, BootAssumption DEF AboveKernel, Inv, TypeOK, ExtentType
      <4> HIDE DEF f
      <4> QED BY <4>2, <4>3, <4>4, <4>5, <4>6
    <3>6. EndOf(pool) <= EndOf(r)
      BY <3>2, <3>4 DEF MapEntry
    <3> HIDE DEF r
    <3> QED BY <3>2, <3>3, <3>4, <3>5, <3>6
  <2>2. CASE info.kind = "basic"
    <3> DEFINE r == Extent(UPPER_START, info.upper)
    <3>0. /\ UPPER_START \in Nat /\ KERNEL_TOP \in Nat /\ UPPER_START <= KERNEL_TOP
          /\ info.upper \in Nat
      BY BootAssumption DEF Inv, InfoOK
    <3>1. pool = BasicInfo
      BY <2>0, <2>2 DEF Inv, Best
    <3>2. pool.start = KERNEL_TOP /\ pool.size = info.upper - (KERNEL_TOP - UPPER_START)
      BY <2>2, <3>1, BasicInfoSize DEF Inv, InfoInRange
    <3>3. r.start = UPPER_START /\ EndOf(r) = UPPER_START + info.upper
      BY <3>0, ExtentFacts
    <3>4. Ram = {r}
      BY <2>2 DEF Ram
    <3>5. EndOf(pool) = KERNEL_TOP + (info.upper - (KERNEL_TOP - UPPER_START))
      BY <3>2 DEF EndOf
    <3>6. AboveKernel(r) = KERNEL_TOP
      BY <3>0, <3>3 DEF AboveKernel
    <3> HIDE DEF r
    <3> QED BY <3>0, <3>2, <3>3, <3>4, <3>5, <3>6
  <2> QED BY <2>0, <2>1, <2>2
<1> QED BY <1>1, InvAlways, PTL

\* However much is placed while there is no heap, no two objects share a byte
\* but the architecture object and what lies past the bytes reserved for it;
\* wherever the image ends and whatever the sizes of the two.
THEOREM ObjectsAlwaysDisjoint == Spec => []ObjectsDisjoint
<1>1. Inv => ObjectsDisjoint
  BY DEF Inv
<1> QED BY <1>1, InvAlways, PTL

-----------------------------------------------------------------------------
\* The scan of the PCI buses.


Levels == {"device", "host", "bus", "slot", "done"}

\* The functions on the buses of the host controllers.
Expected ==
    {a \in HostBuses \X Slots \X Buses : a[3] \in FunctionsOf(devices[<<a[1], a[2]>>])}

\* The loops have passed bus b, slot s, function f.
Passed(b, s, f) ==
    \/ level = "done"
    \/ level # "device" /\ b < host
    \/ level \in {"bus", "slot"} /\ b = host /\ s < slot
    \/ level = "slot" /\ b = host /\ s = slot /\ f < function

Typed ==
    /\ devices \in [Buses \X Slots -> Kinds]
    /\ level \in Levels
    /\ single \in BOOLEAN
    /\ host \in Nat /\ slot \in Nat /\ function \in Nat
    /\ again = FALSE

\* Where the loops are, and what the scan has read on its way there.
Position ==
    /\ level = "device" => host = 0 /\ slot = 0 /\ found = {}
    /\ level \in {"host", "bus", "slot"} =>
         /\ single = (Present(0, 0, 0) /\ ~ devices[<<0, 0>>].multi)
         /\ single => host = 0 /\ level # "host"
    /\ level = "host" => host <= FUNCTIONS /\ \A f \in 0 .. (host - 1) : Present(0, 0, f)
    /\ level \in {"bus", "slot"} => host \in HostBuses /\ slot <= SLOTS
    /\ level = "slot" =>
         /\ slot < SLOTS /\ 1 <= function /\ function <= FUNCTIONS
         /\ Present(host, slot, 0) /\ devices[<<host, slot>>].multi

FoundSoFar == found = {a \in Expected : Passed(a[1], a[2], a[3])}

ScanInv == Typed /\ Position /\ FoundSoFar

-----------------------------------------------------------------------------
LEMMA ScanSizes ==
    /\ SLOTS \in Nat /\ SLOTS >= 1 /\ FUNCTIONS \in Nat /\ FUNCTIONS >= 1
    /\ Slots \subseteq Nat /\ Buses \subseteq Nat
    /\ \A s \in Nat : s \in Slots <=> s < SLOTS
    /\ \A b \in Nat : b \in Buses <=> b < FUNCTIONS
BY PciAssumption DEF Slots, Buses

LEMMA DeviceTyped ==
    ASSUME Typed, NEW b \in Buses, NEW s \in Slots
    PROVE  /\ devices[<<b, s>>].functions \subseteq Buses
           /\ devices[<<b, s>>].multi \in BOOLEAN
<1>1. devices[<<b, s>>] \in Kinds
  BY DEF Typed
<1> QED BY <1>1, PciAssumption DEF Buses

LEMMA HostBusesAreBuses == HostBuses \subseteq Buses
BY ScanSizes DEF HostBuses

\* A place is expected when its device has the function, or its only function.
LEMMA ExpectedAt ==
    ASSUME Typed, NEW b \in HostBuses, NEW s \in Slots, NEW f \in Buses
    PROVE  <<b, s, f>> \in Expected
             <=> /\ Present(b, s, 0) /\ Present(b, s, f)
                 /\ devices[<<b, s>>].multi \/ f = 0
<1>1. <<b, s, f>> \in Expected <=> f \in FunctionsOf(devices[<<b, s>>])
  BY DEF Expected
<1> QED BY <1>1 DEF FunctionsOf, Present

LEMMA ExpectedForm ==
    ASSUME NEW a \in Expected
    PROVE  \E b \in HostBuses, s \in Slots, f \in Buses : a = <<b, s, f>>
BY DEF Expected

-----------------------------------------------------------------------------
LEMMA ScanInitInv == ScanInit => ScanInv
<1> SUFFICES ASSUME ScanInit PROVE ScanInv
  OBVIOUS
<1>1. Typed /\ Position
  BY DEF ScanInit, Typed, Position, Levels
<1>2. {a \in Expected : Passed(a[1], a[2], a[3])} = {}
  BY DEF ScanInit, Passed
<1> QED BY <1>1, <1>2 DEF ScanInv, FoundSoFar, ScanInit

\* What a step leaves of `found`, when the devices are the same: it is enough
\* to look at each place.
LEMMA FoundPointwise ==
    ASSUME Typed, FoundSoFar, devices' = devices,
           found' \subseteq Expected,
           \A b \in HostBuses, s \in Slots, f \in Buses :
              <<b, s, f>> \in Expected =>
                 (<<b, s, f>> \in found' <=> Passed(b, s, f)')
    PROVE  FoundSoFar'
<1>1. Expected' = Expected
  BY DEF Expected, HostBuses, FunctionsOf, Present
<1>2. ASSUME NEW a \in Expected PROVE a \in found' <=> Passed(a[1], a[2], a[3])'
  <2> PICK b \in HostBuses, s \in Slots, f \in Buses : a = <<b, s, f>>
    BY ExpectedForm
  <2>1. a[1] = b /\ a[2] = s /\ a[3] = f
    OBVIOUS
  <2> QED BY <2>1
<1> QED BY <1>1, <1>2 DEF FoundSoFar

LEMMA FoundAt ==
    ASSUME FoundSoFar, NEW b \in HostBuses, NEW s \in Slots, NEW f \in Buses,
           <<b, s, f>> \in Expected
    PROVE  <<b, s, f>> \in found <=> Passed(b, s, f)
BY DEF FoundSoFar

LEMMA FoundExpected == FoundSoFar => found \subseteq Expected
BY DEF FoundSoFar

-----------------------------------------------------------------------------
\* The hosts that are left out are not there: the loop over them has ended.
LEMMA HostsAllPassed ==
    ASSUME ScanInv, level = "host", ~ MoreHosts, NEW b \in HostBuses
    PROVE  b < host
<1>1. host \in Nat /\ b \in Nat /\ host <= FUNCTIONS
  BY ScanSizes, HostBusesAreBuses DEF ScanInv, Typed, Position
<1>2. b \in Buses /\ \A f \in 0 .. b : Present(0, 0, f)
  BY DEF ScanInv, Position, HostBuses
<1>3. SUFFICES ASSUME host <= b PROVE FALSE
  BY <1>1
<1>4. host \in 0 .. b /\ host < FUNCTIONS
  BY <1>1, <1>2, <1>3, ScanSizes
<1> QED BY <1>2, <1>4 DEF MoreHosts

LEMMA KeepScanDevice ==
    ASSUME ScanInv, scan_device
    PROVE  ScanInv'
<1> USE DEF ScanInv, scan_device
<1>0. 0 \in Buses /\ 0 \in Slots
  BY ScanSizes
<1>1. devices[<<0, 0>>].multi \in BOOLEAN
  BY <1>0, DeviceTyped
<1>2. Typed'
  BY DEF Typed, Levels
<1>3. single' = (Present(0, 0, 0) /\ ~ devices[<<0, 0>>].multi)
  BY DEF Multifunction
<1>4. level' \in {"bus", "slot"} => 0 \in HostBuses
  BY <1>0, <1>1 DEF HostBuses, Multifunction
<1>5. HostBuses' = HostBuses
  BY DEF HostBuses, Present
<1>6. Position'
  <2>1. level' \in {"host", "bus"} /\ host' = 0 /\ slot' = 0
    BY DEF Position
  <2>2. level' = "host" => ~ single'
    BY DEF Multifunction
  <2> QED BY <1>3, <1>4, <1>5, <2>1, <2>2, ScanSizes DEF Position, Present
<1>7. FoundSoFar'
  <2>1. ASSUME NEW b \in HostBuses, NEW s \in Slots, NEW f \in Buses
        PROVE  ~ Passed(b, s, f)'
    BY <1>0, ScanSizes, HostBusesAreBuses DEF Passed, Position
  <2>2. found' = {} /\ devices' = devices
    BY DEF Position
  <2> QED BY <2>1, <2>2, FoundPointwise
<1> QED BY <1>2, <1>6, <1>7

LEMMA KeepScanHost ==
    ASSUME ScanInv, ScanHost
    PROVE  ScanInv'
<1> USE DEF ScanInv, ScanHost
<1>0. HostBuses' = HostBuses
  BY DEF HostBuses, Present
<1>1. Typed'
  BY DEF Typed, Levels
<1>2. MoreHosts => host \in HostBuses
  <2> SUFFICES ASSUME MoreHosts PROVE host \in HostBuses
    OBVIOUS
  <2>1. host \in Nat /\ host \in Buses
    BY ScanSizes DEF MoreHosts, Typed
  <2>2. \A f \in 0 .. host : Present(0, 0, f)
    BY <2>1 DEF MoreHosts, Position
  <2>3. ~ (Present(0, 0, 0) /\ ~ devices[<<0, 0>>].multi)
    BY DEF Position
  <2> QED BY <2>1, <2>2, <2>3 DEF HostBuses
<1>3. Position'
  BY <1>0, <1>2, ScanSizes DEF Position, Present
<1>4. FoundSoFar'
  <2>1. ASSUME NEW b \in HostBuses, NEW s \in Slots, NEW f \in Buses
        PROVE  Passed(b, s, f)' <=> Passed(b, s, f)
    <3>1. b \in Nat /\ s \in Nat /\ host \in Nat
      BY ScanSizes, HostBusesAreBuses DEF Typed
    <3>2. ~ MoreHosts => b < host
      BY HostsAllPassed
    <3> QED BY <3>1, <3>2 DEF Passed
  <2> QED BY <2>1, FoundPointwise, FoundAt, FoundExpected
<1> QED BY <1>1, <1>3, <1>4

LEMMA KeepEmptySlot ==
    ASSUME ScanInv, EmptySlot
    PROVE  ScanInv'
<1> USE DEF ScanInv, EmptySlot
<1>0. HostBuses' = HostBuses
  BY DEF HostBuses, Present
<1>1. Typed'
  BY DEF Typed, Levels
<1>2. Position'
  BY <1>0, ScanSizes DEF Position, Present, Typed
<1>3. FoundSoFar'
  <2>1. ASSUME NEW b \in HostBuses, NEW s \in Slots, NEW f \in Buses,
               <<b, s, f>> \in Expected
        PROVE  Passed(b, s, f)' <=> Passed(b, s, f)
    <3>1. b \in Nat /\ s \in Nat /\ slot \in Nat /\ host \in Nat
      BY ScanSizes, HostBusesAreBuses DEF Typed
    <3>2. Present(b, s, 0)
      BY <2>1, ExpectedAt
    <3>3. ~ (b = host /\ s = slot)
      BY <3>2
    <3> QED BY <3>1, <3>3 DEF Passed
  <2> QED BY <2>1, FoundPointwise, FoundAt, FoundExpected
<1> QED BY <1>1, <1>2, <1>3

LEMMA KeepFirstFunction ==
    ASSUME ScanInv, FirstFunction
    PROVE  ScanInv'
<1> USE DEF ScanInv, FirstFunction
<1>0. HostBuses' = HostBuses
  BY DEF HostBuses, Present
<1>1. /\ host \in HostBuses /\ slot \in Slots /\ 0 \in Buses
      /\ host \in Nat /\ slot \in Nat
      /\ slot < SLOTS
  BY ScanSizes DEF Typed, Position
<1>2. <<host, slot, 0>> \in Expected
  BY <1>1, ExpectedAt
<1>3. <<host, slot, 0>> \notin found
  <2>1. ~ Passed(host, slot, 0)
    BY <1>1 DEF Passed
  <2> QED BY <1>1, <1>2, <2>1, FoundAt
<1>4. Typed'
  <2>1. again' = FALSE
    BY <1>3 DEF scan_function, Typed
  <2> QED BY <2>1 DEF Typed, Levels
<1>5. Position'
  <2>1. level' \in {"bus", "slot"} /\ host' = host /\ single' = single
    BY DEF Position
  <2>2. slot' <= SLOTS
    BY <1>1, ScanSizes
  <2>3. level' = "slot" => /\ slot' = slot /\ function' = 1
                           /\ Present(host, slot, 0) /\ devices[<<host, slot>>].multi
    BY DEF Multifunction
  <2> QED BY <1>0, <1>1, <2>1, <2>2, <2>3, ScanSizes DEF Position, Present
<1>6. FoundSoFar'
  <2>1. ASSUME NEW b \in HostBuses, NEW s \in Slots, NEW f \in Buses,
               <<b, s, f>> \in Expected
        PROVE  <<b, s, f>> \in found' <=> Passed(b, s, f)'
    <3>1. b \in Nat /\ s \in Nat /\ f \in Nat
      BY ScanSizes, HostBusesAreBuses
    <3>2. <<b, s, f>> \in found' <=> Passed(b, s, f) \/ (b = host /\ s = slot /\ f = 0)
      <4>1. <<b, s, f>> = <<host, slot, 0>> <=> b = host /\ s = slot /\ f = 0
        OBVIOUS
      <4>2. <<b, s, f>> \in found <=> Passed(b, s, f)
        BY <2>1, FoundAt
      <4> QED BY <4>1, <4>2 DEF scan_function
    <3>3. b = host /\ s = slot /\ ~ Multifunction(host, slot) => f = 0
      <4>1. devices[<<b, s>>].multi \/ f = 0
        BY <2>1, ExpectedAt
      <4> QED BY <4>1 DEF Multifunction
    <3> QED BY <1>1, <3>1, <3>2, <3>3 DEF Passed
  <2>2. found' \subseteq Expected
    BY <1>2, FoundExpected DEF scan_function
  <2> QED BY <2>1, <2>2, FoundPointwise
<1> QED BY <1>4, <1>5, <1>6

LEMMA KeepNextFunction ==
    ASSUME ScanInv, NextFunction
    PROVE  ScanInv'
<1> USE DEF ScanInv, NextFunction
<1>0. HostBuses' = HostBuses
  BY DEF HostBuses, Present
<1>1. /\ host \in HostBuses /\ slot \in Slots /\ function \in Buses
      /\ host \in Nat /\ slot \in Nat /\ function \in Nat /\ function >= 1
      /\ Present(host, slot, 0) /\ devices[<<host, slot>>].multi
  BY ScanSizes DEF Typed, Position
<1>2. <<host, slot, function>> \in Expected <=> Present(host, slot, function)
  BY <1>1, ExpectedAt
<1>3. Present(host, slot, function) => <<host, slot, function>> \notin found
  <2>1. ~ Passed(host, slot, function)
    BY <1>1 DEF Passed
  <2> QED BY <1>1, <1>2, <2>1, FoundAt
<1>4. Typed'
  <2>1. again' = FALSE
    BY <1>3 DEF scan_function, Typed
  <2> QED BY <2>1 DEF Typed, Levels
<1>5. Position'
  BY <1>0, <1>1, ScanSizes DEF Position, Present
<1>6. FoundSoFar'
  <2>1. ASSUME NEW b \in HostBuses, NEW s \in Slots, NEW f \in Buses,
               <<b, s, f>> \in Expected
        PROVE  <<b, s, f>> \in found' <=> Passed(b, s, f)'
    <3>1. b \in Nat /\ s \in Nat /\ f \in Nat
      BY ScanSizes, HostBusesAreBuses
    <3>2. <<b, s, f>> \in found' <=> Passed(b, s, f) \/ (b = host /\ s = slot /\ f = function)
      <4>1. <<b, s, f>> = <<host, slot, function>> <=> b = host /\ s = slot /\ f = function
        OBVIOUS
      <4>2. <<b, s, f>> \in found <=> Passed(b, s, f)
        BY <2>1, FoundAt
      <4> QED BY <1>2, <2>1, <4>1, <4>2 DEF scan_function
    <3> QED BY <1>1, <3>1, <3>2 DEF Passed
  <2>2. found' \subseteq Expected
    BY <1>2, FoundExpected DEF scan_function
  <2> QED BY <2>1, <2>2, FoundPointwise
<1> QED BY <1>4, <1>5, <1>6

LEMMA KeepEndOfSlot ==
    ASSUME ScanInv, EndOfSlot
    PROVE  ScanInv'
<1> USE DEF ScanInv, EndOfSlot
<1>0. HostBuses' = HostBuses
  BY DEF HostBuses, Present
<1>1. Typed'
  BY DEF Typed, Levels
<1>2. Position'
  BY <1>0, ScanSizes DEF Position, Present, Typed
<1>3. FoundSoFar'
  <2>1. ASSUME NEW b \in HostBuses, NEW s \in Slots, NEW f \in Buses
        PROVE  Passed(b, s, f)' <=> Passed(b, s, f)
    <3>1. b \in Nat /\ s \in Nat /\ slot \in Nat /\ host \in Nat /\ f < function
      BY ScanSizes, HostBusesAreBuses DEF Typed
    <3> QED BY <3>1 DEF Passed
  <2> QED BY <2>1, FoundPointwise, FoundAt, FoundExpected
<1> QED BY <1>1, <1>2, <1>3

LEMMA KeepEndOfBus ==
    ASSUME ScanInv, EndOfBus
    PROVE  ScanInv'
<1> USE DEF ScanInv, EndOfBus
<1>0. HostBuses' = HostBuses
  BY DEF HostBuses, Present
<1>1. Typed'
  BY DEF Typed, Levels
<1>2. host \in HostBuses /\ host \in Nat /\ host < FUNCTIONS
  BY ScanSizes, HostBusesAreBuses DEF Typed, Position
<1>3. single => HostBuses = {0} /\ host = 0
  BY DEF Position, HostBuses
<1>4. ~ single => \A f \in 0 .. host : Present(0, 0, f)
  BY <1>2 DEF Position, HostBuses
<1>5. Position'
  <2>1. CASE single
    BY <2>1 DEF Position
  <2>2. CASE ~ single
    <3>1. \A f \in 0 .. (host' - 1) : Present(0, 0, f)
      BY <1>2, <1>4, <2>2
    <3> QED BY <1>2, <2>2, <3>1, ScanSizes DEF Position, Present
  <2> QED BY <2>1, <2>2
<1>6. FoundSoFar'
  <2>1. ASSUME NEW b \in HostBuses, NEW s \in Slots, NEW f \in Buses
        PROVE  Passed(b, s, f)' <=> Passed(b, s, f)
    <3>1. b \in Nat /\ s \in Nat /\ s < slot
      BY ScanSizes, HostBusesAreBuses
    <3> QED BY <1>2, <1>3, <3>1 DEF Passed
  <2> QED BY <2>1, FoundPointwise, FoundAt, FoundExpected
<1> QED BY <1>1, <1>5, <1>6

LEMMA ScanInvariance == ScanSpec => []ScanInv
<1>1. ScanInv /\ [ScanNext]_scanVars => ScanInv'
  <2> SUFFICES ASSUME ScanInv, [ScanNext]_scanVars PROVE ScanInv'
    OBVIOUS
  <2>1. CASE scan_device
    BY <2>1, KeepScanDevice
  <2>2. CASE ScanHost
    BY <2>2, KeepScanHost
  <2>3. CASE EmptySlot
    BY <2>3, KeepEmptySlot
  <2>4. CASE FirstFunction
    BY <2>4, KeepFirstFunction
  <2>5. CASE NextFunction
    BY <2>5, KeepNextFunction
  <2>6. CASE EndOfSlot
    BY <2>6, KeepEndOfSlot
  <2>7. CASE EndOfBus
    BY <2>7, KeepEndOfBus
  <2>8. CASE UNCHANGED scanVars
    BY <2>8 DEF scanVars, ScanInv, Typed, Position, FoundSoFar, Expected, HostBuses,
                FunctionsOf, Present, Passed
  <2> QED BY <2>1, <2>2, <2>3, <2>4, <2>5, <2>6, <2>7, <2>8 DEF ScanNext
<1> QED BY ScanInitInv, <1>1, PTL DEF ScanSpec

-----------------------------------------------------------------------------
\* A scan finds nothing twice and nothing that is not there, and when it ends it
\* has found every function on the buses of the host controllers (pci.cpp:75-122).
THEOREM ScanFindsHostBuses == ScanSpec => []FindsHostBuses
<1>1. ScanInv => FindsHostBuses
  <2> SUFFICES ASSUME ScanInv PROVE FindsHostBuses
    OBVIOUS
  <2>1. found \subseteq Expected /\ (level = "done" => found = Expected)
    BY DEF ScanInv, FoundSoFar, Passed
  <2>2. Expected = FunctionsOn(HostBuses)
    BY DEF Expected, FunctionsOn
  <2>3. FunctionsOn(HostBuses) \subseteq FunctionsOn(Buses)
    BY HostBusesAreBuses DEF FunctionsOn
  <2> QED BY <2>1, <2>2, <2>3 DEF FindsHostBuses, ScanInv, Typed
<1> QED BY <1>1, ScanInvariance, PTL

=============================================================================
