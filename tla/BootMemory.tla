----------------------------- MODULE BootMemory -----------------------------
(***************************************************************************)
(* Bringing memory up: kernel/memory/memory_manager.cpp, init_kernel_heap  *)
(* (heap.cpp), and the allocation functions the rest of the kernel calls,  *)
(* which use the heap once there is one and the placement allocator until  *)
(* then (allocators.cpp, heap.cpp:453-500).                                *)
(*                                                                         *)
(* initialize_memory reads the boot loader's memory map, gives the largest *)
(* piece of RAM above the kernel to the physical memory manager, creates   *)
(* the virtual memory manager, and asks it for the region of the heap.     *)
(* Everything created on the way is placed at __placement, which starts at *)
(* the end of the kernel image and may run up to KERNEL_TOP, where the     *)
(* memory given away begins at the earliest.  The first object there, the  *)
(* amd64 of kmain, is larger than the iarch reserved for it (archs.hpp:28).*)
(* Addresses are physical.                                                 *)
(***************************************************************************)
EXTENDS Naturals, Sequences, FiniteSets

CONSTANTS
    FRAME_SIZE,    \* bytes in a frame
    WORD,          \* 2^64
    WORD32,        \* 2^32: the boot loader's fields and their products
    KERNEL_TOP,    \* 8 MB
    UPPER_START,   \* 1 MB, where the upper memory of the basic info starts
    MIN_POOL,      \* 4 MB, the least the managers are created for
    ImageEnds,     \* addresses the kernel image may end at
    IARCH,         \* sizeof(iarch), what is reserved for the architecture object
    AMD64,         \* sizeof(amd64), what is constructed there
    NODE,          \* sizeof(frame), the node of the physical free list
    PHYSICAL,      \* sizeof(physical)
    VIRT,          \* sizeof(virt), and of the node of its first region
    HEAP,          \* sizeof(heap)
    HEAP_INITIAL,  \* INITIAL_HEAP_SIZE, 1 MB
    VADDR_SIZE,    \* 256 GB
    BootInfos,     \* boot loader informations
    Requests,      \* sizes the kernel asks of kalloc
    MaxObjects     \* bound: objects placed at __placement

ASSUME BootAssumption ==
    /\ FRAME_SIZE \in Nat \ {0}
    /\ WORD \in Nat /\ WORD32 \in 1 .. WORD
    /\ KERNEL_TOP \in Nat /\ UPPER_START \in 0 .. KERNEL_TOP
    /\ KERNEL_TOP - UPPER_START <= WORD
    /\ MIN_POOL \in Nat \ {0}
    /\ ImageEnds \subseteq 1 .. KERNEL_TOP
    /\ {IARCH, AMD64, NODE, PHYSICAL, VIRT, HEAP} \subseteq Nat \ {0}
    /\ VADDR_SIZE \in Nat /\ HEAP_INITIAL \in 1 .. VADDR_SIZE
    /\ BootInfos \subseteq [kind : {"mmap", "basic", "none"},
                            entries : Seq([addr : Nat, len : Nat, available : BOOLEAN]),
                            upper : Nat]
    /\ \A b \in BootInfos : \A i \in DOMAIN b.entries :
         b.entries[i].addr + b.entries[i].len < WORD
    /\ Requests \subseteq Nat
    /\ MaxObjects \in Nat

Null == 0
VADDR_START == 0

VARIABLES
    image,         \* &_end, where the kernel image ends
    info,          \* what the boot loader passed
    step,          \* where initialize_memory is: scan, physical, virtual, heap, done
    entry,         \* the entry of the memory map being looked at
    largest,       \* [start, size]: largest_free_start and largest_free_size
    placement,     \* __placement
    objects,       \* [start, size] of everything placed at it
    pool,          \* [start, size] given to physical::setup, size 0 before
    region,        \* first free region of the virtual manager
    g_kernel_heap  \* start of the heap's region, Null while there is no heap

vars == <<image, info, step, entry, largest, placement, objects, pool, region, g_kernel_heap>>

Extent(start, size) == [start |-> start, size |-> size]
EndOf(e) == e.start + e.size
None == Extent(Null, 0)

ALIGN_DOWN(a) == (a \div FRAME_SIZE) * FRAME_SIZE
ALIGN_UP(a) == ALIGN_DOWN(a + FRAME_SIZE - 1)

\* The architecture object, which kmain constructs before memory comes up.
Architecture == Extent(image, AMD64)

Init ==
    /\ image \in ImageEnds
    /\ info \in BootInfos
    /\ step = "scan"
    /\ entry = 1
    /\ largest = None
    /\ placement = image + IARCH
    /\ objects = {Architecture}
    /\ pool = None
    /\ region = None
    /\ g_kernel_heap = Null

-----------------------------------------------------------------------------
\* The part of an entry that is RAM above the kernel.
Usable(e) ==
    IF ~ e.available \/ e.addr + e.len <= KERNEL_TOP THEN None
    ELSE IF e.addr < KERNEL_TOP THEN Extent(KERNEL_TOP, e.addr + e.len - KERNEL_TOP)
    ELSE Extent(e.addr, e.len)

\* A slip of Larger: the last entry with room replaces the largest.
LargerLast(e, best) == IF e.size > 0 THEN e ELSE best

Larger(e, best) == IF e.size > best.size THEN e ELSE best

\* A slip of ScanEntry: the pointer to the entry is not moved on.
ScanEntryStuck ==
    /\ step = "scan"
    /\ info.kind = "mmap"
    /\ entry <= Len(info.entries)
    /\ largest' = Larger(Usable(info.entries[entry]), largest)
    /\ UNCHANGED <<image, info, step, entry, placement, objects, pool, region, g_kernel_heap>>

\* One pass of the loop over the memory map.
ScanEntry ==
    /\ step = "scan"
    /\ info.kind = "mmap"
    /\ entry <= Len(info.entries)
    /\ largest' = Larger(Usable(info.entries[entry]), largest)
    /\ entry' = entry + 1
    /\ UNCHANGED <<image, info, step, placement, objects, pool, region, g_kernel_heap>>

\* mem_upper * 1024, in the 32 bits of mem_upper.
UpperMemory == info.upper % WORD32

\* A slip of BasicInfo: the size is computed with a sign.
BasicInfoSigned == Extent(KERNEL_TOP, UpperMemory - (KERNEL_TOP - UPPER_START))

\* Without a map: the upper memory past KERNEL_TOP.  The subtraction wraps
\* when there is less of it than the kernel takes.
BasicInfo ==
    Extent(KERNEL_TOP, (UpperMemory + WORD - (KERNEL_TOP - UPPER_START)) % WORD)

\* What the scan settles on, and whether it is enough to go on with.
Chosen == IF info.kind = "basic" THEN BasicInfo ELSE largest

Scanned ==
    \/ info.kind = "mmap" /\ entry > Len(info.entries)
    \/ info.kind = "basic"
    \/ info.kind = "none"

ScanDone ==
    /\ step = "scan"
    /\ Scanned
    /\ largest' = Chosen
    /\ step' = IF info.kind = "none" \/ Chosen.size < MIN_POOL THEN "done" ELSE "physical"
    /\ UNCHANGED <<image, info, entry, placement, objects, pool, region, g_kernel_heap>>

-----------------------------------------------------------------------------
\* A slip of Aligned: to the page boundary before.
AlignedDown(at) == ALIGN_DOWN(at)

\* placement_kalloc(size, align): the next bytes, from a page boundary on or
\* from where the last object ended.
Aligned(at) == ALIGN_UP(at)

Place(at, size) ==
    /\ placement' = at + size
    /\ objects' = objects \cup {Extent(at, size)}

\* Frames of the pool: physical::setup places a node for each.  A pool whose
\* size has wrapped ends, in 64 bits, before it starts, and has none.
Frames(e) ==
    LET addr == ALIGN_DOWN((e.start + FRAME_SIZE - 1) % WORD)
        end == ALIGN_DOWN(EndOf(e) % WORD)
    IN IF addr < end THEN (end - addr) \div FRAME_SIZE ELSE 0

\* new (placement_kalloc(sizeof(physical), true)) physical, then setup.
InitPhysical ==
    /\ step = "physical"
    /\ pool' = largest
    /\ Place(Aligned(placement), PHYSICAL + Frames(largest) * NODE)
    /\ step' = "virtual"
    /\ UNCHANGED <<image, info, entry, largest, region, g_kernel_heap>>

\* new (placement_kalloc(sizeof(virt), true)) virt, with its first region.
InitVirtual ==
    /\ step = "virtual"
    /\ Place(Aligned(placement), VIRT)
    /\ region' = Extent(VADDR_START, VADDR_SIZE)
    /\ step' = "heap"
    /\ UNCHANGED <<image, info, entry, largest, pool, g_kernel_heap>>

\* init_kernel_heap: takes the first region of the virtual space.  Null is how
\* virt::alloc fails, and it is also the first address of the space.
InitHeap ==
    /\ step = "heap"
    /\ region' = Extent(region.start + HEAP_INITIAL, region.size - HEAP_INITIAL)
    /\ IF region.start = Null
         THEN UNCHANGED <<placement, objects, g_kernel_heap>>
         ELSE /\ Place(Aligned(placement), HEAP)
              /\ g_kernel_heap' = region.start
    /\ step' = "done"
    /\ UNCHANGED <<image, info, entry, largest, pool>>

\* kalloc, kmalloc: with no heap, the placement allocator serves the request
\* and kfree does nothing.  (With a heap the request is KernelHeap's.)
Kalloc(size) ==
    /\ step = "done"
    /\ g_kernel_heap = Null
    /\ Cardinality(objects) < MaxObjects
    /\ Place(Aligned(placement), size)
    /\ UNCHANGED <<image, info, step, entry, largest, pool, region, g_kernel_heap>>

Next ==
    \/ ScanEntry \/ ScanDone
    \/ InitPhysical \/ InitVirtual \/ InitHeap
    \/ \E size \in Requests : Kalloc(size)

\* The boot code runs on its own, with nothing to wait for.
Boot == ScanEntry \/ ScanDone \/ InitPhysical \/ InitVirtual \/ InitHeap

Spec == Init /\ [][Next]_vars /\ WF_vars(Boot)

-----------------------------------------------------------------------------
ExtentType == [start : Nat, size : Nat]

TypeOK ==
    /\ step \in {"scan", "physical", "virtual", "heap", "done"}
    /\ entry \in Nat \ {0}
    /\ {largest, pool, region} \cup objects \subseteq ExtentType
    /\ {image, placement} \subseteq Nat
    /\ g_kernel_heap \in Nat

Meets(e, f) == e.size > 0 /\ f.size > 0 /\ e.start < EndOf(f) /\ f.start < EndOf(e)

\* The RAM the boot loader reports, by the byte.
Ram ==
    IF info.kind = "mmap"
      THEN {Extent(info.entries[i].addr, info.entries[i].len) :
              i \in {j \in DOMAIN info.entries : info.entries[j].available}}
    ELSE {Extent(UPPER_START, info.upper)}

AboveKernel(r) == IF r.start > KERNEL_TOP THEN r.start ELSE KERNEL_TOP

\* The basic information is only good for a pool when the upper memory reaches
\* KERNEL_TOP, or the size wraps, and fits in 32 bits, or it is cut off.
InfoInRange ==
    info.kind = "basic" => KERNEL_TOP - UPPER_START <= info.upper /\ info.upper < WORD32

\* The memory given to the physical memory manager is RAM, lies above the
\* kernel, and no piece of a single entry above the kernel is larger: whatever
\* the number and the order of the entries, and wherever KERNEL_TOP cuts them
\* (memory_manager.cpp:29-77).
PoolIsLargestRam ==
    pool.size > 0 /\ InfoInRange =>
        /\ pool.start >= KERNEL_TOP
        /\ \E r \in Ram : r.start <= pool.start /\ EndOf(pool) <= EndOf(r)
        /\ \A r \in Ram : EndOf(r) <= AboveKernel(r) + pool.size

\* The architecture object runs on past the next page boundary, where the next
\* aligned object goes.
Overruns == ALIGN_UP(image + IARCH) < image + AMD64

\* q takes bytes of the architecture object that were not reserved for it.
TakesSpilled(q, o) == Overruns /\ o = Architecture /\ image + IARCH <= q.start

\* Two objects placed by the kernel share a byte only when one of them is the
\* architecture object, placed in a reservation too small for it (archs.hpp:28),
\* and then only past that reservation; no other object runs into another
\* (allocators.cpp:9-26, physical.cpp:94, virtual.cpp:11, heap.cpp:447).
ObjectsDisjoint ==
    \A o, q \in objects : o # q /\ Meets(o, q) => TakesSpilled(o, q) \/ TakesSpilled(q, o)

\* The kernel and everything it places stay in the first 8 MB, clear of the
\* memory given away (memory_manager.cpp:35).
PlacementBelowPool ==
    \A o \in objects : ~ Meets(o, pool)

\* "Not enough free memory to initialize managers" (memory_manager.cpp:82): when
\* they are initialized, some piece of RAM above the kernel has 4 MB.
ManagersNeedMemory ==
    pool.size > 0 => \E r \in Ram : EndOf(r) >= AboveKernel(r) + MIN_POOL

\* "heap.initialize() - Create kernel heap", the last step of initialization
\* (README.md:120 of kernel/memory): memory that is up has a heap.
HeapCreated ==
    step = "done" /\ pool.size > 0 => g_kernel_heap # Null

\* Whatever the boot loader passes, the boot code comes to its end.
BootEnds == <>(step = "done")

=============================================================================
