# Verification of CoronelOS

This directory holds TLA+ models of CoronelOS, a small 64-bit kernel, the TLC
runs that check them on small instances, and proofs checked by TLAPS. It
covers how the kernel manages memory (frames, addresses, page tables, the two
heaps, the memory of a process, and bringing all of them up from the boot
loader's information), how it takes interrupts from the timer and the keyboard
while `kmain` runs, what that shows on the console, and its scan of the PCI buses.

All source paths below are relative to `src/src/kernel/`.

## 1. Inventory

The kernel runs on one processor. Its only concurrency is with interrupt
handlers, which are enabled early in `kmain` and share the console with it.
Those it installs (timer, keyboard) do not allocate memory. What is hard about
memory is therefore not interleaving but long sequences of calls on linked
structures that live in the memory they manage, failures half way, and
arithmetic at the edges of the types; what is hard about interrupts is the order
in which things are set up, acknowledged and read.

| Component | State it keeps | Operations | What makes it correct |
| --- | --- | --- | --- |
| Placement allocator (`memory/allocators.cpp`) | `__placement`, the next free byte after the kernel image | `placement_kalloc`, `kfree_block`, `kalloc`, `kfree` | objects do not overlap, and stay clear of the memory given away |
| Physical memory manager (`memory/physical.cpp`) | a stack of free frames, linked through nodes at `__placement` | `setup`, `alloc`, `alloc(blocks)`, `free` | a frame is free or held, once; the list survives whatever else is placed |
| Virtual address manager (`memory/virtual.cpp`, `libs/ilist.hpp`) | a list of free regions that only grows | `alloc`, `free` | no address is granted twice, none is lost |
| Kernel heap (`memory/heap.cpp`) | a doubly linked list of blocks in mapped regions, statistics | `malloc`, `free`, `realloc`, `calloc`, `aligned_alloc`, `validate_heap` | blocks tile the regions, a used block belongs to one client, statistics mean something |
| User heap (`memory/user_allocator.cpp`) | the same list in one extent of a process, 32-bit counters | the same but `aligned_alloc`, `set_heap_limit`, release at exit | the same, and exactly the pages of the heap are mapped |
| Process memory, system calls (same file) | heap, stack and layout of a process | `setup_stack`, `validate_user_pointer`, `cleanup_all` | the pages of a process are its own |
| Bringing memory up (`memory/memory_manager.cpp`, `init_kernel_heap`) | the global managers | `initialize_memory` | the pool is RAM above the kernel; in the end there is a heap |
| Page tables (`arch/amd64/memory/`) | four-level tables, the TLB | `map`, `unmap`, `mapio`, new directories | an address translates to what was mapped last, and for the user only if so mapped |
| Interrupts (`arch/amd64/bootstrap/`) | descriptor tables, controllers, handlers | `idt_setup`, `irq_remap`, `interrupt_handler` | each interrupt reaches its handler and is acknowledged |
| Timer, keyboard (`drivers/peripherals/`) | tick count, shift state | the two handlers | a code whose request finds the handler is read, characters match the keys |
| Console (`arch/amd64/video/`) | cursor, colour, video memory | `printc`, `clear`, `scroll_down` | the cursor stays on the screen, which shows what was printed |
| PCI scan (`drivers/bus/pci.cpp`) | none | `scan_hardware` | each function is visited once, bridges are followed, and the scan ends |
| C++ runtime (`appendix/`, `libs/new.cpp`) | table of exit functions, guards | `__cxa_atexit` | |
| Boot code, small libraries, tasks | | | |

How they interact: `initialize_memory` places the physical and virtual
managers at `__placement`, and the physical manager places its list nodes
there, one for each frame. `init_kernel_heap` takes a region from the virtual
manager. A heap takes frames from the physical manager and maps them with
`paging::map`, which takes tables from `__placement`. `kalloc` uses the kernel
heap when there is one and `__placement` otherwise. Nothing in the kernel ever
gives a frame back, except a frame just taken whose mapping failed, and mapping
cannot fail because `placement_kalloc` never returns null. `kmain` makes the
architecture object, the first to be placed at `__placement`, whose constructor
fills the interrupt table and enables interrupts; it prints, brings memory up, scans the PCI buses, adds the timer and
the keyboard, and returns to a loop of `hlt`. From then on the kernel only runs
handlers.

## 2. Modules

| Module | Models | Extends or instantiates |
| --- | --- | --- |
| `FramePool` | abstract: frames are handed out one at a time and come back | |
| `PhysicalFrames` | physical memory manager and its nodes in memory | `FramePool` (refinement) |
| `AddressSpace` | abstract: addresses are free, held or lost | |
| `VirtualSpace` | virtual address manager | `AddressSpace` (refinement) |
| `BlockList` | the block list both heaps share: split, join, search | |
| `KernelHeap` | `memory::heap` | `BlockList` |
| `UserHeap` | `memory::user_allocator` | `BlockList` |
| `PageMap` | abstract: directories map pages, and share the kernel's | |
| `PageTables` | four-level page tables, directories and stacks of processes | `PageMap` (refinement) |
| `BootMemory` | `initialize_memory`, `init_kernel_heap`, `kalloc` | |
| `ProcessMemory` | `memory::process_memory`: a heap and a stack over one supply of frames | `UserHeap` |
| `Console` | the text screen: `printc`, wrapping, scrolling, `clear` | |
| `Keyboard` | what a scan code does to shift state and console | `Console` |
| `Interrupts` | `kmain`, `interrupt_handler`, controllers and devices | `Keyboard` |
| `PciScan` | `bus::pci::scan_hardware` | |
| `MC...` | constants for TLC | the module they are named after |
| `MCStartup` | what `kmain` does once: memory, then the PCI scan | `MCBootMemory`, `MCPciScan` |
| `BlockListProofs` | lemmas about `BlockList`, for both heaps | `BlockList`, `TLAPS` |
| `BootProofs` | theorems (section 4) about what runs once, at boot | `BootMemory`, `PciScan`, `TLAPS` |
| `...Proofs` | theorems (section 4) | the module they are named after; those of the heaps also `BlockListProofs` |

Operators keep the names of the functions they model (`Setup`, `Alloc`,
`malloc`, `realloc`, `expand_heap` as `Expand`, `coalesce_block` as `Coalesce`).
An operator next to another one that it is called "a slip of" is not used by any
specification: it is the change a plausible mistake in the code would make, kept
to show that a property notices.

### PhysicalFrames

Kernel memory from `__placement` on is modelled word by word (`mem`), and a
node is the two words `[address, previous]` that `struct frame` is, so that
memory handed out twice shows. `owners` counts the clients of each frame and
`nodes` is a history variable: the nodes pushed and not popped. `Setup` does
the whole loop of `physical::setup`; `Alloc` pops, `Free` pushes a new node or
rejects an address that is not aligned or is past the end. Clients free
only what they hold: `physical::free` does not check it, and no caller in the
repository frees anything else.

`alloc(blocks)` is left out: it has no caller, and the source calls it broken
(`physical.cpp:44`).

### VirtualSpace

The list as a sequence. A region of size 0 stays in the list, as in the code.
`Alloc` is first fit; `Free` merges with the first region that touches the freed
one, at its lower or its upper end, and in the second case looks for a
region that follows, or appends a node. `held` are the regions of the clients.
A region granted at address 0 is in `lost`, because every caller reads
null as a failure. Sizes near 2^64 wrap to zero when they are rounded, and are
among the sizes asked for.

### BlockList, KernelHeap, UserHeap

A heap is a record: `blocks`, the addresses in list order, and `hdr`, the
headers in memory. A header that leaves the list stays in `hdr` until data
covers it, because a second `free` may still read it (`freeAgain`). `BlockList`
splits and joins; each heap adds its statistics. The `size` of a block, its
`is_free` and its `prev` are as in the code; `next` is the order of `blocks`,
and that `prev` agrees with it is a property. Magic numbers are left out:
they agree with `is_free` in every header that is intact, and the models free
only through intact headers.

`KernelHeap` leaves open where the virtual manager grants the regions of an
expansion: anywhere in `ARENA` that is not granted to the heap yet. Failing to
map a region uses up the frames that are left, because `map_pages` unmaps but
does not free. It starts from a heap that exists, although the kernel never
gets one (`boot_heap` below): the region is the one `init_kernel_heap` would
get from a space that does not start at 0. `aligned_alloc` pins its block: the
pointer it returns cannot be freed. `pinned` keeps that pointer next to the one
`malloc` returned: the code rounds up to a page whatever the alignment, and
`UsedIsHeld` says how far past the block what was asked for can then end. Sizes so close to 2^64 that rounding wraps
to zero are not among the sizes asked of it.

`UserHeap` is one extent, from `HEAP_START` to `heap_current_`, and tracks
the pages mapped in the directory of the process. Other clients of the
physical memory manager may take frames at any time. `drift` and `grown` are
history variables for the law of the counters. `validate_heap` is the function
without the magic numbers.

### ProcessMemory

`ProcessSpec` is the specification of `UserHeap` with `setup_stack` added: both
take frames of one supply, so that either may find that the other took the last.
`setup_stack` is the whole loop, up from the bottom of the stack, and keeps what
it mapped when it fails; `ready` is what it returned. `validate_user_pointer` is
the function as it is, modulo `WORD64`; it changes nothing, and
`PointersChecked` calls it for everything the process was given.

### PageTables

`mem` is the sequence of the pages placed, tables and stack pages alike, so that
a page used for two purposes shows; `dirs` are the directories; `taken` counts
the frames taken from the pool. `Ensure` is one level of `get_page`, `MapPage`
is `map` with the flags its callers use (3 for the kernel, 7 for the user), and
`UnmapPage` clears the flags and keeps the address. Both flags words make a page
writable, so that this bit is left out. `MapIO` is `mapio`: it adds 3 to a byte
address it has not cut to a page, and `Raw` takes the sum for an entry, so that low bits
of the address become flags. The stack is given by addresses too: its top is not on
a page boundary, and `StackPages` and `StackPage` are the pages the loop maps. `SetupStack` is the whole
loop of `setup_user_memory_layout`. The first state is the one `boot.S` and
`map_kernel_memory` leave. `Translate` is the processor's page walk, written
without the macros of the code; every property is stated with it.

The clients are those of the repository: the kernel heap maps low pages in the
current directory, because the virtual space starts at 0, and processes map
pages for the user in directories of their own. So no directory has tables of
both kinds, and a table made for the kernel is never in the way of a user's page.
CR3 is loaded once, by `boot.S`. What the processor keeps in its TLB is not
modelled, so the properties speak of a walk of the tables: `map`, `mapio` and
`unmap` do not flush the page they change.

### BootMemory

One action for each entry of the memory map, one for what follows the loop, and
one for each manager created. `kalloc` afterwards, for as long as there is no
heap. Extents are physical. The kernel image may end anywhere in `ImageEnds`, and
the first object is already there: `get_arch` (`archs.hpp:28`) reserves
`sizeof(iarch)` and constructs an `amd64`, which is larger. Its last bytes are
those of the next objects, and `ObjectsDisjoint` allows for them and nothing else.

### Console, Keyboard, Interrupts

`Console` is a record of cursor and cells, and `printc` is two halves,
`Store` and `Advance`, because an interrupt may fall between them. `Shown` is
what a text should look like, without a cursor: each character has a place on
endless paper, of which the screen shows the last lines. `Keyboard` has the two
tables by kinds of keys (letters, return, keys without a character, shift) and
`Process`, what the handler does with a code. `Typed` is the text a sequence of
codes stands for.

`Interrupts` puts them together. `Program` is the order of `kmain` and of the
constructor it runs first; each part is an action. Everything `kmain` prints is
the text `Welcome`, printed one character at a time. The timer's and the keyboard's
handlers are steps of their own, with interrupts disabled from the gate to `iretq`, so
that devices go on asking while a handler runs: `Acknowledge` is the one or two
end-of-interrupt commands, `Dispatch` the switch, `ReadStatus` and `ReadData` the
two reads of `on_keyboard`. A gate past the end of the table is not found.

The rest is the environment, modelled from how the code uses it: the two
controllers with their requests (`irr`) and lines in service (`isr`), nested
priorities and spurious requests; a keyboard controller with a buffer of one
byte, which asks again only after the byte was read; a user; devices without a
handler on the lines `Others`. A request raised before the keyboard's handler is
installed is acknowledged and dropped, and its byte stays where it is:
`missed` remembers that this happened.

### PciScan

The configuration space is an input, any function from slots to the kinds of
devices in `Kinds`. `level`, `host`, `slot` and `function` are the nested loops.
An absent function answers with all ones, so that an absent device 0:0 looks like
one with many functions. The type asked for is -1 in every call, which leaves the
branch for bridges without effect; `behind` is the bus a scan would find there.
`called` stays empty: no code calls the callback.

## 3. Runs

| Run | Question | Result |
| --- | --- | --- |
| `virtual` | Are addresses ever granted twice, lost or off a page boundary? Does the list implement `AddressSpace`? | no; yes |
| `physical` | Is a frame ever granted twice or lost? Does a push ever overwrite a node? Does the stack implement `FramePool`? | no; no; yes |
| `kernel_heap` | Do blocks tile the regions, does each used block have one client, which law do the statistics follow? | holds |
| `kernel_heap_validate` | Does `validate_heap` accept the heap's own states? | no: violated |
| `kernel_heap_aligned` | Does what `aligned_alloc` was asked for lie in its block? | no: violated |
| `user_heap` | The same for the heap of a process, next to its stack: are exactly its pages mapped, is all it was given mapped and accepted, and no length past its addresses? | holds |
| `user_huge_realloc` | Are single allocations limited to 2 GB? | no: violated |
| `page_tables` | Do operations change the pages they are asked to change, and no other? Does a user reach a page table or another process? Does every directory keep the kernel's window? | yes; no; yes |
| `startup` | Is the pool RAM above the kernel, and the largest piece? Do objects overlap, other than past the reservation of the first? Does booting end? Does the PCI scan after it find each function of the host controllers' buses, none twice and none that is not there, and end? | yes; no; yes; yes |
| `boot_heap` | Is there a heap when booting has ended? | no: violated |
| `boot_large_pool` | Do the kernel's objects stay clear of the pool? | no: violated |
| `interrupts` | Are the gates there when interrupts are enabled? Is every interrupt ended where it is in service? Is a key code stranded whose request comes once the driver is there, or the shift stuck? Does the screen show what was printed and typed? Is every request taken by the processor? | yes; yes; no; yes; yes |

What the violated runs show, each against a line of the repository:

* `boot_heap`: the virtual space starts at 0 (`virtual.cpp:5`), the first
  `alloc` returns 0, and `init_kernel_heap` takes it for a failure
  (`heap.cpp:441`). The kernel stays on the placement allocator.
* `boot_large_pool`: the nodes of a pool of about 1.2 GB reach 8 MB, where the
  pool begins: a node is 16 bytes, and the image, loaded at 1 MB, holds some 2.1 MB of
  tables. The mapping of the kernel covers 1 GB, so nothing faults.
* `kernel_heap_validate`: `split_block` adds a header to `total_free_` that it
  should take away, `coalesce_block` the reverse, and `malloc` counts the size
  asked for where `free` counts the size of the block. `StatisticsLaw` says what
  the two counters do add up to.
* `user_huge_realloc`: the new size is cut to 32 bits before it is compared.
* `kernel_heap_aligned`: `aligned_alloc` asks `malloc` for the size, the alignment
  and a pointer, and rounds the address up to a page: what was asked for ends past
  the block, over the next header.

Seven more configurations state what a comment or a document says of smaller parts
of the code. They are not among the runs, and TLC finds each violated within a few
steps:

| Configuration, module | Claim | What the code does |
| --- | --- | --- |
| `UserHeapValidate.cfg`, `MCUserHeap` | `ValidatesItself`: "Always call `validate_heap()` after changes" (`memory/README.md:255`) | `malloc` adds the size asked for to `total_allocated_` and `free` takes away the size of the block (`user_allocator.cpp:236`, `256`), so that `validate_heap` refuses a sound heap of a process too |
| `UserHeapBlocks.cfg`, `MCUserHeap` | `BlocksCounted`: "The heap allocators track: ... Number of active blocks" (`memory/README.md:154-156`) | `num_blocks_` counts splits less merges: neither the used blocks nor all blocks, and below zero |
| `PageTablesStack.cfg`, `PageTables` | `StackReachesTop`: "Top of user stack" (`paging.cpp:20`) | 0x7FFFFF0 is not on a page boundary, and the 16 pages are counted down from it (`paging.cpp:252`): the page of the top itself is never mapped |
| `BootLittleMemory.cfg`, `MCBootMemory` | `ManagersNeedMemory`: "Not enough free memory to initialize managers" (`memory_manager.cpp:82`) | upper memory that does not reach 8 MB makes the subtraction of `memory_manager.cpp:72` wrap, and the wrapped size passes the comparison with 4 MB |
| `InterruptsSyscall.cfg`, `MCInterrupts` | `SyscallGateThere`: "Add syscall interrupt (0x80) - user accessible" (`segments.cpp:285`) | gate 0x80 is written outside of a table of 64 gates (`segments.cpp:11`, `286`), and not found |
| `PciScanBridges.cfg`, `MCPciScan` | `SecondaryBusesScanned`: "If the device is a bridge, it scans the secondary bus" (`pci.cpp:126`) | the branch for bridges wants a type no caller asks for (`pci.cpp:167`) |
| `PciScanCallback.cfg`, `MCPciScan` | `CallbackInvoked`: "invokes the provided callback for each device found" (`pci.cpp:53-54`) | `scan_function` never calls it |

What `interrupts` leaves out of `ByteNotStranded` should be known as well: a key
pressed before `add_keyboard`. Its request finds no handler, nothing reads the
byte, and the keyboard is silent for good (`missed` in the model).

### Bounds

| Run | Bounds | Why they are enough |
| --- | --- | --- |
| `virtual` | 5 pages, at most 3 nodes, sizes of 1 byte, 2 pages and one that wraps | a hole between two regions, a merge at both ends, a region used up and one of size 0 in the list all occur |
| `physical` | 3 frames, 16 words of kernel memory, a ragged pool and an empty one | 16 words are 8 nodes: each frame is freed again while nodes of popped ones are below it |
| `kernel_heap` | pages of 16, headers of 4, 3 regions at most, 3 clients, one shrink | first region plus expansions, adjacent and not; blocks split, joined on both sides and too small to split; `WORD` 160 lets the statistics wrap; aligned addresses at the start of a page and past it, alignments below a page and of one |
| `user_heap` | 5 pages, 3 clients, at most 16 bytes of drift, stacks of 1 and 3 pages, 6 frames or fewer, 8 lengths | the heap grows by one or two pages, is refused at its maximum and for want of frames, with 0 and with 1 frame mapped before; stack and heap each run out because of the other; lengths end before, at and past the end of the addresses, and wrap |
| `page_tables` | tables of 4 entries, pages of 8 bytes, 15 pages, 3 frames, a stack of 2 pages whose top is within a third, two devices at one virtual page, one of them off a page boundary | two processes with tables of their own, one process with heap and stack, or the kernel's heap, a device and a process all fit, in any order; pages under the same and under different tables |
| `startup` | memory maps of up to 3 of 8 entries, 5 sizes of upper memory, 2 ends of the image; 3 buses of 2 slots with 3 functions, 7 kinds of devices in every slot; the inputs of one part next to a single input of the other, because they share no state | entries below, across and above 8 MB, reserved ones, ones off a frame boundary, too little memory, sizes that wrap; an architecture object that overruns the next page boundary and one that does not; devices with one function, several, a gap, function 0 missing or silent about the others, a bridge, host controllers with a gap |
| `interrupts` | a screen of 2 by 2, two characters printed, 3 key codes of a letter and both shift keys, one line of the slave | text wraps and scrolls; a code comes while another is in the buffer, while a handler runs and before the driver is there; timer, keyboard, slave and spurious requests are pending together; both shift keys overlap |

`MaxNodes`, `KWORDS`, `MaxLive`, `MaxShrinks`, `MaxDrift`, `MaxObjects`,
`MaxPages`, `MaxFrames` and `MaxCodes` are
the bounds that cut a behaviour off; every other guard is the code's. The runs
that turn deadlock checking off do so because a bounded system runs out of
moves, and because the real one may stop as well: no memory is left, or the scan
is done. `interrupts` checks for deadlock.

### Fairness

* `BootEnds` of `startup`: weak fairness of the boot steps taken together.
  They are one thread that waits for nothing and runs until it returns, so that a
  step it can take is taken. `kalloc` has no fairness: nobody has to call it.
* `ScanEnds` of `startup`: weak fairness of the scan, for the same reason.
* `RequestsServed` of `Interrupts`: weak fairness of the handler and of `kmain`,
  which the processor runs, and of the keyboard handing over a code it has; strong
  fairness of taking a request, because a spurious one may be taken in its place
  any number of times, though not for ever. The user, the timer and the other
  devices have no fairness. A timer that ticks faster than the handlers run would
  keep every other line waiting, so `owed` makes the next tick wait until what was
  pending at the last one has been taken: a tick is 10 ms, and a handler some
  hundred instructions.

## 4. Proofs

TLAPS proves the theorems below for every value of the constants that satisfies
the assumptions of the module, so for any number of frames, blocks, clients and
key codes, and tables of any size, where a run has a few. Each states a definition that a run checks
(`OnePrinterAtATime` and `CountersAlwaysDrift` apart), as `Spec => []P`, or `Spec => A` for a refinement `A`.

| Module | Theorem | States |
| --- | --- | --- |
| `VirtualSpaceProofs` | `TypeCorrect`, `Exclusive`, `AllAccounted`, `AlwaysPageAligned` | `TypeOK`, `ExclusiveOwnership`, `Accounted`, `PageAligned` |
| | `ImplementsAddressSpace` | the refinement `AbstractSpec` |
| `PhysicalFramesProofs` | `TypeCorrect`, `ListAlwaysSound`, `FramesAlwaysConserved` | `TypeOK`, `ListSound`, `FramesConserved` |
| | `ImplementsPool` | the refinement `PoolSpec` |
| `BootProofs` | `TypeCorrect`, `PoolAlwaysLargestRam`, `ObjectsAlwaysDisjoint` | `TypeOK`, `PoolIsLargestRam`, `ObjectsDisjoint` |
| | `ScanFindsHostBuses` | `FindsHostBuses` |
| `KernelHeapProofs` | `TypeCorrect`, `HeapAlwaysTiled`, `StatisticsAlwaysDrift`, `AlwaysCoalesced` | `TypeOK`, `Tiling`, `StatisticsLaw`, `CoalescedUpToShrinks` |
| | `NeverFaults`, `UsedAlwaysHeld` | `NoFault`, `UsedIsHeld`, if `RequestsFit` |
| `ProcessMemoryProofs` | `TypeCorrect`, `HeapAlwaysMapped`, `CountersAlwaysDrift` | `TypeOK`, `HeapIsMapped`, `CountersLaw` |
| | `UsedAlwaysHeld`, `PointersAlwaysChecked` | `UsedIsHeld`, `PointersChecked`, if `NewSizesFit` |
| `InterruptsProofs` | `TypeCorrect`, `GatesAlwaysReady`, `AlwaysAcknowledged`, `ByteNeverStranded`, `ShiftNeverStuck` | `TypeOK`, `GatesReady`, `Acknowledged`, `ByteNotStranded`, `NoStuckShift` |
| | `OnePrinterAtATime`, `ScreenAlwaysShowsText` | `OnePrinter`, `ScreenShowsText` |
| `PageTablesProofs` | `TypeOKHolds`, `TreeSoundHolds`, `WindowIntactHolds` | `TypeOK`, `TreeSound`, `WindowIntact` |
| | `TablesProtectedHolds`, `IsolatedHolds` | `TablesProtected`, `Isolated` |
| | `TakesEffectHolds` | the action property `TakesEffect` |
| | `ImplementsPageMap` | the refinement `Implements` |

So every safety property that a passing run checks is proved, and the three refinements.

### Assumptions

Every module with constants has one named `ASSUME`, which TLC evaluates in the
runs. It gives the constants their types; what goes beyond types is:

* `VirtualAssumption`: the space is smaller than the word.
* `PhysicalAssumption`: a pool lies below the (virtual) addresses the kernel
  places its nodes at.
* `BootAssumption`: upper memory starts below 8 MB, where the image ends at the
  latest, and the sizes of the objects are not 0. The boot loader's information is any
  sequence of entries, each of which ends within the word.
* `HeapAssumption`: a header is smaller than a page; the region the heap starts
  with and the addresses it can be granted end a page before the end of the word.
* `UserHeapAssumption`, `ProcessMemoryAssumption`: the heap's extent, begun on a
  page, is smaller than 2^32; `MAX_SINGLE_ALLOC`, rounded up with a header, does
  not wrap; guard page, heap, stack and end of the addresses come in this order.
* `InterruptsAssumption`: between 48 and 128 gates; the source has 64. `Welcome` is a text.
* `PageTablesAssumption`: a table has at least three entries; the pages placed end
  below the pool, and devices lie past it; a page is a multiple of 8 bytes, so that flags are below
  addresses, and a stack is of whole pages; the devices' addresses fit one entry of a
  PDPT; heaps, processes and stacks lie below the kernel's entry of the PML4.
* `PciAssumption`: there is a slot and a function.

Two theorems about each heap have a hypothesis of their own, because without it
they are false. `RequestsFit` says that no request to the kernel heap is so close
to 2^64 that rounding it, with a header and an alignment, wraps around;
`NewSizesFit` that no size asked of a process's `realloc` is within a page of 2^32
(`malloc` checks its sizes, `realloc` does not: `user_huge_realloc`). The constants
of the runs satisfy both. That the lists tile, that the pages mapped are right and
the law of the statistics need neither.

### The inductive invariants

*Virtual space.* `ExclusiveOwnership` is not inductive alone. `IInv` adds `TypeOK`,
and `NullSplit`: what is granted at address 0 is in `lost` and never in `held`, so
that a region that is freed is a region that was granted to a client.
The argument goes through the list. Taking the front of a region splits it in
two parts, and a part of a region that is disjoint from another is disjoint from
it (`DisjointPart`). Releasing a region makes one new region out of up to three
that touch (`ReleaseJoins`), and a region that is disjoint from each of them is
disjoint from their union (`DisjointJoin`); the lemmas `JoinedOneApart`,
`JoinedBothApart` and `AppendedApart` carry this over to the list, one for each
way in which `Free` changes it. `AllAccounted` needs no more than the type
invariant and the two facts that splitting and joining keep every address
(`AllocAccounts`, `FreeAccounts`); with the disjointness they give the refinement.

*Frames.* `ListSound` and `FramesConserved` need each other, and two facts more.
`Layout`: nodes and placement pointer are in kernel memory. `Fresh`: before `setup`
there is nothing. `ListSound` itself keeps the nodes below the placement pointer,
where a push writes, so that no push overwrites a node of the list.

*Booting.* `Best` relates the best extent so far to the entries of the map that
have been read; `Given` the pool to it afterwards; `BelowPlacement` keeps every
object below the placement pointer, which makes the next one disjoint from them all;
the architecture object alone may reach past it, by what its reservation is short of.
Without a memory map, `PoolIsLargestRam` only speaks of sizes of upper memory that reach
the kernel's top and fit 32 bits.

*The block list.* `BlockListProofs` proves once, for a list of any length, what the
two heaps share. `ListOK` is: no block is in the list twice, `prev` pointers are
right, no two blocks share a byte, and every header that says "used" is in the
list. Splitting, merging either way, appending, handing out and marking free
each keep it, keep the bytes covered (or add those appended), and keep the used
blocks (or add or remove one). `Held` says that allocations and used blocks correspond
one to one, `Fits` that each block is big enough; `Pairs`, the free blocks
whose free predecessor touches them, never grows but by a split.

*Kernel heap.* `Inv` is `ListOK` with the bytes covered equal to those of the
regions; `Law`, the law of the statistics as a congruence modulo the word; at most as
many `Pairs` as splits by `realloc`; and `Held` for plain and aligned allocations
together, with `Fits`, `Placed` (where an aligned address is in its block) and no fault
under `RequestsFit`. That a heap with no region
has no frame either makes `NoFault` inductive: a failed constructor has used up
the frames, and none comes back. `MallocServes` is the main lemma: whatever
`malloc` does (first fit, an expansion anywhere, a failure half way), the heap is
sound and the block it returns, if any, was nobody's.

*Process memory.* The same for one extent: the bytes covered are those from
`HEAP_START` to `heap_current_`, and the pages mapped are those of that extent. The
stack's part says that a stack the process was told of is mapped. `Law` is the law of
the counters: split, merge, append, hand out and give back each move the bytes in use,
the number of blocks and the two counters by what `LawMoved` wants (`OneBlockMore`: no
two used blocks share a byte, so one more counts by its size).

*Interrupts.* Four invariants, each on top of the one before: `StateOK` (types, and a
cursor on the screen), `Control` (which gates are there at each part of `kmain`, and
that a handler runs with interrupts disabled), `ServiceOK` (what is in service
while a handler has not acknowledged it), and for the keyboard `KeysOK`: when the shift
is on, a shift key was pressed and none released since among the codes read, and
a key whose last code sent is that of pressing it is down. `Turns`, for `OnePrinter`, says that `kmain` prints its last
character before the keyboard's handler is installed: nothing but this order keeps
the two from using the cursor together.

For the screen, `ScreenOK` says that the console is `Shown` of the text so far (the
characters `kmain` has printed, then what the codes read so far stand for) or, while
`kmain` is halfway through a character, that with the next one stored and the cursor not
yet moved. With it go what the step needs: how many characters are printed, that none is before the
part of `kmain` that prints, and that the driver's shift is the one the next code is
to be read with. That printing one more character turns `Shown` of a text into `Shown` of the
longer one is `ShownMore`, where wrapping and scrolling are dealt with.

*Page tables.* No conjunct of `TreeSound` is inductive, because a page is only known
to be a table by the way one walks to it. The invariant gives every page placed a
*level* (4 for a directory, down to 0 for a page of a stack) and every table an *owner*, the kernel
or a user. `Shaped` says that an entry that is present leads one level down, to
a page of the same owner that hangs from no other entry; directories share the
kernel's part and nothing else. `UserTargets` keeps what a user reaches out of the
tables, `Separate` two users apart, and `Intact` is the window. `get_page` links a
table that is empty, so that no walk changes; setting a leaf changes one
walk, because an address is its four digits (`Digit` is the processor's, the
macros of `paging.cpp` are shown to compute the same) and a table hangs from one entry.
The refinement follows from the same two facts.

*PCI scan.* What has been found is what is there before the place, in
lexicographic order, that the three nested loops have come to.

### Recursive functions

The stack of a process (`StackMapped`) and the text on the screen (`Placed`, `Typed`)
are recursive functions. What follows for every argument is proved by taking the
least counterexample of a set of numbers, which is not empty otherwise
(`NatSetInduction`): first that a function with the recursive equation exists
(`FollowsExists`, `Iterates`), then that each step of it keeps the invariant.

### Only model-checked

`BootEnds`, `ScanEnds` and `RequestsServed` are liveness under fairness, which the
prover does not handle. They, and the five violated runs, stay with TLC.

## 5. Not modelled, and the plan

Not modelled, and why:

* Exceptions: the handlers acknowledge and return to the instruction that
  failed. The segment descriptors of `gdt_setup`. The entry of system calls
  (`syscall.S`), which cannot be reached and calls nothing yet.
* The TLB: it is flushed for addresses other than the one that changed
  (`paging.cpp:156`) or not at all (`202`), and what a processor keeps of an old entry is not in the
  repository.
* Code without a caller: `physical::alloc(blocks)` and `kfree_block`, which only it
  calls, `virt::alloc(address, size)` and the copies of `virt`, `column()` and
  `line()` of the console, the branch for bridges of the PCI scan,
  `__cxa_finalize`, tasks.
* The contents of the keyboard's tables, beyond the kinds of keys; the chip that
  makes the ticks, and the count of them, which nobody reads.
* Boot code in assembly, the linker script, libraries of pure functions, and the
  wording of what is printed.

Left for later: a composition of the physical manager and the heaps over one placement
pointer, where page tables and list nodes share memory.
