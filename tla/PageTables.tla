------------------------------ MODULE PageTables ------------------------------
(***************************************************************************)
(* The four-level page tables: arch/amd64/memory/paging.cpp, with the      *)
(* tables boot.S and map_kernel_memory leave.                              *)
(*                                                                         *)
(* Tables take their memory from __placement, one page each, and never     *)
(* give it back: `mem` is the sequence of the pages placed, and the        *)
(* number of a physical page is its position.  A page holds RADIX entries; *)
(* an entry is the number of a page and two flags, present and user.       *)
(* Nothing loads CR3 after booting, so that the current directory is       *)
(* always BOOT.  What a processor remembers of the tables (its TLB) is not *)
(* part of the model.                                                      *)
(*                                                                         *)
(* The clients are the heap of the kernel, which maps pages in the current *)
(* directory, and the heaps and stacks of processes, which map pages for   *)
(* the user in the directory of the process.  Both map frames fresh from   *)
(* the physical memory manager, which never gets one back.                 *)
(***************************************************************************)
EXTENDS Naturals, Sequences

CONSTANTS
    RADIX,        \* 512, the entries of a table
    PAGE_SIZE,    \* 4096, the bytes of a page
    STACK_TOP,    \* USER_STACK_TOP, an address
    STACK_SIZE,   \* USER_STACK_SIZE, in bytes
    PCI_SPAN,     \* pages that mapio tells apart: 1 MB
    Devices,      \* addresses of device registers, as mapio gets them
    HeapPages,    \* virtual pages the heap of the kernel maps
    UserPages,    \* virtual pages a process asks for
    POOL,         \* physical page of the first frame of the pool
    MaxPages,     \* bound: pages placed
    MaxFrames     \* bound: frames taken from the pool

VARIABLES
    mem,    \* the pages placed, tables and stack pages alike
    dirs,   \* the page directories
    taken   \* number of frames taken from the pool

vars == <<mem, dirs, taken>>

BOOT == 1  \* the page CR3 points to

Index == 0 .. (RADIX - 1)
PDPT_SPAN == RADIX * RADIX          \* pages that an entry of a PDPT maps
PML4_SPAN == RADIX * RADIX * RADIX  \* pages that an entry of a PML4 maps
PTE(v) == v % RADIX
PDE(v) == (v \div RADIX) % RADIX
PDPT(v) == (v \div PDPT_SPAN) % RADIX
PML4(v) == (v \div PML4_SPAN) % RADIX

KERNEL == RADIX - 1  \* the entry of a directory that maps the kernel
KVIRTUAL == KERNEL * PML4_SPAN + (RADIX - 2) * PDPT_SPAN
PCI_VIRTUAL == KVIRTUAL + PDPT_SPAN

Window == 0 .. (PDPT_SPAN - 1)  \* the physical pages mapped from KVIRTUAL on
DevicePage(a) == PCI_VIRTUAL + ((a \div PAGE_SIZE) % PCI_SPAN)
StackPages == STACK_SIZE \div PAGE_SIZE
StackPage(i) == (STACK_TOP - STACK_SIZE) \div PAGE_SIZE + i

\* The virtual pages that are asked for.
Pages ==
    HeapPages \cup UserPages \cup {StackPage(i) : i \in 0 .. (StackPages - 1)}
        \cup {DevicePage(a) : a \in Devices}

KernelPages == {v \in Pages : v >= KERNEL * PML4_SPAN}

ASSUME PageTablesAssumption ==
    /\ RADIX \in Nat /\ RADIX > 2 /\ PAGE_SIZE \in Nat \ {0} /\ PAGE_SIZE % 8 = 0
    /\ STACK_TOP \in Nat /\ STACK_SIZE \in PAGE_SIZE .. STACK_TOP
    /\ STACK_SIZE % PAGE_SIZE = 0
    /\ PCI_SPAN \in 1 .. PDPT_SPAN
    /\ Devices \subseteq Nat /\ POOL \in Nat /\ MaxPages \in (RADIX + 3) .. (POOL - 1)
    /\ MaxFrames \in Nat /\ \A a \in Devices : a \div PAGE_SIZE >= POOL + MaxFrames
    /\ HeapPages \cup UserPages \subseteq 0 .. (KERNEL * PML4_SPAN - 1)
    /\ \A i \in 0 .. (StackPages - 1) : StackPage(i) < KERNEL * PML4_SPAN

-----------------------------------------------------------------------------
\* Entries and tables.

Entry == [present : BOOLEAN, to : Nat, user : BOOLEAN]

Leaf(to, user) == [present |-> TRUE, to |-> to, user |-> user]
Cleared(to) == [present |-> FALSE, to |-> to, user |-> FALSE]

\* A number taken for an entry: the flags are its bits 0 and 2.
Raw(n) == [present |-> n % 2 = 1, to |-> n \div PAGE_SIZE, user |-> (n \div 4) % 2 = 1]
Zeroed == [i \in Index |-> Cleared(0)]

\* A slip of Directory: directories are made for the kernel alone.
DirectoryForKernel(to, user) == Leaf(to, FALSE)

\* dir_flags: the entry for a table, in the table above it.
Directory(to, user) == Leaf(to, user)

\* What boot.S and map_kernel_memory leave: one table for each RADIX pages of
\* the window, and the mapping of the first pages at 0 taken out again.
BootTables ==
    LET pml4 == [Zeroed EXCEPT ![KERNEL] = Leaf(2, FALSE)]
        pdpt == [Zeroed EXCEPT ![RADIX - 2] = Leaf(3, FALSE)]
        pde  == [i \in Index |-> Leaf(4 + i, FALSE)]
        ptes == [t \in 1 .. RADIX |-> [i \in Index |-> Leaf((t - 1) * RADIX + i, TRUE)]]
    IN  <<pml4, pdpt, pde>> \o ptes

Init ==
    /\ mem = BootTables
    /\ dirs = {BOOT}
    /\ taken = 0

-----------------------------------------------------------------------------
\* get_page.

\* A slip of Ensure: a table is made whether there is one or not.
EnsureAnew(m, table, i, user) ==
    [Append(m, Zeroed) EXCEPT ![table][i] = Directory(Len(m) + 1, user)]

\* Entry i of a table leads to a table, an empty one if it led to none.
Ensure(m, table, i, user) ==
    IF m[table][i].present THEN m
    ELSE [Append(m, Zeroed) EXCEPT ![table][i] = Directory(Len(m) + 1, user)]

GetPage(m, dir, v, user) ==
    LET m4   == Ensure(m, dir, PML4(v), user)
        pdpt == m4[dir][PML4(v)].to
        m3   == Ensure(m4, pdpt, PDPT(v), user)
        pde  == m3[pdpt][PDPT(v)].to
        m2   == Ensure(m3, pde, PDE(v), user)
    IN  [mem |-> m2, table |-> m2[pde][PDE(v)].to]

\* The tables on the way to a page, then the entry of the page.
PutPage(m, dir, v, entry, user) ==
    LET page == GetPage(m, dir, v, user)
    IN  [page.mem EXCEPT ![page.table][PTE(v)] = entry]

\* map.
MapPage(m, dir, v, to, user) == PutPage(m, dir, v, Leaf(to, user), user)

\* What a step leaves in memory, as long as there is memory to place.
Becomes(m) ==
    /\ Len(m) <= MaxPages
    /\ mem' = m

TakeFrame ==
    /\ taken < MaxFrames
    /\ taken' = taken + 1

KernelMap(v) ==
    /\ TakeFrame
    /\ Becomes(MapPage(mem, BOOT, v, POOL + taken, FALSE))
    /\ UNCHANGED dirs

UserMap(dir, v) ==
    /\ TakeFrame
    /\ Becomes(MapPage(mem, dir, v, POOL + taken, TRUE))
    /\ UNCHANGED dirs

\* The registers of a device.  The flags are added to an address that mapio does
\* not cut to a page, and two devices PCI_SPAN apart share a virtual page.
MapIO(a) ==
    /\ Becomes(PutPage(mem, BOOT, DevicePage(a), Raw(a + 3), FALSE))
    /\ UNCHANGED <<dirs, taken>>

\* unmap: nothing happens unless all four levels are present; the address stays.
UnmapPage(m, dir, v) ==
    LET pdpt == m[dir][PML4(v)]
        pde  == m[pdpt.to][PDPT(v)]
        pte  == m[pde.to][PDE(v)]
        page == m[pte.to][PTE(v)]
    IN  IF pdpt.present /\ pde.present /\ pte.present /\ page.present
          THEN [m EXCEPT ![pte.to][PTE(v)] = Cleared(page.to)]
        ELSE m

Unmap(dir, v) ==
    /\ mem' = UnmapPage(mem, dir, v)
    /\ UNCHANGED <<dirs, taken>>

-----------------------------------------------------------------------------
\* Directories and stacks of processes.

\* A slip of NewDirectory: it starts as a copy of the current one.
NewDirectoryCopied == mem[BOOT]

\* A slip of NewDirectory: the kernel is not in it.
NewDirectoryEmpty == Zeroed

\* The entry for the kernel is that of the current directory.
NewDirectory == [Zeroed EXCEPT ![KERNEL] = mem[BOOT][KERNEL]]

\* A slip of PlacedPage: __placement after the call, not before it.
PlacedPageAfter(m) == Len(m) + 1

\* The physical address of the page placed last.
PlacedPage(m) == Len(m)

CreateDirectory ==
    /\ Becomes(Append(mem, NewDirectory))
    /\ dirs' = dirs \cup {PlacedPage(mem')}
    /\ UNCHANGED taken

\* A slip of StackMapped: the page before the one placed is mapped.
StackMappedLate(dir) ==
    LET m[i \in 0 .. StackPages] ==
          IF i = 0 THEN mem
          ELSE MapPage(Append(m[i - 1], Zeroed), dir, StackPage(i - 1), Len(m[i - 1]), TRUE)
    IN  m[StackPages]

\* A slip of StackMapped: one page is placed for all of the stack.
StackMappedOnce(dir) ==
    LET m[i \in 0 .. StackPages] ==
          IF i = 0 THEN Append(mem, Zeroed)
          ELSE MapPage(m[i - 1], dir, StackPage(i - 1), Len(mem) + 1, TRUE)
    IN  m[StackPages]

\* For each page of the stack a page is placed, and mapped for the user.
StackMapped(dir) ==
    LET m[i \in 0 .. StackPages] ==
          IF i = 0 THEN mem
          ELSE LET placed == Append(m[i - 1], Zeroed)
               IN  MapPage(placed, dir, StackPage(i - 1), Len(placed), TRUE)
    IN  m[StackPages]

SetupStack(dir) ==
    /\ Becomes(StackMapped(dir))
    /\ UNCHANGED <<dirs, taken>>

Next ==
    \/ \E v \in HeapPages : KernelMap(v) \/ Unmap(BOOT, v)
    \/ \E a \in Devices : MapIO(a) \/ Unmap(BOOT, DevicePage(a))
    \/ CreateDirectory
    \/ \E dir \in dirs \ {BOOT} :
          \/ SetupStack(dir)
          \/ \E v \in UserPages : UserMap(dir, v) \/ Unmap(dir, v)

Spec == Init /\ [][Next]_vars

-----------------------------------------------------------------------------
\* The walk of the processor, which knows nothing of the macros above: level k
\* of an address is a digit of it, and a page is for the user if every level is.

Digit(v, k) ==
    LET weight == <<1, RADIX, RADIX * RADIX, RADIX * RADIX * RADIX>>
    IN  (v \div weight[k + 1]) % RADIX

Nowhere == Cleared(0)

Translate(m, dir, v) ==
    LET e3 == m[dir][Digit(v, 3)]
        e2 == m[e3.to][Digit(v, 2)]
        e1 == m[e2.to][Digit(v, 1)]
        e0 == m[e1.to][Digit(v, 0)]
    IN  IF e3.present /\ e2.present /\ e1.present /\ e0.present
          THEN Leaf(e0.to, e3.user /\ e2.user /\ e1.user /\ e0.user)
        ELSE Nowhere

\* The entries of some tables that are present, and what they lead to.
Slots(tables) ==
    {s \in (tables \cap 1 .. Len(mem)) \X Index : mem[s[1]][s[2]].present}
Targets(tables) == {mem[s[1]][s[2]].to : s \in Slots(tables)}

PDPTs == Targets(dirs)
PDEs == Targets(PDPTs)
PTEs == Targets(PDEs)
Tables == dirs \cup PDPTs \cup PDEs \cup PTEs

UserReaches(dir, v) == Translate(mem, dir, v).user

-----------------------------------------------------------------------------
\* Entries and pages are of the right type, and a directory is a page placed.
TypeOK ==
    /\ mem \in Seq([Index -> Entry])
    /\ Len(mem) <= MaxPages
    /\ BOOT \in dirs /\ dirs \subseteq 1 .. Len(mem)
    /\ taken \in 0 .. MaxFrames

\* get_page places a table only where there is none and links it in once: the
\* tables are pages placed, a table serves at one level only, and no two entries
\* lead to the same table, except that all directories share the kernel's.
TreeSound ==
    /\ Tables \subseteq 1 .. Len(mem)
    /\ dirs \cap PDPTs = {} /\ (dirs \cup PDPTs) \cap PDEs = {}
    /\ (dirs \cup PDPTs \cup PDEs) \cap PTEs = {}
    /\ \A s, t \in Slots(dirs \cup PDPTs \cup PDEs) :
          mem[s[1]][s[2]].to = mem[t[1]][t[2]].to =>
             s = t \/ (s[2] = KERNEL /\ {s[1], t[1]} \subseteq dirs)

\* The tables are written through the window at KVIRTUAL_ADDRESS (ADDRESS in
\* paging.cpp), so whatever is mapped, every directory maps the window one to
\* one, and the user does not reach it.
WindowIntact ==
    \A dir \in dirs, p \in Window : Translate(mem, dir, KVIRTUAL + p) = Leaf(p, FALSE)

\* No sequence of mappings lets the user of any directory reach a page table:
\* the frames, stacks and directories of processes are never tables.
TablesProtected ==
    \A dir \in dirs, v \in Pages :
        UserReaches(dir, v) => Translate(mem, dir, v).to \notin Tables

\* create_user_page_directory gives every process a map of its own: a page the
\* user of one directory reaches is reached in that directory only, and there
\* at one address.
Isolated ==
    LET reached == {s \in dirs \X Pages : UserReaches(s[1], s[2])} IN
    \A s, t \in reached :
        Translate(mem, s[1], s[2]).to = Translate(mem, t[1], t[2]).to => s = t

\* What map, mapio, unmap and setup_user_memory_layout are asked to do is what a
\* walk of the tables finds when they return, flags of all levels included: mapio
\* for an address at the start of a page, the stack from its lowest byte up to
\* the page of its top.  (Whether the processor walks the tables again is another
\* matter: map, mapio and unmap do not flush the page they have changed.)
TakesEffect ==
    [][ /\ \A v \in HeapPages :
              KernelMap(v) => Translate(mem', BOOT, v) = Leaf(POOL + taken, FALSE)
        /\ \A a \in Devices :
              MapIO(a) /\ a % PAGE_SIZE = 0 =>
                 Translate(mem', BOOT, DevicePage(a)) = Leaf(a \div PAGE_SIZE, FALSE)
        /\ \A dir \in dirs \ {BOOT}, v \in UserPages :
              UserMap(dir, v) => Translate(mem', dir, v) = Leaf(POOL + taken, TRUE)
        /\ \A dir \in dirs, v \in Pages :
              Unmap(dir, v) => Translate(mem', dir, v) = Nowhere
        /\ \A dir \in dirs \ {BOOT} :
              SetupStack(dir) => \A a \in (STACK_TOP - STACK_SIZE) .. (STACK_TOP - 1) :
                 a \div PAGE_SIZE < STACK_TOP \div PAGE_SIZE =>
                    Translate(mem', dir, a \div PAGE_SIZE).user
      ]_vars

\* USER_STACK_TOP is the "Top of user stack" (paging.cpp:20): a process that has
\* its stack can reach the byte below the top, which a push writes first.
StackReachesTop ==
    \A dir \in dirs \ {BOOT} :
        (\A i \in 0 .. (StackPages - 1) : UserReaches(dir, StackPage(i))) =>
            UserReaches(dir, (STACK_TOP - 1) \div PAGE_SIZE)

\* Every operation changes the pages it is asked to change in the directory it
\* is asked to change, and nothing any other directory sees, the kernel aside.
Map == INSTANCE PageMap WITH
    Pages <- Pages,
    Shared <- KernelPages,
    Together <- {{v} : v \in Pages} \cup {{StackPage(i) : i \in 0 .. (StackPages - 1)}},
    First <- BOOT,
    BootMap <- [v \in Pages |-> Translate(BootTables, BOOT, v)],
    Unmapped <- Nowhere,
    maps <- [dir \in dirs |-> [v \in Pages |-> Translate(mem, dir, v)]]

Implements == Map!PMSpec

=============================================================================
