---------------------------- MODULE ProcessMemory ----------------------------
(***************************************************************************)
(* The memory of a process: class process_memory of                        *)
(* kernel/memory/user_allocator.cpp, which has the heap of the process     *)
(* (UserHeap), maps its stack with frames of the same pool, and decides    *)
(* whether a pointer from the process may be used.                         *)
(*                                                                         *)
(* setup_memory_layout records four numbers nobody reads, and is left out. *)
(***************************************************************************)
EXTENDS UserHeap

CONSTANTS
    WORD64,                \* 2^64: pointers are modulo WORD64
    USER_NULL_GUARD_SIZE,  \* the first address a process may use
    USER_END,              \* 0x0000800000000000, the end of its addresses
    STACK_TOP,             \* USER_STACK_TOP
    StackSizes,            \* sizes asked of setup_stack
    Lengths                \* lengths of buffers that a process claims to have

ASSUME ProcessMemoryAssumption ==
    /\ {WORD64, USER_NULL_GUARD_SIZE, USER_END, STACK_TOP} \subseteq Nat
    /\ USER_NULL_GUARD_SIZE <= HEAP_START /\ HEAP_MAX <= STACK_TOP
    /\ STACK_TOP < USER_END /\ USER_END < WORD64
    /\ STACK_TOP % FRAME_SIZE = 0
    /\ \A s \in StackSizes : s \in Nat /\ HEAP_MAX + ALIGN_UP(s) <= STACK_TOP
    /\ Lengths \subseteq 0 .. (WORD64 - 1)

VARIABLES
    stack_size_,
    stack,        \* pages mapped for the stack
    ready         \* what setup_stack returned last

processVars == <<vars, stack_size_, stack, ready>>

ProcessInit ==
    /\ Init
    /\ stack_size_ = 0 /\ stack = {} /\ ready = FALSE

\* As many pages of the stack as there are frames for.
Mapped(pages, frames) == Min({pages, frames})

\* setup_stack: from the bottom up, and what is mapped stays when the frames
\* run out.
setup_stack(size) ==
    LET bytes  == ALIGN_UP(size)
        pages  == bytes \div FRAME_SIZE
        mapped == Mapped(pages, heap.frames)
    IN  /\ ~ exited
        /\ stack_size_' = bytes
        /\ stack' = stack \cup PagesOf(STACK_TOP - bytes, mapped * FRAME_SIZE)
        /\ heap' = [heap EXCEPT !.frames = @ - mapped]
        /\ ready' = (mapped = pages)
        /\ UNCHANGED <<live, exited>>

ProcessNext ==
    \/ Next /\ UNCHANGED <<stack_size_, stack, ready>>
    \/ \E size \in StackSizes : setup_stack(size)

ProcessSpec == ProcessInit /\ [][ProcessNext]_processVars

\* A slip of validate_user_pointer: no check for overflow.
validate_no_overflow(addr, size) ==
    LET end_addr == (addr + size) % WORD64
    IN  addr >= USER_NULL_GUARD_SIZE /\ addr < USER_END /\ end_addr < USER_END

validate_user_pointer(addr, size) ==
    LET end_addr == (addr + size) % WORD64
    IN  /\ end_addr >= addr
        /\ addr >= USER_NULL_GUARD_SIZE
        /\ addr < USER_END /\ end_addr < USER_END

-----------------------------------------------------------------------------
\* What the process was given, blocks of the heap and the stack.
Given ==
    {[ptr |-> r.ptr, size |-> r.size] : r \in live}
        \cup (IF ready THEN {[ptr |-> STACK_TOP - stack_size_, size |-> stack_size_]} ELSE {})

\* While a process runs, every byte of its blocks and of a stack it was told is
\* there is mapped, whichever of heap and stack took the last frames; the kernel
\* accepts a pointer to all of it; and it refuses a length that would reach past
\* the end of the process's addresses, or around to the first of them
\* (user_allocator.cpp:401-465).
PointersChecked ==
    ~ exited =>
        \A g \in Given :
            /\ \A a \in g.ptr .. (g.ptr + g.size - 1) : a - (a % FRAME_SIZE) \in heap.pages \cup stack
            /\ validate_user_pointer(g.ptr, g.size)
            /\ \A size \in Lengths :
                 validate_user_pointer(g.ptr, size) => g.ptr + size <= USER_END

=============================================================================
