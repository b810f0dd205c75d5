SPECIFICATION Spec
CONSTANTS
    FRAME_SIZE = 4
    WORD = 4096
    WORD32 = 2048
    KERNEL_TOP = 32
    UPPER_START = 4
    MIN_POOL = 16
    ImageEnds = {5, 6}
    IARCH = 1
    AMD64 = 3
    NODE = 1
    PHYSICAL = 1
    VIRT = 3
    HEAP = 5
    HEAP_INITIAL = 4
    VADDR_SIZE = 1024
    BootInfos <- MCLargeInfos
    Requests = {1}
    MaxObjects = 5
INVARIANT
    PlacementBelowPool
CHECK_DEADLOCK FALSE
