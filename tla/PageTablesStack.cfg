CONSTANTS
    RADIX = 4
    PAGE_SIZE = 8
    STACK_TOP = 83
    STACK_SIZE = 16
    PCI_SPAN = 2
    Devices = {804, 816}
    HeapPages = {5}
    UserPages = {5, 20}
    POOL = 30
    MaxPages = 15
    MaxFrames = 3

SPECIFICATION Spec

INVARIANTS
    StackReachesTop

CHECK_DEADLOCK FALSE
