SPECIFICATION ProcessSpec
CONSTANTS
    FRAME_SIZE = 16
    HDR = 4
    SLACK = 2
    WORD32 = 512
    MAX_SINGLE_ALLOC = 256
    HEAP_START = 32
    HEAP_MAX = 112
    INITIAL = 48
    FrameSupply = {1, 4, 6}
    Sizes = {1, 17, 257}
    NewSizes = {1, 17}
    Arrays <- MCArrays
    Limits = {48, 96}
    MaxLive = 3
    MaxDrift = 16
    WORD64 = 1024
    USER_NULL_GUARD_SIZE = 16
    USER_END = 512
    STACK_TOP = 160
    StackSizes = {15, 40}
    Lengths = {0, 351, 352, 476, 864, 900, 1000, 1023}
INVARIANTS
    TypeOK
    HeapIsMapped
    UsedIsHeld
    PointersChecked
CHECK_DEADLOCK FALSE
