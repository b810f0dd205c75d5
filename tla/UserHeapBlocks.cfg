SPECIFICATION Spec
CONSTANTS
    FRAME_SIZE = 16
    HDR = 4
    SLACK = 2
    WORD32 = 512
    MAX_SINGLE_ALLOC = 256
    HEAP_START = 32
    HEAP_MAX = 112
    INITIAL = 48
    FrameSupply = {1, 4, 6}
    Sizes = {1, 17, 257}
    NewSizes = {1, 17}
    Arrays <- MCArrays
    Limits = {48, 96}
    MaxLive = 3
    MaxDrift = 16
INVARIANT
    BlocksCounted
CHECK_DEADLOCK FALSE
