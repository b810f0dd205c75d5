SPECIFICATION Spec
CONSTANTS
    FRAME_SIZE = 16
    HDR = 4
    SLACK = 2
    POINTER = 1
    WORD = 160
    INITIAL = 40
    ARENA <- MCArena
    HeapStart = 48
    FrameSupply = {2, 5}
    Sizes = {1, 17}
    Arrays <- MCArrays
    Alignments = {1, 16}
    MaxLive = 3
    MaxShrinks = 1
INVARIANTS
    TypeOK
    Tiling
    UsedIsHeld
    StatisticsLaw
    CoalescedUpToShrinks
    NoFault
CHECK_DEADLOCK FALSE
