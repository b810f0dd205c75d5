SPECIFICATION Spec
CONSTANTS
    FRAME_SIZE = 16
    HDR = 4
    SLACK = 2
    POINTER = 1
    WORD = 160
    INITIAL = 40
    ARENA <- MCArena
    HeapStart = 48
    FrameSupply = {2, 5}
    Sizes = {1, 10}
    Arrays <- MCArrays
    Alignments = {1}
    MaxLive = 3
    MaxShrinks = 1
INVARIANT
    AlignedFits
CHECK_DEADLOCK FALSE
