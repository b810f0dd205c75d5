SPECIFICATION Spec
CONSTANTS
    FRAME_SIZE = 2
    WORD = 64
    VADDR_SIZE = 10
    Sizes = {1, 4, 63}
    MaxNodes = 3
INVARIANTS
    TypeOK
    ExclusiveOwnership
    Accounted
    PageAligned
PROPERTY
    AbstractSpec
CHECK_DEADLOCK FALSE
