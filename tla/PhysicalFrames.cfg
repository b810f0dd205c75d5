SPECIFICATION Spec
CONSTANTS
    FRAME_SIZE = 4
    KBASE = 40
    KWORDS = 16
    Pools <- MCPools
INVARIANTS
    TypeOK
    ListSound
    FramesConserved
PROPERTY
    PoolSpec
CHECK_DEADLOCK FALSE
