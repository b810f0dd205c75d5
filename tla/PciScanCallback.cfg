CONSTANTS
    SLOTS = 2
    FUNCTIONS = 3
    Kinds <- MCBridges
SPECIFICATION ScanSpec
INVARIANT CallbackInvoked
CHECK_DEADLOCK FALSE
