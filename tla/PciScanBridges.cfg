CONSTANTS
    SLOTS = 2
    FUNCTIONS = 3
    Kinds <- MCBridges
SPECIFICATION ScanSpec
INVARIANT SecondaryBusesScanned
CHECK_DEADLOCK FALSE
