CONSTANTS
    WIDTH = 2
    HEIGHT = 2
    GATES = 64
    Keys = {"letter", "lshift", "rshift"}
    Others = {8}
    MaxCodes = 3
    Welcome <- MCWelcome
SPECIFICATION Spec
INVARIANTS TypeOK GatesReady Acknowledged ByteNotStranded NoStuckShift ScreenShowsText
PROPERTY RequestsServed
