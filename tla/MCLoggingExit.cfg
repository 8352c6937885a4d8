SPECIFICATION Spec
CONSTANTS
    BUFFER_SIZE = 2
    FLUSH_AT_RUNTIME = 1
    RX_MOD = 5
    MAX_FRAMES = 3
INVARIANTS
    AllLoggedOnExit
CHECK_DEADLOCK FALSE
