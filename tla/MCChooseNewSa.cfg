SPECIFICATION Spec
CONSTANTS
    DYNAMIC_MIN = 2
    DYNAMIC_MAX = 6
    J1939_IDLE_ADDR = 8
    LAST_ITERATION = 9
INVARIANTS
    TakesFirstAvailable
PROPERTIES
    Terminates
CHECK_DEADLOCK FALSE
