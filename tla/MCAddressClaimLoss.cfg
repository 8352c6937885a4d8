SPECIFICATION Spec
CONSTANTS
    DYNAMIC_MIN = 2
    DYNAMIC_MAX = 4
    J1939_IDLE_ADDR = 6
    LAST_ITERATION = 7
    GLOBAL_ADDR = 7
    NAME = 1
    Names <- MCNames
PROPERTIES
    LossStartsOver
CHECK_DEADLOCK FALSE
