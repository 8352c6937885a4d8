SPECIFICATION FairSpec
CONSTANTS
    DYNAMIC_MIN = 127
    DYNAMIC_MAX = 128
    J1939_IDLE_ADDR = 254
    LAST_ITERATION = 255
    GLOBAL_ADDR = 255
    FLASH_TIME = 0
    SIGNAL_TIME = 0
    NAME <- MCName
    NR_ITERATIONS = 3
    BusFrames <- MCBusFrames
    StackFrames <- MCStackFrames
    ReadLengths <- MCReadLengths
INVARIANTS
    TypeOK
    ActsFollowLog
PROPERTIES
    RunsComponents
    EndsClosed
CHECK_DEADLOCK FALSE
