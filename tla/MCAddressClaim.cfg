SPECIFICATION FairSpec
CONSTANTS
    DYNAMIC_MIN = 2
    DYNAMIC_MAX = 5
    J1939_IDLE_ADDR = 7
    LAST_ITERATION = 8
    GLOBAL_ADDR = 8
    NAME = 1
    Names <- MCNames
INVARIANTS
    TypeOK
    PoolExact
    SquatOnlyWhenExhausted
    ClaimMsgFresh
    StatusFromAnnounced
    NeverDefunct
PROPERTIES
    NeverMovesToContested
    BecomesOperational
    Settles
CHECK_DEADLOCK FALSE
