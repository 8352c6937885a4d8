SPECIFICATION FairSpec
CONSTANTS
    Ecus = {e1, e2}
    DYNAMIC_MIN = 1
    DYNAMIC_MAX = 3
    J1939_IDLE_ADDR = 4
    LAST_ITERATION = 5
    GLOBAL_ADDR = 5
    NAME = 1
    Names <- MCNames
    MAX_FOREIGN = 1
INVARIANTS
    SharedAddressIsNoticed
PROPERTIES
    EcusClaimAddresses
    GoesQuiet
CHECK_DEADLOCK FALSE
