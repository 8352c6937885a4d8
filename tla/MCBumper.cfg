SPECIFICATION FairSpec
CONSTANTS
    FLASH_TIME = 1
    SIGNAL_TIME = 2
    SpeedValues <- MCSpeedValues
    SignalValues <- MCSignalValues
INVARIANTS
    TypeOK
    LampsShowBrakes
    LampsInStep
PROPERTIES
    ImplementsBurst
    NotAvailableFreezes
    BurstEnds
    BrakesShow
    LeftBlinks
    TurnSignalReleases
CHECK_DEADLOCK FALSE
