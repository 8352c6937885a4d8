SPECIFICATION Spec
CONSTANTS
    FLASH_TIME = 1
    SIGNAL_TIME = 2
    SpeedValues <- MCSpeedValues
    SignalValues <- MCSignalValues
PROPERTIES
    BurstStartsFromBrakesOff
CHECK_DEADLOCK FALSE
