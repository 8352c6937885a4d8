SPECIFICATION FairSpec
CONSTANTS
    KEY_SIZE = 24
    IV_SIZE = 8
    MBLOCK_SIZE = 112
    BUFFER_SIZE = 2
    NR_ITERATIONS = 4
    OUTPUT_SIZE = 316
    FrameBytes <- MCFrameBytes
INVARIANTS
    AssertionsHold
    ChecksEveryFrame
PROPERTIES
    Completes
CHECK_DEADLOCK FALSE
