SPECIFICATION Spec
CONSTANTS
    BUFFER_SIZE = 2
    FLUSH_AT_RUNTIME = 1
    RX_MOD = 3
    MAX_FRAMES = 5
INVARIANTS
    TypeOK
    Decryptable
    FramesInOrder
    RxCountTellsFrames
    NothingLost
    BoundedLoss
    FreshIVs
    CompleteAfterClose
CHECK_DEADLOCK FALSE
