SPECIFICATION Spec
CONSTANTS
    Blocks <- MCBlocks
    FIELD = 104
    SIZE = 112
INVARIANTS
    MatchesReference
    DetectsDamage
CHECK_DEADLOCK FALSE
