SPECIFICATION WalkSpec
CONSTANTS
    Text <- MCText
    Bytes <- MCBytes
    Surrogate <- MCSurrogate
    Trees <- MCTrees
    MaxItems = 1
    MaxName = 1
CHECK_DEADLOCK FALSE
INVARIANTS
    NothingMissed
    ReportsRightmost
PROPERTY OneValueAStep
