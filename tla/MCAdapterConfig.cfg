SPECIFICATION Spec
CONSTANTS
    Text <- MCText
    Bytes <- MCBytes
    Surrogate <- MCSurrogate
    Lower <- MCLower
    Iterations <- MCIterations
    Trees <- MCTrees
    MaxInteger = 16
    Unit = 2
    MaxFields = 5
    MaxItems = 2
    MaxName = 2
CHECK_DEADLOCK FALSE
INVARIANTS
    NeverEscapes
    IssuesPrecise
PROPERTY ImplementsConfigReport
