SPECIFICATION Spec
CONSTANTS
    Objects <- MCObjects
    FormatLimit = 3
    MaxHeaderBytes = 2
    MaxChanges = 2
CHECK_DEADLOCK FALSE
INVARIANTS
    ReadInv
    PlanNeverRefuses
    MismatchExplained
PROPERTY ImplementsInspection
