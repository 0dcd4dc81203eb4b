SPECIFICATION AuditSpec
CONSTANTS
    Name <- MCName
    Components <- MCComponents
    Shape <- MCShapes
    Rank = {1}
    Others = {120}
    PathOf <- MCPathOf
CHECK_DEADLOCK FALSE
INVARIANTS
    AuditNeverRefuses
    RulesAnswered
    VerdictExact
