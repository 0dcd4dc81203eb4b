SPECIFICATION Spec
CONSTANTS
    Name <- MCName
    Components <- MCComponents
    Shape <- MCShapes
    Rank = {2}
CHECK_DEADLOCK FALSE
INVARIANTS
    EvaluationNeverRefuses
    DecisionsRest
    PassMeansSound
    FailsClosed
