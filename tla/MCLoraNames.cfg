SPECIFICATION Spec
CONSTANTS
    Name <- MCNamesName
    Components <- MCNamesComponents
    Shape <- MCNamesShapes
CHECK_DEADLOCK FALSE
INVARIANT EveryTensorAccounted
PROPERTY NothingOverwritten
