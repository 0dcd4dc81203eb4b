SPECIFICATION Spec
CONSTANTS
    Name <- MCName
    Components <- MCComponents
    Shape <- MCShapes
CHECK_DEADLOCK FALSE
INVARIANT InventoryNeverRefuses
PROPERTY ImplementsRelations
