SPECIFICATION Spec
CONSTANTS
    MaxDocument = 12
    MaxDepth = 2
    MaxString = 2
    MaxTokens = 6
    MaxNumber = 2
    Unlimited = Unlimited
    StackRoom = {1, 2, 8}
    TextLength = {0, 1, 2, 3, 4, 5, 6, 7, 8, 9, 10, 11, 12, 13}
INVARIANTS
    Lockstep
    ParserBounded
    DepthInRange
    RefusalsJustified
    RoomSuffices
