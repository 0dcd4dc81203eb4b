SPECIFICATION Spec
CONSTANTS
    U64Max = 127
    Bits <- SizesBits
    Name = {0}
    Dtype = {"F4", "F6_E2M3", "U8", "I16", "I64", "X"}
    Shape <- SizesShapes
    Offset = {0, 1, 8}
    PayloadSize = {8}
CHECK_DEADLOCK FALSE
INVARIANT SizeIsExact
