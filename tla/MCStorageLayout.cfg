SPECIFICATION Spec
CONSTANTS
    U64Max = 31
    Bits <- LayoutBits
    Name = {0, 1, 2}
    Dtype = {"U8"}
    Shape <- LayoutShapes
    Offset = {0, 1, 2}
    PayloadSize = {0, 1, 2}
CHECK_DEADLOCK FALSE
INVARIANTS
    TypeOK
    AcceptsExactlyTilings
    DiagnosisTrue
    ManifestNeverRefuses
    WalkInv
PROPERTY ImplementsTiling
