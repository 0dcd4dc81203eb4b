SPECIFICATION ParseSpec
CONSTANTS
    Text <- MCText
    Bytes <- MCBytes
    Surrogate <- MCSurrogate
    Trees <- MCTrees
    U64Max = 31
    MaxMetadata = 1
    MaxTensors = 3
    MaxRank = 2
    MaxName = 2
    Bits <- MCBits
    RankOf <- MCRankOf
    PayloadSize = {2}
INVARIANTS
    ReportsFirst
    ManifestExact
    ParseNeverEscapes
PROPERTY ImplementsHeaderReport
