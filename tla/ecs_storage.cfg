SPECIFICATION Spec
CONSTANTS
    Chunk = {c1, c2, c3, c4, c5}
    NoChunk = NoChunk
    TransientVersion = 3
    Group = {g1, g2}
    NoGroup = NoGroup
    Archetype <- OneArchetype
    Capacity <- SmallChunks
    kSmallBinThreshold = 1
    LargeFactor = 1
    MaxBatch = 3
    MaxEntries = 5
SYMMETRY ChunkSymmetry
INVARIANTS
    TypeOK
    ListIntact
    GroupCounts
    EntityViewRight
    VisitedOnce
