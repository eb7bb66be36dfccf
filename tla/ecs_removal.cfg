SPECIFICATION SpecAll
CONSTANTS
    Chunk = {c1, c2, c3, c4}
    NoChunk = NoChunk
    TransientVersion = 3
    Group = {g1, g2}
    NoGroup = NoGroup
    Archetype <- OneArchetype
    Capacity <- SmallChunks
    kSmallBinThreshold = 1
    LargeFactor = 1
    MaxBatch = 3
    MaxEntries = 4
SYMMETRY ChunkSymmetry
INVARIANT
    EntityViewRight
