SPECIFICATION Spec
CONSTANTS
    Chunk = {c1}
    NoChunk = NoChunk
    TransientVersion = 3
    MaxBatch = 3
    MaxEntries = 4
INVARIANTS
    IdsPartitioned
    StaleDetected
