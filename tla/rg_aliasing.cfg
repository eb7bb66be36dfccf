SPECIFICATION Spec
CONSTANTS
    Phys = {p1, p2, p3}
    Imports = {}
    None = None
    Descs <- TextureDescs
    PassTypes = {"Render"}
    MaxResources = 3
    MaxPasses = 2
    RG_MAX_FRAME_IN_FLIGHT = 1
    MaxFrames = 1
CHECK_DEADLOCK FALSE
INVARIANT
    MemoryExclusive
