SPECIFICATION Spec
CONSTANTS
    Phys = {p1, p2, p3, p4}
    Imports = {b}
    None = None
    Descs <- AllDescs
    PassTypes = {"Render", "Present"}
    MaxResources = 3
    MaxPasses = 2
    RG_MAX_FRAME_IN_FLIGHT = 1
    MaxFrames = 1
SYMMETRY PhysSymmetry
CHECK_DEADLOCK FALSE
INVARIANTS
    BarrierSources
    AliasSourceReady
