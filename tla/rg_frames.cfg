SPECIFICATION Spec
CONSTANTS
    Phys = {p1, p2, p3, p4}
    Imports = {}
    None = None
    Descs <- TextureDescs
    PassTypes = {"Render", "Copy"}
    MaxResources = 2
    MaxPasses = 2
    RG_MAX_FRAME_IN_FLIGHT = 2
    MaxFrames = 3
SYMMETRY PhysSymmetry
CHECK_DEADLOCK FALSE
INVARIANTS
    TypeOK
    PoolExclusive
    BarrierSources
    InFlightIntact
    ExecutorIdle
    NoLeak
    ViewsLive
