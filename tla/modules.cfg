SPECIFICATION FairSpec
CONSTANTS
    Module = {a, b, c}
    NoModule = NoModule
    DepLists <- ShortLists
    Static = {a}
    Loadable = {b, c}
    StackDepth = 3
INVARIANTS
    TypeOK
    GraphComplete
    DependenciesActive
PROPERTIES
    LoadedOnce
    AllUnloaded
    CallsReturn
