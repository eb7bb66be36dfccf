SPECIFICATION Spec
CONSTANTS
    r1 = r1
    r2 = r2
    a1 = a1
    w1 = w1
    Resource = {r1, r2}
    Raw = {a1, a2}
    Worker = {w1}
    Batch <- OneBatch
    Imports <- BothImportOne
    Runtime <- FirstRefersToSecond
    None = None
    Empty = Empty
    MaxEdits = 2
    MaxFaults = 1
INVARIANTS
    TypeOK
    WaitComplete
    CookedAlone
    UpToDate
PROPERTY
    RunEnds
\* The program may be off for good; RunEnds says that it does not stop before.
CHECK_DEADLOCK FALSE
