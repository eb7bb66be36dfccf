SPECIFICATION Spec
CONSTANTS
    Req = {r1, r2}
    NoReq = NoReq
    Priorities = {0, 1}
    Lockless = TRUE
    SortMethod = "PARTIAL"
    SleepMode = "SLEEP"
    SleepTimes = {"ZERO"}
    Controls = {"stop", "destroy"}
    MaxRounds = 2
SYMMETRY ReqSymmetry
INVARIANT
    OwnedAndSettled
PROPERTY
    NoOvertaking
