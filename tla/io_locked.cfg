SPECIFICATION Spec
CONSTANTS
    Req = {r1, r2}
    NoReq = NoReq
    Priorities = {0}
    Lockless = FALSE
    SortMethod = "STABLE"
    SleepMode = "COND_VAR"
    SleepTimes = {"FINITE"}
    Controls = {"set_sleep_time", "drain", "stop", "run", "destroy"}
    MaxRounds = 2
SYMMETRY ReqSymmetry
INVARIANTS
    TypeOK
    SingleOwner
    CallbackPerRequest
    ResultSettled
    TrueMeansCancelled
    StatusAccurate
PROPERTIES
    ImplementsAsyncIO
    NoOvertaking
