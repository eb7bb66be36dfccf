SPECIFICATION FairSpec
CONSTANTS
    Req = {r1, r2}
    NoReq = NoReq
    Priorities = {0}
    Lockless = FALSE
    SortMethod = "NEVER"
    SleepMode = "COND_VAR"
    SleepTimes = {"FINITE"}
    Controls = {"set_sleep_time", "drain", "stop", "run", "destroy"}
    MaxRounds = 1
PROPERTIES
    ServedWhileRunning
    DrainReturns
    DestroyCompletes
