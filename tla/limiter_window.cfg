SPECIFICATION Spec
CONSTANTS
    Threads = {t1, t2}
    MaxReq = 1
    Window = 2
    MaxDelay = 1
    MaxTime = 6
    MaxCalls = 3
    LastCall = 6
CHECK_DEADLOCK FALSE
INVARIANT WindowRespected
