SPECIFICATION FairSpec
CONSTANTS
    Threads = {t1, t2, t3}
    MaxReq = 2
    Window = 2
    MaxDelay = 1
    MaxTime = 14
    MaxCalls = 5
    LastCall = 4
CHECK_DEADLOCK FALSE
INVARIANT TypeOK
INVARIANT GrantsSpaced
INVARIANT SleepBounded
PROPERTY RefusedOnlyIfOvertaken
PROPERTY EveryCallGranted
