SPECIFICATION LiveSpec
CONSTANTS
    Threads = {t1, t2}
    Intervals = {1, 2}
    FallbackDelay = 2
    MaxRefresh = 1
    MaxBackoff = 3
    FailureCap = 1
    AgeCap = 4
INVARIANTS RescheduleTakesEffect AgeBounded
PROPERTIES StopEndsRun RoundsGoOn
CHECK_DEADLOCK FALSE
