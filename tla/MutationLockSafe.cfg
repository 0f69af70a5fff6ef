SPECIFICATION RetrySpec
CONSTANTS
    Process = {p1, p2, p3}
    None = None
INVARIANTS
    TypeOK
    MutualExclusion
    OneReclaimer
PROPERTIES
    ImplementsMutex
    LiveLockKept
    StaleLockReclaimed
CHECK_DEADLOCK FALSE
