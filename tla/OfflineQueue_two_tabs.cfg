SPECIFICATION Spec
CONSTANTS
    Op = {o1, o2}
    Tab = {t1, t2}
    Persistent = {t1, t2}
    Capacity = 2
    EvictCount = 1
    MaxQueueSize = 1
    MaxRetries = 1
    MaxErrors = 0
    MaxDay = 0
INVARIANT NothingLost
\* Every tab may have been closed.
CHECK_DEADLOCK FALSE
