SPECIFICATION Spec
CONSTANTS
    Op = {o1, o2}
    Tab = {t1, t2, t3}
    Persistent = {t1, t2}
    Capacity = 1
    EvictCount = 1
    MaxQueueSize = 1
    MaxRetries = 1
    MaxErrors = 1
    MaxDay = 1
INVARIANTS TypeOK GivenUpAfterRetries
 
\* Every tab may have been closed.
CHECK_DEADLOCK FALSE
