SPECIFICATION Spec
CONSTANTS
    Request = {w1, w2, w3, m1, m2}
    Web = {w1, w2, w3}
    MaxPeriod = 3
SYMMETRY Symmetry
INVARIANTS TypeOK OneRefresh WaitersHaveRefresh NoResendLoop
\* All requests may be settled.
CHECK_DEADLOCK FALSE
