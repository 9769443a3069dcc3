SPECIFICATION Spec
CONSTANTS
    None = None
    Page = {p1, p2}
    Canvas = {c1, c2, c3}
    Run = {r1, r2, r3}
    MaxLive = 1
    MaxBytes = 1
    MaxFaults = 1
SYMMETRY Symmetry
INVARIANTS TypeOK CapRespected PoolDisjoint ExclusiveUse CacheFresh ShownFresh NoBlankPage
\* All runs may be over.
CHECK_DEADLOCK FALSE
