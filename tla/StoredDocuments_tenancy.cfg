SPECIFICATION Spec
CONSTANTS
    u1 = u1
    None = None
    User = {u1}
    Tenant = {t1, t2}
    Doc = {d1}
    Request = {r1, r2}
    Owner <- OneOwner
    Format <- AllPdf
    FileSizeLimit = 2
    StorageLimit <- Storage
    DocumentLimit <- Documents
    MaxVersion = 3
    MaxFaults = 1
    CommitMayLag = FALSE
SYMMETRY Symmetry
INVARIANTS CountersMatchUnlessRevived OrphansExplained VersionsNumbered ChargedSizeIsStored
PROPERTY ImplementsLedger
