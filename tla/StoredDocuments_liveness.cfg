SPECIFICATION FairSpec
CONSTANTS
    u1 = u1
    None = None
    User = {u1}
    Tenant = {}
    Doc = {d1}
    Request = {r1, r2}
    Owner <- OneOwner
    Format <- AllPdf
    FileSizeLimit = 1
    StorageLimit <- Storage
    DocumentLimit <- Documents
    MaxVersion = 3
    MaxFaults = 1
    CommitMayLag = FALSE
INVARIANT NoDanglingVersion
PROPERTIES EveryRequestEnds TrashIsEmptied
