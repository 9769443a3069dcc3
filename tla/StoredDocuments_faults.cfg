SPECIFICATION Spec
CONSTANTS
    u1 = u1
    None = None
    User = {u1}
    Tenant = {}
    Doc = {d1, d2}
    Request = {r1, r2}
    Owner <- OneOwner
    Format <- AllDocx
    FileSizeLimit = 2
    StorageLimit <- Storage
    DocumentLimit <- Documents
    MaxVersion = 2
    MaxFaults = 2
    CommitMayLag = TRUE
SYMMETRY Symmetry
INVARIANTS CountersInductive CountersAccount SavesIsolated VersionsHaveObjects
