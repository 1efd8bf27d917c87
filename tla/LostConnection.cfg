CONSTANTS
    Numbers = {n1}
    User = user
    Remote = remote
    MaxDials = 2
    MaxIncoming = 0
    MaxPhysical = 0
    MaxBranches = 1
    MaxDrops = 0
    MaxDisconnects = 1
    MaxOthers = 0
    DisableTimeout = TRUE
SPECIFICATION Spec
INVARIANTS
    UniqueCallIds
    ReportInSync
PROPERTIES
    ImplementsView
