CONSTANTS
    Numbers = {n1}
    User = user
    Remote = remote
    MaxDials = 1
    MaxIncoming = 0
    MaxPhysical = 0
    MaxBranches = 1
    MaxDrops = 1
    MaxDisconnects = 1
    MaxOthers = 0
    DisableTimeout = FALSE
SPECIFICATION FairSpec
PROPERTIES
    EveryCallEnds
    EveryRequestReported
