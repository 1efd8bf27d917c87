CONSTANTS
    Numbers = {n1}
    User = user
    Remote = remote
    MaxDials = 1
    MaxIncoming = 1
    MaxPhysical = 0
    MaxBranches = 1
    MaxDrops = 0
    MaxDisconnects = 0
    MaxOthers = 0
    DisableTimeout = FALSE
SPECIFICATION Spec
INVARIANT LiveCallHasLiveItem
