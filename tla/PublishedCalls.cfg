CONSTANTS
    Numbers = {n1}
    User = user
    Remote = remote
    MaxDials = 0
    MaxIncoming = 1
    MaxPhysical = 1
    MaxBranches = 2
    MaxDrops = 1
    MaxDisconnects = 0
    MaxOthers = 1
    DisableTimeout = FALSE
SPECIFICATION Spec
INVARIANTS
    TypeOK
    ShownItemIsBranch
    EveryStateTimed
    ConnectedWasAnswered
    LiveCallHasLiveItem
PROPERTIES
    ImplementsView
