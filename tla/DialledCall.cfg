CONSTANTS
    Numbers = {n1}
    User = user
    Remote = remote
    MaxDials = 1
    MaxIncoming = 0
    MaxPhysical = 0
    MaxBranches = 2
    MaxDrops = 1
    MaxDisconnects = 0
    MaxOthers = 1
    DisableTimeout = FALSE
SPECIFICATION Spec
INVARIANTS
    IdentityKept
    ShownItemIsBranch
    LegsBelongToDial
    ConnectedWasAnswered
    LiveCallHasLiveItem
    ReportInSync
PROPERTIES
    ImplementsView
