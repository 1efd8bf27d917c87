CONSTANTS
    MaxOpens = 2
    MaxLosses = 1
    MaxFailures = 1
    MaxRenewals = 1
    SlowConnect = TRUE
    FastLogin = TRUE
SPECIFICATION FairSpec
INVARIANTS
    TypeOK
    ConnectedIsReal
    LossIsReported
    FirstServiceIsTrue
PROPERTIES
    ImplementsDevice
    LoginEnds
    RenewalEnds
    StopEnds
CHECK_DEADLOCK FALSE
