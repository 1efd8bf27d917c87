SPECIFICATION Spec
CONSTANTS
    MaxOpens = 2
    MaxLosses = 1
    MaxFailures = 0
    MaxRenewals = 0
    SlowConnect = FALSE
    FastLogin = FALSE
INVARIANT OpenLineInService
CHECK_DEADLOCK FALSE
