CONSTANTS
    Keys = {k1, k2}
    Numbers = {1, 2}
    MaxThreads = 2
    MaxFailures = 1
SPECIFICATION FairSpec
INVARIANTS
    TypeOK
    EachEventOnce
    NoLostWakeup
PROPERTIES
    ImplementsQueue
    EveryEventHandled
    StopEnds
CHECK_DEADLOCK FALSE
