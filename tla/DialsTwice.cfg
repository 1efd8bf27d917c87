CONSTANTS
    TapiThreads = {t1}
    Timer = timer
    Pool = pool
    States = {"DIALTONE"}
    OutsideKinds = {"IncomingCall"}
    EndNotices = {2}
    Dialable = {TRUE, FALSE}
    MaxMakes = 1
    MaxDrops = 1
    MaxOutside = 1
SPECIFICATION Spec
INVARIANTS
    DialsOnce
CHECK_DEADLOCK FALSE
