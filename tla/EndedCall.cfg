CONSTANTS
    TapiThreads = {t1}
    Timer = timer
    Pool = pool
    States = {"DIALTONE", "CONNECTED"}
    OutsideKinds = {"IncomingCall"}
    EndNotices = {1}
    Dialable = {TRUE, FALSE}
    MaxMakes = 1
    MaxDrops = 1
    MaxOutside = 0
SPECIFICATION Spec
INVARIANTS
    EndedCallIsIdle
CHECK_DEADLOCK FALSE
