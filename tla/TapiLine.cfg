CONSTANTS
    TapiThreads = {t1}
    Timer = timer
    Pool = pool
    States = {"DIALTONE"}
    OutsideKinds = {"IncomingCall"}
    EndNotices = {1}
    Dialable = {TRUE, FALSE}
    MaxMakes = 1
    MaxDrops = 1
    MaxOutside = 1
SPECIFICATION FairSpec
INVARIANTS
    TypeOK
    OneAppearance
    StateAfterReply
    RepliesAreTrue
    MarkedCallIsDropped
    LineFollowsMachine
PROPERTIES
    EveryRequestReplied
CHECK_DEADLOCK FALSE
