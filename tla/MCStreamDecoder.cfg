\* Three requests on one connection of each kind, every kind of answer, upgrades.
CONSTANTS
    MaxReq = 3
    Framings = {"sized", "untilClose", "http10"}
    Upgrades = TRUE
    Dialects = {"http", "rtsp", "tls", "other"}
SPECIFICATION Spec
INVARIANTS
    TypeOK
    PairedExactly
    CaughtUp
    InSyncWithoutOverlap
    AwaitingIsUnanswered
    RawHasCause
CHECK_DEADLOCK FALSE
