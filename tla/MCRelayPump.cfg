\* Three bytes one way and one back, read two at once at most, a write buffer that makes
\* drain wait.
CONSTANTS
    MaxRequest = 3
    MaxReply = 1
    ReadSize = 2
    HighWater = 0
SPECIFICATION LiveSpec
INVARIANTS
    CauseBeforeEffect
PROPERTIES
    Transparent
    HandlerEnds
CHECK_DEADLOCK FALSE
