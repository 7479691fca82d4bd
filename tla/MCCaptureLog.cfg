\* Three requests in flight at once, five events in all.  No symmetry: liveness.
CONSTANTS
    q1 = q1
    q2 = q2
    q3 = q3
    Producers = {q1, q2, q3}
    MaxEvents = 5
SPECIFICATION LiveSpec
INVARIANTS
    IdsUnique
    SkippedWasOvertaken
    RepeatedWasOvertaking
    PrintsLogInOrder
PROPERTIES
    PrintedInTheEnd
    FallsSilent
CHECK_DEADLOCK FALSE
