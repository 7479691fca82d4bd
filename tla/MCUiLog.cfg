\* Two requests at a time, a file with two events, two events after it, one load.
CONSTANTS
    q1 = q1
    q2 = q2
    Requests = {q1, q2}
    MaxEvents = 4
    MaxStores = 2
    MaxPolls = 1
    InFile = 2
    FileIds <- MCFileIds
SPECIFICATION Spec
SYMMETRY Symmetry
INVARIANTS
    GhostHasCause
    DuplicateHasCause
    ReplayAsSelected
