\* A request line that does not end within the first 64 bytes.
CONSTANTS
    MaxReq = 1
    Framings = {"sized"}
    Upgrades = FALSE
    Dialects = {"http"}
SPECIFICATION Spec
INVARIANTS
    HttpIsNotRaw
CHECK_DEADLOCK FALSE
