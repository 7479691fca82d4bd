\* A command whose body has a name and no password.
CONSTANTS
    Logs <- LoginLogs
SPECIFICATION Spec
INVARIANT OnlyLoginsChanged
CHECK_DEADLOCK FALSE
