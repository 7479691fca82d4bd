\* Two tasks, more ports than a task may try.
CONSTANTS
    Tasks = {t1, t2}
    Lo = 1
    Hi = 5
    Tries = 3
SPECIFICATION PortsSpec
INVARIANTS
    RefusedHasCause
