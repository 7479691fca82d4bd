\* Two processes (each a UI or a command line), two threads, two sessions.
CONSTANTS
    pA = pA
    pB = pB
    t1 = t1
    t2 = t2
    Procs = {pA, pB}
    Calls = {t1, t2}
    MaxSessions = 2
    MaxRules = 1
    MaxJumps = 3
    CachedSudo = TRUE
SPECIFICATION Spec
SYMMETRY Symmetry
INVARIANTS
    CrashesHeal
    AllOrNothing
    HealsAfterLoss
    RulesLeadToRelay
    GoneAfterStop
    OrphanHasCause
CHECK_DEADLOCK FALSE
