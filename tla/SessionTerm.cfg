\* One `camcap capture` process: what a SIGTERM can leave behind.
CONSTANTS
    pA = pA
    t1 = t1
    Procs = {pA}
    Calls = {t1}
    MaxSessions = 1
    MaxRules = 0
    MaxJumps = 0
    CachedSudo = FALSE
SPECIFICATION Spec
INVARIANT SignalsCleanUp
CHECK_DEADLOCK FALSE
