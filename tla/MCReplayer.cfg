\* Every event alone, and every two of which the first matters to the second,
\* redacted or not, with every option.
CONSTANTS
    Logs <- ReplayedLogs
SPECIFICATION Spec
INVARIANTS
    LadderInOrder
    ResultsAccount
    StaleCookieDropped
    BareUnlessTorn
    RedactedAsCaptured
    CredentialsTogether
    SignedOnce
CHECK_DEADLOCK FALSE
