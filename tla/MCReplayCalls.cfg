\* Two clicks, two polls under way.  With no click left and no timer the page
\* is at rest.
CONSTANTS
    MaxClicks = 2
    MaxPolls = 2
SPECIFICATION FairSpec
INVARIANTS
    OneReplay
    RunningIsWatched
PROPERTIES
    ButtonReturns
CHECK_DEADLOCK FALSE
