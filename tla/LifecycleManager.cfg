CONSTANTS
    N = 3
    MaxCrashes = 2
SPECIFICATION FairSpec
INVARIANTS
    ActiveIsWatched
    InOrder
PROPERTIES
    CrashNoticed
    CommandEnds
CHECK_DEADLOCK FALSE
