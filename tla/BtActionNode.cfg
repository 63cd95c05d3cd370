CONSTANTS
    MaxGoals = 3
    Timeout = 2
SPECIFICATION FairSpec
CHECK_DEADLOCK FALSE
INVARIANTS HandleThere
PROPERTIES CallKept NewestReported HaltReachesServer RunEnds
