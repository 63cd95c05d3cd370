CONSTANTS
    Keys <- AllKeys
    Akm = TRUE
    LowFilter = 0
    FullFilter = 1
    RedFilter = 1
    MaxCallCount = 0
SPECIFICATION FairSpec
CHECK_DEADLOCK FALSE
INVARIANTS NavSupervised TurnSupervised
PROPERTIES TurnGivenUp ChargingEnds
