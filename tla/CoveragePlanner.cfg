CONSTANTS
    Maps <- MCMaps
    Updates <- MCUpdates
    NoMap = NoMap
    Stripes = {0, 1, 2}
    Inflations = {0, 1}
    MinLength = 3
    Flat = 2
    MaxWaypoints = 20
SPECIFICATION FairSpec
INVARIANTS KeepsClear SinglePassesKept
PROPERTIES RefusedOnlyOnNewMap Answered
