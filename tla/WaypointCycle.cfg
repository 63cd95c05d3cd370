CONSTANTS
    MaxPoints = 3
    MaxCancels = 3
SPECIFICATION FairCycleSpec
CHECK_DEADLOCK FALSE
PROPERTIES NextInTurn CycleGoesOn
