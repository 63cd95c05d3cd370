CONSTANTS
    Keys <- Operator
    Akm = FALSE
    LowFilter = 1
    FullFilter = 1
    RedFilter = 2
    MaxCallCount = 0
SPECIFICATION Spec
PROPERTIES
    ArrivedAtGoal
