CONSTANTS
    Goals = {g1, g2, g3}
    NoGoal = NoGoal
    Trees <- AllTrees
    DefaultTree = "default"
    MissingTree = "missing"
    Lifecycle = TRUE
SPECIFICATION LiveSpec
CHECK_DEADLOCK FALSE
INVARIANTS PursuesCurrent BtNeverGivenNull
PROPERTIES GoalsServedInTurn CurrentEnds PreemptServed
