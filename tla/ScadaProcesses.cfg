CONSTANTS
    MaxPids = 2
    Maps = {m1}
    NoMap = NoMap
SPECIFICATION FairSpec
INVARIANTS
    OneLocaliser
    NothingForgotten
    ModeTruthful
    NavOnAskedMap
    NothingLeftBehind
PROPERTIES
    RequestAnswered
    ShutdownEnds
CHECK_DEADLOCK FALSE
