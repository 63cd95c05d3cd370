CONSTANTS
    H = H
    A = A
    B = B
    NoPlace = NoPlace
    Places <- MCPlaces
    Missions <- TwoMissions
    Requests <- StartStop
    Timeout = 1
    MaxRuns = 1
    MaxRequests = 2
SPECIFICATION Spec
INVARIANTS
    StoppedStaysStopped
