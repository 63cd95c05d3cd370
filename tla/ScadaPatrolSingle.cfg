CONSTANTS
    H = H
    A = A
    B = B
    NoPlace = NoPlace
    Places <- MCPlaces
    Missions <- SingleMissions
    Requests <- StartOnly
    Timeout = 1
    MaxRuns = 1
    MaxRequests = 2
SPECIFICATION FairSpec
INVARIANTS
    MissionKept
PROPERTIES
    PatrolImplemented
    MissionEnds
