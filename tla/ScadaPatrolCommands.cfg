CONSTANTS
    H = H
    A = A
    B = B
    NoPlace = NoPlace
    Places <- MCPlaces
    Missions <- TwoMissions
    Requests <- AllCommands
    Timeout = 1
    MaxRuns = 2
    MaxRequests = 4
SPECIFICATION FairSpec
INVARIANTS
    WatchdogArmed
    TelemetryAgrees
PROPERTIES
    NoWaypointAfterStop
    WatchdogBites
