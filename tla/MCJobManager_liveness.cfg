SPECIFICATION HeartbeatSpec
CONSTANTS
    j1 = j1
    j2 = j2
    j3 = j3
    w1 = w1
    w2 = w2
    k1 = k1
    NoKey = NoKey
    None = None
    Jobs = {j1}
    Workers <- TwoWorkers
    Keys = {k1}
    KeyOf <- OneNoKey
    MaxQueued = 1
    Crashable <- OnlyFirst
    MaxFaults = 2
PROPERTIES
    StaleWorkerStops
    CancelReachesHandler
    UncancelledEnds
    AttendedCancelEnds
CHECK_DEADLOCK FALSE
