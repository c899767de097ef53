SPECIFICATION FairSpec
CONSTANTS
    j1 = j1
    j2 = j2
    j3 = j3
    w1 = w1
    w2 = w2
    k1 = k1
    NoKey = NoKey
    None = None
    Jobs = {j1}
    Workers <- TwoWorkers
    Keys = {k1}
    KeyOf <- OneNoKey
    MaxQueued = 2
    Crashable <- OnlyFirst
    MaxFaults = 0
PROPERTIES
    CancelEnds
CHECK_DEADLOCK FALSE
