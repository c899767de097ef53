SPECIFICATION GaugeSpec
CONSTANTS
    j1 = j1
    j2 = j2
    w1 = w1
    w2 = w2
    k1 = k1
    NoKey = NoKey
    None = None
    Jobs = {j1, j2}
    Workers <- TwoWorkers
    Keys = {k1}
    KeyOf <- RetryKeys
    MaxQueued = 2
    Crashable <- NoProcess
    MaxFaults = 0
SYMMETRY WorkerSymmetry
INVARIANT GaugeMatchesHelp
CHECK_DEADLOCK FALSE
