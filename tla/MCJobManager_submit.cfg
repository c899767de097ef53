SPECIFICATION Spec
CONSTANTS
    j1 = j1
    j2 = j2
    j3 = j3
    w1 = w1
    w2 = w2
    k1 = k1
    NoKey = NoKey
    None = None
    Jobs = {j1, j2, j3}
    Workers <- TwoWorkers
    Keys = {k1}
    KeyOf <- RetryKeys
    MaxQueued = 1
    Crashable <- NoProcess
    MaxFaults = 0
SYMMETRY WorkerSymmetry
INVARIANTS
    QueueBound
    SameKeySameAnswer
PROPERTY
    ImplementsLifecycle
CHECK_DEADLOCK FALSE
