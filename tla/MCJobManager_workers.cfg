SPECIFICATION Spec
CONSTANTS
    j1 = j1
    j2 = j2
    j3 = j3
    w1 = w1
    w2 = w2
    k1 = k1
    NoKey = NoKey
    None = None
    Jobs = {j1, j2}
    Workers <- TwoWorkers
    Keys = {k1}
    KeyOf <- NoKeys
    MaxQueued = 2
    Crashable <- EachAlone
    MaxFaults = 1
SYMMETRY WorkerSymmetry
INVARIANTS
    TypeOK
    RowsConsistent
    NoOvertaking
    BoundedAttempts
PROPERTIES
    EndsAreFinal
CHECK_DEADLOCK FALSE
