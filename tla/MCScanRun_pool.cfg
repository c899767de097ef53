SPECIFICATION FairSpec
CONSTANTS
    g1 = g1
    g2 = g2
    g3 = g3
    Pool <- ThreeWorkers
    Total = 4
INVARIANTS
    TypeOK
    ProbesAccounted
    ReturnedRunIsOver
    ProgressHonest
PROPERTIES
    Returns
CHECK_DEADLOCK FALSE
