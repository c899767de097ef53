SPECIFICATION Spec
CONSTANTS
    o1 = o1
    o2 = o2
    o3 = o3
    o4 = o4
    w1 = w1
    w2 = w2
    w3 = w3
    m1 = m1
    m2 = m2
    s1 = s1
    home = home
    away = away
    web = web
    mail = mail
    NoSet = NoSet
    Nobody = Nobody
    Observations <- Three
    Arrivals <- ThreeTogether
    StrongIds = {m1, m2, s1}
    KindOf <- Kinds
    Strong <- Contradicting
    Endpoint <- OneEndpoint
    ServiceSet <- NoServices
INVARIANTS
    ConflictStaysExplicit
CHECK_DEADLOCK FALSE
