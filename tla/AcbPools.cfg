SPECIFICATION FairSpec
CONSTANTS
    a1 = a1
    a2 = a2
    a3 = a3
    n1 = n1
    n2 = n2
    n3 = n3
    Nobody = Nobody
    Acbs = {a1, a2, a3}
    Names = {n1, n2, n3}
    Tracks <- Disjoint
    AcbCap = 2
    HcaWorkers = 2
    HcaCap = 1
    HcaGlobal = TRUE
INVARIANTS
    LimitersMatch
    OkMeansAll
    DeletedAfterMove
PROPERTIES
    PoolReturns
