SPECIFICATION FairSpec
CONSTANTS
    l1 = l1
    l2 = l2
    l3 = l3
    t1 = t1
    Leases = {l1, l2}
    Tasks = {t1}
    TaskOf <- OneTask
    MaxAttempts = 2
    MaxTasks = 1
    Overshoot = 1
    Cleanup = FALSE
    KeepFailed = FALSE
INVARIANTS
    TypeOK
    ConcurrencyBounded
    JoinIsComplete
    DropsExcused
PROPERTIES
    ShutdownReturns
    StartedEnds
