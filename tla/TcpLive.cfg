SPECIFICATION FairSpec
CONSTANTS
    l1 = l1
    l2 = l2
    t1 = t1
    Leases = {l1, l2}
    Tasks = {t1}
    TaskOf <- OneTask
    MaxAttempts = 1
    MaxTasks = 1
    MaxConns = 1
    Cleanup = FALSE
    KeepFailed = FALSE
PROPERTIES
    BrokenIsLeft
    ShutdownReturns
