SPECIFICATION Spec
CONSTANTS
    l1 = l1
    l2 = l2
    l3 = l3
    t1 = t1
    Leases = {l1, l2}
    Tasks = {t1}
    TaskOf <- OneTask
    MaxAttempts = 2
    MaxTasks = 2
    Overshoot = 0
    Cleanup = TRUE
    KeepFailed = TRUE
SYMMETRY Symmetry
INVARIANTS
    ActiveIsRunning
    ResultKept
    SilentEndExcused
    UnacceptedKept
    ContradictionNeedsAllAttempts
PROPERTY
    Promise
