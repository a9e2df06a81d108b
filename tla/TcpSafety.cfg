SPECIFICATION Spec
CONSTANTS
    l1 = l1
    l2 = l2
    t1 = t1
    Leases = {l1, l2}
    Tasks = {t1}
    TaskOf <- OneTask
    MaxAttempts = 1
    MaxTasks = 1
    MaxConns = 2
    Cleanup = FALSE
    KeepFailed = FALSE
SYMMETRY Symmetry
INVARIANTS
    SlotsMatch
    OneConnection
    HeartbeatWatched
    TornIsClosed
    EndedIsToldOrLost
    NoGhosts
PROPERTIES
    Promise
