SPECIFICATION FairSpec
CONSTANTS
    r1 = r1
    r2 = r2
    Runs = {r1, r2}
    Cap <- OneEach
    MaxRetries = 3
INVARIANTS
    SlotsAccounted
PROPERTIES
    RunsEnd
    CancelledEnds
