SPECIFICATION Spec
CONSTANTS
    Bundles <- MCBundles
    Options <- MCOptions
    Tracks <- MCTracks
    Clean <- MCClean
    KeepFailed = TRUE
    Cleanup = TRUE
    MaxDeliveries = 3
INVARIANTS
    DataKept
    ResultIsOwn
    AllConverted
    RefusalExcused
