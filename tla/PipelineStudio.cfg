SPECIFICATION Spec
CONSTANTS
    r1 = r1
    r2 = r2
    Runs = {r1, r2}
    Cap <- OneEach
    MaxRetries = 2
SYMMETRY Symmetry
INVARIANTS
    StudioCapacityKept
