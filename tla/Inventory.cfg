SPECIFICATION Spec
CONSTANTS
    p = p
    q = q
    c = c
    d = d
    Path = {p, q}
    Content = {c, d}
    Gone = Gone
    NoHash = NoHash
    Null = Null
    Schemas <- MCSchemas
    MaxScans = 2
    MaxEdits = 3
    MaxLocked = 1
    MaxQueries = 1
SYMMETRY MCSymmetry
CHECK_DEADLOCK FALSE
INVARIANTS
    StillScanIsExact
    ReportsExplained
    ChangesFound
    DupesOfStillScans
