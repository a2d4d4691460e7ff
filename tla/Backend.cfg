SPECIFICATION Spec
CONSTANTS
    p1 = p1
    p2 = p2
    long = long
    bad = bad
    g1 = g1
    g2 = g2
    Request = {p1, p2, long, bad, g1, g2}
    Post = {p1, p2, long, bad}
    Malformed = {bad}
    Long = {long}
    None = None
    MaxCrashes = 2
SYMMETRY MCSymmetry
CHECK_DEADLOCK FALSE
INVARIANTS
    StoredUnlessRaced
    BrokenForAReason
