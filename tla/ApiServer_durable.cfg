SPECIFICATION Spec
CONSTANTS
    c1 = c1
    c2 = c2
    c3 = c3
    review = review
    rev = rev
    mining = mining
    NoEvent = NoEvent
    Garbled = Garbled
    NoRequest = NoRequest
    Nobody = Nobody
    Event <- MCEvent
    Blocked <- MCBlocked
    Shortened <- MCShortened
    Conn = {c1, c2, c3}
    Requests <- Submissions
    Signals = {}
    Faults = {"short", "open", "sync", "kill", "power", "bind"}
    MaxBoots = 2
SYMMETRY Symmetry
INVARIANTS
    RestartShowsSameEvent
    AckedIsDurable
PROPERTY
    ImplementsContract
