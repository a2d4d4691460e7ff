SPECIFICATION Spec
CONSTANTS
    c1 = c1
    c2 = c2
    c3 = c3
    review = review
    rev = rev
    mining = mining
    NoEvent = NoEvent
    Garbled = Garbled
    NoRequest = NoRequest
    Nobody = Nobody
    Event <- MCEvent
    Blocked <- MCBlocked
    Shortened <- MCShortened
    Conn = {c1}
    Requests <- OneSubmission
    Signals = {"TERM"}
    Faults = {}
    MaxBoots = 1
INVARIANT
    MetricsOutliveWorkers
