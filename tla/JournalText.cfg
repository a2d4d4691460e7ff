SPECIFICATION FileSpec
CONSTANTS
    Conn = {c1}
    Sent <- MCSent
    Event <- MCEvent
    Char <- MCChar
    Nul = Nul
    NoEvent <- MCNoEvent
    Garbled <- MCGarbled
    Time <- MCTime
    FieldCap = 4
    EscapeCap = 8
    LineCap = 14
    MaxWrites = 3
CHECK_DEADLOCK FALSE
INVARIANTS
    RestartAgrees
    RoundTrip
    FieldHasRoom
PROPERTY
    LosesOnlyTail
