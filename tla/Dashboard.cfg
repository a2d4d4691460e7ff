SPECIFICATION Spec
CONSTANTS
    r1 = r1
    r2 = r2
    Refresh = {r1, r2}
    Raw = {1}
    None = None
    Asked = Asked
    Refused = Refused
    Answered = Answered
    Origins = {"server", "elsewhere"}
    MaxEvents = 2
    MaxBoots = 2
    MaxFailed = 1
    MaxLost = 1
PROPERTIES
    GoesBackOnlyOverlapped
    Converges
