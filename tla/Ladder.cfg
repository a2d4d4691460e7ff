SPECIFICATION Spec
CONSTANTS
    r1 = r1
    r2 = r2
    Runner = {r1, r2}
    Ladders <- MCLadders
    Options <- MCOptions
    Faults = {"command", "git", "remove", "kill"}
    Branches <- MCBranches
    None = None
    MaxFaults = 1
    MaxRungs = 2
CHECK_DEADLOCK FALSE
INVARIANTS
    OnlyValidated
    ResumesKnownGood
    RestartHonoured
    LeftoversExplained
PROPERTIES
    KeepsProgress
    LadderCompletes
