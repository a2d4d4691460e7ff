SPECIFICATION Spec
CONSTANTS
    Name <- MCName
    Stored <- MCStored
    Dll <- MCDll
    NoPlugin = "none"
    Library <- MCLibrary
    Manifest <- MCManifest
    MaxPlugins = 4
CHECK_DEADLOCK FALSE
INVARIANTS
    TypeOK
    NamesUnique
    HandlesBalanced
    HandleOfName
    OverrunNeedsPlugins
    AutoloadAsWritten
