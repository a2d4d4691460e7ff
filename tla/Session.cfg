SPECIFICATION Spec
CONSTANTS
    Root <- MCRoot
    Dirs <- MCDirs
    Databases <- MCDatabases
    Faults = {"thread", "event", "read"}
    MaxStarts = 2
    MaxChanges = 4
    KernelBuffer = 2
CHECK_DEADLOCK FALSE
INVARIANTS
    StopReachesWatcher
    LogInOrder
    SafeAfterWatchOff
PROPERTIES
    WatchOffReturns
    ReadIsLogged
