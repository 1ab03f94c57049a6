SPECIFICATION Spec
CONSTANTS
    GapTolerance = 1
    DarkThreshold = 1
    WriteDelay = 1
    Window = 3
    Retention = 4
    MaxTime = 7
    MaxCrashes = 1
    Frames <- MCFrames
INVARIANTS
    LedgerSound
    GapsAreSilent
    ReportIsTrue
CHECK_DEADLOCK FALSE
