SPECIFICATION Spec
CONSTANTS
    a = a
    b = b
    Targets <- MCTargets
    Sessions <- MCSessions
    MaxConcurrent = 1
    Total <- MCTotal
INVARIANTS
    DriversLimited
    ReportIsTrue
PROPERTIES
    EverySessionEnds
CHECK_DEADLOCK FALSE
