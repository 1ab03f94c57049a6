SPECIFICATION Spec
CONSTANTS
    t1 = t1
    Tests <- OneTest
    TargetOf <- OwnTargets
    RepeatOf <- TwoOnly
    Total = 2
    Copies = 2
    CanStop = TRUE
INVARIANTS
    TestsSound
    SummaryIsTrue
PROPERTIES
    EveryTestEnds
CHECK_DEADLOCK FALSE
