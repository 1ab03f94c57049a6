SPECIFICATION MCSpec
CONSTANTS
    None = None
    StreamAgendas <- MCStreamAgendas
    Browsers = {"b1", "b2"}
    ClientQueue = 2
    PageSize = 1
    PushAgendas <- MCPushAgendas
    Endpoints = {"e1", "e2"}
    QueueMax = 2
    RuleAgendas <- MCRuleAgendas
    RowIds = {1, 2, 3, 4}
    Admins = {"ann", "bob"}
    BatchSize = 2
INVARIANTS
    ViewIsTrue
    NotifiedOnce
    ListIsHonoured
    VersionsAreTrue
PROPERTIES
    JobEnds
\* Every agenda ends.
CHECK_DEADLOCK FALSE
