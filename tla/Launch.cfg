SPECIFICATION MCSpec
CONSTANTS
    None = None
    Agendas <- MCAgendas
    Plans <- MCPlans
    Users = {"ann", "bob"}
    Quiet = 2
    Patience = 3
INVARIANTS
    RegistersReaped
    LaunchedRuns
    OncePerBoot
PROPERTIES
    ShutdownEnds
    DogSettles
\* Every agenda ends.
CHECK_DEADLOCK FALSE
