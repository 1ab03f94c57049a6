SPECIFICATION BLESpec
CONSTANTS
    None = None
    Nodes = {"n1", "n2"}
    Agendas <- MCAgendas
    MaxAttempts = 2
INVARIANTS
    MissingIsWorkedOn
    CalmIsComplete
CHECK_DEADLOCK FALSE
PROPERTIES
    RegistersArrive
