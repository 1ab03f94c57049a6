SPECIFICATION Spec
CONSTANTS
    None = None
    Agendas <- MCAgendas
    Cooldown = 2
    MinDelta = 3
INVARIANTS
    OverlayKept
PROPERTIES
    SendsReachNode
CHECK_DEADLOCK FALSE
