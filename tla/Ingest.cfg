SPECIFICATION Spec
CONSTANTS
    None = None
    Fields = {"temp", "qfe"}
    Values = {1, 2, 3}
    Agendas <- MCAgendas
    DedupWindow = 2
    PruneAt = 2
    BucketSpan = 2
    MheardWindow = 2
    TeleWindow = 2
    Delay = 1
    Slow = 1
INVARIANTS
    StatusAgrees
    SignalsCounted
    TelemetryKept
    StationsKeepUp
PROPERTIES
    ImplementsLog
CHECK_DEADLOCK FALSE
