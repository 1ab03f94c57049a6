SPECIFICATION CommandSpec
CONSTANTS
    None = None
    Agendas <- MCAgendas
    Calls = {"peer", "stranger"}
    Beacons = {"b1", "b2", "b3"}
    IdTimeout = 1
    ShortTimeout = 1
    LongTimeout = 2
INVARIANTS
    HereOrOnAir
    OneBlocklist
    BeaconsAreListed
PROPERTIES
    ExecutedOncePerWindow
CHECK_DEADLOCK FALSE
