SPECIFICATION ServiceSpec
CONSTANTS
    None = None
    auto = auto
    Nodes = {n1, n2}
    Requests = {r1, r2}
    Loops = {l1}
    Attempts = 2
    Tries = 2
    AutoConnect = TRUE
SYMMETRY MCSym
INVARIANTS
    FlagsAreTrue
    SessionIsWanted
PROPERTIES
    BusKeptForInit
CHECK_DEADLOCK FALSE
CONSTRAINT MCSmall
