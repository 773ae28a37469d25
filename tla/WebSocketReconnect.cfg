SPECIFICATION Spec
CONSTANTS
    Clients = {k1, k2}
    NoClient = NoClient
    SubIds = {i1}
    Conns = {1, 2, 3}
    max_connections = 2
    BusyAt = 1
    limit = 2
    max_reconnect_attempts = 1
    AsyncCallbacks = TRUE
    MaxSockets = 3
    MaxStops = 1
SYMMETRY Symmetry
INVARIANT NeverSpins
CHECK_DEADLOCK FALSE
