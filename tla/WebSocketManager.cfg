SPECIFICATION Spec
CONSTANTS
    Clients = {k1, k2}
    NoClient = NoClient
    SubIds = {i1, i2}
    Conns = {1, 2}
    max_connections = 1
    BusyAt = 2
    limit = 2
    max_reconnect_attempts = 1
    AsyncCallbacks = TRUE
    MaxSockets = 3
    MaxStops = 1
SYMMETRY Symmetry
INVARIANTS PoolBounded SubscriptionsAreSent ConnectionsAreAttended
CHECK_DEADLOCK FALSE
