SPECIFICATION ServicesSpec
CONSTANTS
    None = None
    Tasks = {"t1", "t2", "t3"}
    NoTask = None
    max_size = 2
    Nested = FALSE
    MaxConnections = 3
    MaxFailures = 1
INVARIANTS
    PoolKeepsPermits
PROPERTIES
    DeliversInOrder
    WaitingAreServed
CHECK_DEADLOCK FALSE
