SPECIFICATION ThreadsSpec
CONSTANTS
    Symbols = {"s1"}
    flush_count = 2
    MaxRows = 3
    MaxErrors = 1
    SlowFlush = TRUE
    MaxStarts = 2
    MaxEvents = 2
    MaxCommands = 2
    MaxFaults = 2
    SlowPump = FALSE
    None = None
INVARIANTS
    TicksAreKept
    AcknowledgementsAreTrue
    RuntimeIsClean
PROPERTY
    NothingIsLeftBehind
CHECK_DEADLOCK FALSE
