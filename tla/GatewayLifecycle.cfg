\* Two runs are the least in which a connector can outlive its own; two
\* attempts make a connector fail, test running again and give up; a fault
\* lets a bind or a loop iteration fail.
SPECIFICATION FairSpec
CONSTANTS
    MaxStarts = 2
    MaxFaults = 1
    max_retries = 2
    SlowStart = TRUE
    SlowLoop = TRUE
INVARIANTS
    TypeOK
    StopsAndFailuresAreClean
    ReadinessIsTrue
PROPERTY
    ReadyThenStopped
