\* Two reconnect attempts are the least with which a socket is replaced by
\* the same worker; two requests make a batch that can be acknowledged in
\* part; two starts make a restart or a start beside a running worker.
SPECIFICATION LiveSpec
CONSTANTS
    Sockets = {1, 2, 3, 4, 5, 6, 7}
    Subscriptions = 2
    max_reconnect_attempts = 2
    ReadinessTimed = TRUE
    IdleWatched = TRUE
    RestartTimed = TRUE
    MaxStarts = 2
INVARIANTS ReadinessIsTrue StoppedIsQuiet
PROPERTY SocketsAndWorkersEnd
