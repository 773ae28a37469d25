SPECIFICATION LiveSpec
CONSTANTS
    Rules <- MCRules
    Requests <- MCRequests
    Threads = {t1, t2}
    Modes = {"acquire", "wait_and_acquire", "async_acquire"}
    Timeouts = {2}
    NoTimeout = NoTimeout
    NoThread = NoThread
    MaxCalls = 2
INVARIANT GrantsAreExact
PROPERTY CallsAreAnswered
