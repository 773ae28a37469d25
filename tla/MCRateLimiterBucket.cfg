SPECIFICATION Spec
CONSTANTS
    Rules <- MCRulesBucket
    Requests <- MCRequests
    Threads = {t1, t2}
    Modes = {"acquire"}
    Timeouts = {}
    NoTimeout = NoTimeout
    NoThread = NoThread
    MaxCalls = 4
INVARIANT TokenBucketsHold
