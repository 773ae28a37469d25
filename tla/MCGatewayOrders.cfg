SPECIFICATION OrdersSpec
CONSTANTS
    InitialValue = 1
    AlignArgs <- FrontRefs
    ResetArgs <- SomeRefs
    NoFile = NoFile
    BadJson = BadJson
    Undecodable = Undecodable
    MaxRef = 4
    MaxIssued = 4
    MaxFailures = 2
    MaxCrashes = 2
    MaxGatewayCrashes = 1
    MaxGatewayFailures = 1
    r1 = r1
    t1 = t1
    t2 = t2
    c2 = c2
    None = None
    NoId = NoId
    Commands <- SomeCommands
    AliasKeys = TRUE
    VenueIdsPerOrder <- VenueIds
    MaxOrders = 2
    MaxQueue = 1
    RecentLimit = 1
INVARIANTS
    RefsIncrease
    FileCoversIssued
    EventsReachOwner
    OrdersAreKnown
