SPECIFICATION Spec
CONSTANTS
    NoInstrument = NoInstrument
    Clients = {c1, c2, c3}
    MaxThreads = 2
    Requests = {"r1", "r2", "r3"}
    MaxLoops = 3
    MaxSessions = 2
    Callers = {"c1"}
    AsyncCallers = {"a1", "a2"}
    max_retries = 2
    MaxClients = 2
    MaxRequests = 1
    Seekers = {"t1", "t2"}
    NoThread = "none"
    Modules = {"p", "q"}
    Vacant = "nobody"
    UserProgram = "application"
    Types = {"CTP", "OKX", "GEMINI"}
    Provides <- Provided
    module_names <- Imported
    Readers = {"t1", "t2", "t3"}
    EntryPoints <- Catalog
    Readable <- ReadableEntries
    Exchanges = {"x", "z"}
    AdapterTypes = {"X", "Y"}
    Tasks = {"t1", "t2", "t3"}
    Processes = {"p1", "p2"}
    ProcessOf <- TaskProcesses
    MaxValues = 2
    MaxFailures = 1
    max_size = 1
    min_size = 1
    HealthChecked = TRUE
    MaxConnections = 2
    MaxStarts = 2
    MaxBusy = 3
    MaxRaises = 1
    Handlers = {"h1", "h2"}
    Emitters = {"e1", "e2"}
    MaxEmits = 2
    Workers = {"w1", "w2", "w3"}
    Putters = {"w1"}
    max_concurrent = 1
    maxsize = 1
    MaxAttempts = 2
    Symbols = {"s1", "s2"}
    Limits <- TopicLimits
    MaxSubscriptions = 3
INVARIANTS
    ReadsAreRight
    LifetimesHold
    PluginsSound
    StoresSound
    EmitsAreReported
    RequestsEndRight
    AsyncBaseSound
    GroupsSound
    ConfigSound
    ConnectionsAreKept
    AdaptersAgree
    RoutedBack
    TranslationsHold
    ServicesKeepLimits
CHECK_DEADLOCK FALSE
