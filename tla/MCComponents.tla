---------------------------- MODULE MCComponents ----------------------------
(***************************************************************************)
(* The components that work alone, each on a small instance: a behaviour   *)
(* is one of the component it starts with.  The components that are proved *)
(* about have variables here by the names they have there (those of one    *)
(* name are shared) and constants, whose assumptions are below; the others *)
(* share the variables v1 to v10, in the order in which their modules      *)
(* declare theirs.                                                         *)
(*                                                                         *)
(* Three clients on a pool of one connection: one holds it, a waiter times *)
(* out as it is notified, another sleeps.  Two starts let the cleanup      *)
(* thread of the first meet the second; then one client waits at most, or  *)
(* something raises.                                                       *)
(***************************************************************************)
EXTENDS Integers, Sequences, FiniteSets

CONSTANTS
    NoInstrument,
    MaxThreads, Requests, MaxLoops, MaxSessions,                            \* AsyncBase
    Callers, AsyncCallers, max_retries, MaxClients, MaxRequests,            \* HttpFeed
    Seekers,                    \* threads at the adapter factory and at the lookup
    NoThread, Modules, Vacant, UserProgram, Types, Provides, module_names,   \* AdapterLookup
    Readers,                                                                \* AutoInitMixin
    EntryPoints, Readable, Exchanges, AdapterTypes,                         \* PluginLoader
    Tasks, Processes, ProcessOf, MaxValues, MaxFailures,                    \* CacheService
    Clients, max_size, min_size, HealthChecked, MaxConnections, MaxStarts,
    MaxRaises, MaxBusy,                                                     \* ConnectionPool
    Handlers, Emitters, MaxEmits,                                           \* EventBus
    Workers, Putters, max_concurrent, maxsize, MaxAttempts,                 \* AsyncTools
    Symbols, Limits, MaxSubscriptions                                       \* WebSocketAdapters

VARIABLES
    component,
    thread, _adapters, registered, closed, stopping, made,                  \* of several
    loop, loops, session, sessions, open, request, contested,               \* AsyncBase
    sync_open, async_client, async_open, closing, conn_state, call,
    async_call, closer, orphaned, requests,                                 \* HttpFeed
    creating, adapter,                                                      \* the factory
    ADAPTER_REGISTRY, _plugins_loaded, _plugin_loader_lock, found, denied,  \* AdapterLookup
    _initialized, parsed, overlapped, read,                                 \* AutoInitMixin
    registry, adapters, loaded, failed, skipped, todo, commit, isolates, touched, \* PluginLoader
    redis, _local_cache, task, values, failures, settled,                   \* CacheService
    _tasks, permits, queue, worker, owner, tried, circuit,                  \* AsyncTools
    kind, counts, subscribed, asked, streams, received,                     \* WebSocketAdapters
    pool, in_use, running, waiters, client, holds, cleanup, dropped,
    stale, unasked, overslept,                                                     \* ConnectionPool
    error_mode, handlers, _last_errors, emit, emits, latest,                \* EventBus
    v1, v2, v3, v4, v5, v6, v7, v8, v9, v10

(* The variables of one component, by groups.                              *)
loopVars == <<loop, loops, session, sessions, open, request, contested>>
feedVars == <<sync_open, async_client, async_open, closing, conn_state, call, async_call,
              closer, orphaned, requests>>
classVars == <<_adapters, registered>>
factoryVars == <<creating, adapter>>
lookupVars == <<ADAPTER_REGISTRY, _plugins_loaded, _plugin_loader_lock, found, denied>>
getterVars == <<_initialized, parsed, overlapped, read>>
loaderVars == <<registry, adapters, loaded, failed, skipped, todo, commit, isolates, touched>>
serviceVars == <<redis, _local_cache, task, values, failures, settled>>
poolVars == <<pool, in_use, running, waiters, client, holds, cleanup, dropped, stale,
              unasked, overslept>>
busVars == <<error_mode, handlers, _last_errors, emit, emits, latest>>
toolVars == <<_tasks, permits, queue, worker, owner, tried, circuit>>
adapterVars == <<kind, counts, subscribed, asked, streams, received>>

from8 == <<v8, v9, v10>>
from7 == <<v7, from8>>
from6 == <<v6, from7>>
from5 == <<v5, from6>>
from1 == <<v1, v2, v3, v4, from5>>

named == <<thread, closed, stopping, made, loopVars, feedVars, classVars, factoryVars, lookupVars,
           getterVars, loaderVars, serviceVars, poolVars, busVars, toolVars, adapterVars>>

(* The variables a component does not use. *)
unused8 == v8 = << >> /\ v9 = << >> /\ v10 = << >>
unused7 == v7 = << >> /\ unused8
unused6 == v6 = << >> /\ unused7
unused5 == v5 = << >> /\ unused6
unused1 == v1 = << >> /\ v2 = << >> /\ v3 = << >> /\ v4 = << >> /\ unused5

Absent ==
    /\ IF component \in {"async base", "adapter lookup", "getters"} THEN TRUE ELSE
           /\ thread = << >>
    /\ IF component = "async base" THEN TRUE ELSE
           /\ loop = << >> /\ loops = << >> /\ session = << >> /\ sessions = << >>
           /\ open = << >> /\ request = << >> /\ contested = << >>
    /\ IF component \in {"async base", "connection pool"} THEN TRUE ELSE
           /\ closed = << >> /\ stopping = << >>
    /\ IF component \in {"http feed", "connection pool"} THEN TRUE ELSE made = << >>
    /\ IF component = "http feed" THEN TRUE ELSE
           /\ sync_open = << >> /\ async_client = << >> /\ async_open = << >>
           /\ closing = << >> /\ conn_state = << >> /\ call = << >>
           /\ async_call = << >> /\ closer = << >> /\ orphaned = << >> /\ requests = << >>
    /\ IF component \in {"adapter factory", "adapter lookup"} THEN TRUE ELSE
           /\ _adapters = << >> /\ registered = << >>
    /\ IF component = "adapter factory" THEN TRUE ELSE creating = << >> /\ adapter = << >>
    /\ IF component = "adapter lookup" THEN TRUE ELSE
           /\ ADAPTER_REGISTRY = << >> /\ _plugins_loaded = << >>
           /\ _plugin_loader_lock = << >> /\ found = << >> /\ denied = << >>
    /\ IF component = "getters" THEN TRUE ELSE
           /\ _initialized = << >> /\ parsed = << >> /\ overlapped = << >> /\ read = << >>
    /\ IF component = "plugin loader" THEN TRUE ELSE
           /\ registry = << >> /\ adapters = << >> /\ loaded = << >> /\ failed = << >>
           /\ skipped = << >> /\ todo = << >> /\ commit = << >> /\ isolates = << >>
           /\ touched = << >>
    /\ IF component = "cache service" THEN TRUE ELSE
           /\ redis = << >> /\ _local_cache = << >> /\ task = << >> /\ values = << >>
           /\ failures = << >> /\ settled = << >>
    /\ IF component = "connection pool" THEN TRUE ELSE
           /\ pool = << >> /\ in_use = << >> /\ running = << >> /\ waiters = << >>
           /\ client = << >> /\ holds = << >> /\ cleanup = << >> /\ dropped = << >>
           /\ stale = << >> /\ unasked = << >> /\ overslept = << >>
    /\ IF component = "event bus" THEN TRUE ELSE
           /\ error_mode = << >> /\ handlers = << >> /\ _last_errors = << >>
           /\ emit = << >> /\ emits = << >> /\ latest = << >>
    /\ IF component = "async tools" THEN TRUE ELSE
           /\ _tasks = << >> /\ permits = << >> /\ queue = << >> /\ worker = << >>
           /\ owner = << >> /\ tried = << >> /\ circuit = << >>
    /\ IF component = "adapters" THEN TRUE ELSE
           /\ kind = << >> /\ counts = << >> /\ subscribed = << >> /\ asked = << >>
           /\ streams = << >> /\ received = << >>

Untouched ==
    /\ UNCHANGED component
    /\ IF component \in {"async base", "adapter lookup", "getters"} THEN TRUE ELSE UNCHANGED thread
    /\ IF component = "async base" THEN TRUE ELSE UNCHANGED loopVars
    /\ IF component \in {"async base", "connection pool"} THEN TRUE ELSE
           UNCHANGED <<closed, stopping>>
    /\ IF component \in {"http feed", "connection pool"} THEN TRUE ELSE UNCHANGED made
    /\ IF component = "http feed" THEN TRUE ELSE UNCHANGED feedVars
    /\ IF component \in {"adapter factory", "adapter lookup"} THEN TRUE ELSE UNCHANGED classVars
    /\ IF component = "adapter factory" THEN TRUE ELSE UNCHANGED factoryVars
    /\ IF component = "adapter lookup" THEN TRUE ELSE UNCHANGED lookupVars
    /\ IF component = "getters" THEN TRUE ELSE UNCHANGED getterVars
    /\ IF component = "plugin loader" THEN TRUE ELSE UNCHANGED loaderVars
    /\ IF component = "cache service" THEN TRUE ELSE UNCHANGED serviceVars
    /\ IF component = "connection pool" THEN TRUE ELSE UNCHANGED poolVars
    /\ IF component = "event bus" THEN TRUE ELSE UNCHANGED busVars
    /\ IF component = "async tools" THEN TRUE ELSE UNCHANGED toolVars
    /\ IF component = "adapters" THEN TRUE ELSE UNCHANGED adapterVars

-----------------------------------------------------------------------------
(* Interface "a" needs "b", and both their own implementation.             *)
Needed(i) == IF i = "a" THEN <<"b", "a">> ELSE <<"b">>

(* Entry points: two plugins that load, one that takes an adapter type and *)
(* one that takes the name of another and registers a feed it does not     *)
(* name, and each way a load can fail.                                     *)
Plugin(entry, name, import, register, exchanges, feeds, types) ==
    [entry |-> entry, name |-> name, import |-> import, register |-> register,
     exchanges |-> exchanges, feeds |-> feeds, adapters |-> types]

Catalog == <<
    Plugin("p1", "n1", "ok", "ok", {"x"}, {"x"}, {"X"}),
    Plugin("p2", "n2", "ok", "ok", {"x", "z"}, {"x"}, {"Y"}),
    Plugin("p3", "p3", "ok", "ok", {"z"}, {"z"}, {"X"}),
    Plugin("p4", "n1", "ok", "ok", {"z"}, {"x", "z"}, {}),
    Plugin("p5", "p5", "optional", "ok", {"z"}, {"z"}, {}),
    Plugin("p6", "p6", "error", "ok", {"z"}, {"z"}, {}),
    Plugin("p7", "p7", "ok", "version", {"z"}, {"z"}, {}),
    Plugin("p8", "p8", "ok", "error", {"z"}, {"z"}, {}),
    Plugin("p9", "p9", "ok", "optional", {"z"}, {"z"}, {}) >>

(* Exchange files: each way to be broken, two that are refused, and good   *)
(* ones of which two are of one exchange.                                  *)
Broken(how) == [kind |-> how]
Exchange(id, venue_type, base_urls, connection) ==
    [kind |-> "mapping", id |-> id, venue_type |-> venue_type, base_urls |-> base_urls,
     connection |-> connection]

Files == {Broken("empty"), Broken("list"), Broken("not yaml"), Broken("unreadable"),
          Exchange("x", "cex", "null", "http"), Exchange("y", "cex", "given", "other"),
          Exchange("x", "cex", "given", "http"), Exchange("x", "dex", "null", "other"),
          Exchange("y", "cex", "absent", "http")}

(* One distribution cannot be read.                                        *)
ReadableEntries == SelectSeq(Catalog, LAMBDA p : p.entry # "p1")

(* Adapter classes: a plugin of two exchanges, which the standalone        *)
(* runtime knows, and one of an exchange it does not know.                 *)
Imported == [CTP |-> "p", OKX |-> "p"]
Provided == [p |-> <<"CTP", "OKX">>, q |-> <<"GEMINI">>]

TaskProcesses == [t1 |-> "p1", t2 |-> "p1", t3 |-> "p2"]

(* Two callers that may both place orders: one of them may succeed late,   *)
(* when the failures of the other have opened the circuit breaker.         *)
OpsOf == [t1 |-> {"ticker", "order", "balance"}, t2 |-> {"order"}]

Attempts == [ticker |-> 1, order |-> 2, balance |-> 1]

TopicLimits == [ticker |-> 2, kline |-> 1, funding |-> 1]

Cache == INSTANCE SimpleCache WITH
    entries <- v1, caller <- v2, clearing <- v3, is_clearing <- v4, recent <- v5,
    before <- v6, Keys <- {"a1", "a2", "b1"}, ExchangeKeys <- {"a1", "a2"},
    Callers <- {"c1"}, default_ttl <- 1, max_size <- 2

Services == INSTANCE CacheService

Container == INSTANCE Injection WITH
    registered <- v1, singletons <- v2, scope <- v3, old_scopes <- v4,
    created <- v5, scopes <- v6, given <- v7, Interfaces <- {"a", "b"},
    Needs <- Needed, MaxInstances <- 3, MaxScopes <- 2, MaxResolves <- 3

Loader == INSTANCE PluginLoader

Manager == INSTANCE InstrumentManager WITH
    instruments <- v1, by_venue <- v2, by_underlying <- v3, crowded <- v4,
    Instruments <- [internal : {"a", "b", "c"}, at : {"p", "q"}, underlying : {"u", ""}],
    NoInstrument <- NoInstrument, MaxMany <- 2

Bus == INSTANCE EventBus

Feed == INSTANCE HttpFeed

Loop == INSTANCE AsyncBase

Tools == INSTANCE AsyncTools WITH
    failure_threshold <- 2, recovery_timeout <- 1, max_requests <- 1, time_window <- 1

Config == INSTANCE GatewayConfig WITH
    config <- v1, rebuilt <- v2, _TCP_PORT_ASSIGNMENTS <- v3,
    _TCP_RESERVED_BASE_PORTS <- v4, Ports <- 1 .. 3, MaxGiven <- 2, MaxNames <- 2

Factory == INSTANCE WebSocketAdapterFactory WITH Threads <- Seekers

Adapters == INSTANCE WebSocketAdapters

Configs == INSTANCE ConfigLoader WITH
    files <- v1, todo <- v2, configs <- v3, state <- v4, held <- v5, edits <- v6,
    Suffixes <- <<".yaml", ".json", ".yml">>, Contents <- Files, MaxEdits <- 1

Lookup == INSTANCE AdapterLookup WITH
    Threads <- Seekers, Plugins <- Modules, Nobody <- Vacant, Application <- UserProgram

Getters == INSTANCE AutoInitMixin WITH Threads <- Readers

Errors == INSTANCE ErrorTranslation WITH
    translators <- v1, installed <- v2, raw <- v3, result <- v4

Connections == INSTANCE ConnectionPool

Core == INSTANCE CoreServices WITH
    call <- v1, cache <- v2, requests <- v3, limiter_lock <- v4, pool <- v5,
    semaphore <- v6, active <- v7, lock <- v8, breaker <- v9, sessions <- v10,
    failure_threshold <- 2, recovery_timeout <- 0, max_requests <- 1,
    time_window <- 1, Calls <- DOMAIN OpsOf, NoCall <- NoThread, Ops <- OpsOf,
    max_attempts <- Attempts, max_concurrent <- 1, ttl <- 1, MaxSessions <- 2

-----------------------------------------------------------------------------
(* What the proofs assume of the constants: a thread at least may run a    *)
(* loop; attempts are counted; plugins are neither the application nor     *)
(* nobody, name types that are theirs alone, and what is imported for a    *)
(* type is one of them; entry points are listed once and can be told from  *)
(* the application by the names of their plugins; every task has its       *)
(* process; a group has finitely many workers, a semaphore a number of     *)
(* permits; a pool has finitely many clients and numbers for its sizes; no *)
(* topic is called like a channel of OKX.                                  *)
ASSUME LoopAssumption == MaxThreads \in Nat \ {0}

ASSUME FeedAssumption == max_retries \in Nat

ASSUME LookupAssumption ==
    /\ Types # {}
    /\ Provides \in [Modules -> Seq(Types)]
    /\ \A p, q \in Modules : p # q => Lookup!TypesOf(p) \cap Lookup!TypesOf(q) = {}
    /\ \A t \in DOMAIN module_names : module_names[t] \in Modules
    /\ Vacant \notin Modules /\ UserProgram \notin Modules /\ Vacant # UserProgram
    /\ NoThread \notin Seekers

ASSUME LoaderAssumption ==
    /\ EntryPoints \in Seq(Loader!Plugins) /\ Readable \in Seq(Loader!Plugins)
    /\ \A p, q \in Loader!Plugins : p.entry = q.entry => p = q
    /\ \A p \in Loader!Plugins :
          /\ p.entry \notin {Loader!Application, Loader!Nobody}
          /\ p.exchanges \subseteq Exchanges /\ p.feeds \subseteq Exchanges
          /\ p.adapters \subseteq AdapterTypes

ASSUME CacheAssumption == ProcessOf \in [Tasks -> Processes] /\ "none" \notin Processes

ASSUME ToolsAssumption == IsFiniteSet(Workers) /\ max_concurrent \in Nat

ASSUME PoolAssumption == IsFiniteSet(Clients) /\ max_size \in Nat /\ min_size \in Nat

ASSUME AdaptersAssumption == DOMAIN Limits \cap {"tickers", "books", "candle"} = {}

-----------------------------------------------------------------------------
vars == <<component, named, from1>>

Init ==
    \/ component = "cache" /\ Cache!Init /\ unused7 /\ Absent
    \/ component = "cache service" /\ Services!Init /\ unused1 /\ Absent
    \/ component = "container" /\ Container!Init /\ unused8 /\ Absent
    \/ component = "plugin loader" /\ Loader!Init /\ unused1 /\ Absent
    \/ component = "instruments" /\ Manager!Init /\ unused5 /\ Absent
    \/ component = "event bus" /\ Bus!Init /\ unused1 /\ Absent
    \/ component = "http feed" /\ Feed!Init /\ unused1 /\ Absent
    \/ component = "async base" /\ Loop!Init /\ unused1 /\ Absent
    \/ component = "async tools" /\ Tools!Init /\ unused1 /\ Absent
    \/ component = "gateway config" /\ Config!Init /\ unused5 /\ Absent
    \/ component = "adapter factory" /\ Factory!Init /\ unused1 /\ Absent
    \/ component = "adapters" /\ Adapters!Init /\ unused1 /\ Absent
    \/ component = "errors" /\ Errors!Init /\ unused5 /\ Absent
    \/ component = "config files" /\ Configs!Init /\ unused7 /\ Absent
    \/ component = "adapter lookup" /\ Lookup!Init /\ unused1 /\ Absent
    \/ component = "getters" /\ Getters!Init /\ unused1 /\ Absent
    \/ component = "connection pool" /\ Connections!Init /\ unused1 /\ Absent
    \/ component = "core services" /\ Core!Init /\ Absent

Next ==
    \/ component = "cache" /\ Cache!Next /\ UNCHANGED from7 /\ Untouched
    \/ component = "cache service" /\ Services!Next /\ UNCHANGED from1 /\ Untouched
    \/ component = "container" /\ Container!Next /\ UNCHANGED from8 /\ Untouched
    \/ component = "plugin loader" /\ Loader!Next /\ UNCHANGED from1 /\ Untouched
    \/ component = "instruments" /\ Manager!Next /\ UNCHANGED from5 /\ Untouched
    \/ component = "event bus" /\ Bus!Next /\ UNCHANGED from1 /\ Untouched
    \/ component = "http feed" /\ Feed!Next /\ UNCHANGED from1 /\ Untouched
    \/ component = "async base" /\ Loop!Next /\ UNCHANGED from1 /\ Untouched
    \/ component = "async tools" /\ Tools!Next /\ UNCHANGED from1 /\ Untouched
    \/ component = "gateway config" /\ Config!Next /\ UNCHANGED from5 /\ Untouched
    \/ component = "adapter factory" /\ Factory!Next /\ UNCHANGED from1 /\ Untouched
    \/ component = "adapters" /\ Adapters!Next /\ UNCHANGED from1 /\ Untouched
    \/ component = "errors" /\ Errors!Next /\ UNCHANGED from5 /\ Untouched
    \/ component = "config files" /\ Configs!Next /\ UNCHANGED from7 /\ Untouched
    \/ component = "adapter lookup" /\ Lookup!Next /\ UNCHANGED from1 /\ Untouched
    \/ component = "getters" /\ Getters!Next /\ UNCHANGED from1 /\ Untouched
    \/ component = "connection pool" /\ Connections!Next /\ UNCHANGED from1 /\ Untouched
    \/ component = "core services" /\ Core!Next /\ Untouched

Spec == Init /\ [][Next]_vars

-----------------------------------------------------------------------------
(* Who sets a value in the cache service and meets no failure of Redis and *)
(* no other write reads it back in the same process, as it was if JSON can *)
(* say it, else as it was or as JSON gives it back; what a container       *)
(* parses on the first use is parsed when a getter reads it, also after a  *)
(* failure (CacheService.get, set, AutoInitMixin._ensure_init).            *)
ReadsAreRight ==
    /\ component = "cache service" => Services!OwnWritesAreRead
    /\ component = "getters" => Getters!DataIsRead

(* A singleton is one instance until it is registered again, a scoped one  *)
(* is one per scope (DependencyContainer.resolve).                         *)
LifetimesHold == component = "container" => Container!LifetimesHold

(* A plugin that fails leaves nothing, and what a loaded one registered    *)
(* stays its own, unless the application takes it or a plugin registers    *)
(* more than it declares (PluginLoader._load_one).                         *)
PluginsSound == component = "plugin loader" => Loader!PluginsSound

(* What the cache gives has not expired, it keeps at most max_size         *)
(* entries, the ones used last, and a clear leaves none that was there     *)
(* before it; the indexes by venue and by underlying name registered       *)
(* instruments (SimpleCache.get, set, clear_exchange,                      *)
(* InstrumentManager._register_unlocked).                                  *)
StoresSound ==
    /\ component = "cache" => Cache!CacheSound
    /\ component = "instruments" => Manager!IndexesSound

(* emit calls every handler once, in order, and its errors are those of    *)
(* the latest emit (EventBus.emit).                                        *)
EmitsAreReported == component = "event bus" => Bus!EmitsAreReported

(* A request makes no more attempts than it may and ends with the answer   *)
(* of the last; no client is left open, but one that was made while a      *)
(* thread read and put down the client (Feed.http_request, HttpClient).    *)
RequestsEndRight == component = "http feed" => Feed!RequestsEndRight

(* What was submitted to a loop has a thread that runs the loop, and only  *)
(* the feed's session is open, but for those that two loops made at the    *)
(* same time (AsyncBase).                                                  *)
AsyncBaseSound == component = "async base" => Loop!AsyncBaseSound

(* A group that is cancelled waits for cancelled tasks only, and no permit *)
(* is lost (AsyncTaskGroup, AsyncSemaphore).                               *)
GroupsSound == component = "async tools" => Tools!GroupsSound

(* A gateway's configuration built again from the adapter's arguments has  *)
(* the same endpoints, which differ, and is the same in all but the poll   *)
(* timeout, unless the caller gave a name with blanks round it, a blank    *)
(* account or extra options that have the names of known ones              *)
(* (GatewayConfig); a directory of exchange configurations is loaded       *)
(* whatever broken or vanishing files are in it, and only with valid ones  *)
(* (load_all_exchange_configs).                                            *)
ConfigSound ==
    /\ component = "gateway config" => Config!ConfigSound
    /\ component = "config files" => Configs!LoadedRight

(* No connection is with two clients, or lost but for those whose health   *)
(* check or close() raised, acquire never makes more than max_size of      *)
(* them, and no client sleeps beside an idle one that nobody is about to   *)
(* take (ConnectionPool.acquire, release, _cleanup_idle_connections).      *)
ConnectionsAreKept ==
    component = "connection pool" =>
        /\ Connections!Exclusive /\ Connections!NoneLost
        /\ Connections!AcquireRespectsMaxSize /\ Connections!NoLostWakeup

(* Permits, windows and the circuit breaker of the core services keep to   *)
(* their limits exactly, over pools closed and configured again            *)
(* (ConnectionService, AsyncRateLimiter, async_circuit_breaker).           *)
ServicesKeepLimits ==
    component = "core services" => Core!PermitsExact /\ Core!WindowHolds /\ Core!BreakerExact

(* A websocket adapter class that was registered is not replaced by a      *)
(* plugin loaded at the same time (WebSocketAdapterFactory); threads that  *)
(* look for a gateway's adapter class while plugins are being loaded find  *)
(* it, and all find the same (GatewayRuntime.get_adapter_class,            *)
(* _resolve_adapter).                                                      *)
AdaptersAgree ==
    /\ component = "adapter factory" => Factory!RegisteredStay
    /\ component = "adapter lookup" => Lookup!LookupsAgree

(* The venue's messages come back under the topic and the symbol           *)
(* subscribed to (OKXWebSocketAdapter).                                    *)
RoutedBack == component = "adapters" => Adapters!RoutedBack

(* An error is translated alike in each of its forms and never becomes     *)
(* success (OKXErrorTranslator, ErrorTranslator).                          *)
TranslationsHold == component = "errors" => Errors!TranslationsHold

(* "Async context manager with retry logic" (AsyncContextManager.retry): a *)
(* block that failed has been tried as often as allowed.                   *)
RetriesAreMade == component = "async tools" => Tools!RetriesAreMade
=============================================================================
