# A TLA+ verification of bt_api_base

`bt_api_base` is the common base of a family of exchange connectors: a gateway
process that shares one exchange account between trading strategies, streams
and websocket connections, pools, rate limiters, caches, an event bus, a plugin
loader and the record types that exchanges are normalised to. This directory
holds TLA+ modules that model the parts with state, the TLC configurations that
check them, and proofs for TLAPS. All paths below are relative to
`src/src/bt_api_base/`.

    tlc -workers 2 -config MCGatewayThreads.cfg MCGatewayThreads   # check one run
    tlapm GatewayOrdersProofs.tla                                  # check one proof

`PROJECT.json` is the index: components, runs, the faulty variants that each
property is known to catch, the source lines behind every definition, the
hazards, the findings and the theorems.

## 1. Inventory

### Gateway

| Part | State it keeps | Operations | Talks to |
|---|---|---|---|
| `gateway/runtime_remote.py` `GatewayRuntime` | running, health, adapter readiness, order map, subscriptions, recent trades, three ZMQ sockets | `start_in_thread`, `stop`, `start` (the loop), the background connector, `_dispatch` of 13 commands, flushing of adapter output | adapter (calls and an output queue), allocator, order map, subscription manager, tick writer |
| `gateway/runtime.py` `GatewayRuntime` | state, stop event, adapter, publishers, command server, pump thread | `start_in_thread`, `stop`, `_handle_command`, the pump | adapter, forwarding servers of another package |
| `gateway/subscription_manager.py` | strategy → symbols, symbol → count | `add`, `remove`, `remove_strategy`, reads | called by the runtime |
| `gateway/order_identity_map.py` | entries under request, client and venue ids | `register`, `set_*`, `update_status`, `remove`, look-ups `by_*` | called by the runtime |
| `gateway/order_ref_allocator.py` | last value, state file | `next`, `align_with_max`, `reset`, persisting | file system, called by the runtime |
| `gateway/storage/tick_writer.py` | row buffers, flush thread, Parquet files | `start`, `stop`, `write`, flushing | file system, called by the runtime |
| `gateway/health.py` | state, connections, counters | setters, `snapshot` | written by the loop, the connector and the owner |
| adapters, registrar, config, models, protocol | plug-in interface, dictionaries, dataclasses | | |

A command reaches the loop thread through a ROUTER socket; the loop alternates
between commands and the adapter's output queue, which the adapter's own
threads fill. The owner of the runtime and the background connector write the
same attributes without a lock. Hard here: the interleavings of owner, loop and
connector around start and stop, a connector that outlives the run that spawned
it; events that name an order by any subset of its ids, before or after the
answer that would tell them; persisting order references across crashes;
flushing one file from three threads. Correct means: events reach the strategy
that placed the order; order references never repeat; counts equal holders and
held symbols are streamed; ticks are written once and in order; a stop is final
and releases everything; a write the exchange took is never called rejected.

### Infrastructure

| Part | State it keeps | Operations | Hard |
|---|---|---|---|
| `rate_limiter.py` | a limiter per rule: request deque or window counter; one lock | `acquire`, `wait_and_acquire`, `async_acquire`, `get_status` | grants rolled back after time has passed, boundaries of windows, waiting for the right time |
| `connection_pool.py` `ConnectionPool` | idle deque, in-use set, condition, cleanup thread | `acquire`, `release`, `start`, `stop`, cleanup | lost wake-ups, exceptions between two changes, threads that outlive a stop |
| `connection_pool.py` `AsyncConnectionPool` | idle deque, in-use set, semaphore, lock | `acquire`, `release` | failure or cancellation with a permit in hand |
| `feeds/my_websocket_app.py` | current socket, running flag, readiness, subscription batch, generation, four threads | `start`, `stop`, `restart`, `run`, callbacks, two watchdogs, a timer | verdicts on a socket that has been replaced, late acknowledgements, start and stop against threads that are ending |
| `websocket_manager.py` | connections per exchange, subscriptions, sockets, reading tasks | connect, disconnect, subscribe, unsubscribe, message loop, reconnect, pooling, close all | awaits between test and use, two reading tasks of one connection, reconnect against disconnect and unsubscribe |
| `websocket/exchange_adapters.py` | registered adapter classes, subscriptions of an adapter | `create_adapter`, `register_adapter`; subscribe, unsubscribe, normalize | a class registered while a plugin is imported, names that must come back as they were sent |
| `event_bus.py` | handlers, errors of the last emit | `on`, `off`, `emit`, `clear` | handlers that raise, or change the handlers, while several threads emit |
| `core/services.py` | cached answers, request times, one pooled session per exchange, a circuit breaker; an event queue with a worker | `get_ticker`, `place_order`, `get_balance`, `release_connection`, `close_all`; `start`, `stop`, `publish`, `publish_async`; `get`, `set` | locks held while waiting, cancellation and timeouts at each await, a stop with events queued, two stores of a value |
| `core/async_context.py` | breaker state, request times, permits, a queue, a set of tasks | timeout, retry and breaker as decorators and as context managers; acquire, release, put, get, `wait_all`, `cancel_all` | probes in the half-open state, cancellation with a permit in hand |
| `core/dependency_injection.py` | registrations, singletons, the current scope | register, `resolve`, scopes | double creation, instances that outlive what they were made for |
| `plugins/loader.py`, `registry.py`, `gateway/registrar.py` | loaded and failed plugins, feed and data classes, adapter classes | load, register, unregister, look up | what a plugin registered before it failed, look-ups while plugins load |
| `instrument_manager.py` | instruments under three indexes | register, unregister, look up | indexes that name what has been replaced |
| `cache.py` | entries with expiry | get, set, delete, cleanup, a decorator, clearing an exchange | expiry between test and use, results computed before a clear and stored after it |
| `feeds/feed.py`, `http_client.py`, `connection_mixin.py` | sync and async clients, connection state | requests with retries, connect, disconnect | what is retried how often, clients closed under a request |
| `functions/async_base.py` | event loop, its thread, a shared session | `start_loop`, submit, `release`, requests | loops stopped and run again, a session made by two loops at once or closed with a request on its way |
| `config_loader.py` | configurations by exchange | load a file, load a directory | a directory that is edited while it is read |
| `gateway/config.py` | a gateway's configuration, TCP ports handed out | from arguments, to arguments and back | ports of two endpoints, options that do not survive the way back |
| `containers/auto_init_mixin.py` | a flag and the parsed fields of a container | getters, `init_data` | threads that share a container, parsing that fails |
| `error.py` | translators, some loaded lazily | `translate` | codes that are strings or numbers |
| `base_stream.py`, `containers/`, `exceptions.py`, `security.py`, `auth_config.py`, `logging_factory.py`, `functions/`, `utils/`, `testing/` | records, tables, configuration | getters, conversions | nothing concurrent |

`PROJECT.json` lists every component with its status: modelled, partly, or not
modelled with the reason.

## 2. Modules

Actions carry the names of the methods they model. Every definition of code is
in the `map` of `PROJECT.json` with its lines; operators marked "Faulty
variant" are plausible bugs that the properties are tested against and are in
no specification.

**SubscriptionManager** - the two dictionaries as functions whose DOMAIN is the
set of keys, since the code tells a missing key from an empty value. One action
per method, each of which holds the lock. The history variable `followed` is a
caller that subscribes what `add` returns and drops what `remove` returns.

**MarketSubscriptions** (extends SubscriptionManager) - the commands of the
remote runtime that use the manager: `register_strategy`,
`unregister_strategy`, `subscribe`, with an adapter that accepts, skips or
raises, connects and disconnects. Only the loop thread runs commands, but the
connector and `stop` change `_adapter_connected` between any two lines of one;
so a command is cut at its test of the flag, at the call of the adapter, at the
entry into the manager and at the health report. The history variable `carried`
marks the symbols that a command entered which had begun before the adapter
connected: the code never asks the adapter for those.

**OrderRefAllocator** - construction from the state file (missing, unusable,
not UTF-8, a number, or one that cannot be read just now: `load_fails`), `next`, `align_with_max`, `reset`, and the persist in
its steps, each of which can fail; the process can end at any point.

**OrderRouting** - first the order identity map, as operators: a heap of entries
and three indexes into it, because the code stores the same mutable entry under
several keys. On top of it the `place_order` branch, the recording of the ids in
answers, the enriching of events and the learning of their ids. A command names
its request id, if any, its strategy and the client id it may bring along; any
strategy may use any request id again, or none (`NoId`). `SoleUser` is an order
whose request id no other strategy has placed under, which is what the
properties promise an owner for.

**GatewayOrders** (extends OrderRefAllocator, INSTANCEs OrderRouting) composes
the two: `place_order` gets its reference by the allocator's own `next`, with
its persist; a crash of the process forgets the orders and keeps the state
file, and events of orders from before the crash still arrive. The variable
`caller` says whether the gateway or anybody uses the allocator, so that the
methods the gateway never calls are checked too.

**GatewayLifecycle** - owner, loop thread and one connector per run over the
shared attributes, one assignment or external call per step.

**TickWriter** - `write`, the flush thread and `stop` flush symbols through
read, truncate, commit; file operations fail and corrupt files.

**GatewayRuntime** - `runtime.py`: the owner's steps through start, failed
start and stop with `_cleanup`; the pump threads; one command handler; an
exchange that decides about a write independently of what the caller hears.

**AdapterLookup** - `get_adapter_class` and `_resolve_adapter`: threads that look
a class up under the plugin lock, load the plugins when they must, and fall
back to the module of an exchange; an application registers classes meanwhile.

**RateLimiter** - rules and requests as records; limiter state as ages and
phases, not absolute times, so the state space is finite under an unbounded
clock. `acquire` is one step per rule asked, with time passing in between.

**ConnectionPool** - one step per stretch of code under the lock, with the
waiters' queue of `threading.Condition` explicit: a waiter whose wait times out
stays in the queue until it holds the lock again. Health checks raise, and so
does a connection's `close()`, also with what `_close_connection` does not
catch: out of `acquire`, `release`, `stop` or the cleanup thread, which then
ends with closed connections still in the pool (`stale`).

**AsyncConnectionPool** - tasks switch at awaits only; semaphore, lock and
factory are the awaits.

**MyWebsocketApp** - worker, both watchdogs, the restart timer and the owner.
Sockets are small numbers, reused when nobody remembers them. A look of a
watchdog, its verdict under the lock and its `close()` are three steps; the
worker tests the stop event and enters the socket's loop in two, between which
a close is lost. Without a readiness timeout a socket gets no deadline.

**WebSocketManager** - the manager's pool of connections of one exchange and the
connections in it. A step is what runs from one await to the next; each
`connect` starts a reading task of its own, so that a connection that
reconnects has two: the old one restores the subscriptions while the new one
reads. Restoring awaits one send after the other, each on the socket of then; it
fails when the socket it awaits is closed, when there is none, and when
`_connected` was cleared, also with the socket open.

**WebSocketAdapterFactory**, **WebSocketAdapters** - creating adapters while
classes are registered and plugins imported; how OKX's adapter and the generic
one name, count, cancel and recognise subscriptions.

**AsyncContext** - operators for what the circuit breaker, the retry decorator
and the rate limiter decide; it is used by **CoreServices** (calls of the market,
trading and account services over cache, limiter lock, connection lock, permits
and breaker, cancelled or timed out at any await; an answer is stored before the
await of its publication and the release after it) and by **AsyncTools**: the
semaphore, the queue, the task group, and retry and breaker once more as context
managers, which behave differently.

**EventService** - both ways to publish, the tasks that put events into the
queue, the processing task, and `stop`, which waits for it. **EventDelivery** is
what such a service promises: one first-in-first-out channel for each way to
publish, delivery once, loss only by a stop. EventService defines the refinement
mapping and the run checks it step by step.

**CacheService**, **SimpleCache** - one key in Redis, which holds JSON, and in the
dictionaries of two processes, which hold copies: a value is of a kind that JSON
keeps, or changes, or that cannot even be copied; the ordered dictionary with
the age of each entry, expiry and eviction, the decorator in
its three steps and `clear_exchange`, key by key.

**EventBus** - the handlers are changed and copied under a lock; `emit` calls those
of its copy one by one, in several threads, and keeps errors without the lock.

**Injection** - registrations of three lifetimes and `resolve`, which first makes
what the constructor needs.

**PluginLoader** - the exchange registry (feed, data and stream classes) as
operators, and on it the plugins of `load_all` one after the other, with each way
to fail, into staged registries; then the checks, which look at the exchanges a
plugin names, and the commits of the feeds and adapters it did register, piece by
piece, with calls of the application between any two of these steps. **InstrumentManager** - three indexes and every operation that
changes one.

**HttpFeed** - the retry loop, the client's verdict on each kind of answer and
failure, lazily made async clients, `connect` and `disconnect` under requests, in
the event loop and in a thread outside of it, where the client is read, put
down and closed in three steps.

**AsyncBase** - loop threads, loops told to stop and run again, what was submitted
to which loop, the shared session, which two loops that two threads run may both
find missing and make.

**ConfigLoader**, **GatewayConfig** - a directory read file by file while it is
edited; a configuration sent through `to_kwargs` and `from_kwargs`, with `strip`
where the code strips and options in `extra` that have the name of a known one.

**AutoInitMixin** - the getters of several threads around an `init_data` that may
fail.

**ErrorTranslation** - the generic and the OKX translator and the lazy loading of
others.

**Modules for the runs.** MC modules define the constants a `.cfg` cannot write;
where the `.cfg` can, the run is of the component's own module. Three modules
combine components that share nothing and never interact in the code:
**MCGatewayThreads** extends TickWriter and adds the standalone runtime as an
instance, **MCServices** extends AsyncConnectionPool and adds the core services
and the event service, **MCComponents** instantiates eighteen that work alone,
the core services once more among them, on a larger instance for safety.
What is proved about keeps its own variables and constants there, by the names
its module gives them, so that the theorems speak of the very properties the
run checks and hold for every value of those constants; in MCComponents these
are eleven components, and the other seven share the variables `v1` to `v10`. A
behaviour is one of the component it starts with: the variable `component` is
set by `Init` and never changes, and the other components' variables do not
either. So the state space is the sum of the components' and not their product,
each is checked completely, and a property says which component it is about.

## 3. Runs

| Run | Configuration and bounds | What it shows |
|---|---|---|
| `market_subscriptions` | 3 strategies, 3 symbols | Counts equal holders after any calls. While the adapter is connected every held symbol is streamed unless a command that had begun before the connect entered it; between commands the counts in health are exact. |
| `gateway_orders` | allocator alone: refs up to 4, 2 crashes, 2 failed loads or persists; gateway: 3 commands of 2 strategies, two without a request id, 2 orders, 2 venue ids for the first, canonical and alias keys, one client id supplied, 1 crash, 1 failure | References increase over crashes at any point, and over failed loads and persists outside the named exceptions, and after a successful persist the file covers them. Events, also those of orders from before a restart, go to the strategy that placed the order or to none, if it alone uses the request id; ids the exchange was sent, or the gateway was told, are known from then on. |
| `gateway_lifecycle` | 2 runs, 1 fault, 2 connect attempts, slow start and slow loop | What stop, a failure and a connected adapter guarantee under every interleaving; a gateway that is ready stays so until it is stopped, and a stop that the loop can see ends it. |
| `gateway_threads` | tick writer: 1 symbol, 3 ticks, buffer of 2, 1 file error, 2 starts, slow flush thread; standalone runtime: 2 starts, 2 events, 2 writes, 2 faults | Ticks are in the file, a thread's hands or the buffer, in order and once, and `stop` drains; acknowledgements are true; after stop or a failed start nothing is held; events are published once and in order; buffered ticks and queued events do not stay behind. |
| `services` | core services: 2 tickers and 1 order on 1 permit, 1 request per second, threshold 2; event service: 3 events, 2 starts; pool: 3 tasks, 2 permits, 3 connections, 1 failure | The pool accounts for its permits and never makes too many connections; the event service implements EventDelivery; whoever waits is served, in each of the three. |
| `rate_limiter` | 2 callers, 2 calls, three rules (sliding global, fixed and sliding on one endpoint), requests of different weights | Limits hold in every interval; between calls the limiters count exactly what was admitted; calls are answered. |
| `my_websocket_app` | 2 starts, batch of 2 requests, 2 reconnect attempts, all helper threads; seven names for sockets, as six can be in use at a time | Readiness is true of the current socket, which is announced once; a stop is final; no socket is forgotten open, an unready one is replaced, and workers end. |
| `websocket_manager` | 2 tasks, 2 subscription ids, 2 connection objects, 1 at most in the pool, 3 sockets, 1 reconnect attempt, 1 close of all, awaited callbacks | The pool keeps its size; what a connected connection has subscribed to was sent on its socket, or somebody is about to send it; a connection that counts as running or connected has a reading task, outside the exceptions of section 6. |
| `components` | eighteen small instances, constants in MCComponents and its `.cfg` | One property per component or pair of related components: see the comments there. `ServicesKeepLimits` has two callers that place orders and two sessions: the least with which an order succeeds late, after the other's failures have opened the breaker, and a pool is configured again after `close_all`. |
| `rate_limiter_bucket` | one `token_bucket` rule | Violation, see section 6. |
| `websocket_reconnect` | as `websocket_manager` | Violation, see section 6. |
| `async_retry` | as `components` | Violation, see section 6. |

**Refinement.** `DeliversInOrder`: EventService implements EventDelivery (initial
states and steps, as its behaviours are some of those of the run).

**Why these bounds.** Each is the least at which the case the properties are
about happens, and the faulty variants of `PROJECT.json` show that it does:
each of them is caught within the bounds of its run.

- Gateway: two runs for a connector that outlives its run; a third would meet
  the same shared attributes. Two venue ids for an order make an id learned
  earlier differ from the one an event carries. One crash puts orders of two
  processes side by side; failing persists are explored with the allocator
  alone. `MaxQueue = 1` loses no order of events: the queue is first in first
  out and `emit` may happen between any two steps. Three ticks with a buffer of
  two let one flush be under way, one fail and one tick wait.
- Limiters and pools: two callers and three rules give a rule that grants
  before another denies, with a competitor in between. With one slot three
  clients make a sleeper, a notified one and a newcomer, the smallest case of a
  lost wake-up. Three tasks on two permits let one wait while another fails.
- Websockets: two starts of the stream let helper threads of the first be alive
  in the second. Three sockets let a connection lose one while it restores
  another, and two subscriptions let a restoring task have sent the one and
  await the other; two connections on a pool of one let the second be opened
  while the first is closed, or while a client still tests the pool's length.
- Services: three callers make a holder of the lock, one that sleeps with it
  and one that is cancelled. Three events and two starts put an event of each
  way to publish around a stop.

`CHECK_DEADLOCK FALSE` appears in `gateway_threads`, `services`, `components`,
`websocket_manager` and the two violation runs on the last two, where the
bounded system may really stop: all ticks written, all events and commands
spent, all calls ended, all permits lost or all connections made.

**Fairness.** Safety properties need none. Liveness assumes what the code's
scheduling gives, and nothing of users or exchanges:

- `GatewayLifecycle`: each thread that can step does; `adapter.connect()`
  returns or raises. Nobody needs to call start or stop.
- `TickWriter`: threads run, and the flush thread, which compares clocks after
  every sleep of at most a second, finds the interval passed again and again
  (strong fairness: between two sleeps it only tests `_running`).
- `GatewayRuntime`: the owner's call and the pumps go on; the adapter need
  neither answer nor emit.
- `RateLimiter`: time passes and a thread that can step at all times does. The
  lock needs no fairness: with the bounded calls it becomes free for good.
- `CoreServices`: sleeps and awaited calls end, asyncio's locks and semaphores
  are FIFO (strong fairness of each call), time passes, a `close_all` goes on.
- `EventService`: the tasks that put events, the processing task and a `stop`
  go on; handlers return.
- `AsyncConnectionPool`: asyncio's semaphore and lock are FIFO (strong
  fairness), the factory returns, holders release.
- `MyWebsocketApp`: the worker runs; a handshake ends within its timeout; a
  socket that was asked to close does (the library's loop sees
  `keep_running = False`); the watchdogs run. Messages, silence and closing by
  the exchange are not assumed.

The combined runs state the same conditions. Where one condition there is over
a disjunction of two components' actions it is no weaker: `component` never
changes, so in each behaviour all but one of the disjuncts are never enabled.

## 4. Proofs

Eight modules prove safety properties for all values of the constants, beyond
the bounds of the runs: any number of strategies, orders, crashes, starts,
faults, sockets, tasks, plugins. Each EXTENDS the module it is about, or the MC
module that combines it with others, and each theorem whose property a run
checks states that very definition. The pattern is the same in all: an invariant
(`IInv`, `Inv`, or the name of the component with `Inv`) that is inductive, a
lemma that `Init` implies it, one lemma per action or per conjunct for the
steps, and the theorem from these.

| Module | Theorem | Property |
|---|---|---|
| MarketSubscriptionsProofs | `SubscriptionsExact` | `TypeOK`, `RefCountExact`, `FollowerHoldsWanted` of SubscriptionManager |
| | `GatewayCountsExact` | `RefCountExact` under the gateway's commands |
| | `HeldAreStreamed` | `StreamsAreTrue` |
| GatewayOrdersProofs | `RefsUnique`, `FileIsAhead` | `RefsIncrease`, `FileCoversIssued` of the allocator |
| | `RefsOfOrdersUnique` | both in the gateway |
| | `EventsFindOwner`, `SentOrdersAreKnown` | `EventsReachOwner`, `OrdersAreKnown` |
| GatewayLifecycleProofs | `TypesAreKept`, `StopsAndFailuresClean`, `ReadinessTrue` | `TypeOK`, `StopsAndFailuresAreClean`, `ReadinessIsTrue` |
| | `ReadinessStays` | `ReadyUntilStopped`, the safety half of `ReadyThenStopped` |
| GatewayThreadsProofs | `TicksKept` | `TicksAreKept` of TickWriter |
| | `AcknowledgementsTrue` | `AcknowledgementsAreTrue` |
| | `IdleHolds`, `EventsInOrder`, `RuntimeStaysClean` | the two parts of `RuntimeIsClean`, and it |
| | `ThreadsAreSafe` | the three together, of the combination the run checks |
| MyWebsocketAppProofs | `StreamReadinessTrue`, `StoppedStreamQuiet` | `ReadinessIsTrue`, `StoppedIsQuiet` |
| WebSocketManagerProofs | `PoolStaysBounded`, `AllSubscriptionsSent`, `ConnectionsAttended` | `PoolBounded`, `SubscriptionsAreSent`, `ConnectionsAreAttended` |
| AsyncConnectionPoolProofs | `PermitsAccountedFor` | `PoolKeepsPermits` |
| ComponentsProofs | `LoopsAreTended` | `AsyncBaseSound` |
| | `RequestsEnd` | `RequestsEndRight` of HttpFeed |
| | `LookupsAndFactoryAgree` | `AdaptersAgree`: AdapterLookup and WebSocketAdapterFactory |
| | `PluginsAreSound` | `PluginsSound` of PluginLoader |
| | `OwnWritesAndDataRead` | `ReadsAreRight`: CacheService and AutoInitMixin |
| | `MessagesRoutedBack` | `RoutedBack` of WebSocketAdapters |
| | `GroupsAreSound` | `GroupsSound` of AsyncTools |
| | `PoolKeepsConnections` | `ConnectionsAreKept` of ConnectionPool |
| | `BusReportsErrors` | `EmitsAreReported` of EventBus |

**MarketSubscriptionsProofs.** The conjunction of the manager's three invariants
is inductive: that a count is exact after `add` or `remove` can only be told
from its being exact before, and that the key of a count disappears with its
last holder follows from the counts being positive. `CountStrategies` reduces
both calls to what one strategy more or less does to a cardinality.
`FollowerHoldsWanted` (a caller that obeys what the calls return holds exactly
the symbols somebody wants) is proved and has no run of its own. The steps of the
gateway that enter into the manager are calls of `add` and `remove_strategy`, so
the counts stay exact there, too. `StreamsAreTrue` needs what a command between
two of its steps may count on (`CommandOK`): what it is about to enter streams or
is held, unless the adapter has connected since it began. The step that needs
the counts is the one of `unregister_strategy`: that it makes no symbol active
follows from a held symbol having a count. Assumed: the set of strategies is
finite.

**GatewayOrdersProofs.** First the allocator. The strengthening says which of
value and file bounds the references given out, and when: `ValueAhead` (the
value, while the object exists; strictly, while `next` is on its way),
`FileAhead` (the file, when the object is gone or its last persist succeeded)
and `ReturnSaved` (a call that persisted has its value in the file). A crash
moves the burden from the first to the second, construction back, unless it
could not read a file that knew more than the default. Then the
orders. That an event finds the right strategy by whichever of its ids the map
knows needs all of the map (`MapOK`: an index leads to entries, and the request
and venue ids of an entry are in their indexes), that every id of every order,
also of orders from before a restart, leads to an entry of its request id if it
leads to one (`LeadsToRequest`), that every entry has request id and strategy of
an order that was placed (`EntriesPlaced`, `VenuesPlaced`) and so, for an order
whose strategy alone uses the request id, that strategy; that this process's
orders are found by the ids sent (`SentAreFound`), that waiting events name ids of their order (`IsOf`), and that
orders were sent with the allocator's references in turn (`Linked`): so the
allocator's theorem makes the references of two orders differ (`UniqueRefs`).
Assumed: `None` is no id; `SuppliedIsNoRef`, that a client id which a request
brings along is no number of the allocator. The code relies on the latter
(`runtime_remote.py:373` to 386), see section 6.

**GatewayLifecycleProofs.** Between a test and an assignment of one thread the
others run, so the invariant says at each step of each thread what it may count
on: when `running` and the sockets belong to a loop that serves
(`RunningIsServing`), who still has to close the tick writer
(`TickWriterIsWanted`), what a stop has cleared by the step it has come to
(`StopProceeds`, `AloneIsDisconnected`), and, while runs do not overlap, that one
connector alone is at work and the adapter's mark true (`OneConnector`,
`MarkIsTrue`). Assumed: at least one run and one attempt.

**GatewayThreadsProofs.** The tick writer: two things are proved of the same
steps. Whatever races, file, buffer and hands have no tick in common, and what a thread has read from
the file is in no buffer and in no hands, so it can be written back without
doubling a tick (`RowsOnce`). Without a race one thread at most flushes a
symbol, what it read is what the file still holds, and file, hands and buffer
in this order are the ticks written (`InOrder`). `Drained` follows the final flush
of `stop`: the flush thread has ended, nothing waits to come back into a buffer,
and a buffer stop has been through holds ticks that came later. The lemmas on
sequences in front say what concatenation and appending do to each.

The standalone runtime: `StateOfOwner` and `HeldByOwner` tie state, flag,
servers and link to the step the owner is at. For the order of events there is
one pump that has not ended (`OnePump`), and published, taken and queued events
follow each other (`PublishedFirst`, `TakenBetween`, `QueueInOrder`). The latter
hold where no pump outlasts its join (`~SlowPump`); the theorem says so, as the
property does, and what it says of servers and adapters holds without. A
step of either part leaves the other's variables alone, so both invariants hold
of the combination (`ThreadsAreSafe`).

**MyWebsocketAppProofs.** The socket at hand and what was sent and acknowledged
on it go together (`BatchOfSocket`), the worker has a socket from its creation
(`WorkerHasSocket`), and an open one that is not running is somebody's to end
(`NotForgotten`): a watchdog's with its verdict in hand, or the owner's. The
names of sockets are reused; `EnoughNames` asks for seven, as six variables can
hold one, and `NewSocketExists` proves that this is enough.

**WebSocketManagerProofs.** Across an await nothing can be taken for granted but
what the lock protects (`LockHeld`: the connection under way is still fresh and
the pool still has room). `SocketsOwned` keeps the request of a client for the
socket of its own connection, and `AskedOrOwed` names who owes a subscription
that was not sent. `KnownTask` says what the task the connection knows may be
doing while others of the same connection live on, `StoppedBy` why a connected
connection may not run. Assumed: the marker for an unused lock is no client,
and `max_connections` is positive.

**AsyncConnectionPoolProofs.** Permits, connections and pooled-or-in-use are kept
together, with `FactoryAlone`: the factory is awaited with the lock held, so the
pool is as empty as it was found and there is room for one more. Assumed
(`Setting`): finitely many tasks, and a size that is a natural number
(`asyncio.Semaphore` raises for others).

**ComponentsProofs.** Eleven invariants, and two lemmas about the combination: a
behaviour of it starts as its component does (`FirstIsTheComponents`), and a step
of it is one of that component (`StepsAreTheComponents`).

- AsyncBase: what was submitted is tended because every loop that is not closed
  has a thread that runs it or is about to (`OpenAreTended`), over the end of one
  thread and the start of the next; a thread runs open loops only. Of the open
  sessions all but the feed's were made while another loop was about to make one,
  too (`MakersApart`, `MadeAreContested`); with one loop there is one (`OneLoopAlone`).
- HttpFeed: `CallRight` relates the step of a call to the answers its attempts
  have had so far, and `AttemptEnds` shows of every answer and every number of
  attempts that the loop goes on or ends as it should. A client that is open and
  no longer the feed's is being closed, or was put down by a thread that had read
  another one (`OthersAreClosed`); in the event loop nobody is between the two
  (`TasksShareTheLoop`).
- AdapterLookup: `OwnersProvide` and `FoundAgree` say whose class may be in the
  registry and what a thread that found one has seen. That nobody is denied a
  class follows from what a started and a completed load have supplied
  (`StartedAreSupplied`, `LoadedAreSupplied`), and from what a thread between two
  steps of its lookup has still to do (`JobRight`, `TodoRight`).
- WebSocketAdapterFactory: a class that was registered is in the table, and a
  plugin's is taken only where there is none.
- PluginLoader: `LoadedOwn` (what a loaded plugin registered is its own, unless the
  application or a plugin that registers more than it names has taken it),
  `OwnersAreLoaded` (what a plugin owns, a loaded one of that name registered, or
  the one being committed) and `CommitRight` (what is committed and what is still
  to be), over plugins that fail half way and the application beside every step.
- CacheService: a value that a task wrote alone is where it was put
  (`SettledIsThere`), as it was or as JSON gives it back (`JsonKeeps`), and whoever expects to read it runs in that process
  (`ExpectedIsSettled`); a task that is to write alone is alone (`CleanIsAlone`).
- AutoInitMixin: the flag is up without parsed data only while a thread is in
  `init_data` (`FlagIsMeant`), and every getter that ran beside that one knows
  (`OverlapsAreKnown`).
- WebSocketAdapters: a channel leads back to its topic (`ChannelsInvert`), and
  what the venue streams was asked for.
- AsyncTools: whom the owner of a group waits for was created (`AwaitedExist`),
  so whoever runs when it cancels is cancelled and the others have ended; permits
  are counted against the workers that hold one (`PermitsMove`), and every way to
  end a worker is one lemma (`ReleaseKeeps`).
- ConnectionPool: `OneHolder` and `AllAccounted` keep every connection in one
  place, but for those that left it as their health check or their `close()` raised, and `AskedFit` those that `acquire` made within `max_size`. That nobody
  sleeps beside an idle connection rests on who is in the queue of the condition:
  all who sleep, once, and none who is not waiting (`InQueue`); so every
  notification wakes a client or is spent on one that timed out and looks anyway,
  and there are as many of those as idle connections (`NotifiedSuffice`).
- EventBus: calls of `emit` have numbers of their own (`NumbersApart`), so of the
  errors in the list those of the latest are told from the others, and of these
  nothing is missing (`Reported`), whatever other emits append in between.

Both filter sequences (`Without`), by a function over their prefixes. That the
recursion has a solution (`LeftExists`), keeps order, members and distinctness
(`WithoutKeeps`) and follows an append (`WithoutAppend`) is shown by induction
over the prefixes: from the least number that a set of numbers has
(`LeastNumber`, from the well-foundedness of `<`), with the set of the prefixes for
which a fact holds in the place of a predicate (`Climb`).

Assumed, each by name in MCComponents and evaluated by its run: one thread at
least (`LoopAssumption`); `max_retries` is a natural number, a count of
attempts (`FeedAssumption`); no two plugins provide one adapter type, and
what is imported for a type is a plugin (`LookupAssumption`); entry points are
told apart by their names, as the packaging metadata does, and no plugin is
called like the marker for the application (`LoaderAssumption`); a task runs in
one process (`CacheAssumption`); finitely many workers and a number of permits
(`ToolsAssumption`); finitely many clients of a pool, and natural numbers for its
sizes (`PoolAssumption`); no topic is called like a channel of OKX
(`AdaptersAssumption`: `tickers`, `books` and `candle` would be given back as
another topic; the topics the package subscribes to are not).

**Only model-checked.** Liveness under fairness and ENABLED are out of the
prover's reach: `NothingIsLeftBehind`, `WaitingAreServed`, `CallsAreAnswered`,
`SocketsAndWorkersEnd` and the liveness half of `ReadyThenStopped` stay with TLC.
So does what is written with the library's `SelectSeq` and folds over sequences,
which the provers cannot unfold: the limiters' windows (`GrantsAreExact`, and with
it the limits of CoreServices in `ServicesKeepLimits`), the dictionary of
SimpleCache in its order and the lists of indexes (`StoresSound`), the chain of
constructors in `LifetimesHold`, and the filtered channels with which
EventService implements EventDelivery (`DeliversInOrder`). Written as functions
over prefixes, as in ConnectionPool, they would come within reach. `ConfigSound` and `TranslationsHold` are about functions of
finite tables, which TLC tabulates.

## 5. What is left out of the modelled parts

- Wall-clock times are abstracted: a timeout passes when it may, except in the
  rate limiters and caches, where whole seconds pass; clocks do not run
  backwards.
- OrderRouting: every event is a trade; status strings are not distinguished.
  `set_venue_order_id_by_client` and `remove` of the order map have no caller.
- TickWriter: a start while an old flush thread is still alive; the date in the
  file name; counters.
- GatewayRuntime (`runtime.py`): reads, subscriptions and counters. Closing the
  command server is taken not to raise; if it did, `_cleanup` would stop there.
- GatewayLifecycle: the counters and times of health.
- AsyncConnectionPool: a release cancelled while it waits for the lock.
- MyWebsocketApp: callbacks that call `stop()` themselves; proxies; back-off
  lengths.
- WebSocketManager: message contents, statistics, the monitor tasks, which only
  ping and count; several exchanges, as each has its own lock and pool.
- CoreServices: the other reads of the market data service, which take the path
  of `get_ticker`; order cancelling; cached values beside their age.
- CacheService: a value that `json.dumps` refuses (a circular one); `set` then
  raises before it does anything. Times to live, but for the loss of the key.
- Injection: `register_instance` and the global container. PluginLoader: how
  versions are parsed, and the registry's creating of feeds from classes.
- WebSocketAdapters: log-in, signatures, the fields copied for each topic.
- HttpFeed: headers, bodies, the removal of secrets from logs.
- ConfigLoader: the fields of a configuration that pydantic checks by type only,
  the path of a bundled file. GatewayConfig: Windows, where ipc becomes tcp; one
  option stands for each way options are read.
- ErrorTranslation: messages, and all but a few lines of OKX's table.

Not modelled at all, with the reason in `PROJECT.json`: the gateway's queries,
the event clock, service interfaces, feed helpers, the base stream (abstract:
its loop and its connection are in other packages), the record containers,
exception classes, credentials and logging, pure utility functions, test
fixtures.

Adapters, ZMQ sockets, the websocket and HTTP libraries, Redis, the file system
and the exchange are external: what is assumed of them is said in each module.

## 6. Findings and known gaps

Three statements of the repository are false of the code, each with a run that
shows it and an entry under `findings`:

- **Token buckets limit nothing** (`rate_limiter_bucket`). `token_bucket` is a
  rule type, but a rule of that type gets no limiter.
- **A connection that should reconnect can stop the event loop**
  (`websocket_reconnect`). When the socket is lost again while subscriptions
  are being restored, the new reading task finds no socket and goes round its
  loop without an await (`websocket_manager.py:252`).
- **The retry context manager never retries** (`async_retry`). A generator
  cannot run the block of its `async with` a second time; after a failure
  contextlib raises RuntimeError (`core/async_context.py:137`). The decorator
  `async_retry` does retry.

The following behaviours were met while modelling. Where a property would
fail because of one, the property states the exception in its antecedent or
through a history variable, and says so in its comment.

*Remote runtime.* A connector that is inside `connect()` when `stop` runs
leaves the stopped gateway connected. A `stop` before `start` has set `running`
is overwritten and its loop runs on; `start_in_thread` may return that early
when the state is still ERROR. A connector of an earlier run that gives up
clears the readiness of the present run. A start is ignored while the old loop
is alive. A command that cannot be decoded (line 214) raises out of
`_handle_commands` and takes the runtime down. Symbols registered before the
adapter connected are in the manager, and so are never asked of the adapter; the
same happens to those of a registration that has tested `_adapter_connected`
(line 333) when the connector sets it, and enters them afterwards (line 341).
Two orders placed under one request id, or under none (line 371), share one entry
of the order map, and events of the one may be published under the strategy of the
other.
A `bt_order_ref` that a request brings along is registered although the
allocator numbers the order (lines 378 to 386); one that equals another order's
reference takes over that order's events. An alias key in an event hides a new
venue id (line 599). The order map is never pruned.

*Allocator.* A state file that is not UTF-8 makes every persist fail
(`order_ref_allocator.py:93`), so references repeat after a restart. A file that
is in order and cannot be read when the process starts (line 78) is ignored: the
references begin at the default again, and the next persist overwrites what the
file knew. The properties exclude a process whose load failed like this on a
file that knew more than the default, one that ends while its last persist had
failed, and a `reset` to a lower value.

*TickWriter.* Two flushes of one symbol at a time lose the rows of one; a
failed write destroys the file and what was in it.

*Standalone runtime.* A pump that outlasts the join lives on after the next
start clears the stop event; two pumps then publish out of order. A command
that runs across a restart reaches the old, disconnected adapter.

*Gateway configuration and adapters.* Two gateways can be given one TCP port;
`poll_timeout_ms` is lost in `to_kwargs`. `GatewayConfig()` keeps blanks round a
runtime name (`config.py:56`) that `from_kwargs` strips (266); an account of
blanks becomes an empty one (50) and on the way back the default (79 to 84); an
option in `extra` that has the name of a known one is read as that one on the way
back, or is lost. The endpoints stay the same in all of these cases.
`get_adapter_class` may overwrite what
the application registers while it looks (`runtime_remote.py:198`).

*RateLimiter.* A timed wait may give up because of a rule that has room; a
request heavier than a limit waits for ever without a timeout. On Python 3.9 and
3.10, which `pyproject.toml` allows, `contextlib.suppress(TimeoutError)`
(`rate_limiter.py:304`) does not catch `asyncio.TimeoutError`, which is another
class there: an `async_acquire` that has to wait ends with that exception instead
of another try. The models take the two for one class, as they are from Python
3.11 on.

*ConnectionPool.* Cleanup and start fill the pool without looking at what is
in use, so more than `max_size` can be open; releasing an unhealthy connection
notifies nobody; a cleanup thread outlives `stop` by up to a minute; a late
second release takes the connection from its new holder; a health check that
raises loses a connection, and so does a `close()` that raises what
`_close_connection` does not catch (153 to 158): out of `acquire` or `release`; in
the cleanup it ends the thread and leaves closed connections in the pool (140 to
146), and in `stop` the rest is not closed. *AsyncConnectionPool*: a failing factory or a
cancelled acquire loses its permit for good; a repeated release that waits for
the lock takes the connection from a task that got it meanwhile.

*MyWebsocketApp.* A `close()` before `run_forever` is lost, also one between the
worker's test of the stop event (line 482) and the call (483); `stop` then raises
RuntimeError and the worker lives on, with a socket that opens and that no
watchdog looks at any more. An acknowledgement after the readiness
verdict publishes `ws.connected` for a socket that is being closed. `start` may
raise "stopped before ready" although the stream was ready and is reconnecting.
A `close()` that raises in a watchdog leaves a socket that is neither used nor
replaced.

*Websocket manager.* A subscription changed while a callback is awaited ends the
reading task, whose loop over the dictionary raises (line 309). A reconnect
under way survives `disconnect` and leaves a connection nobody owns. The error
of a reading task that died comes out of `disconnect` and aborts `close_all`.
Connections that have given up stay in the pool. Ids of subscriptions made in
the same second collide (line 522). A reading task that gives up can stop a
connection that is connected: another task connects, its loss uses the attempts
up again, and a third task clears `_running`; `get_connection` goes on handing
out the connection although nobody reads it, as it looks at `connected` and
the load only. It takes four sockets, so `ConnectionsAreAttended`, which once
demanded a reader of every running or connected connection, held within the
bounds of its run and was found false by the attempt to prove it; it now excepts
a connected connection whose attempts are used up.

*Exchange adapters.* Unsubscribing from OKX sends the topic where subscribing
sent the channel (lines 259 to 263); `normalize_message` keeps the first of a
batch.

*Cache service.* What Redis holds is JSON (`core/services.py:331`): a tuple, a date or
a key that is no string is read back changed while the copy in the process is
exact, so that what a reader gets depends on which of the two answers; where no
copy can be made, `set` raises after Redis took the value.

*Core services and async tools.* A call that began before the breaker opened
closes it when it succeeds late; every entry of the `circuit_breaker` context
manager makes a state of its own, which never opens. `configure_limit` forgets
the requests of the present window. A Redis that fails can bring back an older
value. Events that are queued or on their way when the event service stops are
lost. `wait_all` catches asyncio's timeout on Python 3.11 and later only.

*Cache.* A result computed before a clear and stored after it is in the cache
again. *Dependency injection.* All threads share the one current scope.

*Plugins and instruments.* The check looks at the exchanges a plugin names
(`loader.py:230`) and the commit takes those it registered (258): a feed it does
not name replaces that of another plugin or of the application. What the
application registers between the check and the commit is replaced, too, while an
adapter type it registers then stays its own. A registry without `create_isolated` ends
`load_all` (line 161). A plugin that registers only streams has them
discarded; an entry point with the name of a loaded plugin is committed but not
recorded; when the application has registered one adapter type of a plugin, the
plugin fails and its other types are unsupported. Two instruments of one venue
symbol share an index entry.

*Feeds.* A POST that times out is sent again. Outside an event loop
`_close_async_client` reads the client and then clears it (`http_client.py:281`,
282): one that a request makes in between is put down unclosed. A JSON body that
is no object raises AttributeError on 404 and 410 (267), and the request is
tried again. *AsyncBase.* A second `start_loop` strands what was submitted to the
first loop; then two loops may both find no session (`async_base.py:149`) and make
one each, of which one is never closed. *Configuration.* A CEX without
the key `base_urls` is accepted; a file that cannot be read aborts the loading
of its whole directory. *Containers.* A getter in a second thread can read fields
that the first is still parsing.

## 7. Plan

What is left to model: the health snapshot of the remote runtime against its
concurrent writers; the queries of recent trades; `base_stream.py` with a
subclass that stands for those of other packages; conversions of containers,
where they can fail.

Abstract specifications to state: a source of unique ids (implemented by
OrderRefAllocator through the refs issued); a log per symbol (TickWriter);
mutual exclusion on connections (ConnectionPool).

Theorems to prove next, in this order: the breaker of CoreServices, which needs
no windows; the windows of the limiters, written as functions over prefixes; the
id source implemented by OrderRefAllocator.
