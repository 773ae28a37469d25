---------------------------- MODULE CoreServices -----------------------------
(***************************************************************************)
(* core/services.py: calls of MarketDataService.get_ticker,                *)
(* TradingService.place_order and AccountService.get_balance that share a  *)
(* CacheService, a RateLimitService and a ConnectionService in one event   *)
(* loop.                                                                   *)
(*                                                                         *)
(* A call goes from await to await: it looks into the cache, takes the     *)
(* lock of the limiter and sleeps with it when there is no room, takes the *)
(* lock of the connections and waits for a permit with it, works, and      *)
(* releases the connection.  A timeout (get_ticker) or a cancellation by   *)
(* the caller strikes at any await.  One exchange, one symbol; the cache   *)
(* without Redis; an order that is placed is mock data in the code too.    *)
(***************************************************************************)
EXTENDS AsyncContext, Integers, FiniteSets

CONSTANTS
    Calls,              \* tasks that call the services
    NoCall,
    Ops,                \* what each of them may call: ticker, order, balance
    max_attempts,       \* of async_retry, by operation (1: not retried)
    max_concurrent,     \* permits of a connection pool
    ttl,                \* how long the cache keeps an answer
    MaxSessions         \* bound: sessions a pool is ever given

VARIABLES
    call,               \* where each call is
    cache,              \* time left to the cached answer of an operation
    requests,           \* AsyncRateLimiter.requests, by resource
    limiter_lock,       \* AsyncRateLimiter._lock, by resource
    pool,               \* _pools[exchange]: absent, empty or the session in it
    semaphore,          \* permits left
    active,             \* _stats[exchange]["active_connections"]
    lock,               \* ConnectionService._lock
    breaker,            \* the state of place_order's circuit breaker
    sessions            \* counter for the bound

limits == <<requests, limiter_lock>>
connections == <<pool, semaphore, active, lock>>
vars == <<call, cache, limits, connections, breaker, sessions>>

Absent == -1
Empty == 0
Closer == "close_all"

Resources == {"ticker", "order"}

idle == [pc |-> "idle", op |-> "order", attempt |-> 0, conn |-> 0, wait |-> 0]

Init ==
    /\ call = [k \in Calls |-> idle]
    /\ cache = [op \in {"ticker", "balance"} |-> 0]
    /\ requests = [r \in Resources |-> << >>]
    /\ limiter_lock = [r \in Resources |-> NoCall]
    /\ pool = Absent /\ semaphore = 0 /\ active = 0 /\ lock = NoCall
    /\ breaker = NewCircuit
    /\ sessions = 0

-----------------------------------------------------------------------------
Goto(k, pc) == call' = [call EXCEPT ![k].pc = pc]

(* An attempt starts with the cache, which orders do not have; balances    *)
(* are not limited.                                                        *)
start_attempt(k, op) ==
    call' = [call EXCEPT ![k] =
          IF op # "order" /\ cache[op] > 0 THEN idle
          ELSE [@ EXCEPT !.op = op, !.pc = IF op = "balance" THEN "connect" ELSE "limit"]]

(* The call: the circuit breaker stands before the retries.                *)
invoke(k) ==
    /\ call[k].pc = "idle"
    /\ \E op \in Ops[k] :
         /\ op = "order" => should_attempt(breaker)
         /\ breaker' = IF op = "order" THEN attempted(breaker) ELSE breaker
         /\ start_attempt(k, op)
    /\ UNCHANGED <<cache, limits, connections, sessions>>

(* async_retry has slept. *)
retry(k) ==
    /\ call[k].pc = "delay"
    /\ start_attempt(k, call[k].op)
    /\ UNCHANGED <<cache, limits, connections, breaker, sessions>>

(* The time until the oldest request leaves the window. *)
sleep_time(r) == time_window - Head(live(requests[r]))

Sleep(k) == call' = [call EXCEPT ![k].pc = "sleep", ![k].wait = sleep_time(call[k].op)]

(* Faulty variant: the lock is not held through the sleep. *)
limiter_acquire_Unlocked(k) ==
    LET r == call[k].op
    IN  /\ call[k].pc = "limit" /\ limiter_lock[r] = NoCall
        /\ IF has_room(requests[r])
           THEN /\ requests' = [requests EXCEPT ![r] = let_through(@)]
                /\ Goto(k, "connect")
           ELSE /\ requests' = [requests EXCEPT ![r] = live(@)]
                /\ Sleep(k)
        /\ UNCHANGED <<cache, limiter_lock, connections, breaker, sessions>>

(* RateLimitService.acquire, then AsyncRateLimiter.acquire with its lock.  *)
limiter_acquire(k) ==
    LET r == call[k].op
    IN  /\ call[k].pc = "limit" /\ limiter_lock[r] = NoCall
        /\ IF has_room(requests[r])
           THEN /\ requests' = [requests EXCEPT ![r] = let_through(@)]
                /\ Goto(k, "connect")
                /\ UNCHANGED limiter_lock
           ELSE /\ requests' = [requests EXCEPT ![r] = live(@)]
                /\ limiter_lock' = [limiter_lock EXCEPT ![r] = k]
                /\ Sleep(k)
        /\ UNCHANGED <<cache, connections, breaker, sessions>>

(* The sleep is over; the room is not looked at again.                     *)
limiter_slept(k) ==
    LET r == call[k].op
    IN  /\ call[k].pc = "sleep" /\ call[k].wait = 0
        /\ requests' = [requests EXCEPT ![r] = let_through(@)]
        /\ limiter_lock' = [limiter_lock EXCEPT ![r] = NoCall]
        /\ Goto(k, "connect")
        /\ UNCHANGED <<cache, connections, breaker, sessions>>

(* Faulty variant: async_retry does not count the attempt. *)
raised_Endless(k) ==
    IF retried(0, max_attempts[call[k].op])
    THEN /\ call' = [call EXCEPT ![k] = [@ EXCEPT !.pc = "delay", !.conn = 0, !.wait = 0]]
         /\ UNCHANGED breaker
    ELSE /\ call' = [call EXCEPT ![k] = idle]
         /\ breaker' = IF call[k].op = "order" THEN on_failure(breaker) ELSE breaker

(* The attempt raised an Exception: async_retry, then the breaker.         *)
raised(k) ==
    IF retried(call[k].attempt, max_attempts[call[k].op])
    THEN /\ call' = [call EXCEPT ![k] =
              [@ EXCEPT !.pc = "delay", !.attempt = @ + 1, !.conn = 0, !.wait = 0]]
         /\ UNCHANGED breaker
    ELSE /\ call' = [call EXCEPT ![k] = idle]
         /\ breaker' = IF call[k].op = "order" THEN on_failure(breaker) ELSE breaker

(* get_connection with a permit to be had: a pool without a session raises *)
(* and the permit is given back.                                           *)
take_permit(k, p) ==
    IF p > Empty
    THEN /\ semaphore' = semaphore - 1
         /\ active' = active + 1
         /\ call' = [call EXCEPT ![k].pc = IF call[k].op = "order" THEN "publish" ELSE "store",
                                     ![k].conn = p]
         /\ UNCHANGED breaker
    ELSE /\ raised(k)
         /\ semaphore' = IF pool = Absent THEN max_concurrent ELSE semaphore
         /\ UNCHANGED active

(* get_connection: a pool that is missing is made, empty; for a permit the *)
(* call waits with the lock.                                               *)
get_connection(k) ==
    LET p == IF pool = Absent THEN Empty ELSE pool
    IN  /\ call[k].pc = "connect" /\ lock = NoCall
        /\ pool' = p
        /\ IF p > Empty /\ semaphore = 0
           THEN /\ lock' = k
                /\ Goto(k, "semaphore")
                /\ UNCHANGED <<semaphore, active, breaker>>
           ELSE take_permit(k, p) /\ UNCHANGED lock
        /\ UNCHANGED <<cache, limits, sessions>>

permit_granted(k) ==
    /\ call[k].pc = "semaphore" /\ semaphore > 0
    /\ take_permit(k, pool)
    /\ lock' = NoCall
    /\ UNCHANGED <<cache, limits, pool, sessions>>

(* Faulty variant: any connection is taken for the pool's. *)
release_connection_Any(c) ==
    IF pool # Absent /\ c # Empty
    THEN /\ semaphore' = semaphore + 1
         /\ active' = IF active > 0 THEN active - 1 ELSE 0
    ELSE UNCHANGED <<semaphore, active>>

(* release_connection: only the connection the pool holds now counts.      *)
release_connection(c) ==
    IF pool # Absent /\ c # Empty /\ c = pool
    THEN /\ semaphore' = semaphore + 1
         /\ active' = IF active > 0 THEN active - 1 ELSE 0
    ELSE UNCHANGED <<semaphore, active>>

(* With the connection: the answer is cached, unless it is that of an      *)
(* order, ...                                                              *)
store(k) ==
    /\ call[k].pc = "store"
    /\ cache' = [cache EXCEPT ![call[k].op] = ttl]
    /\ Goto(k, "publish")
    /\ UNCHANGED <<limits, connections, breaker, sessions>>

(* ... published, and, that awaited, the connection released.              *)
finish(k) ==
    /\ call[k].pc = "publish"
    /\ release_connection(call[k].conn)
    /\ call' = [call EXCEPT ![k] = idle]
    /\ breaker' = IF call[k].op = "order" THEN on_success(breaker) ELSE breaker
    /\ UNCHANGED <<cache, limits, pool, lock, sessions>>

(* What the with and finally blocks do when an await is broken off.        *)
unwind(k) ==
    /\ limiter_lock' = [r \in Resources |->
                          IF limiter_lock[r] = k THEN NoCall ELSE limiter_lock[r]]
    /\ lock' = IF lock = k THEN NoCall ELSE lock
    /\ release_connection(call[k].conn)
    /\ UNCHANGED <<cache, requests, pool, sessions>>

(* async_timeout of get_ticker: a TimeoutError, which async_retry catches. *)
timed_out(k) ==
    /\ call[k].op = "ticker" /\ call[k].pc \notin {"idle", "delay"}
    /\ unwind(k)
    /\ raised(k)

(* The caller cancels: a CancelledError passes the retries and the breaker.*)
cancelled(k) ==
    /\ call[k].pc # "idle"
    /\ unwind(k)
    /\ call' = [call EXCEPT ![k] = idle]
    /\ UNCHANGED breaker

-----------------------------------------------------------------------------
(* Pools get their session from outside the class.                         *)
configure_pool ==
    /\ pool <= Empty /\ lock # Closer /\ sessions < MaxSessions
    /\ sessions' = sessions + 1
    /\ pool' = sessions + 1
    /\ semaphore' = IF pool = Absent THEN max_concurrent ELSE semaphore
    /\ UNCHANGED <<call, cache, limits, active, lock, breaker>>

(* close_all awaits the close of the session with the lock, then forgets   *)
(* the pool and its permits, whoever still holds one.                      *)
close_all ==
    /\ lock = NoCall /\ pool # Absent
    /\ lock' = Closer
    /\ UNCHANGED <<call, cache, limits, pool, semaphore, active, breaker, sessions>>

closed_all ==
    /\ lock = Closer
    /\ lock' = NoCall
    /\ pool' = Absent /\ semaphore' = 0 /\ active' = 0
    /\ UNCHANGED <<call, cache, limits, breaker, sessions>>

(* get_remaining_tokens and get_reset_time look at a limiter, with or      *)
(* without its lock held by another, and drop what has left its window.    *)
get_remaining_tokens(r) ==
    /\ requests' = [requests EXCEPT ![r] = live(@)]
    /\ UNCHANGED <<call, cache, limiter_lock, connections, breaker, sessions>>

Tick ==
    /\ cache' = [op \in DOMAIN cache |-> IF cache[op] > 0 THEN cache[op] - 1 ELSE 0]
    /\ requests' = [r \in Resources |->
                      [i \in DOMAIN requests[r] |-> older(requests[r][i], time_window)]]
    /\ breaker' = [breaker EXCEPT !.age = older(@, recovery_timeout + 1)]
    /\ call' = [k \in Calls |->
                  [call[k] EXCEPT !.wait = IF @ > 0 THEN @ - 1 ELSE 0]]
    /\ UNCHANGED <<limiter_lock, connections, sessions>>

Proceeds(k) ==
    \/ retry(k) \/ limiter_acquire(k) \/ limiter_slept(k)
    \/ get_connection(k) \/ permit_granted(k) \/ store(k) \/ finish(k)

Next ==
    \/ \E k \in Calls : invoke(k) \/ Proceeds(k) \/ timed_out(k) \/ cancelled(k)
    \/ configure_pool \/ close_all \/ closed_all
    \/ \E r \in Resources : get_remaining_tokens(r)
    \/ Tick

(* Sleeps and answered awaits end; asyncio's locks are first come, first   *)
(* served, so whoever waits for one gets it in the end; time passes.       *)
Fairness ==
    /\ \A k \in Calls : SF_vars(Proceeds(k))
    /\ WF_vars(closed_all) /\ WF_vars(Tick)

Spec == Init /\ [][Next]_vars /\ Fairness

-----------------------------------------------------------------------------
(* Permits and the count of active connections are those of the calls that *)
(* hold the pool's present session, over close_all, a pool configured      *)
(* again, timeouts and cancellations (get_connection, release_connection). *)
Holders == {k \in Calls : call[k].conn > Empty /\ call[k].conn = pool}

PermitsExact ==
    /\ active = Cardinality(Holders)
    /\ pool # Absent => semaphore + Cardinality(Holders) = max_concurrent

(* No more than max_requests calls are let through in any time window,     *)
(* though the limiter does not look at the room again after its sleep.     *)
WindowHolds == \A r \in Resources : Len(live(requests[r])) <= max_requests

(* The breaker is closed exactly as long as fewer calls than the threshold *)
(* have failed since the last success, whichever calls, old or new, report *)
(* in which order (async_circuit_breaker).                                 *)
BreakerExact == breaker.state = "CLOSED" <=> breaker.failures < failure_threshold

(* Every call ends: nobody waits for ever for a lock, a permit or a slot   *)
(* of the limiter, though locks are held while waiting.                    *)
Ended(k) == call[k].pc = "idle"

CallsEnd == \A k \in Calls : ~Ended(k) ~> Ended(k)
=============================================================================
