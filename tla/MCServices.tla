----------------------------- MODULE MCServices ------------------------------
(***************************************************************************)
(* Three asyncio services whose tasks wait, each on a small instance: the  *)
(* connection pool, the core services and the event service.  They do not  *)
(* run together here: a behaviour is one of the service it starts with.    *)
(* The last two share the variables v1 to v10, in the order in which their *)
(* modules declare theirs.                                                 *)
(*                                                                         *)
(* Core services: two tickers share a limiter, all calls the connections.  *)
(* Balances, which wait for a connection only, and what keeps the limits   *)
(* are left to a larger instance, in MCComponents.                         *)
(* Pool: three tasks on two permits, of which one may be lost; the factory *)
(* could make one connection more than the pool may have.                  *)
(***************************************************************************)
EXTENDS AsyncConnectionPool

CONSTANT None

VARIABLES component, v1, v2, v3, v4, v5, v6, v7, v8, v9, v10

shared == <<v1, v2, v3, v4, v5, v6, v7, v8, v9, v10>>
unused == << >>

NothingShared ==
    /\ v1 = unused /\ v2 = unused /\ v3 = unused /\ v4 = unused /\ v5 = unused
    /\ v6 = unused /\ v7 = unused /\ v8 = unused /\ v9 = unused /\ v10 = unused

-----------------------------------------------------------------------------
Caller == <<"t1", "t2", "t3">>
Callers == Tasks

OpsOf == [k \in Callers |-> IF k = "t3" THEN {"order"} ELSE {"ticker"}]

Attempts == [op \in {"ticker", "order", "balance"} |-> IF op = "order" THEN 2 ELSE 1]

Core == INSTANCE CoreServices WITH
    call <- v1, cache <- v2, requests <- v3, limiter_lock <- v4, pool <- v5,
    semaphore <- v6, active <- v7, lock <- v8, breaker <- v9, sessions <- v10,
    failure_threshold <- 2, recovery_timeout <- 0, max_requests <- 1,
    time_window <- 1, Calls <- Callers, NoCall <- None, Ops <- OpsOf,
    max_attempts <- Attempts, max_concurrent <- 1, ttl <- 1, MaxSessions <- 1

Events == INSTANCE EventService WITH
    running <- v1, event_queue <- v2, put_tasks <- v3, processor <- v4,
    stopping <- v5, handled <- v6, events <- v7, starts <- v8, MaxEvents <- 3,
    MaxStarts <- 2

-----------------------------------------------------------------------------
services == <<component, vars, shared>>

PoolRuns == component = "async pool" /\ UNCHANGED <<component, shared>>
CoreRuns == component = "core services" /\ UNCHANGED <<component, vars>>
EventsRun == component = "event service" /\ UNCHANGED <<component, vars, v9, v10>>

ServicesInit ==
    /\ Init
    /\ \/ component = "async pool" /\ NothingShared
       \/ component = "core services" /\ Core!Init
       \/ component = "event service" /\ Events!Init
          /\ v9 = unused /\ v10 = unused

ServicesNext ==
    \/ PoolRuns /\ Next
    \/ CoreRuns /\ Core!Next
    \/ EventsRun /\ Events!Next

(* The fairness each module states for itself.  As a behaviour is one of a *)
(* single service, one condition can stand for those of several.           *)
ServicesFairness ==
    /\ \A t \in Callers :
         /\ SF_services((CoreRuns /\ Core!Proceeds(t)) \/ (PoolRuns /\ GoesOn(t)))
         /\ WF_services(PoolRuns /\ factory_returns(t))
    /\ SF_services(PoolRuns /\ \E t \in Callers : ReleasesHeld(t))
    /\ WF_services((CoreRuns /\ Core!closed_all) \/ (EventsRun /\ Events!put))
    /\ WF_services((CoreRuns /\ Core!Tick) \/ (EventsRun /\ Events!stopped))
    /\ WF_services(EventsRun /\ (Events!_process_events \/ Events!_emit_async))

ServicesSpec == ServicesInit /\ [][ServicesNext]_services /\ ServicesFairness

-----------------------------------------------------------------------------
(* The event service implements EventDelivery: each way to publish keeps   *)
(* its order, nothing is delivered twice, only a stop loses events         *)
(* (EventService.publish, _process_events).                                *)
DeliversInOrder ==
    /\ component = "event service" => Events!Delivery!Init
    /\ [][component = "event service" => Events!Delivery!Next \/ UNCHANGED Events!Delivery!vars]_services

(* A call of a core service that is on its way, a task that asks for a    *)
(* connection, an event in the queue; and how each wait may end.           *)
Waits(n) ==
    \/ component = "core services" /\ ~Core!Ended(Caller[n])
    \/ component = "async pool" /\ Asks(Caller[n])
    \/ component = "event service" /\ Events!Waits(n)

Served(n) ==
    \/ component = "core services" /\ Core!Ended(Caller[n])
    \/ component = "async pool" /\ Answered(Caller[n])
    \/ component = "event service" /\ Events!HandledOrStopped(n)

(* Who waits is served: a call of a core service ends, though locks are    *)
(* held while waiting; who waits for a permit of the asyncio pool gets a   *)
(* connection or fails, while one permit is left; and an event that waits  *)
(* is handled unless its service is stopped (ConnectionService,            *)
(* AsyncConnectionPool.acquire, EventService._process_events).             *)
WaitingAreServed == \A n \in 1 .. 3 : Waits(n) ~> Served(n)
==============================================================================
