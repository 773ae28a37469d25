----------------------------- MODULE ConnectionPool ---------------------------
(***************************************************************************)
(* ConnectionPool of connection_pool.py: clients acquire and release       *)
(* connections under one lock, waiting on its condition while the pool is  *)
(* exhausted; a cleanup thread closes idle connections and fills the pool  *)
(* up; the owner starts and stops it.                                      *)
(*                                                                         *)
(* A stretch of code under the lock is one step.  Connections are numbered *)
(* as the factory makes them; the factory may raise.  health_check may     *)
(* find a connection healthy or not, or raise itself; close() may raise    *)
(* what _close_connection does not catch, which is everything but OSError. *)
(* _condition.wait follows threading.Condition: a waiter whose wait times  *)
(* out stays in the queue of waiters until it has the lock again, and a    *)
(* notification may still be spent on it.  A client releases what it       *)
(* holds, or repeats a release of a connection that no client holds.       *)
(***************************************************************************)
EXTENDS Integers, Sequences, Functions, FiniteSets

CONSTANTS
    Clients,
    max_size, min_size,
    HealthChecked,      \* whether a health_check was given
    MaxConnections,     \* bound on the connections the factory can make
    MaxStarts,          \* bound on the calls of start()
    MaxRaises,          \* bound on the connections whose health check or
                        \* close() raises
    MaxBusy             \* bound on those two and the clients that wait, together

VARIABLES
    pool,       \* _pool, without the times
    in_use,     \* _in_use
    running,    \* _running
    waiters,    \* the queue of the condition
    client,     \* "idle", "asleep" in wait, or "woken" and about to look again
    holds,      \* per client, the connections it got and has not released
    cleanup,    \* per start, its cleanup thread
    stopping,   \* stop() is joining the cleanup thread
    made, closed,
    dropped,    \* history: connections that left the pool as their health
                \* check or their close() raised
    stale,      \* history: connections that were closed and stayed, as their
                \* close() or that of one after them raised
    unasked,    \* history: connections made without a test of max_size
    overslept   \* history: the pool was filled without a notification while
                \* a client slept

vars == <<pool, in_use, running, waiters, client, holds, cleanup, stopping,
          made, closed, dropped, stale, unasked, overslept>>

Made == 1..made

(* What is left of a queue without the members of a set. *)
Without(queue, members) ==
    LET left[n \in 0..Len(queue)] ==
            IF n = 0 THEN <<>>
            ELSE IF queue[n] \in members THEN left[n - 1] ELSE Append(left[n - 1], queue[n])
    IN  left[Len(queue)]

Init ==
    /\ pool = <<>> /\ in_use = {} /\ waiters = <<>>
    /\ running = FALSE /\ stopping = FALSE
    /\ client = [c \in Clients |-> "idle"]
    /\ holds = [c \in Clients |-> {}]
    /\ cleanup = <<>>
    /\ made = 0 /\ closed = {}
    /\ dropped = {} /\ stale = {} /\ unasked = {} /\ overslept = FALSE

-----------------------------------------------------------------------------
Wake(woken) == [c \in Clients |-> IF c \in woken /\ client[c] = "asleep" THEN "woken" ELSE client[c]]

notify ==
    /\ waiters' = IF waiters = <<>> THEN waiters ELSE Tail(waiters)
    /\ client' = Wake(IF waiters = <<>> THEN {} ELSE {Head(waiters)})

notify_all ==
    /\ waiters' = <<>>
    /\ client' = Wake(Range(waiters))

wait_times_out(c) ==
    /\ client[c] = "asleep"
    /\ client' = [client EXCEPT ![c] = "woken"]
    /\ UNCHANGED <<pool, in_use, running, waiters, holds, cleanup, stopping, made, closed,
                   dropped, unasked, overslept, stale>>

(* The lock is free between steps, and the client calls acquire or comes   *)
(* out of its wait.                                                        *)
Looks(c) == client[c] \in {"idle", "woken"}
LeavesQueue(c) == waiters' = Without(waiters, {c})
Returns(c) == LeavesQueue(c) /\ client' = [client EXCEPT ![c] = "idle"]

(* The connections at the head of the pool that the health check refuses   *)
(* before it accepts one, or until none is left.                           *)
Refused == IF HealthChecked THEN 0..Len(pool) ELSE {0}
CloseRefused(n) == closed' = closed \cup Range(SubSeq(pool, 1, n))

acquire_pooled(c) ==
    /\ Looks(c)
    /\ \E n \in Refused :
         /\ n < Len(pool)
         /\ pool' = SubSeq(pool, n + 2, Len(pool))
         /\ CloseRefused(n)
         /\ in_use' = in_use \cup {pool[n + 1]}
         /\ holds' = [holds EXCEPT ![c] = @ \cup {pool[n + 1]}]
    /\ Returns(c)
    /\ UNCHANGED <<running, cleanup, stopping, made, dropped, unasked, overslept, stale>>

(* Room for one more that waits, is started or raises, beside these        *)
(* clients.                                                                *)
MayAdd(waiting) ==
    Len(cleanup) + Cardinality(dropped \cup stale) + Cardinality(waiting) < MaxBusy
Waiting == {c \in Clients : client[c] # "idle"}

Raises == Cardinality(dropped \cup stale) < MaxRaises /\ MayAdd(Waiting)

(* The health check raises out of acquire, or the close() of a connection  *)
(* that it refused; the connection is in no collection any more.           *)
acquire_raises(c) ==
    /\ Looks(c) /\ HealthChecked /\ Raises
    /\ \E n \in Refused :
         /\ n < Len(pool)
         /\ pool' = SubSeq(pool, n + 2, Len(pool))
         /\ CloseRefused(n)
         /\ dropped' = dropped \cup {pool[n + 1]}
    /\ Returns(c)
    /\ UNCHANGED <<in_use, running, holds, cleanup, stopping, made, unasked, overslept, stale>>

NoneAccepted == pool' = <<>> /\ Len(pool) \in Refused /\ CloseRefused(Len(pool))

(* Faulty variant: one connection more than max_size. *)
HasCapacity_OneMore == Cardinality(in_use) <= max_size

HasCapacity == Cardinality(in_use) < max_size

(* No pooled connection is left: a new one, unless the factory raises. *)
acquire_new(c) ==
    /\ Looks(c) /\ NoneAccepted /\ HasCapacity /\ made < MaxConnections
    /\ made' = made + 1
    /\ in_use' = in_use \cup {made + 1}
    /\ holds' = [holds EXCEPT ![c] = @ \cup {made + 1}]
    /\ Returns(c)
    /\ UNCHANGED <<running, cleanup, stopping, dropped, unasked, overslept, stale>>

acquire_factory_raises(c) ==
    /\ Looks(c) /\ NoneAccepted /\ HasCapacity
    /\ Returns(c)
    /\ UNCHANGED <<in_use, running, holds, cleanup, stopping, made, dropped, unasked, overslept, stale>>

(* Exhausted: without a timeout, or past the deadline, acquire raises. *)
acquire_exhausted(c) ==
    /\ Looks(c) /\ NoneAccepted /\ ~HasCapacity
    /\ Returns(c)
    /\ UNCHANGED <<in_use, running, holds, cleanup, stopping, made, dropped, unasked, overslept, stale>>

acquire_waits(c) ==
    /\ Looks(c) /\ NoneAccepted /\ ~HasCapacity /\ MayAdd(Waiting \ {c})
    /\ waiters' = Append(Without(waiters, {c}), c)
    /\ client' = [client EXCEPT ![c] = "asleep"]
    /\ UNCHANGED <<in_use, running, holds, cleanup, stopping, made, dropped, unasked, overslept, stale>>

-----------------------------------------------------------------------------
(* release.  One that is not in use, closed by stop() or released before,  *)
(* is ignored.                                                             *)
MayRelease(c, conn) ==
    /\ client[c] = "idle"
    /\ \A other \in Clients \ {c} : conn \notin holds[other]
LetsGo(c, conn) == holds' = [holds EXCEPT ![c] = @ \ {conn}]

(* Faulty variant: a repeated release is carried out. *)
release_healthy_Unchecked(c, conn) ==
    /\ MayRelease(c, conn) /\ LetsGo(c, conn)
    /\ in_use' = in_use \ {conn}
    /\ pool' = Append(pool, conn)
    /\ notify
    /\ UNCHANGED <<running, cleanup, stopping, made, closed, dropped, unasked, overslept, stale>>

(* Faulty variant: no waiter hears of the connection. *)
release_healthy_Silent(c, conn) ==
    /\ MayRelease(c, conn) /\ LetsGo(c, conn)
    /\ conn \in in_use
    /\ in_use' = in_use \ {conn}
    /\ pool' = Append(pool, conn)
    /\ UNCHANGED <<waiters, client, running, cleanup, stopping, made, closed, dropped, unasked, overslept, stale>>

release_healthy(c, conn) ==
    /\ MayRelease(c, conn) /\ LetsGo(c, conn)
    /\ conn \in in_use
    /\ in_use' = in_use \ {conn}
    /\ pool' = Append(pool, conn)
    /\ notify
    /\ UNCHANGED <<running, cleanup, stopping, made, closed, dropped, unasked, overslept, stale>>

release_unknown(c, conn) ==
    /\ MayRelease(c, conn) /\ LetsGo(c, conn)
    /\ conn \notin in_use
    /\ UNCHANGED <<pool, in_use, running, waiters, client, cleanup, stopping, made, closed,
                   dropped, unasked, overslept, stale>>

(* Faulty variant: the refused connection is left open. *)
release_unhealthy_Leak(c, conn) ==
    /\ MayRelease(c, conn) /\ LetsGo(c, conn)
    /\ conn \in in_use /\ HealthChecked
    /\ in_use' = in_use \ {conn}
    /\ UNCHANGED <<pool, running, waiters, client, cleanup, stopping, made, closed, dropped,
                   unasked, overslept, stale>>

(* A refused connection is closed and nobody is notified, although the     *)
(* pool has capacity for a new one now.                                    *)
release_unhealthy(c, conn) ==
    /\ MayRelease(c, conn) /\ LetsGo(c, conn)
    /\ conn \in in_use /\ HealthChecked
    /\ in_use' = in_use \ {conn}
    /\ closed' = closed \cup {conn}
    /\ UNCHANGED <<pool, running, waiters, client, cleanup, stopping, made, dropped, unasked, overslept, stale>>

(* As in acquire. *)
release_raises(c, conn) ==
    /\ MayRelease(c, conn) /\ LetsGo(c, conn)
    /\ conn \in in_use /\ HealthChecked /\ Raises
    /\ in_use' = in_use \ {conn}
    /\ dropped' = dropped \cup {conn}
    /\ UNCHANGED <<pool, running, waiters, client, cleanup, stopping, made, closed, unasked, overslept, stale>>

-----------------------------------------------------------------------------
(* n connections for the pool, made whether or not max_size are in use. *)
Fill(kept, n) ==
    /\ made + n <= MaxConnections
    /\ made' = made + n
    /\ pool' = kept \o [i \in 1..n |-> made + i]
    /\ unasked' = unasked \cup ((made + 1)..(made + n))

FillsSilently == overslept' = (overslept \/ \E c \in Clients : client[c] = "asleep")

Missing(kept) == IF Len(kept) < min_size THEN min_size - Len(kept) ELSE 0

(* start: fills the pool and starts a cleanup thread. *)
start ==
    /\ ~running /\ ~stopping /\ Len(cleanup) < MaxStarts /\ MayAdd(Waiting)
    /\ running' = TRUE
    /\ Fill(pool, min_size)
    /\ cleanup' = Append(cleanup, "testing")
    /\ FillsSilently
    /\ UNCHANGED <<in_use, waiters, client, holds, stopping, closed, dropped, stale>>

(* The factory raises out of start: what was made stays, the pool counts   *)
(* as running and has no cleanup thread.                                   *)
start_raises ==
    /\ ~running /\ ~stopping /\ Len(cleanup) < MaxStarts /\ MayAdd(Waiting)
    /\ running' = TRUE
    /\ \E n \in 0..(min_size - 1) : Fill(pool, n)
    /\ cleanup' = Append(cleanup, "ended")
    /\ FillsSilently
    /\ UNCHANGED <<in_use, waiters, client, holds, stopping, closed, dropped, stale>>

(* stop: the join of the cleanup thread, asleep for 60 seconds, gives up   *)
(* after 5; then every connection is closed, those in use as well.         *)
stop ==
    /\ ~stopping
    /\ stopping' = TRUE /\ running' = FALSE
    /\ UNCHANGED <<pool, in_use, waiters, client, holds, cleanup, made, closed, dropped,
                   unasked, overslept, stale>>

stop_closes ==
    /\ stopping /\ stopping' = FALSE
    /\ closed' = closed \cup Range(pool) \cup in_use
    /\ pool' = <<>> /\ in_use' = {}
    /\ UNCHANGED <<running, waiters, client, holds, cleanup, made, dropped, unasked, overslept, stale>>

(* A close() raises out of stop: of a pooled connection, which has left    *)
(* the pool, and those behind it stay; or of one in use, and those closed  *)
(* before it still count as in use.                                        *)
stop_raises ==
    /\ stopping /\ stopping' = FALSE /\ Raises
    /\ \/ /\ \E n \in DOMAIN pool :
              /\ closed' = closed \cup Range(SubSeq(pool, 1, n - 1))
              /\ dropped' = dropped \cup {pool[n]}
              /\ pool' = SubSeq(pool, n + 1, Len(pool))
          /\ UNCHANGED stale
       \/ /\ \E shut \in SUBSET in_use :
              /\ \E conn \in in_use \ shut : stale' = stale \cup shut \cup {conn}
              /\ closed' = closed \cup Range(pool) \cup shut
          /\ pool' = <<>>
          /\ UNCHANGED dropped
    /\ UNCHANGED <<in_use, running, waiters, client, holds, cleanup, made, unasked, overslept>>

(* _cleanup_loop tests _running and sleeps; after the sleep it cleans up    *)
(* whatever _running says by then.                                         *)
Kept(idle) == Without(pool, idle)

_cleanup_idle_connections(i) ==
    /\ cleanup[i] = "sleeping"
    /\ \E idle \in SUBSET Range(pool) :
         /\ closed' = closed \cup idle
         /\ Fill(Kept(idle), Missing(Kept(idle)))
    /\ notify_all
    /\ cleanup' = [cleanup EXCEPT ![i] = "testing"]
    /\ UNCHANGED <<in_use, running, holds, stopping, dropped, overslept, stale>>

(* The factory raises in the cleanup: the thread ends, nobody is notified. *)
_cleanup_raises(i) ==
    /\ cleanup[i] = "sleeping"
    /\ \E idle \in SUBSET Range(pool) :
         /\ closed' = closed \cup idle
         /\ Missing(Kept(idle)) > 0
         /\ \E n \in 0..(Missing(Kept(idle)) - 1) : Fill(Kept(idle), n)
    /\ FillsSilently
    /\ cleanup' = [cleanup EXCEPT ![i] = "ended"]
    /\ UNCHANGED <<in_use, running, waiters, client, holds, stopping, dropped, stale>>

(* A close() raises in the cleanup: the pool is what it was, with the idle *)
(* connections closed so far; the thread ends and nobody is notified.      *)
_cleanup_close_raises(i) ==
    /\ cleanup[i] = "sleeping" /\ Raises
    /\ \E n \in DOMAIN pool :
         \E idle \in SUBSET Range(SubSeq(pool, 1, n - 1)) :
           /\ closed' = closed \cup idle
           /\ stale' = stale \cup idle \cup {pool[n]}
    /\ cleanup' = [cleanup EXCEPT ![i] = "ended"]
    /\ UNCHANGED <<pool, in_use, running, waiters, client, holds, stopping, made, dropped,
                   unasked, overslept>>

_cleanup_loop(i) ==
    /\ cleanup[i] = "testing"
    /\ cleanup' = [cleanup EXCEPT ![i] = IF running THEN "sleeping" ELSE "ended"]
    /\ UNCHANGED <<pool, in_use, running, waiters, client, holds, stopping, made, closed,
                   dropped, unasked, overslept, stale>>

-----------------------------------------------------------------------------
Next ==
    \/ start \/ start_raises \/ stop \/ stop_closes \/ stop_raises
    \/ \E i \in DOMAIN cleanup :
         \/ _cleanup_idle_connections(i) \/ _cleanup_raises(i) \/ _cleanup_close_raises(i)
         \/ _cleanup_loop(i)
    \/ \E c \in Clients :
         \/ acquire_pooled(c) \/ acquire_raises(c) \/ acquire_new(c)
         \/ acquire_factory_raises(c) \/ acquire_exhausted(c) \/ acquire_waits(c)
         \/ wait_times_out(c)
         \/ \E conn \in Made :
              \/ release_healthy(c, conn) \/ release_unknown(c, conn)
              \/ release_unhealthy(c, conn) \/ release_raises(c, conn)

Spec == Init /\ [][Next]_vars

-----------------------------------------------------------------------------
(* No connection is with two clients, or with a client and in the pool, or *)
(* twice in the pool, whatever the order of acquires, repeated releases,   *)
(* cleanups, stops and restarts: what a client holds is its own.           *)
Exclusive ==
    /\ \A c, d \in Clients : c # d => holds[c] \cap holds[d] = {}
    /\ \A c \in Clients : holds[c] \cap Range(pool) = {}
    /\ IsInjective(pool)

(* No open connection gets lost: each one that the factory made is in the  *)
(* pool, in use or closed, unless its health check or its close() raised   *)
(* as it was taken out; and none that is closed or was taken out is in the *)
(* pool or counted as in use, unless a close() raised beside it.           *)
NoneLost ==
    /\ Made \ (closed \cup dropped) \subseteq Range(pool) \cup in_use
    /\ (closed \cup dropped) \cap (Range(pool) \cup in_use) \subseteq stale

(* No client sleeps beside an idle connection: while one sleeps, as many   *)
(* clients as the pool has connections are awake and about to look, even   *)
(* when a notification went to a waiter whose wait had timed out or a      *)
(* connection was snatched by a newcomer.  The exception are clients that  *)
(* slept while the pool was filled without a notification, by start() or   *)
(* by a cleanup in which the factory raised.                               *)
NoLostWakeup ==
    (~overslept /\ \E c \in Clients : client[c] = "asleep") =>
        Len(pool) <= Cardinality({c \in Clients : client[c] = "woken"})

(* Only the connections that start() and the cleanup thread make without   *)
(* looking at _in_use can take the pool beyond max_size: those that        *)
(* acquire made are never more.                                            *)
AcquireRespectsMaxSize ==
    Cardinality((Range(pool) \cup in_use) \ unasked) <= max_size
===============================================================================
