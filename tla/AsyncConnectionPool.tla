--------------------------- MODULE AsyncConnectionPool ------------------------
(***************************************************************************)
(* AsyncConnectionPool of connection_pool.py.  A task takes a permit of    *)
(* the semaphore, then the lock, then a pooled connection or a new one     *)
(* from the factory, which it may have to await with the lock held; a      *)
(* release puts the connection back and gives the permit back.             *)
(*                                                                         *)
(* Tasks switch only where they await.  An acquire fails when the factory  *)
(* raises or the task is cancelled while it waits for the lock or for the  *)
(* factory: nothing on that path gives the permit back.  A task releases   *)
(* what it holds, or repeats a release of what no task holds; by the time  *)
(* the repeated release has the lock, another task may have got it.        *)
(***************************************************************************)
EXTENDS Integers, Sequences, FiniteSets

CONSTANTS
    Tasks, NoTask,
    max_size,
    Nested,             \* whether a task acquires while it holds a connection
    MaxConnections,     \* bound on the connections the factory makes
    MaxFailures         \* bound on the acquires that fail with a permit

(* asyncio.Semaphore refuses a negative value. *)
ASSUME Setting == IsFiniteSet(Tasks) /\ NoTask \notin Tasks /\ max_size \in Nat

VARIABLES
    pool, in_use,
    permits,    \* the value of _semaphore
    lock,       \* the task that holds _lock
    pc,         \* where a task awaits
    releasing,  \* per task, the connection of the release it is in
    holds,      \* per task, the connections it got and has not released
    made, failures

vars == <<pool, in_use, permits, lock, pc, releasing, holds, made, failures>>

Made == 1..made
NoConnection == 0

Init ==
    /\ pool = <<>> /\ in_use = {}
    /\ permits = max_size
    /\ lock = NoTask
    /\ pc = [t \in Tasks |-> "idle"]
    /\ releasing = [t \in Tasks |-> NoConnection]
    /\ holds = [t \in Tasks |-> {}]
    /\ made = 0 /\ failures = 0

-----------------------------------------------------------------------------
acquire(t) ==
    /\ pc[t] = "idle" /\ (Nested \/ holds[t] = {})
    /\ pc' = [pc EXCEPT ![t] = "semaphore"]
    /\ UNCHANGED <<pool, in_use, permits, lock, releasing, holds, made, failures>>

semaphore_acquire(t) ==
    /\ pc[t] = "semaphore" /\ permits > 0
    /\ permits' = permits - 1
    /\ pc' = [pc EXCEPT ![t] = "lock"]
    /\ UNCHANGED <<pool, in_use, lock, releasing, holds, made, failures>>

Gets(t, conn) ==
    /\ in_use' = in_use \cup {conn}
    /\ holds' = [holds EXCEPT ![t] = @ \cup {conn}]
    /\ pc' = [pc EXCEPT ![t] = "idle"]

(* With the lock, a pooled connection is taken without another await. *)
take_pooled(t) ==
    /\ pc[t] = "lock" /\ lock = NoTask /\ pool # <<>>
    /\ pool' = Tail(pool)
    /\ Gets(t, Head(pool))
    /\ UNCHANGED <<permits, lock, releasing, made, failures>>

await_factory(t) ==
    /\ pc[t] = "lock" /\ lock = NoTask /\ pool = <<>>
    /\ lock' = t
    /\ pc' = [pc EXCEPT ![t] = "factory"]
    /\ UNCHANGED <<pool, in_use, permits, releasing, holds, made, failures>>

factory_returns(t) ==
    /\ pc[t] = "factory" /\ made < MaxConnections
    /\ made' = made + 1
    /\ Gets(t, made + 1)
    /\ lock' = NoTask
    /\ UNCHANGED <<pool, permits, releasing, failures>>

(* Faulty variant: the lock is not released. *)
acquire_fails_KeepsLock(t) ==
    /\ pc[t] \in {"lock", "factory"} /\ failures < MaxFailures
    /\ failures' = failures + 1
    /\ pc' = [pc EXCEPT ![t] = "idle"]
    /\ UNCHANGED <<pool, in_use, permits, lock, releasing, holds, made>>

(* The factory raises, or the task is cancelled with its permit taken. *)
acquire_fails(t) ==
    /\ pc[t] \in {"lock", "factory"} /\ failures < MaxFailures
    /\ failures' = failures + 1
    /\ lock' = IF lock = t THEN NoTask ELSE lock
    /\ pc' = [pc EXCEPT ![t] = "idle"]
    /\ UNCHANGED <<pool, in_use, permits, releasing, holds, made>>

-----------------------------------------------------------------------------
release(t, conn) ==
    /\ pc[t] = "idle"
    /\ conn \in holds[t] \/ \A other \in Tasks : conn \notin holds[other]
    /\ \A other \in Tasks : releasing[other] # conn
    /\ holds' = [holds EXCEPT ![t] = @ \ {conn}]
    /\ releasing' = [releasing EXCEPT ![t] = conn]
    /\ pc' = [pc EXCEPT ![t] = "release"]
    /\ UNCHANGED <<pool, in_use, permits, lock, made, failures>>

Released(t) ==
    /\ pc[t] = "release" /\ lock = NoTask
    /\ pc' = [pc EXCEPT ![t] = "idle"]
    /\ releasing' = [releasing EXCEPT ![t] = NoConnection]
    /\ UNCHANGED <<lock, holds, made, failures>>

(* Faulty variant: the permit of a connection that is not in use is given  *)
(* back as well.                                                           *)
put_back_Always(t) ==
    /\ Released(t)
    /\ permits' = permits + 1
    /\ in_use' = in_use \ {releasing[t]}
    /\ pool' = IF releasing[t] \in in_use THEN Append(pool, releasing[t]) ELSE pool

(* Faulty variant: the permit is kept. *)
put_back_NoPermit(t) ==
    /\ Released(t)
    /\ in_use' = in_use \ {releasing[t]}
    /\ pool' = IF releasing[t] \in in_use THEN Append(pool, releasing[t]) ELSE pool
    /\ UNCHANGED permits

(* release with the lock: a connection that is not in use is ignored. *)
put_back(t) ==
    /\ Released(t)
    /\ IF releasing[t] \in in_use
       THEN /\ in_use' = in_use \ {releasing[t]}
            /\ pool' = Append(pool, releasing[t])
            /\ permits' = permits + 1
       ELSE UNCHANGED <<in_use, pool, permits>>

Next ==
    \E t \in Tasks :
       \/ acquire(t) \/ semaphore_acquire(t) \/ take_pooled(t) \/ await_factory(t)
       \/ factory_returns(t) \/ acquire_fails(t) \/ put_back(t)
       \/ \E conn \in Made : release(t, conn)

Spec == Init /\ [][Next]_vars

(* Tasks that can run do; asyncio's semaphore and lock serve their waiters *)
(* in the order of their arrival; the factory returns, and a task that     *)
(* holds a connection and awaits nothing releases it in the end: again and *)
(* again some held connection is released.                                 *)
GoesOn(t) ==
    semaphore_acquire(t) \/ take_pooled(t) \/ await_factory(t) \/ put_back(t)

ReleasesHeld(t) == \E conn \in holds[t] : release(t, conn)

Fairness ==
    /\ \A t \in Tasks : SF_vars(GoesOn(t)) /\ WF_vars(factory_returns(t))
    /\ SF_vars(\E t \in Tasks : ReleasesHeld(t))

LiveSpec == Spec /\ Fairness

-----------------------------------------------------------------------------
(* The collections keep their types, and whatever fails or is released     *)
(* twice, the factory never makes more than max_size connections and the   *)
(* semaphore never has more permits.                                       *)
TypeOK ==
    /\ pool \in Seq(Made) /\ in_use \subseteq Made /\ made <= max_size
    /\ permits \in 0..max_size
    /\ pc \in [Tasks -> {"idle", "semaphore", "lock", "factory", "release"}]
    /\ releasing \in [Tasks -> Made \cup {NoConnection}]
    /\ lock \in Tasks \cup {NoTask}

(* Every permit is accounted for: it is free, with a connection in use or  *)
(* with a task on its way to one; each acquire that failed after it had    *)
(* its permit has taken one out of the pool for good.                      *)
PermitsExact ==
    permits + Cardinality(in_use) + failures
       + Cardinality({t \in Tasks : pc[t] \in {"lock", "factory"}}) = max_size

(* A connection the factory made is pooled, once, or in use, never both:   *)
(* it is neither lost nor lent to a second task, whatever is released      *)
(* twice.                                                                  *)
PooledOrInUse ==
    /\ \A conn \in Made : conn \in in_use \/ \E i \in 1 .. Len(pool) : pool[i] = conn
    /\ \A i, j \in 1 .. Len(pool) : pool[i] = pool[j] => i = j
    /\ \A i \in 1 .. Len(pool) : pool[i] \notin in_use

PoolKeepsPermits == TypeOK /\ PermitsExact /\ PooledOrInUse

(* A task that asks for a connection gets one, or fails, as long as fewer  *)
(* than max_size acquires have failed with a permit and tasks do not ask   *)
(* for a second connection.                                                *)
Asks(t) == pc[t] = "semaphore"
Answered(t) == pc[t] = "idle"

AcquiresEnd == \A t \in Tasks : Asks(t) ~> Answered(t)
===============================================================================
