------------------------------ MODULE AsyncTools ------------------------------
(***************************************************************************)
(* core/async_context.py: the tools for tasks of one event loop.  The      *)
(* workers of an AsyncTaskGroup each enter a timeout context and an        *)
(* AsyncSemaphore and put into, or get from, an AsyncQueue; the owner of   *)
(* the group waits for them, with a timeout or without, or cancels them.   *)
(* Any task may use the context managers retry and circuit_breaker, each   *)
(* around a block that may fail.                                           *)
(*                                                                         *)
(* Timeouts strike at any await.  A cancelled task takes no other step     *)
(* than the one that ends it.  Python 3.11 and later, where the timeout of *)
(* asyncio is the built-in TimeoutError that wait_all catches.             *)
(***************************************************************************)
EXTENDS AsyncContext, FiniteSets

CONSTANTS
    Workers,
    Putters,            \* the workers that put; the others get
    max_concurrent,     \* of the AsyncSemaphore
    maxsize,            \* of the AsyncQueue, 0 for no limit
    MaxAttempts         \* bound: max_attempts a caller passes to retry

VARIABLES
    _tasks,             \* AsyncTaskGroup._tasks
    permits,            \* of the semaphore
    queue,              \* the workers whose items are in the queue
    worker,             \* where each worker is
    owner,              \* the call the owner of the group awaits, and for whom
    tried,              \* the last retry: attempts allowed and made, its outcome
    circuit             \* the state the last circuit_breaker left behind

group == <<_tasks, permits, queue, worker, owner>>
contexts == <<tried, circuit>>
vars == <<group, contexts>>

Running == {"new", "semaphore", "queue"}

Init ==
    /\ _tasks = {} /\ permits = max_concurrent /\ queue = << >>
    /\ worker = [w \in Workers |-> [pc |-> "absent", cancelled |-> FALSE, timed_out |-> FALSE]]
    /\ owner = [pc |-> "idle", tasks |-> {}]
    /\ tried = [allowed |-> 1, made |-> 0, outcome |-> "ok"]
    /\ circuit = NewCircuit

create_task(w) ==
    /\ worker[w].pc = "absent"
    /\ _tasks' = _tasks \cup {w}
    /\ worker' = [worker EXCEPT ![w].pc = "new"]
    /\ UNCHANGED <<permits, queue, owner>>

at(w, pc) == worker[w].pc = pc /\ ~worker[w].cancelled

(* The worker enters its timeout context: __aenter__ starts the timer.     *)
__aenter__(w) ==
    /\ at(w, "new")
    /\ worker' = [worker EXCEPT ![w].pc = "semaphore"]
    /\ UNCHANGED <<_tasks, permits, queue, owner>>

acquire(w) ==
    /\ at(w, "semaphore") /\ permits > 0
    /\ permits' = permits - 1
    /\ worker' = [worker EXCEPT ![w].pc = "queue"]
    /\ UNCHANGED <<_tasks, queue, owner>>

(* A task that ends, with an error or without, gives its permit back       *)
(* (__aexit__) and leaves the group.                                       *)
release(w) ==
    /\ permits' = IF worker[w].pc = "queue" THEN permits + 1 ELSE permits
    /\ worker' = [worker EXCEPT ![w].pc = "done"]
    /\ _tasks' = _tasks \ {w}
    /\ UNCHANGED owner

put(w) ==
    /\ w \in Putters /\ at(w, "queue")
    /\ maxsize = 0 \/ Len(queue) < maxsize
    /\ queue' = Append(queue, w)
    /\ release(w)

get(w) ==
    /\ w \notin Putters /\ at(w, "queue")
    /\ queue # << >>
    /\ queue' = Tail(queue)
    /\ release(w)

(* The timeout of put, get or the semaphore itself: a TimeoutError.        *)
timeout_error(w) ==
    /\ at(w, "semaphore") \/ at(w, "queue")
    /\ release(w)
    /\ UNCHANGED queue

(* The timer of the timeout context.                                       *)
_cancel_task(w) ==
    /\ worker[w].pc \in {"semaphore", "queue"} /\ ~worker[w].timed_out
    /\ worker' = [worker EXCEPT ![w].cancelled = TRUE, ![w].timed_out = TRUE]
    /\ UNCHANGED <<_tasks, permits, queue, owner>>

(* The cancellation reaches the worker: a TimeoutError if the timer of the *)
(* context struck too, whoever cancelled first.                            *)
__aexit__(w) ==
    /\ worker[w].cancelled /\ worker[w].pc \in Running
    /\ release(w)
    /\ UNCHANGED queue

-----------------------------------------------------------------------------
(* The owner's calls.                                                      *)
cancel(tasks) ==
    worker' = [w \in Workers |-> IF w \in tasks /\ worker[w].pc \in Running
                                 THEN [worker[w] EXCEPT !.cancelled = TRUE] ELSE worker[w]]

ended == \A w \in owner.tasks : worker[w].pc = "done"

wait_all ==
    /\ owner.pc = "idle" /\ _tasks # {}
    /\ \E pc \in {"wait_all", "wait_all(timeout)"} : owner' = [pc |-> pc, tasks |-> _tasks]
    /\ UNCHANGED <<_tasks, permits, queue, worker>>

(* The timeout of wait_all: wait_for cancels what it waits for and waits   *)
(* for the cancelled ...                                                   *)
wait_for ==
    /\ owner.pc = "wait_all(timeout)"
    /\ cancel(owner.tasks)
    /\ owner' = [owner EXCEPT !.pc = "timed out"]
    /\ UNCHANGED <<_tasks, permits, queue>>

(* Faulty variant: the tasks created meanwhile are awaited, not cancelled. *)
except_TimeoutError_Waiting ==
    /\ owner.pc = "timed out" /\ ended
    /\ owner' = [pc |-> "cancel_all", tasks |-> _tasks]
    /\ UNCHANGED <<_tasks, permits, queue, worker>>

(* ... and then wait_all does so with the tasks created meanwhile.         *)
except_TimeoutError ==
    /\ owner.pc = "timed out" /\ ended
    /\ cancel(_tasks)
    /\ owner' = [pc |-> "cancel_all", tasks |-> _tasks]
    /\ UNCHANGED <<_tasks, permits, queue>>

cancel_all ==
    /\ owner.pc = "idle"
    /\ cancel(_tasks)
    /\ owner' = [pc |-> "cancel_all", tasks |-> _tasks]
    /\ UNCHANGED <<_tasks, permits, queue>>

returned ==
    /\ owner.pc \in {"wait_all", "wait_all(timeout)", "cancel_all"} /\ ended
    /\ owner' = [pc |-> "idle", tasks |-> {}]
    /\ UNCHANGED <<_tasks, permits, queue, worker>>

-----------------------------------------------------------------------------
(* The context managers.  The generator of retry cannot run the block      *)
(* again: when it yields for a second time, after its sleep, contextlib    *)
(* raises a RuntimeError.                                                  *)
retry(allowed) ==
    /\ \E fails \in BOOLEAN :
         tried' = [allowed |-> allowed, made |-> 1,
                   outcome |-> IF ~fails THEN "ok"
                               ELSE IF retried(0, allowed) THEN "RuntimeError" ELSE "raised"]
    /\ UNCHANGED <<group, circuit>>

(* Every entry makes a state of its own, which therefore lets it pass.     *)
circuit_breaker ==
    LET state == NewCircuit IN
    /\ should_attempt(state)
    /\ \E fails \in BOOLEAN :
         circuit' = IF fails THEN on_failure(attempted(state)) ELSE on_success(attempted(state))
    /\ UNCHANGED <<group, tried>>

-----------------------------------------------------------------------------
GroupStep ==
    \/ \E w \in Workers :
         create_task(w) \/ __aenter__(w) \/ acquire(w) \/ put(w) \/ get(w)
         \/ timeout_error(w) \/ _cancel_task(w) \/ __aexit__(w)
    \/ wait_all \/ wait_for \/ except_TimeoutError \/ cancel_all \/ returned

Next ==
    \/ GroupStep /\ UNCHANGED contexts
    \/ (\E n \in 1 .. MaxAttempts : retry(n)) \/ circuit_breaker

Spec == Init /\ [][Next]_vars

-----------------------------------------------------------------------------
(* When the timeout of wait_all is over, and in cancel_all, the owner does *)
(* not wait for a task nobody cancelled, which might never end; not for    *)
(* one created meanwhile either (wait_all, cancel_all).                    *)
CancelledGroupsEnd ==
    owner.pc \in {"timed out", "cancel_all"} =>
        \A w \in owner.tasks : worker[w].cancelled \/ worker[w].pc = "done"

(* Permits are neither lost nor doubled, however a worker ends; the group  *)
(* holds the tasks that have not ended (AsyncSemaphore, create_task).      *)
PermitsKept ==
    /\ permits + Cardinality({w \in Workers : worker[w].pc = "queue"}) = max_concurrent
    /\ _tasks = {w \in Workers : worker[w].pc \in Running}

GroupsSound == CancelledGroupsEnd /\ PermitsKept

(* "Async context manager with retry logic" (retry, async_context.py:132): *)
(* a block that failed has been tried as often as allowed.                 *)
RetriesAreMade == tried.outcome # "ok" => tried.made = tried.allowed
=============================================================================
