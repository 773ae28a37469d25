----------------------------- MODULE EventService -----------------------------
(***************************************************************************)
(* core/services.py, EventService: publish hands the event to a task that  *)
(* puts it into the queue, publish_async puts it there itself, and one     *)
(* processing task takes the events out and awaits their handlers.  start  *)
(* and stop hold a lock; stop waits for the processing task.               *)
(*                                                                         *)
(* Handlers, whose errors are swallowed one by one, are the list of events *)
(* they were given.                                                        *)
(***************************************************************************)
EXTENDS Naturals, Sequences, SequencesExt

CONSTANTS
    MaxEvents,          \* bound: events published; they are numbered
    MaxStarts           \* bound: calls of start

VARIABLES
    running,            \* _running
    event_queue,        \* _event_queue: pairs of way and event, or a stop signal
    put_tasks,          \* events in tasks that have not put them there yet
    processor,          \* _processor_task
    stopping,           \* a stop holds the lock and waits for the task
    handled,            \* history: what the handlers were given, in order
    events, starts      \* counters for the bounds

vars == <<running, event_queue, put_tasks, processor, stopping, handled, events, starts>>

StopSignal == <<"stop", 0>>

Init ==
    /\ running = FALSE /\ stopping = FALSE
    /\ event_queue = << >> /\ put_tasks = << >>
    /\ processor = "none"
    /\ handled = << >>
    /\ events = 0 /\ starts = 0

start ==
    /\ ~stopping /\ ~running /\ starts < MaxStarts
    /\ starts' = starts + 1
    /\ running' = TRUE
    /\ event_queue' = << >>
    /\ processor' = "test"
    /\ UNCHANGED <<put_tasks, stopping, handled, events>>

(* Nothing is left to stop when the service does not run.                  *)
stop ==
    /\ ~stopping /\ running
    /\ running' = FALSE /\ stopping' = TRUE
    /\ event_queue' = Append(event_queue, StopSignal)
    /\ UNCHANGED <<put_tasks, processor, handled, events, starts>>

(* The task has ended.  What is in the queue is lost, and so is what tasks *)
(* will still put there.                                                   *)
stopped ==
    /\ stopping /\ processor = "ended"
    /\ stopping' = FALSE
    /\ processor' = "none"
    /\ event_queue' = << >> /\ put_tasks' = << >>
    /\ UNCHANGED <<running, handled, events, starts>>

(* Faulty variant: the handlers are called at once also when they are idle.*)
publish_Eager(e) ==
    IF running /\ event_queue # << >>
    THEN put_tasks' = Append(put_tasks, e) /\ UNCHANGED handled
    ELSE handled' = Append(handled, <<"publish", e>>) /\ UNCHANGED put_tasks

publish(e) ==
    IF running
    THEN put_tasks' = Append(put_tasks, e) /\ UNCHANGED handled
    ELSE handled' = Append(handled, <<"publish", e>>) /\ UNCHANGED put_tasks

put ==
    /\ put_tasks # << >>
    /\ event_queue' = Append(event_queue, <<"publish", Head(put_tasks)>>)
    /\ put_tasks' = Tail(put_tasks)
    /\ UNCHANGED <<running, processor, stopping, handled, events, starts>>

publish_async(e) ==
    IF running
    THEN event_queue' = Append(event_queue, <<"publish_async", e>>) /\ UNCHANGED handled
    ELSE handled' = Append(handled, <<"publish_async", e>>) /\ UNCHANGED event_queue

(* publish in a thread without an event loop calls the handlers itself.    *)
publish_outside(e) == handled' = Append(handled, <<"outside", e>>)

publishes ==
    /\ events < MaxEvents
    /\ events' = events + 1
    /\ \/ publish(events') /\ UNCHANGED event_queue
       \/ publish_async(events') /\ UNCHANGED put_tasks
       \/ publish_outside(events') /\ UNCHANGED <<event_queue, put_tasks>>
    /\ UNCHANGED <<running, processor, stopping, starts>>

(* The loop of _process_events: its test ...                               *)
_process_events ==
    /\ processor = "test"
    /\ processor' = IF running THEN "get" ELSE "ended"
    /\ UNCHANGED <<running, event_queue, put_tasks, stopping, handled, events, starts>>

(* Faulty variant: an event ends the task. *)
_emit_async_Once ==
    /\ processor = "get" /\ event_queue # << >>
    /\ event_queue' = Tail(event_queue)
    /\ processor' = "ended"
    /\ handled' = IF Head(event_queue) = StopSignal THEN handled
                  ELSE Append(handled, Head(event_queue))
    /\ UNCHANGED <<running, put_tasks, stopping, events, starts>>

(* ... and what it does with the next event, or with the stop signal; the  *)
(* handlers are through when it gets back to the test.                     *)
_emit_async ==
    /\ processor = "get" /\ event_queue # << >>
    /\ event_queue' = Tail(event_queue)
    /\ IF Head(event_queue) = StopSignal
       THEN processor' = "ended" /\ UNCHANGED handled
       ELSE /\ processor' = "test"
            /\ handled' = Append(handled, Head(event_queue))
    /\ UNCHANGED <<running, put_tasks, stopping, events, starts>>

Next ==
    \/ start \/ stop \/ stopped \/ put \/ publishes
    \/ _process_events \/ _emit_async

(* The event loop runs every task that can go on. *)
Fairness ==
    /\ WF_vars(put) /\ WF_vars(stopped)
    /\ WF_vars(_process_events \/ _emit_async)

Spec == Init /\ [][Next]_vars /\ Fairness

-----------------------------------------------------------------------------
(* Events published the same way reach the handlers in the order they were *)
(* published, each at most once, and only a stop loses any: EventService   *)
(* implements EventDelivery.  Of the ways together nothing is promised: an *)
(* event of publish_async overtakes one of publish before it.              *)
Published(w) == SelectSeq(event_queue, LAMBDA item : item[1] = w)

Delivery == INSTANCE EventDelivery WITH
    Ways <- {"publish", "publish_async", "outside"}, Outside <- "outside",
    Events <- 1 .. MaxEvents,
    phase <- IF running THEN "on" ELSE IF stopping THEN "stopping" ELSE "off",
    channel <- [w \in {"publish", "publish_async", "outside"} |->
                  [i \in DOMAIN Published(w) |-> Published(w)[i][2]]
                  \o (IF w = "publish" THEN put_tasks ELSE << >>)],
    delivered <- handled

DeliversInOrder == Delivery!Spec

(* An event that waits is handled, unless the service stops: stop loses    *)
(* what is in the queue, which no caller is told (stop, _process_events).  *)
Queued == {"publish", "publish_async"}

Waits(e) == e \in ToSet(put_tasks) \/ \E w \in Queued : <<w, e>> \in ToSet(event_queue)

HandledOrStopped(e) == ~running \/ \E w \in Queued : <<w, e>> \in ToSet(handled)

WaitingAreHandled == \A e \in 1 .. MaxEvents : Waits(e) ~> HandledOrStopped(e)
=============================================================================
