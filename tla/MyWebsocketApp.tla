----------------------------- MODULE MyWebsocketApp ---------------------------
(***************************************************************************)
(* feeds/my_websocket_app.py: a stream that keeps one socket open.  Its    *)
(* worker thread (run) creates sockets, runs the callbacks of the open one *)
(* and reconnects; a readiness watchdog and a message idle watchdog close  *)
(* sockets that do not get ready or fall silent, a timer closes the socket *)
(* at intervals; the owner calls start, stop and restart, which is the two *)
(* in a row.                                                               *)
(*                                                                         *)
(* start() goes on only when the worker and helpers of the start before    *)
(* have ended, so there is one stop event at a time, and one thread of     *)
(* each kind.  While the worker lives, self.ws is the socket it created    *)
(* last.  A connection generation, counted by on_open, is named by the     *)
(* socket that was opened; names of sockets that nobody remembers are      *)
(* used again.  Times are not kept: a timeout passes at any time.          *)
(* open_rsp, which the exchanges override, sends Subscriptions requests as *)
(* one batch and leaves the stream pending until each is acknowledged.     *)
(* Callbacks that call stop() themselves are left out.                     *)
(***************************************************************************)
EXTENDS Integers, FiniteSetsExt

CONSTANTS
    Sockets,                    \* names of sockets, one more than can be in use
    Subscriptions,              \* requests open_rsp sends
    max_reconnect_attempts,     \* 0 for no bound
    ReadinessTimed, IdleWatched, RestartTimed,  \* readiness_timeout > 0,
                                \* message_idle_timeout > 0, restart_gap > 0
    MaxStarts                   \* bound on the calls of start()

NoSocket == 0

ASSUME StreamAssumption ==
    /\ Subscriptions \in Nat /\ max_reconnect_attempts \in Nat
    /\ ReadinessTimed \in BOOLEAN

(* Six names can be in use at a time (Named). *)
ASSUME EnoughNames == 1..7 \subseteq Sockets /\ NoSocket \notin Sockets

VARIABLES
    worker,                 \* where the worker thread is in run()
    ws,                     \* self.ws
    asked,                  \* was that socket asked to close? Or is that lost?
    sent,                   \* requests of its batch sent so far
    running,                \* _running_flag
    stop_event,
    readiness,              \* _awaiting_ready, _readiness_deadline set, _readiness_ws
    batch,                  \* _tracking_subscription_batch, _pending_subscription_acks
    generation,             \* _connection_generation
    last_message,           \* _last_message_at is set
    idle_close_requested,
    attempts,               \* _reconnect_attempt
    readiness_watchdog, idle_watchdog, timer,   \* the helper threads
    owner,                  \* where the owner is in start() or stop()
    stopped,                \* history: its last call was stop(), and returned
    starts,
    announced               \* history: ws.connected events of this socket

stream == <<running, stop_event, readiness, batch, generation, last_message, idle_close_requested>>
sockets == <<ws, asked, sent, announced>>
helpers == <<readiness_watchdog, idle_watchdog, timer>>
owning == <<owner, stopped, starts>>
vars == <<worker, sockets, stream, attempts, helpers, owning>>

Ended == [pc |-> "ended", ws |-> NoSocket, gen |-> NoSocket, same |-> FALSE]
Looking == [Ended EXCEPT !.pc = "look"]

Init ==
    /\ worker = "ended" /\ ws = NoSocket /\ asked = "no" /\ sent = 0
    /\ running = FALSE /\ stop_event = FALSE
    /\ readiness = [awaiting |-> FALSE, deadline |-> FALSE, ws |-> NoSocket]
    /\ batch = [tracking |-> FALSE, pending |-> 0]
    /\ generation = NoSocket /\ last_message = FALSE /\ idle_close_requested = FALSE
    /\ attempts = 0
    /\ readiness_watchdog = Ended /\ idle_watchdog = Ended /\ timer = "ended"
    /\ owner = "idle" /\ stopped = FALSE /\ starts = 0
    /\ announced = 0

-----------------------------------------------------------------------------
(* ws.close() on socket s: run_forever of that socket ends in time.  On an *)
(* earlier socket, or one run_forever is done with, it has no effect; and  *)
(* run_forever, when it begins, forgets what came before, so a close may   *)
(* be lost up to then.                                                     *)
InForever == {"connecting", "opening", "marking", "serving"}
Close(s) ==
    asked' \in CASE s = ws /\ worker \in InForever -> {"yes"}
                [] s = ws /\ worker \in {"created", "entering"} /\ asked # "yes" -> {"yes", "lost"}
                [] OTHER -> {asked}

NotAwaiting == [readiness EXCEPT !.awaiting = FALSE, !.deadline = FALSE]

-----------------------------------------------------------------------------
Exhausted == max_reconnect_attempts > 0 /\ attempts >= max_reconnect_attempts

Named == {ws, generation, readiness.ws, readiness_watchdog.ws,
          idle_watchdog.ws, idle_watchdog.gen}

(* A name that nobody remembers. *)
NewSocket == CHOOSE s \in Sockets : s \notin Named

(* Faulty variant: the loop of run() does not test the stop event. *)
create_websocket_app_Unstopped ==
    /\ worker = "loop" /\ ~Exhausted
    /\ ws' = NewSocket
    /\ worker' = "created"
    /\ UNCHANGED <<asked, sent, announced, stream, attempts, helpers, owning>>

(* run(): the next socket, unless the stream is stopped or out of attempts *)
create_websocket_app ==
    /\ worker = "loop" /\ ~stop_event /\ ~Exhausted
    /\ ws' = NewSocket
    /\ worker' = "created"
    /\ UNCHANGED <<asked, sent, announced, stream, attempts, helpers, owning>>

(* The test of the stop event before run_forever is called; ...            *)
stop_event_is_set ==
    /\ worker = "created"
    /\ worker' = IF stop_event THEN "after" ELSE "entering"
    /\ UNCHANGED <<sockets, stream, attempts, helpers, owning>>

(* ... a stop() that comes after it finds nothing to close yet.            *)
run_forever ==
    /\ worker = "entering"
    /\ worker' = "connecting"
    /\ UNCHANGED <<sockets, stream, attempts, helpers, owning>>

(* The handshake fails: on_error and on_close run, or it raises. *)
connect_fails ==
    /\ worker = "connecting"
    /\ worker' \in {"closing", "after"}
    /\ UNCHANGED <<sockets, stream, attempts, helpers, owning>>

(* Out of attempts or stopped. *)
run_ends ==
    /\ worker = "loop" /\ (stop_event \/ Exhausted)
    /\ worker' = "ended"
    /\ running' = FALSE /\ stop_event' = TRUE
    /\ UNCHANGED <<sockets, readiness, batch, generation, last_message, idle_close_requested,
                   attempts, helpers, owning>>

(* After run_forever; the back-off, which the stop event ends early. *)
reconnect ==
    /\ worker = "after"
    /\ worker' = "loop"
    /\ asked' = "no" /\ sent' = 0 /\ announced' = 0
    /\ attempts' = IF stop_event \/ max_reconnect_attempts = 0 THEN attempts ELSE attempts + 1
    /\ UNCHANGED <<ws, stream, helpers, owning>>

-----------------------------------------------------------------------------
(* Faulty variant: no deadline is set. *)
on_open_NoDeadline ==
    /\ worker = "connecting" /\ worker' = "opening"
    /\ generation' = ws
    /\ last_message' = TRUE /\ idle_close_requested' = FALSE
    /\ readiness' = [awaiting |-> TRUE, deadline |-> FALSE, ws |-> ws]
    /\ batch' = [tracking |-> TRUE, pending |-> 0]
    /\ idle_watchdog' = [idle_watchdog EXCEPT !.same = FALSE]
    /\ UNCHANGED <<sockets, running, stop_event, attempts, readiness_watchdog, timer, owning>>

(* on_open, up to the call of open_rsp, which begins a batch. *)
on_open ==
    /\ worker = "connecting" /\ worker' = "opening"
    /\ generation' = ws
    /\ last_message' = TRUE /\ idle_close_requested' = FALSE
    /\ readiness' = [awaiting |-> TRUE, deadline |-> ReadinessTimed, ws |-> ws]
    /\ batch' = [tracking |-> TRUE, pending |-> 0]
    /\ idle_watchdog' = [idle_watchdog EXCEPT !.same = FALSE]
    /\ UNCHANGED <<sockets, running, stop_event, attempts, readiness_watchdog, timer, owning>>

subscribe ==
    /\ worker = "opening" /\ sent < Subscriptions
    /\ sent' = sent + 1
    /\ batch' = [batch EXCEPT !.pending = @ + 1]
    /\ UNCHANGED <<worker, ws, asked, announced, running, stop_event, readiness, generation,
                   last_message, idle_close_requested, attempts, helpers, owning>>

(* Faulty variant: the batch is not awaited. *)
_end_subscription_batch_Ready ==
    /\ worker = "opening" /\ sent = Subscriptions
    /\ batch' = [batch EXCEPT !.tracking = FALSE]
    /\ worker' = "marking"
    /\ UNCHANGED <<sockets, running, stop_event, readiness, generation, last_message,
                   idle_close_requested, attempts, helpers, owning>>

(* The batch is sent: without requests the stream is ready, with them it   *)
(* is pending.                                                             *)
_end_subscription_batch ==
    /\ worker = "opening" /\ sent = Subscriptions
    /\ batch' = [batch EXCEPT !.tracking = FALSE]
    /\ worker' = IF batch.pending = 0 THEN "marking" ELSE "serving"
    /\ UNCHANGED <<sockets, running, stop_event, readiness, generation, last_message,
                   idle_close_requested, attempts, helpers, owning>>

(* open_rsp raises, in a send or before; a WebSocketSubscriptionError is   *)
(* fatal and stops the stream.                                             *)
open_rsp_raises(fatal) ==
    /\ worker = "opening" /\ worker' = "serving"
    /\ running' = FALSE
    /\ readiness' = NotAwaiting
    /\ stop_event' = (stop_event \/ fatal)
    /\ Close(ws)
    /\ UNCHANGED <<ws, sent, announced, batch, generation, last_message, idle_close_requested,
                   attempts, helpers, owning>>

(* _mark_ready publishes ws.connected, unless the stream is ready. *)
_mark_ready ==
    /\ worker = "marking" /\ worker' = "serving"
    /\ announced' = IF running /\ ~readiness.awaiting THEN announced ELSE Min({announced + 1, 2})
    /\ readiness' = NotAwaiting
    /\ idle_close_requested' = FALSE /\ last_message' = TRUE /\ running' = TRUE
    /\ attempts' = 0
    /\ idle_watchdog' = [idle_watchdog EXCEPT !.same = FALSE]
    /\ UNCHANGED <<ws, asked, sent, stop_event, batch, generation, readiness_watchdog, timer, owning>>

-----------------------------------------------------------------------------
(* on_message with a message that is none of those below. *)
on_message ==
    /\ worker = "serving"
    /\ last_message' = TRUE
    /\ idle_watchdog' = [idle_watchdog EXCEPT !.same = FALSE]
    /\ UNCHANGED <<worker, sockets, running, stop_event, readiness, batch, generation,
                   idle_close_requested, attempts, readiness_watchdog, timer, owning>>

(* Faulty variant: an acknowledgement nobody waits for is counted. *)
_subscription_acknowledged_Unasked ==
    /\ worker = "serving"
    /\ last_message' = TRUE
    /\ idle_watchdog' = [idle_watchdog EXCEPT !.same = FALSE]
    /\ batch' = [batch EXCEPT !.pending = Max({0, @ - 1})]
    /\ worker' = IF batch'.pending = 0 /\ ~batch.tracking THEN "marking" ELSE "serving"
    /\ UNCHANGED <<sockets, running, stop_event, readiness, generation, idle_close_requested,
                   attempts, readiness_watchdog, timer, owning>>

(* An acknowledgement: the last one of the batch makes the stream ready,   *)
(* in a step of its own.  One that comes when none is pending, of a        *)
(* request sent outside the batch, is ignored.                             *)
_subscription_acknowledged ==
    /\ worker = "serving"
    /\ last_message' = TRUE
    /\ idle_watchdog' = [idle_watchdog EXCEPT !.same = FALSE]
    /\ batch' = [batch EXCEPT !.pending = Max({0, @ - 1})]
    /\ worker' = IF batch.pending = 1 /\ ~batch.tracking THEN "marking" ELSE "serving"
    /\ UNCHANGED <<sockets, running, stop_event, readiness, generation, idle_close_requested,
                   attempts, readiness_watchdog, timer, owning>>

(* message_rsp raises: the socket is closed, for good if that is fatal. *)
on_message_raises(fatal) ==
    /\ worker = "serving"
    /\ last_message' = TRUE
    /\ idle_watchdog' = [idle_watchdog EXCEPT !.same = FALSE]
    /\ running' = FALSE
    /\ readiness' = NotAwaiting
    /\ stop_event' = (stop_event \/ fatal)
    /\ Close(ws)
    /\ UNCHANGED <<worker, ws, sent, announced, batch, generation, idle_close_requested,
                   attempts, readiness_watchdog, timer, owning>>

(* The socket closes: because it was asked to, or from the other side. *)
socket_closes ==
    /\ worker = "serving" /\ worker' = "closing"
    /\ UNCHANGED <<sockets, stream, attempts, helpers, owning>>

on_close ==
    /\ worker = "closing" /\ worker' = "after"
    /\ running' = FALSE
    /\ readiness' = NotAwaiting
    /\ batch' = [tracking |-> FALSE, pending |-> 0]
    /\ idle_close_requested' = FALSE /\ last_message' = FALSE
    /\ idle_watchdog' = [idle_watchdog EXCEPT !.same = FALSE]
    /\ UNCHANGED <<sockets, stop_event, generation, attempts, readiness_watchdog, timer, owning>>

-----------------------------------------------------------------------------
(* _readiness_watchdog: the deadline it read has passed; it looks again    *)
(* under the lock, and closes the socket it is about.                      *)
readiness_look ==
    /\ readiness_watchdog.pc = "look" /\ ~stop_event
    /\ readiness.awaiting /\ readiness.deadline
    /\ readiness_watchdog' = [Ended EXCEPT !.pc = "verdict", !.ws = readiness.ws]
    /\ UNCHANGED <<worker, sockets, stream, attempts, idle_watchdog, timer, owning>>

(* Faulty variant: whoever is awaited now is found late. *)
StillAwaited_Anyone == readiness.awaiting /\ readiness.deadline

StillAwaited ==
    /\ readiness.awaiting /\ readiness.deadline
    /\ readiness.ws = readiness_watchdog.ws
    /\ ws = readiness_watchdog.ws

readiness_verdict ==
    /\ readiness_watchdog.pc = "verdict"
    /\ IF StillAwaited
       THEN /\ readiness' = NotAwaiting
            /\ running' = FALSE
            /\ readiness_watchdog' = [readiness_watchdog EXCEPT !.pc = "close"]
       ELSE /\ readiness_watchdog' = Looking
            /\ UNCHANGED <<readiness, running>>
    /\ UNCHANGED <<worker, sockets, stop_event, batch, generation, last_message,
                   idle_close_requested, attempts, idle_watchdog, timer, owning>>

readiness_close ==
    /\ readiness_watchdog.pc = "close"
    /\ Close(readiness_watchdog.ws)
    /\ readiness_watchdog' = Looking
    /\ UNCHANGED <<worker, ws, sent, announced, stream, attempts, idle_watchdog, timer, owning>>

(* _message_idle_watchdog *)
idle_look ==
    /\ idle_watchdog.pc = "look" /\ ~stop_event
    /\ running \/ readiness.awaiting
    /\ last_message /\ ws # NoSocket
    /\ idle_watchdog' = [pc |-> "verdict", ws |-> ws, gen |-> generation, same |-> TRUE]
    /\ UNCHANGED <<worker, sockets, stream, attempts, readiness_watchdog, timer, owning>>

StillSilent ==
    /\ ~idle_close_requested
    /\ ws = idle_watchdog.ws /\ generation = idle_watchdog.gen
    /\ idle_watchdog.same

idle_verdict ==
    /\ idle_watchdog.pc = "verdict"
    /\ IF StillSilent
       THEN /\ idle_close_requested' = TRUE
            /\ running' = FALSE
            /\ readiness' = NotAwaiting
            /\ idle_watchdog' = [idle_watchdog EXCEPT !.pc = "close"]
       ELSE /\ idle_watchdog' = Looking
            /\ UNCHANGED <<idle_close_requested, running, readiness>>
    /\ UNCHANGED <<worker, sockets, stop_event, batch, generation, last_message, attempts,
                   readiness_watchdog, timer, owning>>

idle_close ==
    /\ idle_watchdog.pc = "close"
    /\ Close(idle_watchdog.ws)
    /\ idle_watchdog' = Looking
    /\ UNCHANGED <<worker, ws, sent, announced, stream, attempts, readiness_watchdog, timer, owning>>

(* restart_timer reads self.ws and closes it.  One step stands for both: a *)
(* socket that was replaced in between is not affected by its close.       *)
restart_timer ==
    /\ timer = "look" /\ ~stop_event /\ ws # NoSocket
    /\ Close(ws)
    /\ UNCHANGED <<worker, ws, sent, announced, stream, attempts, helpers, owning>>

helper_ends ==
    /\ stop_event
    /\ \/ /\ readiness_watchdog.pc = "look" /\ readiness_watchdog' = Ended
          /\ UNCHANGED <<idle_watchdog, timer>>
       \/ /\ idle_watchdog.pc = "look" /\ idle_watchdog' = Ended
          /\ UNCHANGED <<readiness_watchdog, timer>>
       \/ /\ timer = "look" /\ timer' = "ended"
          /\ UNCHANGED <<readiness_watchdog, idle_watchdog>>
    /\ UNCHANGED <<worker, sockets, stream, attempts, owning>>

-----------------------------------------------------------------------------
(* start *)
HelpersEnded == readiness_watchdog.pc = "ended" /\ idle_watchdog.pc = "ended" /\ timer = "ended"
Raises == owner' = "idle" /\ stopped' = FALSE

start ==
    /\ owner = "idle" /\ starts < MaxStarts
    /\ worker = "ended" /\ HelpersEnded
    /\ starts' = starts + 1
    /\ stop_event' = FALSE /\ running' = FALSE /\ attempts' = 0
    /\ worker' = "loop"
    /\ readiness_watchdog' = IF ReadinessTimed THEN Looking ELSE Ended
    /\ idle_watchdog' = IF IdleWatched THEN Looking ELSE Ended
    /\ owner' = "waiting" /\ stopped' = FALSE
    /\ UNCHANGED <<sockets, readiness, batch, generation, last_message, idle_close_requested, timer>>

(* A start while the worker runs waits for it to be ready. *)
start_again ==
    /\ owner = "idle" /\ starts < MaxStarts
    /\ worker # "ended" /\ ~stop_event
    /\ starts' = starts + 1
    /\ owner' = "waiting" /\ stopped' = FALSE
    /\ UNCHANGED <<worker, sockets, stream, attempts, helpers>>

(* The worker is stopping, or a helper outlives its join. *)
start_refused ==
    /\ owner = "idle" /\ starts < MaxStarts
    /\ IF worker # "ended" THEN stop_event ELSE ~HelpersEnded
    /\ starts' = starts + 1
    /\ Raises
    /\ UNCHANGED <<worker, sockets, stream, attempts, helpers>>

(* The loop that waits ends; _running_flag is read again below it. *)
wait_ends ==
    /\ owner = "waiting" /\ (running \/ stop_event)
    /\ owner' = "leaving"
    /\ UNCHANGED <<worker, sockets, stream, attempts, helpers, stopped, starts>>

start_returns ==
    /\ owner = "leaving" /\ running
    /\ timer' = IF RestartTimed /\ ~stop_event THEN "look" ELSE timer
    /\ owner' = "idle" /\ stopped' = FALSE
    /\ UNCHANGED <<worker, sockets, stream, attempts, readiness_watchdog, idle_watchdog, starts>>

start_raises ==
    /\ owner = "leaving" /\ ~running
    /\ Raises
    /\ UNCHANGED <<worker, sockets, stream, attempts, helpers, starts>>

(* stop, called by the owner or by a start whose connect_timeout passed. *)
stop ==
    /\ owner \in {"idle", "waiting"}
    /\ running' = FALSE /\ stop_event' = TRUE
    /\ owner' = "closing" /\ stopped' = FALSE
    /\ UNCHANGED <<worker, sockets, readiness, batch, generation, last_message,
                   idle_close_requested, attempts, helpers, starts>>

stop_closes ==
    /\ owner = "closing" /\ owner' = "joining"
    /\ IF ws = NoSocket THEN UNCHANGED asked ELSE Close(ws)
    /\ UNCHANGED <<worker, ws, sent, announced, stream, attempts, helpers, stopped, starts>>

(* Faulty variant: stop does not wait for the worker. *)
join_worker_Never ==
    /\ owner = "joining"
    /\ owner' = "joining helpers" /\ ws' = NoSocket
    /\ UNCHANGED <<worker, asked, sent, announced, stream, attempts, helpers, stopped, starts>>

(* self.ws is cleared when the first join is over. *)
join_worker ==
    /\ owner = "joining" /\ worker = "ended"
    /\ owner' = "joining helpers" /\ ws' = NoSocket
    /\ UNCHANGED <<worker, asked, sent, announced, stream, attempts, helpers, stopped, starts>>

join_helpers ==
    /\ owner = "joining helpers" /\ HelpersEnded
    /\ owner' = "idle" /\ stopped' = TRUE
    /\ UNCHANGED <<worker, sockets, stream, attempts, helpers, starts>>

join_times_out ==
    /\ \/ owner = "joining" /\ worker # "ended"
       \/ owner = "joining helpers" /\ ~HelpersEnded
    /\ Raises
    /\ UNCHANGED <<worker, sockets, stream, attempts, helpers, starts>>

-----------------------------------------------------------------------------
Worker ==
    \/ create_websocket_app \/ stop_event_is_set \/ run_forever \/ connect_fails \/ run_ends \/ reconnect
    \/ on_open \/ subscribe \/ _end_subscription_batch \/ _mark_ready \/ on_close
    \/ \E fatal \in BOOLEAN : open_rsp_raises(fatal)

Messages ==
    \/ on_message \/ _subscription_acknowledged \/ socket_closes
    \/ \E fatal \in BOOLEAN : on_message_raises(fatal)

Readiness == readiness_look \/ readiness_verdict \/ readiness_close
Idle == idle_look \/ idle_verdict \/ idle_close

Owner ==
    \/ start \/ start_again \/ start_refused \/ wait_ends \/ start_returns \/ start_raises
    \/ stop \/ stop_closes \/ join_worker \/ join_helpers \/ join_times_out

Next == Worker \/ Messages \/ Readiness \/ Idle \/ restart_timer \/ helper_ends \/ Owner

Spec == Init /\ [][Next]_vars

(***************************************************************************)
(* The threads run.  A handshake ends within its timeout, a socket that    *)
(* was asked to close does, and the readiness deadline passes; messages,   *)
(* silence and closing by the exchange are not guaranteed.                 *)
(***************************************************************************)
Fairness ==
    /\ WF_vars(Worker)
    /\ WF_vars(asked = "yes" /\ socket_closes)
    /\ WF_vars(Readiness)
    /\ WF_vars(idle_verdict \/ idle_close)
    /\ WF_vars(stop_closes)

LiveSpec == Spec /\ Fairness

-----------------------------------------------------------------------------
(* A stream that says it is running has an open socket, all requests of    *)
(* that socket's batch are acknowledged, and it awaits nothing: no         *)
(* reconnect, failed callback or verdict of a watchdog leaves the flag of  *)
(* an earlier socket behind.                                               *)
ReadyMeansSubscribed ==
    running => /\ worker \in {"serving", "closing", "marking"}
               /\ sent = Subscriptions /\ batch.pending = 0 /\ ~batch.tracking
               /\ ~readiness.awaiting

(* ws.connected is published at most once for each socket, whatever        *)
(* acknowledgements come late or unasked for.                              *)
AnnouncedOnce == announced <= 1

(* When stop() has returned, its threads have ended, no socket is held and *)
(* the stream is not running, and this stays so until the next start().    *)
StoppedIsQuiet ==
    stopped =>
       /\ worker = "ended" /\ HelpersEnded
       /\ ws = NoSocket /\ ~running

(* No open socket is forgotten: it is running, awaited, asked to close or  *)
(* about to be by a thread that has decided so.  A watchdog that cleared   *)
(* the flags of another socket than the one it closes would leave one that *)
(* is neither used nor ever replaced.                                      *)
NoForgottenSocket ==
    worker = "serving" =>
       \/ running \/ readiness.awaiting \/ asked = "yes"
       \/ readiness_watchdog.pc = "close" /\ readiness_watchdog.ws = ws
       \/ idle_watchdog.pc = "close" /\ idle_watchdog.ws = ws
       \/ owner = "closing"

(* What a stream claims and holds agrees with its socket.                  *)
ReadinessIsTrue == ReadyMeansSubscribed /\ AnnouncedOnce /\ NoForgottenSocket

(* With a readiness timeout a socket that is open and not ready is ready   *)
(* in the end or is closed.  The exception is a socket that stop() closed  *)
(* between the worker's test of the stop event and run_forever: it opens   *)
(* all the same, and the watchdogs, which stop() has ended, leave it alone.*)
UnreadySocketsEnd ==
    ReadinessTimed =>
        ((worker = "serving" /\ ~running)
            ~> (running \/ worker # "serving" \/ (stop_event /\ asked = "lost")))

(* Once the stream is stopped, by the owner, by a fatal subscription error *)
(* or for want of attempts, its worker ends; only a close that came before *)
(* run_forever and was lost can keep it from that.                         *)
StopEndsWorker == stop_event ~> (worker = "ended" \/ asked = "lost")

(* What has to end does: sockets that are not ready, and stopped workers.  *)
SocketsAndWorkersEnd == UnreadySocketsEnd /\ StopEndsWorker
===============================================================================
