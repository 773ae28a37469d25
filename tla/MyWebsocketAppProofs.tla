------------------------- MODULE MyWebsocketAppProofs --------------------------
(***************************************************************************)
(* The safety of MyWebsocketApp for any number of subscriptions, starts    *)
(* and reconnect attempts, with and without the idle watchdog and the      *)
(* restart timer: what a running stream holds, that no open socket is      *)
(* forgotten, and that a stopped stream is quiet.                          *)
(***************************************************************************)
EXTENDS MyWebsocketApp, TLAPS

SocketNames == Sockets \cup {NoSocket}

Watchdogs == [pc : {"ended", "look", "verdict", "close"}, ws : SocketNames, gen : SocketNames,
              same : BOOLEAN]

Batches == [tracking : BOOLEAN, pending : 0..Subscriptions]
Awaitings == [awaiting : BOOLEAN, deadline : BOOLEAN, ws : SocketNames]

(* The fields of the stream and of its threads keep their types. *)
TypeOK ==
    /\ worker \in {"ended", "loop", "created", "entering", "connecting", "opening", "marking",
                   "serving", "closing", "after"}
    /\ ws \in SocketNames /\ generation \in SocketNames
    /\ asked \in {"no", "yes", "lost"} /\ sent \in 0..Subscriptions /\ announced \in 0..1
    /\ running \in BOOLEAN /\ stop_event \in BOOLEAN
    /\ readiness \in Awaitings
    /\ batch \in Batches
    /\ readiness_watchdog \in Watchdogs /\ idle_watchdog \in Watchdogs
    /\ owner \in {"idle", "waiting", "leaving", "closing", "joining", "joining helpers"}

(* What has been sent and announced belongs to the socket at hand.         *)
BatchOfSocket ==
    /\ worker \in {"ended", "loop", "created", "entering", "connecting"} => sent = 0
    /\ worker \in {"ended", "loop", "created", "entering", "connecting", "opening", "marking"} => announced = 0
    /\ worker = "opening" => batch.tracking /\ batch.pending = sent
    /\ worker \in {"marking", "serving"} => batch.tracking \/ sent = Subscriptions
    /\ worker = "marking" => ~batch.tracking /\ batch.pending = 0 /\ ~running
    /\ worker = "serving" /\ announced = 1 => batch.pending = 0

(* The worker has a socket from its creation on.                           *)
WorkerHasSocket == worker \notin {"ended", "loop"} => ws # NoSocket

(* A socket that opens, and will serve, is not forgotten either.           *)
NotForgotten ==
    worker \in {"opening", "marking", "serving"} =>
       \/ running \/ readiness.awaiting \/ asked = "yes"
       \/ readiness_watchdog.pc = "close" /\ readiness_watchdog.ws = ws
       \/ idle_watchdog.pc = "close" /\ idle_watchdog.ws = ws
       \/ owner = "closing"

(* A stop that has joined the worker has nothing but helpers to wait for.  *)
StopProceeds ==
    /\ owner = "joining helpers" => worker = "ended" /\ ws = NoSocket
    /\ stopped => owner = "idle"

IInv ==
    /\ TypeOK /\ BatchOfSocket /\ WorkerHasSocket
    /\ ReadyMeansSubscribed /\ NotForgotten /\ StopProceeds /\ StoppedIsQuiet

-----------------------------------------------------------------------------
(* There is a name for a new socket. *)
LEMMA NewSocketExists == TypeOK => NewSocket \in Sockets
  <1> SUFFICES ASSUME TypeOK PROVE NewSocket \in Sockets
    OBVIOUS
  <1>1. \E s \in Sockets : s \notin Named
    <2>1. 1 \in Sockets /\ 2 \in Sockets /\ 3 \in Sockets /\ 4 \in Sockets /\ 5 \in Sockets
          /\ 6 \in Sockets /\ 7 \in Sockets
      BY EnoughNames
    <2> QED BY <2>1 DEF Named
  <1> QED BY <1>1 DEF NewSocket

(* The last acknowledgement awaited brings the count to zero, others lower *)
(* it, and one too many leaves it there.                                   *)
LEMMA CountDown == \A n \in Nat : Max({0, n - 1}) = IF n = 0 THEN 0 ELSE n - 1
  <1> SUFFICES ASSUME NEW n \in Nat PROVE Max({0, n - 1}) = IF n = 0 THEN 0 ELSE n - 1
    OBVIOUS
  <1> DEFINE m == IF n = 0 THEN 0 ELSE n - 1
  <1>1. m \in {0, n - 1} /\ \A y \in {0, n - 1} : m >= y
    OBVIOUS
  <1>2. \A x \in {0, n - 1} : (\A y \in {0, n - 1} : x >= y) => x = m
    OBVIOUS
  <1> QED BY <1>1, <1>2 DEF Max

(* The cap on the count of announcements is not in the way of the first.   *)
LEMMA FirstAnnouncement == Min({0 + 1, 2}) = 1
  BY DEF Min

(* A watchdog that has ended, or looks, remembers no socket.               *)
LEMMA WatchdogsStart == Ended \in Watchdogs /\ Looking \in Watchdogs
  <1>1. Ended \in Watchdogs
    BY DEF Ended, Watchdogs, SocketNames
  <1> QED BY <1>1 DEF Looking, Watchdogs

(* What ws.close() does to a socket. *)
LEMMA CloseEffects ==
    ASSUME NEW s, TypeOK, Close(s)
    PROVE  /\ asked' \in {"no", "yes", "lost"}
           /\ asked = "yes" => asked' = "yes"
           /\ s = ws /\ worker \in InForever => asked' = "yes"
  BY DEF Close, TypeOK, InForever

(* Every step leaves each field in its type.                               *)
LEMMA TypesKept == IInv /\ Next => TypeOK'
  <1> SUFFICES ASSUME IInv, Next PROVE TypeOK'
    OBVIOUS
  <1> USE DEF Next, Worker, Messages, Readiness, Idle, Owner,
        create_websocket_app, stop_event_is_set, run_forever, connect_fails, run_ends, reconnect, on_open,
        subscribe, _end_subscription_batch, _mark_ready, on_close, open_rsp_raises,
        on_message, _subscription_acknowledged, socket_closes, on_message_raises,
        readiness_look, readiness_verdict, readiness_close, idle_look,
        idle_verdict, idle_close, restart_timer, helper_ends,
        start, start_again, start_refused, wait_ends, start_returns, start_raises, stop,
        stop_closes, join_worker, join_helpers, join_times_out, Raises,
        stream, sockets, helpers, owning, IInv, TypeOK
  <1>1. worker' \in {"ended", "loop", "created", "entering", "connecting", "opening", "marking",
                     "serving", "closing", "after"}
    OBVIOUS
  <1>2. ws' \in SocketNames
    BY NewSocketExists DEF SocketNames
  <1>3. generation' \in SocketNames
    OBVIOUS
  <1>4. asked' \in {"no", "yes", "lost"}
    BY CloseEffects
  <1>5. sent' \in 0..Subscriptions
    <2>1. \/ sent' = sent \/ sent' = 0
          \/ sent < Subscriptions /\ sent' = sent + 1
      OBVIOUS
    <2>2. sent \in 0..Subscriptions
      OBVIOUS
    <2> HIDE DEF Next, IInv, TypeOK
    <2> QED BY <2>1, <2>2, StreamAssumption
  <1>6. announced' \in 0..1
    <2>1. \/ announced' = announced \/ announced' = 0
          \/ worker = "marking" /\ announced' = Min({announced + 1, 2})
      OBVIOUS
    <2>2. announced \in 0..1 /\ (worker = "marking" => announced = 0)
      BY DEF BatchOfSocket
    <2> HIDE DEF Next, IInv, TypeOK
    <2> QED BY <2>1, <2>2, FirstAnnouncement
  <1>7. running' \in BOOLEAN
    OBVIOUS
  <1>8. stop_event' \in BOOLEAN
    OBVIOUS
  <1>9. readiness' \in Awaitings
    <2>1. \/ readiness' = readiness \/ readiness' = NotAwaiting
          \/ readiness' = [awaiting |-> TRUE, deadline |-> ReadinessTimed, ws |-> ws]
      OBVIOUS
    <2>2. readiness \in Awaitings /\ ws \in SocketNames
      OBVIOUS
    <2> HIDE DEF Next, IInv, TypeOK
    <2>3. CASE readiness' = NotAwaiting
      BY <2>2, <2>3, Zenon DEF NotAwaiting, Awaitings
    <2>4. CASE readiness' = [awaiting |-> TRUE, deadline |-> ReadinessTimed, ws |-> ws]
      BY <2>2, <2>4, StreamAssumption DEF Awaitings
    <2> QED BY <2>1, <2>2, <2>3, <2>4
  <1>10. batch' \in Batches
    <2>1. \/ batch' = batch \/ batch' = [tracking |-> TRUE, pending |-> 0]
          \/ batch' = [tracking |-> FALSE, pending |-> 0]
          \/ /\ worker = "opening" /\ sent < Subscriptions
             /\ batch' = [batch EXCEPT !.pending = @ + 1]
          \/ batch' = [batch EXCEPT !.tracking = FALSE]
          \/ batch' = [batch EXCEPT !.pending = Max({0, @ - 1})]
      OBVIOUS
    <2>2. /\ batch \in Batches
          /\ sent \in 0..Subscriptions /\ (worker = "opening" => batch.pending = sent)
      BY DEF BatchOfSocket
    <2> HIDE DEF Next, IInv, TypeOK
    <2>3. CASE batch' = [batch EXCEPT !.pending = Max({0, @ - 1})]
      <3>1. Max({0, batch.pending - 1}) \in 0..Subscriptions
        BY <2>2, CountDown, StreamAssumption DEF Batches
      <3> QED BY <2>2, <2>3, <3>1 DEF Batches
    <2>4. CASE batch' = [batch EXCEPT !.tracking = FALSE]
      BY <2>2, <2>4 DEF Batches
    <2>5. CASE \/ batch' = [tracking |-> TRUE, pending |-> 0]
               \/ batch' = [tracking |-> FALSE, pending |-> 0]
      <3>1. 0 \in 0..Subscriptions
        BY StreamAssumption
      <3>2. CASE batch' = [tracking |-> TRUE, pending |-> 0]
        BY <3>1, <3>2 DEF Batches
      <3>3. CASE batch' = [tracking |-> FALSE, pending |-> 0]
        BY <3>1, <3>3 DEF Batches
      <3> QED BY <2>5, <3>2, <3>3
    <2>6. CASE /\ worker = "opening" /\ sent < Subscriptions
               /\ batch' = [batch EXCEPT !.pending = @ + 1]
      BY <2>2, <2>6, StreamAssumption DEF Batches
    <2> QED BY <2>1, <2>2, <2>3, <2>4, <2>5, <2>6
  <1>11. readiness_watchdog' \in Watchdogs
    <2>1. \/ readiness_watchdog' = readiness_watchdog
          \/ readiness_watchdog' = Looking \/ readiness_watchdog' = Ended
          \/ readiness_watchdog' = [Ended EXCEPT !.pc = "verdict", !.ws = readiness.ws]
          \/ readiness_watchdog' = [readiness_watchdog EXCEPT !.pc = "close"]
      OBVIOUS
    <2>2. readiness_watchdog \in Watchdogs /\ readiness.ws \in SocketNames
      BY DEF Awaitings
    <2> HIDE DEF Next, IInv, TypeOK
    <2>3. CASE readiness_watchdog' = [Ended EXCEPT !.pc = "verdict", !.ws = readiness.ws]
      BY <2>2, <2>3, Zenon DEF Watchdogs, Ended, SocketNames
    <2>4. CASE readiness_watchdog' = [readiness_watchdog EXCEPT !.pc = "close"]
      BY <2>2, <2>4 DEF Watchdogs
    <2> QED BY <2>1, <2>2, <2>3, <2>4, WatchdogsStart
  <1>12. idle_watchdog' \in Watchdogs
    <2>1. \/ idle_watchdog' = idle_watchdog
          \/ idle_watchdog' = Looking \/ idle_watchdog' = Ended
          \/ idle_watchdog' = [idle_watchdog EXCEPT !.same = FALSE]
          \/ idle_watchdog' = [pc |-> "verdict", ws |-> ws, gen |-> generation, same |-> TRUE]
          \/ idle_watchdog' = [idle_watchdog EXCEPT !.pc = "close"]
      OBVIOUS
    <2>2. idle_watchdog \in Watchdogs /\ ws \in SocketNames /\ generation \in SocketNames
      OBVIOUS
    <2> HIDE DEF Next, IInv, TypeOK
    <2>3. CASE idle_watchdog' = [pc |-> "verdict", ws |-> ws, gen |-> generation, same |-> TRUE]
      BY <2>2, <2>3 DEF Watchdogs
    <2>4. CASE idle_watchdog' = [idle_watchdog EXCEPT !.pc = "close"]
      BY <2>2, <2>4 DEF Watchdogs
    <2>5. CASE idle_watchdog' = [idle_watchdog EXCEPT !.same = FALSE]
      BY <2>2, <2>5 DEF Watchdogs
    <2> QED BY <2>1, <2>2, <2>3, <2>4, <2>5, WatchdogsStart
  <1>13. owner' \in {"idle", "waiting", "leaving", "closing", "joining", "joining helpers"}
    OBVIOUS
  <1> QED BY <1>1, <1>2, <1>3, <1>4, <1>5, <1>6, <1>7, <1>8, <1>9, <1>10, <1>11, <1>12, <1>13


(* The steps of on_open, of the batch and of its acknowledgements keep     *)
(* count of the requests of the socket; no other step touches them.        *)
LEMMA BatchesKept == IInv /\ Next => BatchOfSocket'
  <1> SUFFICES ASSUME IInv, Next PROVE BatchOfSocket'
    OBVIOUS
  <1>1. /\ sent \in 0..Subscriptions /\ announced \in 0..1 /\ running \in BOOLEAN
        /\ batch \in Batches /\ BatchOfSocket /\ ReadyMeansSubscribed
    BY DEF IInv, TypeOK
  <1>2. CASE subscribe
    BY <1>1, <1>2 DEF BatchOfSocket, subscribe, Batches
  <1>3. CASE _end_subscription_batch
    BY <1>1, <1>3 DEF BatchOfSocket, ReadyMeansSubscribed, _end_subscription_batch, Batches, sockets
  <1>4. CASE _mark_ready
    BY <1>1, <1>4, FirstAnnouncement DEF BatchOfSocket, _mark_ready, Batches
  <1>5. CASE _subscription_acknowledged
    <2>1. Max({0, batch.pending - 1}) = IF batch.pending = 0 THEN 0 ELSE batch.pending - 1
      BY <1>1, CountDown, StreamAssumption DEF Batches
    <2> QED BY <1>1, <1>5, <2>1 DEF BatchOfSocket, ReadyMeansSubscribed, _subscription_acknowledged, Batches, sockets
  <1>6. CASE on_open
    BY <1>1, <1>6 DEF BatchOfSocket, on_open, sockets
  <1>7. CASE ~(on_open \/ subscribe \/ _end_subscription_batch \/ _mark_ready \/ _subscription_acknowledged)
    <2> USE <1>1, <1>7 DEF BatchOfSocket, Batches, Next, Worker, Messages, Readiness, Idle, Owner,
        create_websocket_app, stop_event_is_set, run_forever, connect_fails, run_ends, reconnect,
        on_close, open_rsp_raises, on_message, socket_closes, on_message_raises,
        readiness_look, readiness_verdict, readiness_close, idle_look,
        idle_verdict, idle_close, restart_timer, helper_ends,
        start, start_again, start_refused, wait_ends, start_returns, start_raises, stop,
        stop_closes, join_worker, join_helpers, join_times_out, Raises,
        stream, sockets, helpers, owning
    <2>1. worker' \in {"ended", "loop", "created", "entering", "connecting"} => sent' = 0
      OBVIOUS
    <2>2. worker' \in {"ended", "loop", "created", "entering", "connecting", "opening", "marking"}
          => announced' = 0
      OBVIOUS
    <2>3. worker' = "opening" => batch'.tracking /\ batch'.pending = sent'
      OBVIOUS
    <2>4. worker' \in {"marking", "serving"} => batch'.tracking \/ sent' = Subscriptions
      OBVIOUS
    <2>5. worker' = "marking" => ~batch'.tracking /\ batch'.pending = 0 /\ ~running'
      OBVIOUS
    <2>6. worker' = "serving" /\ announced' = 1 => batch'.pending = 0
      <3>1. worker' = "serving" => announced' = announced
        OBVIOUS
      <3>2. worker' = "serving" => worker \in {"opening", "serving"}
        OBVIOUS
      <3>3. worker' = "serving" /\ worker = "serving" => batch' = batch
        OBVIOUS
      <3> HIDE DEF Next
      <3> QED BY <3>1, <3>2, <3>3, <1>1
    <2> QED BY <2>1, <2>2, <2>3, <2>4, <2>5, <2>6
  <1> QED BY <1>2, <1>3, <1>4, <1>5, <1>6, <1>7

(* Sockets are held and running is true only while it may be: what ends    *)
(* the reign of a socket also clears the flag.                             *)
LEMMA ReadinessKept == IInv /\ Next => WorkerHasSocket' /\ ReadyMeansSubscribed'
  <1> SUFFICES ASSUME IInv, Next PROVE WorkerHasSocket' /\ ReadyMeansSubscribed'
    OBVIOUS
  <1> USE DEF Next, Worker, Messages, Readiness, Idle, Owner,
        create_websocket_app, stop_event_is_set, run_forever, connect_fails, run_ends, reconnect, on_open,
        subscribe, _end_subscription_batch, _mark_ready, on_close, open_rsp_raises,
        on_message, _subscription_acknowledged, socket_closes, on_message_raises,
        readiness_look, readiness_verdict, readiness_close, idle_look,
        idle_verdict, idle_close, restart_timer, helper_ends,
        start, start_again, start_refused, wait_ends, start_returns, start_raises, stop,
        stop_closes, join_worker, join_helpers, join_times_out, Raises,
        stream, sockets, helpers, owning, IInv, TypeOK, BatchOfSocket, ReadyMeansSubscribed
  <1>1. WorkerHasSocket'
    BY NewSocketExists, EnoughNames DEF WorkerHasSocket
  <1>2. running' => worker' \in {"serving", "closing", "marking"}
    OBVIOUS
  <1>3. running' => sent' = Subscriptions
    OBVIOUS
  <1>4. running' => batch'.pending = 0
    BY CountDown DEF Batches
  <1>5. running' => ~batch'.tracking
    BY DEF Batches
  <1>6. running' => ~readiness'.awaiting
    BY DEF Awaitings, NotAwaiting
  <1> QED BY <1>1, <1>2, <1>3, <1>4, <1>5, <1>6

(* A stop that joins its threads ends quiet, and only a start undoes that. *)
LEMMA QuietKept == IInv /\ Next => StopProceeds' /\ StoppedIsQuiet'
  <1> SUFFICES ASSUME IInv, Next PROVE StopProceeds' /\ StoppedIsQuiet'
    OBVIOUS
  <1> USE DEF Next, Worker, Messages, Readiness, Idle, Owner,
        create_websocket_app, stop_event_is_set, run_forever, connect_fails, run_ends, reconnect, on_open,
        subscribe, _end_subscription_batch, _mark_ready, on_close, open_rsp_raises,
        on_message, _subscription_acknowledged, socket_closes, on_message_raises,
        readiness_look, readiness_verdict, readiness_close, idle_look,
        idle_verdict, idle_close, restart_timer, helper_ends,
        start, start_again, start_refused, wait_ends, start_returns, start_raises, stop,
        stop_closes, join_worker, join_helpers, join_times_out, Raises,
        stream, sockets, helpers, owning, IInv, TypeOK, StopProceeds, StoppedIsQuiet
  <1>1. owner' = "joining helpers" => worker' = "ended" /\ ws' = NoSocket
    BY ZenonT(60)
  <1>2. stopped' => owner' = "idle"
    OBVIOUS
  <1>3. stopped' => worker' = "ended" /\ ws' = NoSocket
    OBVIOUS
  <1>4. stopped' => ~running'
    BY DEF ReadyMeansSubscribed
  <1>5. stopped' => HelpersEnded'
    BY DEF HelpersEnded, Ended, Looking
  <1> QED BY <1>1, <1>2, <1>3, <1>4, <1>5

(* A step that clears the flags of an open socket has closed it, or leaves *)
(* a thread that will.                                                     *)
LEMMA ForgottenKept == IInv /\ Next => NotForgotten'
  <1> SUFFICES ASSUME IInv, Next PROVE NotForgotten'
    OBVIOUS
  <1> USE DEF Worker, Messages, Readiness, Idle, Owner,
        create_websocket_app, stop_event_is_set, run_forever, connect_fails, run_ends, reconnect, on_open,
        subscribe, _end_subscription_batch, _mark_ready, on_close, open_rsp_raises,
        on_message, _subscription_acknowledged, socket_closes, on_message_raises,
        readiness_look, readiness_verdict, readiness_close, idle_look,
        idle_verdict, idle_close, restart_timer, helper_ends,
        start, start_again, start_refused, wait_ends, start_returns, start_raises, stop,
        stop_closes, join_worker, join_helpers, join_times_out, Raises,
        stream, sockets, helpers, owning, IInv, TypeOK, NotForgotten, WorkerHasSocket, StopProceeds
  <1>1. CASE Worker
    <2>1. CASE on_open
      BY <2>1
    <2>2. CASE _mark_ready
      BY <2>2
    <2>3. CASE \E fatal \in BOOLEAN : open_rsp_raises(fatal)
      BY <2>3, CloseEffects DEF InForever
    <2>4. CASE subscribe \/ _end_subscription_batch
      BY <2>4
    <2>5. CASE create_websocket_app \/ stop_event_is_set \/ run_forever \/ connect_fails \/ run_ends \/ reconnect \/ on_close
      BY <2>5
    <2> QED BY <1>1, <2>1, <2>2, <2>3, <2>4, <2>5
  <1>2. CASE Messages
    <2>1. CASE \E fatal \in BOOLEAN : on_message_raises(fatal)
      BY <2>1, CloseEffects DEF InForever
    <2>2. CASE on_message \/ _subscription_acknowledged \/ socket_closes
      BY <2>2 DEF Watchdogs
    <2> QED BY <1>2, <2>1, <2>2
  <1>3. CASE Readiness
    BY <1>3, CloseEffects, ZenonT(60)
      DEF Awaitings, NotAwaiting, InForever, Watchdogs, StillAwaited, Looking, Ended
  <1>4. CASE Idle
    BY <1>4, CloseEffects, ZenonT(60)
      DEF Awaitings, NotAwaiting, InForever, Watchdogs, StillSilent, Looking, Ended
  <1>5. CASE Owner
    BY <1>5, CloseEffects DEF Awaitings, NotAwaiting, InForever, Watchdogs, Looking, Ended
  <1>6. CASE restart_timer \/ helper_ends
    BY <1>6, CloseEffects DEF Awaitings, NotAwaiting, InForever, Watchdogs, Looking, Ended
  <1>7. Worker \/ Messages \/ Readiness \/ Idle \/ restart_timer \/ helper_ends \/ Owner
    BY DEF Next
  <1> HIDE DEF Worker, Messages, Readiness, Idle, Owner, restart_timer, helper_ends
  <1> QED BY <1>1, <1>2, <1>3, <1>4, <1>5, <1>6, <1>7
(* The invariant holds from the constructor on. *)
LEMMA InvHolds == Spec => []IInv
  <1>1. Init => IInv
    <2> SUFFICES ASSUME Init PROVE IInv
      OBVIOUS
    <2>1. TypeOK
      <3>1. 0 \in 0..Subscriptions
        BY StreamAssumption
      <3>2. readiness \in Awaitings
        BY DEF Init, Awaitings, SocketNames
      <3>3. batch \in Batches
        BY <3>1 DEF Init, Batches
      <3>4. readiness_watchdog \in Watchdogs /\ idle_watchdog \in Watchdogs
        BY WatchdogsStart DEF Init
      <3>5. /\ worker = "ended" /\ asked = "no" /\ owner = "idle"
            /\ running \in BOOLEAN /\ stop_event \in BOOLEAN
        BY DEF Init
      <3>6. ws \in SocketNames /\ generation \in SocketNames
        BY DEF Init, SocketNames
      <3>7. sent \in 0..Subscriptions /\ announced \in 0..1
        BY <3>1 DEF Init
      <3> HIDE DEF Init
      <3> QED BY <3>2, <3>3, <3>4, <3>5, <3>6, <3>7 DEF TypeOK
    <2>2. BatchOfSocket /\ WorkerHasSocket /\ ReadyMeansSubscribed /\ NotForgotten
      BY DEF Init, BatchOfSocket, WorkerHasSocket, ReadyMeansSubscribed, NotForgotten
    <2>3. StopProceeds /\ StoppedIsQuiet
      BY DEF Init, StopProceeds, StoppedIsQuiet
    <2> QED BY <2>1, <2>2, <2>3 DEF IInv
  <1>2. IInv /\ [Next]_vars => IInv'
    <2> SUFFICES ASSUME IInv, [Next]_vars PROVE IInv'
      OBVIOUS
    <2>1. CASE UNCHANGED vars
      <3> USE <2>1 DEF vars, stream, sockets, helpers, owning, IInv
      <3>1. TypeOK'
        BY DEF TypeOK
      <3>2. BatchOfSocket'
        BY DEF BatchOfSocket
      <3>3. WorkerHasSocket' /\ ReadyMeansSubscribed'
        BY DEF WorkerHasSocket, ReadyMeansSubscribed
      <3>4. NotForgotten'
        BY DEF NotForgotten
      <3>5. StopProceeds' /\ StoppedIsQuiet'
        BY DEF StopProceeds, StoppedIsQuiet, HelpersEnded
      <3> QED BY <3>1, <3>2, <3>3, <3>4, <3>5
    <2>2. CASE Next
      BY <2>2, TypesKept, BatchesKept, ReadinessKept, ForgottenKept, QuietKept DEF IInv
    <2> QED BY <2>1, <2>2
  <1> QED BY <1>1, <1>2, PTL DEF Spec

-----------------------------------------------------------------------------
(* A stream that says it is running has an open socket with every request  *)
(* of its batch acknowledged (_subscription_acknowledged, on_close), says  *)
(* so once for each socket (_mark_ready), and no open socket is forgotten  *)
(* by a watchdog, a callback that raises or a stop.                        *)
THEOREM StreamReadinessTrue == Spec => []ReadinessIsTrue
  <1>1. IInv => AnnouncedOnce
    <2>1. IInv => announced \in 0..1
      BY DEF IInv, TypeOK
    <2> QED BY <2>1 DEF AnnouncedOnce
  <1>2. IInv => NoForgottenSocket
    BY DEF IInv, NotForgotten, NoForgottenSocket
  <1>3. IInv => ReadinessIsTrue
    BY <1>1, <1>2 DEF IInv, ReadinessIsTrue
  <1> QED BY <1>3, InvHolds, PTL

(* When stop() has returned, the worker and the helpers have ended, no     *)
(* socket is held, and this stays so until the next start().               *)
THEOREM StoppedStreamQuiet == Spec => []StoppedIsQuiet
  BY InvHolds, PTL DEF IInv
=============================================================================
