--------------------------- MODULE WebSocketManager ---------------------------
(***************************************************************************)
(* websocket_manager.py: the pool of websocket connections of one exchange *)
(* (WebSocketManager) and the connections in it (WebSocketConnection),     *)
(* each with a task that reads its socket and reconnects when it is lost.  *)
(*                                                                         *)
(* Everything runs in one event loop, so a step is what runs from one      *)
(* await to the next.  connect() starts a new reading task, also when it   *)
(* is the old one that reconnects: the old task then restores the          *)
(* subscriptions while the new one already reads, and only the new one is  *)
(* known as _processing_task.  A reading task that finds no socket asks    *)
(* again without awaiting anything, and the event loop runs nothing else   *)
(* from then on (spinning).                                                *)
(*                                                                         *)
(* Message contents, the statistics and the monitor tasks, which only ping *)
(* and count, are left out.  The subscriptions are on one topic.           *)
(***************************************************************************)
EXTENDS Integers, Sequences, FiniteSets, TLC

CONSTANTS
    Clients,            \* tasks that use the manager
    NoClient,           \* not one of them: the lock is free
    SubIds,             \* subscription ids: a topic, a symbol and a second
    Conns,              \* bound: the connection objects there may ever be
    max_connections,
    BusyAt,             \* subscriptions at which a connection is passed over (50)
    limit,              \* subscription_limits[topic]
    max_reconnect_attempts,
    AsyncCallbacks,     \* do the callbacks of subscriptions await something?
    MaxSockets,         \* bound: sockets ever opened; each starts one task
    MaxStops            \* bound: calls of close_all

(* The lock is free while no client holds it, and a manager may open at    *)
(* least one connection.                                                   *)
ASSUME NoClientIsNone == NoClient \notin Clients
ASSUME ConnectionsAllowed == max_connections \in Nat \ {0}

VARIABLES
    websocket,          \* _websocket of a connection, 0 for None
    connected, running, \* _connected, _running
    subs,               \* the keys of _subscriptions
    count,              \* _subscription_count of the topic
    attempts,           \* _reconnect_attempts
    processing_task,    \* _processing_task, 0 for None
    task,               \* the reading tasks, numbered as connect made them
    open,               \* sockets neither side has closed
    sent,               \* what each socket has been asked to stream
    pool,               \* _pools[exchange]
    round_robin,        \* _round_robin[exchange], modulo max_connections
    lock,               \* who holds _pool_locks[exchange]
    client,             \* where each client is
    spinning,           \* a task loops without an await
    stops               \* counter for the bound

connection == <<websocket, connected, running, subs, count, attempts, processing_task>>
network == <<open, sent>>
manager == <<pool, round_robin, lock>>
vars == <<connection, task, network, manager, client, spinning, stops>>

Tasks == DOMAIN task
Sockets == DOMAIN sent

(* ids holds the subscription a client is busy with; sock its socket.      *)
idle == [pc |-> "idle", conn |-> 0, ids |-> {}, sock |-> 0]

Init ==
    /\ websocket = [c \in Conns |-> 0]
    /\ connected = [c \in Conns |-> FALSE] /\ running = [c \in Conns |-> FALSE]
    /\ subs = [c \in Conns |-> {}] /\ count = [c \in Conns |-> 0]
    /\ attempts = [c \in Conns |-> 0]
    /\ processing_task = [c \in Conns |-> 0]
    /\ task = << >>
    /\ open = {} /\ sent = << >>
    /\ pool = << >> /\ round_robin = 0 /\ lock = NoClient
    /\ client = [k \in Clients |-> idle]
    /\ spinning = FALSE /\ stops = 0

-----------------------------------------------------------------------------
(*                          WebSocketConnection                            *)

(* websockets.connect has answered: what connect does after its await.     *)
(* The task that called connect, if one did, goes on as the caller says.   *)
connected_as(c, tasks) ==
    LET s == Len(sent) + 1
        t == Len(task) + 1
    IN  /\ s <= MaxSockets
        /\ websocket' = [websocket EXCEPT ![c] = s]
        /\ connected' = [connected EXCEPT ![c] = TRUE]
        /\ running' = [running EXCEPT ![c] = TRUE]
        /\ attempts' = [attempts EXCEPT ![c] = 0]
        /\ processing_task' = [processing_task EXCEPT ![c] = t]
        /\ task' = Append(tasks, [conn |-> c, pc |-> "start", sock |-> 0,
                                  todo |-> {}, size |-> 0])
        /\ open' = open \cup {s}
        /\ sent' = Append(sent, {})

(* A socket that is closed streams nothing any more of what it was asked.  *)
stop_streaming(s, asked) ==
    /\ open' = open \ {s}
    /\ sent' = IF s \in DOMAIN asked THEN [asked EXCEPT ![s] = {}] ELSE asked

close_socket(s) == stop_streaming(s, sent)

(* The socket is lost: connected and websocket go together (349-353 and    *)
(* 377-378), before the close is awaited.                                  *)
lose_socket(c, asked) ==
    /\ connected' = [connected EXCEPT ![c] = FALSE]
    /\ websocket' = [websocket EXCEPT ![c] = 0]
    /\ stop_streaming(websocket[c], asked)

At(t, pc) == ~spinning /\ task[t].pc = pc

(* The task goes on at pc with these values in its local variables.        *)
Becomes(t, pc, sock, todo, size) ==
    [task EXCEPT ![t] = [conn |-> @.conn, pc |-> pc, sock |-> sock, todo |-> todo, size |-> size]]

(* What the task held in its local variables before is no longer needed.   *)
Goto(t, pc) == Becomes(t, pc, 0, {}, 0)

(* The head of the loop of _process_messages.  A second recv on one socket *)
(* is a RuntimeError of the websockets library, which ends the task.       *)
_process_messages(t) ==
    LET c == task[t].conn
    IN  /\ At(t, "start")
        /\ IF ~running[c] THEN task' = Goto(t, "done") /\ UNCHANGED spinning
           ELSE IF websocket[c] = 0 THEN spinning' = TRUE /\ UNCHANGED task
           ELSE IF \E u \in Tasks : task[u].pc = "recv" /\ task[u].sock = websocket[c]
                THEN task' = Goto(t, "died") /\ UNCHANGED spinning
           ELSE /\ task' = Becomes(t, "recv", websocket[c], {}, 0)
                /\ UNCHANGED spinning
        /\ UNCHANGED <<connection, network, manager, client, stops>>

(* recv returns a data message of the topic: its callbacks run.  Those     *)
(* that await leave _handle_data_message in the middle of its loop over    *)
(* the dictionary of subscriptions.                                        *)
_handle_data_message(t) ==
    LET c == task[t].conn
    IN  /\ At(t, "recv") /\ task[t].sock \in open
        /\ AsyncCallbacks /\ subs[c] # {}
        /\ task' = Becomes(t, "callback", 0, {}, Cardinality(subs[c]))
        /\ UNCHANGED <<connection, network, manager, client, spinning, stops>>

(* The callback is through.  A dictionary that has another size by now     *)
(* raises RuntimeError, which no handler of _process_messages names: the   *)
(* task ends, and the connection keeps its socket and its flags.           *)
callback_returns(t) ==
    /\ At(t, "callback")
    /\ task' = Goto(t, IF Cardinality(subs[task[t].conn]) = task[t].size
                       THEN "start" ELSE "died")
    /\ UNCHANGED <<connection, network, manager, client, spinning, stops>>

(* recv raises ConnectionClosed or an OSError: _handle_disconnect starts.  *)
_handle_disconnect(t) ==
    LET c == task[t].conn
    IN  /\ At(t, "recv") /\ task[t].sock \notin open
        /\ lose_socket(c, sent)
        /\ task' = Goto(t, "closing")
        /\ UNCHANGED <<running, subs, count, attempts, processing_task,
                       manager, client, spinning, stops>>

(* Faulty variant: giving up leaves the connection running. *)
reconnect_test_Forgetful(t) ==
    LET c == task[t].conn
    IN  /\ At(t, "closing")
        /\ IF running[c] /\ attempts[c] < max_reconnect_attempts
           THEN /\ attempts' = [attempts EXCEPT ![c] = @ + 1]
                /\ task' = Goto(t, "sleep")
           ELSE /\ task' = Goto(t, "done")
                /\ UNCHANGED attempts
        /\ UNCHANGED <<websocket, connected, running, subs, count, processing_task,
                       network, manager, client, spinning, stops>>

(* The test of the reconnect loop, after the close: another attempt, or    *)
(* none.                                                                   *)
reconnect_test(t) ==
    LET c == task[t].conn
    IN  /\ At(t, "closing")
        /\ IF running[c] /\ attempts[c] < max_reconnect_attempts
           THEN /\ attempts' = [attempts EXCEPT ![c] = @ + 1]
                /\ task' = Goto(t, "sleep")
                /\ UNCHANGED running
           ELSE /\ running' = [running EXCEPT ![c] = FALSE]
                /\ task' = Goto(t, "done")
                /\ UNCHANGED attempts
        /\ UNCHANGED <<websocket, connected, subs, count, processing_task,
                       network, manager, client, spinning, stops>>

(* _restore_subscriptions sends one message after the other: the task      *)
(* awaits the send on this socket, or is through and returns.              *)
restoring(t, sock, todo) ==
    IF todo = {} THEN Goto(t, "done") ELSE Becomes(t, "restore", sock, todo, 0)

(* _send_message sends on the socket of now, and raises when there is none *)
(* or the connection is not up.                                            *)
CanSend(c) == connected[c] /\ websocket[c] # 0

(* The wait is over: connect() returns at once when some other task has    *)
(* connected meanwhile, and the subscriptions are restored; else it drops  *)
(* a socket that is still there and awaits a new one.  Whether the         *)
(* connection still runs is not asked.                                     *)
reconnect(t) ==
    LET c == task[t].conn
    IN  /\ At(t, "sleep")
        /\ \/ /\ connected[c] /\ (CanSend(c) \/ subs[c] = {})
              /\ task' = restoring(t, websocket[c], subs[c])
              /\ UNCHANGED <<websocket, connected, network>>
           \/ /\ connected[c] /\ ~CanSend(c) /\ subs[c] # {}
              /\ task' = Goto(t, "closing")
              /\ lose_socket(c, sent)
           \/ /\ ~connected[c]
              /\ task' = Goto(t, "connecting")
              /\ websocket' = [websocket EXCEPT ![c] = 0]
              /\ close_socket(websocket[c])
              /\ UNCHANGED connected
        /\ UNCHANGED <<running, subs, count, attempts, processing_task,
                       manager, client, spinning, stops>>

(* Faulty variant: the subscriptions are not restored. *)
reconnected_Bare(t) ==
    /\ At(t, "connecting")
    /\ connected_as(task[t].conn, Goto(t, "done"))
    /\ UNCHANGED <<subs, count, manager, client, spinning, stops>>

reconnected(t) ==
    LET c == task[t].conn
    IN  /\ At(t, "connecting")
        /\ connected_as(c, restoring(t, Len(sent) + 1, subs[c]))
        /\ UNCHANGED <<subs, count, manager, client, spinning, stops>>

(* connect raises, or the send that is awaited does, as its socket is      *)
(* closed: WebSocketError.  The socket of now is dropped, be it another.   *)
reconnect_fails(t) ==
    LET c == task[t].conn
    IN  /\ \/ At(t, "connecting")
           \/ At(t, "restore") /\ task[t].sock \notin open
        /\ lose_socket(c, sent)
        /\ task' = Goto(t, "closing")
        /\ UNCHANGED <<running, subs, count, attempts, processing_task,
                       manager, client, spinning, stops>>

(* A message is out.  The next of the list as it was goes to the socket of *)
(* now; when there is none, or connected has been cleared, also with the   *)
(* socket still open, that raises, and the socket is dropped.              *)
_restore_subscriptions(t) ==
    LET c == task[t].conn
        s == task[t].sock
    IN  /\ At(t, "restore") /\ s \in open
        /\ \E i \in task[t].todo :
             LET todo == task[t].todo \ {i}
                 asked == [sent EXCEPT ![s] = @ \cup {i}]
             IN  \/ /\ CanSend(c) \/ todo = {}
                    /\ task' = restoring(t, websocket[c], todo)
                    /\ sent' = asked
                    /\ UNCHANGED <<open, websocket, connected>>
                 \/ /\ ~CanSend(c) /\ todo # {}
                    /\ task' = Goto(t, "closing")
                    /\ lose_socket(c, asked)
        /\ UNCHANGED <<running, subs, count, attempts, processing_task,
                       manager, client, spinning, stops>>

(* The exchange, or the network, closes a socket. *)
socket_lost ==
    /\ ~spinning
    /\ \E s \in open : close_socket(s)
    /\ UNCHANGED <<connection, task, manager, client, spinning, stops>>

-----------------------------------------------------------------------------
(*                            WebSocketManager                             *)

ClientAt(k, pc) == ~spinning /\ client[k].pc = pc

(* Connection objects that have not been opened yet. *)
Fresh == {c \in Conns : \A t \in Tasks : task[t].conn # c}

Available(c) == connected[c] /\ Cardinality(subs[c]) < BusyAt

(* WebSocketConnection.subscribe up to its await: beyond the limit it      *)
(* raises; otherwise the subscription is registered, and stays so when the *)
(* message cannot be sent.                                                 *)
subscribe_on(k, c, id) ==
    IF count[c] >= limit
    THEN /\ client' = [client EXCEPT ![k] = idle]
         /\ UNCHANGED <<subs, count>>
    ELSE /\ subs' = [subs EXCEPT ![c] = @ \cup {id}]
         /\ count' = [count EXCEPT ![c] = @ + 1]
         /\ client' = [client EXCEPT ![k] =
              IF connected'[c] /\ websocket'[c] # 0
              THEN [pc |-> "send", conn |-> c, ids |-> {id}, sock |-> websocket'[c]]
              ELSE idle]

(* A new connection object: which one is no matter. *)
NewOf(objects) == CHOOSE c \in objects : TRUE

(* The first connection of the pool that satisfies a test, by position.    *)
Usable == {n \in DOMAIN pool : Available(pool[n])}
Holding(id) == {n \in DOMAIN pool : id \in subs[pool[n]]}
IsFirst(n, positions) == n \in positions /\ \A m \in positions : n <= m

(* When every connection is busy they are taken in turn, whatever their    *)
(* state.                                                                  *)
next_in_turn(k, id) ==
    /\ subscribe_on(k, pool[round_robin + 1], id)
    /\ round_robin' = (round_robin + 1) % max_connections
    /\ UNCHANGED lock

(* Faulty variant: the lock is let go while the connection is opened. *)
get_connection_Unlocked(k, id) ==
    LET new == {c \in Fresh : \A j \in Clients : client[j].conn # c}
    IN  \/ \E n \in DOMAIN pool :
             /\ IsFirst(n, Usable)
             /\ subscribe_on(k, pool[n], id)
             /\ UNCHANGED <<round_robin, lock>>
        \/ /\ Usable = {} /\ Len(pool) < max_connections /\ new # {}
           /\ client' = [client EXCEPT ![k] =
                [pc |-> "connect", conn |-> NewOf(new), ids |-> {id}, sock |-> 0]]
           /\ UNCHANGED <<subs, count, round_robin, lock>>
        \/ Usable = {} /\ Len(pool) >= max_connections /\ next_in_turn(k, id)

(* get_connection, the lock just taken: the first connection that is up    *)
(* and not busy, else a new one while there may be more, else the next in  *)
(* turn.                                                                   *)
get_connection(k, id) ==
    \/ \E n \in DOMAIN pool :
         /\ IsFirst(n, Usable)
         /\ subscribe_on(k, pool[n], id)
         /\ UNCHANGED <<round_robin, lock>>
    \/ /\ Usable = {} /\ Len(pool) < max_connections /\ Fresh # {}
       /\ lock' = k
       /\ client' = [client EXCEPT ![k] =
            [pc |-> "connect", conn |-> NewOf(Fresh), ids |-> {id}, sock |-> 0]]
       /\ UNCHANGED <<subs, count, round_robin>>
    \/ Usable = {} /\ Len(pool) >= max_connections /\ next_in_turn(k, id)

(* subscribe: whoever finds the lock taken waits for it. *)
subscribe(k) ==
    /\ ClientAt(k, "idle") /\ lock = NoClient
    /\ UNCHANGED <<websocket, connected>>
    /\ \E id \in SubIds : get_connection(k, id)
    /\ UNCHANGED <<running, attempts, processing_task, task, network, pool,
                   spinning, stops>>

(* The new connection is up: it joins the pool, the lock is let go, and    *)
(* subscribe goes on without an await.                                     *)
connection_made(k) ==
    LET c == client[k].conn
    IN  /\ ClientAt(k, "connect")
        /\ connected_as(c, task)
        /\ pool' = Append(pool, c)
        /\ lock' = NoClient
        /\ \E id \in client[k].ids : subscribe_on(k, c, id)
        /\ UNCHANGED <<round_robin, spinning, stops>>

(* WebSocketError: the new object is dropped. *)
connection_refused(k) ==
    /\ ClientAt(k, "connect")
    /\ lock' = NoClient
    /\ client' = [client EXCEPT ![k] = idle]
    /\ UNCHANGED <<connection, task, network, pool, round_robin, spinning, stops>>

(* The message is out, or the send raises; then the event is published.    *)
subscription_sent(k) ==
    LET s == client[k].sock
    IN  /\ ClientAt(k, "send")
        /\ sent' = IF s \in open THEN [sent EXCEPT ![s] = @ \cup client[k].ids] ELSE sent
        /\ client' = [client EXCEPT ![k] = idle]
        /\ UNCHANGED <<connection, task, open, manager, spinning, stops>>

(* unsubscribe: the first connection that has the id gives it up, then the *)
(* message is sent while the lock is held.                                 *)
unsubscribe(k) ==
    /\ ClientAt(k, "idle") /\ lock = NoClient
    /\ \E id \in SubIds, n \in DOMAIN pool :
         LET c == pool[n]
         IN  /\ IsFirst(n, Holding(id))
             /\ subs' = [subs EXCEPT ![c] = @ \ {id}]
             /\ count' = [count EXCEPT ![c] = @ - 1]
             /\ IF connected[c] /\ websocket[c] # 0
                THEN /\ lock' = k
                     /\ client' = [client EXCEPT ![k] =
                          [pc |-> "unsend", conn |-> c, ids |-> {id}, sock |-> websocket[c]]]
                ELSE UNCHANGED <<lock, client>>
    /\ UNCHANGED <<websocket, connected, running, attempts, processing_task, task,
                   network, pool, round_robin, spinning, stops>>

unsubscription_sent(k) ==
    LET s == client[k].sock
    IN  /\ ClientAt(k, "unsend")
        /\ sent' = IF s \in open THEN [sent EXCEPT ![s] = @ \ client[k].ids] ELSE sent
        /\ lock' = NoClient
        /\ client' = [client EXCEPT ![k] = idle]
        /\ UNCHANGED <<connection, task, open, pool, round_robin, spinning, stops>>

(***************************************************************************)
(* close_all, which takes no lock: the connections of the pool, in turn,   *)
(* by position, are disconnected; then the pool is emptied.  Only the task *)
(* known as _processing_task is cancelled; one that has died re-raises its *)
(* error from the await, and close_all ends there.                         *)
(***************************************************************************)
close_all(k) ==
    /\ ClientAt(k, "idle") /\ stops < MaxStops
    /\ stops' = stops + 1
    /\ client' = [client EXCEPT ![k] = [idle EXCEPT !.pc = "closing"]]
    /\ UNCHANGED <<connection, task, network, manager, spinning>>

(* sock counts the connections that are through.  A task that has ended    *)
(* needs no waiting for, one that has died raises what it died of.         *)
disconnect(k) ==
    LET c == pool[client[k].sock + 1]
        t == processing_task[c]
    IN  /\ ClientAt(k, "closing") /\ client[k].sock < Len(pool)
        /\ running' = [running EXCEPT ![c] = FALSE]
        /\ processing_task' = [processing_task EXCEPT ![c] = 0]
        /\ task' = IF t = 0 \/ task[t].pc = "died" THEN task ELSE Goto(t, "done")
        /\ client' = [client EXCEPT ![k] =
             IF t # 0 /\ task[t].pc = "died" THEN idle
             ELSE [pc |-> "cancelled", conn |-> c, ids |-> {}, sock |-> client[k].sock]]
        /\ UNCHANGED <<websocket, connected, subs, count, attempts, network, manager,
                       spinning, stops>>

(* The task is gone; the socket is dropped before its close is awaited.    *)
cancelled(k) ==
    LET c == client[k].conn
    IN  /\ ClientAt(k, "cancelled")
        /\ websocket' = [websocket EXCEPT ![c] = 0]
        /\ close_socket(websocket[c])
        /\ client' = [client EXCEPT ![k] = [@ EXCEPT !.pc = "closed"]]
        /\ UNCHANGED <<connected, running, subs, count, attempts, processing_task,
                       task, manager, spinning, stops>>

(* The close has been awaited. *)
disconnected(k) ==
    /\ ClientAt(k, "closed")
    /\ connected' = [connected EXCEPT ![client[k].conn] = FALSE]
    /\ client' = [client EXCEPT ![k] =
         [pc |-> "closing", conn |-> 0, ids |-> {}, sock |-> client[k].sock + 1]]
    /\ UNCHANGED <<websocket, running, subs, count, attempts, processing_task,
                   task, network, manager, spinning, stops>>

pool_cleared(k) ==
    /\ ClientAt(k, "closing") /\ client[k].sock >= Len(pool)
    /\ pool' = << >> /\ round_robin' = 0
    /\ client' = [client EXCEPT ![k] = idle]
    /\ UNCHANGED <<connection, task, network, lock, spinning, stops>>

Reader(t) ==
    \/ _process_messages(t) \/ _handle_data_message(t) \/ callback_returns(t)
    \/ _handle_disconnect(t) \/ reconnect_test(t) \/ reconnect(t)
    \/ reconnected(t) \/ reconnect_fails(t) \/ _restore_subscriptions(t)

Client(k) ==
    \/ subscribe(k) \/ connection_made(k) \/ connection_refused(k) \/ subscription_sent(k)
    \/ unsubscribe(k) \/ unsubscription_sent(k)
    \/ close_all(k) \/ disconnect(k) \/ cancelled(k) \/ disconnected(k) \/ pool_cleared(k)

Next ==
    \/ \E t \in Tasks : Reader(t)
    \/ \E k \in Clients : Client(k)
    \/ socket_lost

Spec == Init /\ [][Next]_vars

-----------------------------------------------------------------------------
(* The pool never holds more than max_connections connections, though the  *)
(* connection is opened, awaited, between the test and the append: the     *)
(* lock of the exchange spans the two (get_connection).                    *)
PoolBounded == Len(pool) <= max_connections

(* Nothing is left of the subscriptions that a connection has and its      *)
(* socket has not been asked for, once whoever owes the message is through *)
(* (subscribe, _restore_subscriptions and both of two reconnecting tasks). *)
Owed(c) ==
    UNION ({task[t].todo : t \in {u \in Tasks : task[u].conn = c /\ task[u].pc = "restore"}}
           \cup {client[k].ids : k \in {j \in Clients : client[j].conn = c
                                                      /\ client[j].pc = "send"}})

SubscriptionsAreSent ==
    \A c \in Conns :
        connected[c] /\ websocket[c] \in open =>
            subs[c] \ sent[websocket[c]] \subseteq Owed(c)

(* A connection that is said to run or to be connected has a task that     *)
(* will read its socket, or is busy replacing it: when several tasks       *)
(* reconnect at once, when they give up, when close_all cancels one of     *)
(* them.  The exceptions are a reading task that died of an error it does  *)
(* not catch, a disconnect that is under way, and a connection that was    *)
(* made while another task waited to try: with the attempts used up since, *)
(* a third gives up, and a connection that stays connected no longer runs. *)
Attended(c) ==
    \/ \E t \in Tasks : task[t].conn = c /\ task[t].pc # "done"
    \/ \E k \in Clients : client[k].conn = c /\ client[k].pc \in {"cancelled", "closed"}

ConnectionsAreAttended ==
    \A c \in Conns :
        running[c] \/ (connected[c] /\ attempts[c] < max_reconnect_attempts) => Attended(c)

(* What docs/api/websocket_manager.md promises of a lost connection, that  *)
(* a reconnect is attempted, needs an event loop that runs other tasks.    *)
NeverSpins == ~spinning

(* Clients and subscriptions are interchangeable. *)
Symmetry == Permutations(Clients) \cup Permutations(SubIds)
=============================================================================
