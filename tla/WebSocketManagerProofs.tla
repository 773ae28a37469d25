------------------------ MODULE WebSocketManagerProofs ------------------------
(***************************************************************************)
(* Proofs about WebSocketManager, for any clients, subscriptions,          *)
(* connections and bounds: the pool stays within its limit, a socket has   *)
(* been asked for every subscription of its connection, and a connection   *)
(* that runs has a task that attends to it.                                *)
(***************************************************************************)
EXTENDS WebSocketManager, SequenceTheorems, TLAPS

-----------------------------------------------------------------------------
(* Types.  The size a callback remembers is the size of a set of ids.      *)
TaskPcs == {"start", "recv", "callback", "closing", "sleep", "connecting",
            "restore", "done", "died"}

ClientPcs == {"idle", "connect", "send", "unsend", "closing", "cancelled", "closed"}

Sizes == {0} \cup {Cardinality(ids) : ids \in SUBSET SubIds}

Task == [conn : Conns, pc : TaskPcs, sock : Nat, todo : SUBSET SubIds, size : Sizes]
ClientState == [pc : ClientPcs, conn : Conns \cup {0}, ids : SUBSET SubIds, sock : Nat]

TaskType == task \in Seq(Task)
ClientType == client \in [Clients -> ClientState]

ConnectionType ==
    /\ websocket \in [Conns -> Nat] /\ processing_task \in [Conns -> Nat]
    /\ connected \in [Conns -> BOOLEAN] /\ running \in [Conns -> BOOLEAN]
    /\ subs \in [Conns -> SUBSET SubIds] /\ attempts \in [Conns -> Nat]

NetworkType == open \subseteq Nat /\ sent \in Seq(SUBSET SubIds)
PoolType == pool \in Seq(Conns) /\ round_robin \in 0 .. max_connections - 1

Types == TaskType /\ ClientType /\ ConnectionType /\ NetworkType /\ PoolType

-----------------------------------------------------------------------------
(* Sockets.  They have numbers that were given out, and belong to one      *)
(* connection, also when a client still remembers one.                     *)
Busy(k) == client[k].pc \in {"send", "unsend"}

SocketsKnown ==
    /\ \A s \in open : s \in 1 .. Len(sent)
    /\ \A c \in Conns : websocket[c] <= Len(sent)
    /\ \A k \in Clients : Busy(k) => client[k].sock \in 1 .. Len(sent) /\ client[k].conn \in Conns
    /\ \A k \in Clients : client[k].pc \in {"cancelled", "closed"} => client[k].conn \in Conns

SocketsOwned ==
    /\ \A c, d \in Conns : websocket[c] = websocket[d] /\ websocket[c] # 0 => c = d
    /\ \A k \in Clients, c \in Conns :
         Busy(k) /\ websocket[c] = client[k].sock => c = client[k].conn

(* The lock is held across the two awaits, and what was true when it was   *)
(* taken still is.                                                         *)
LockHeld ==
    \A k \in Clients :
       /\ client[k].pc \in {"connect", "unsend"} => lock = k
       /\ client[k].pc = "connect" => client[k].conn \in Fresh /\ Len(pool) < max_connections
       /\ client[k].pc = "unsend" => client[k].ids \cap subs[client[k].conn] = {}

(* Only connections that have been opened are pooled or have subscriptions. *)
PoolOpened ==
    /\ \A n \in 1 .. Len(pool) : pool[n] \notin Fresh
    /\ \A c \in Fresh : subs[c] = {}
    /\ \A k \in Clients : client[k].pc = "send" => client[k].conn \notin Fresh

(* The task known as _processing_task is the latest of its connection: it  *)
(* never restores subscriptions, and while it reconnects no other task has *)
(* connected.  While the connection runs, it is there and has not ended.   *)
KnownTask ==
    \A c \in Conns :
       LET t == processing_task[c]
       IN  /\ t # 0 =>
              /\ t \in 1 .. Len(task) /\ task[t].conn = c
              /\ task[t].pc # "restore"
              /\ task[t].pc \in {"closing", "sleep", "connecting"} => ~connected[c]
           /\ running[c] => t # 0 /\ task[t].pc # "done"

(* Why a connection that is connected may run no longer. *)
StoppedBy ==
    \A c \in Conns : connected[c] /\ ~running[c] =>
       \/ ~(attempts[c] < max_reconnect_attempts)
       \/ \E t \in 1 .. Len(task) : task[t].conn = c /\ task[t].pc = "died"
       \/ \E k \in Clients : client[k].conn = c /\ client[k].pc \in {"cancelled", "closed"}

(* A subscription the socket has not been asked for is in the hands of a   *)
(* task that restores on this very socket, or of a client that sends to it. *)
Restores(t, c, i) ==
    /\ task[t].pc = "restore" /\ task[t].conn = c
    /\ task[t].sock = websocket[c] /\ i \in task[t].todo
Sends(k, c, i) ==
    /\ client[k].pc = "send" /\ client[k].conn = c
    /\ client[k].sock = websocket[c] /\ i \in client[k].ids

AskedOrOwed ==
    \A c \in Conns : connected[c] /\ websocket[c] \in open =>
       \A i \in subs[c] :
          \/ i \in sent[websocket[c]]
          \/ \E t \in 1 .. Len(task) : Restores(t, c, i)
          \/ \E k \in Clients : Sends(k, c, i)

IInv ==
    /\ Types /\ SocketsKnown /\ SocketsOwned /\ LockHeld /\ PoolOpened
    /\ PoolBounded /\ KnownTask /\ StoppedBy /\ AskedOrOwed
-----------------------------------------------------------------------------
(* What the helpers of the module do.                                      *)
LEMMA BecomesFacts ==
    ASSUME TaskType, NEW t \in 1 .. Len(task), NEW pc \in TaskPcs, NEW sock \in Nat,
           NEW todo \in SUBSET SubIds, NEW size \in Sizes
    PROVE  /\ Becomes(t, pc, sock, todo, size) \in Seq(Task)
           /\ Len(Becomes(t, pc, sock, todo, size)) = Len(task)
           /\ Becomes(t, pc, sock, todo, size)[t] =
                [conn |-> task[t].conn, pc |-> pc, sock |-> sock, todo |-> todo, size |-> size]
           /\ \A u \in 1 .. Len(task) : u # t => Becomes(t, pc, sock, todo, size)[u] = task[u]
  <1> DEFINE new == [conn |-> task[t].conn, pc |-> pc, sock |-> sock, todo |-> todo, size |-> size]
  <1>1. task[t] \in Task
    BY ElementOfSeq DEF TaskType
  <1>2. new \in Task
    BY <1>1 DEF Task
  <1>3. Becomes(t, pc, sock, todo, size) = [task EXCEPT ![t] = new]
    BY DEF Becomes
  <1> HIDE DEF new
  <1>4. QED BY <1>2, <1>3, ExceptSeq DEF TaskType, new

(* What the sockets have been asked for, and maybe more.                   *)
Asked(asked) ==
    /\ asked \in Seq(SUBSET SubIds) /\ Len(asked) = Len(sent)
    /\ \A x \in 1 .. Len(sent) : sent[x] \subseteq asked[x]

LEMMA StopFacts ==
    ASSUME NetworkType, NEW s \in Nat, NEW asked, Asked(asked), stop_streaming(s, asked)
    PROVE  /\ NetworkType' /\ Len(sent') = Len(sent)
           /\ open' = open \ {s}
           /\ \A x \in 1 .. Len(sent) : x # s => sent'[x] = asked[x]
  <1>1. DOMAIN asked = 1 .. Len(asked)
    BY LenProperties DEF Asked
  <1>2. CASE s \in DOMAIN asked
    <2>1. {} \in SUBSET SubIds
      OBVIOUS
    <2>2. sent' = [asked EXCEPT ![s] = {}] /\ open' = open \ {s}
      BY <1>2 DEF stop_streaming
    <2>3. QED BY <1>1, <1>2, <2>1, <2>2, ExceptSeq DEF NetworkType, Asked
  <1>3. CASE s \notin DOMAIN asked
    BY <1>3 DEF stop_streaming, NetworkType, Asked
  <1>4. QED BY <1>2, <1>3

LEMMA CloseFacts ==
    ASSUME NetworkType, NEW s \in Nat, close_socket(s)
    PROVE  /\ NetworkType' /\ Len(sent') = Len(sent)
           /\ open' = open \ {s}
           /\ \A x \in 1 .. Len(sent) : x # s => sent'[x] = sent[x]
  BY StopFacts DEF close_socket, Asked, NetworkType

LEMMA ConnectFacts ==
    ASSUME Types, NEW c \in Conns, NEW tasks \in Seq(Task), Len(tasks) = Len(task),
           connected_as(c, tasks)
    PROVE  LET s == Len(sent) + 1
               t == Len(task) + 1
           IN  /\ TaskType' /\ NetworkType'
               /\ websocket' \in [Conns -> Nat] /\ processing_task' \in [Conns -> Nat]
               /\ connected' \in [Conns -> BOOLEAN] /\ running' \in [Conns -> BOOLEAN]
               /\ attempts' \in [Conns -> Nat]
               /\ Len(task') = t /\ Len(sent') = s /\ open' = open \cup {s}
               /\ \A u \in 1 .. Len(task) : task'[u] = tasks[u]
               /\ task'[t].conn = c /\ task'[t].pc = "start"
               /\ \A x \in 1 .. Len(sent) : sent'[x] = sent[x]
               /\ websocket'[c] = s /\ processing_task'[c] = t
               /\ connected'[c] /\ running'[c]
               /\ \A d \in Conns : d # c =>
                     /\ websocket'[d] = websocket[d] /\ processing_task'[d] = processing_task[d]
                     /\ connected'[d] = connected[d] /\ running'[d] = running[d]
                     /\ attempts'[d] = attempts[d]
  <1> DEFINE s == Len(sent) + 1
             t == Len(task) + 1
             new == [conn |-> c, pc |-> "start", sock |-> 0, todo |-> {}, size |-> 0]
  <1>1. Len(sent) \in Nat /\ Len(task) \in Nat
    BY LenProperties DEF Types, NetworkType, TaskType
  <1>2. /\ websocket' = [websocket EXCEPT ![c] = s] /\ connected' = [connected EXCEPT ![c] = TRUE]
        /\ running' = [running EXCEPT ![c] = TRUE] /\ attempts' = [attempts EXCEPT ![c] = 0]
        /\ processing_task' = [processing_task EXCEPT ![c] = t]
        /\ task' = Append(tasks, new) /\ open' = open \cup {s} /\ sent' = Append(sent, {})
    BY DEF connected_as
  <1>3. new \in Task /\ new.conn = c /\ new.pc = "start"
    BY DEF Task, TaskPcs, Sizes
  <1> HIDE DEF new
  <1>4. /\ task' \in Seq(Task) /\ Len(task') = t /\ task'[t] = new
        /\ \A u \in 1 .. Len(task) : task'[u] = tasks[u]
    BY <1>1, <1>2, <1>3, AppendProperties
  <1>5. {} \in SUBSET SubIds
    OBVIOUS
  <1>6. /\ sent' \in Seq(SUBSET SubIds) /\ Len(sent') = s
        /\ \A x \in 1 .. Len(sent) : sent'[x] = sent[x]
    BY <1>1, <1>2, <1>5, AppendProperties DEF Types, NetworkType
  <1>7. /\ websocket' \in [Conns -> Nat] /\ processing_task' \in [Conns -> Nat]
        /\ websocket'[c] = s /\ processing_task'[c] = t
        /\ \A d \in Conns : d # c =>
              websocket'[d] = websocket[d] /\ processing_task'[d] = processing_task[d]
    BY <1>1, <1>2 DEF Types, ConnectionType
  <1>8. /\ connected' \in [Conns -> BOOLEAN] /\ running' \in [Conns -> BOOLEAN]
        /\ connected'[c] /\ running'[c]
        /\ \A d \in Conns : d # c =>
              connected'[d] = connected[d] /\ running'[d] = running[d]
    BY <1>2, Zenon DEF Types, ConnectionType
  <1>9. /\ attempts' \in [Conns -> Nat]
        /\ \A d \in Conns : d # c => attempts'[d] = attempts[d]
    BY <1>2 DEF Types, ConnectionType
  <1>10. open' = open \cup {s} /\ open' \subseteq Nat
    <2>1. s \in Nat /\ open \subseteq Nat
      BY <1>1 DEF Types, NetworkType
    <2>2. QED BY <1>2, <2>1, Zenon
  <1> HIDE DEF s, t
  <1>11. QED
    BY <1>3, <1>4, <1>6, <1>7, <1>8, <1>9, <1>10, Zenon DEF TaskType, NetworkType, s, t

LEMMA FreshFacts ==
    ASSUME TaskType, TaskType', Len(task) <= Len(task'),
           \A u \in 1 .. Len(task) : task'[u].conn = task[u].conn
    PROVE  /\ Fresh' \subseteq Fresh
           /\ Len(task) = Len(task') => Fresh' = Fresh
           /\ \A c \in Fresh, u \in 1 .. Len(task) : task[u].conn # c
           /\ \A c \in Conns \ Fresh : \E u \in 1 .. Len(task) : task[u].conn = c
  <1>1. DOMAIN task = 1 .. Len(task) /\ DOMAIN task' = 1 .. Len(task')
        /\ Len(task) \in Nat /\ Len(task') \in Nat
    BY LenProperties DEF TaskType
  <1>2. Fresh = {c \in Conns : \A u \in 1 .. Len(task) : task[u].conn # c}
    BY <1>1, Zenon DEF Fresh, Tasks
  <1>3. Fresh' = {c \in Conns : \A u \in 1 .. Len(task') : task'[u].conn # c}
    BY <1>1, Zenon DEF Fresh, Tasks
  <1>4. Fresh' \subseteq Fresh
    <2>1. \A u \in 1 .. Len(task) : u \in 1 .. Len(task')
      BY <1>1
    <2>2. QED BY <1>2, <1>3, <2>1, Zenon
  <1>5. ASSUME Len(task) = Len(task') PROVE Fresh' = Fresh
    BY <1>2, <1>3, <1>5, Zenon
  <1>6. QED BY <1>2, <1>4, <1>5, Zenon

-----------------------------------------------------------------------------
(* The steps of a reading task, by what they do.  The task alone moves:    *)
OnlyTask(t) ==
    /\ TaskType' /\ Len(task') = Len(task)
    /\ task'[t].conn = task[t].conn
    /\ \A u \in 1 .. Len(task) : u # t => task'[u] = task[u]

(* it reads, is in a callback, ends because the connection does not run;   *)
Reads(t) ==
    /\ OnlyTask(t)
    /\ task[t].pc \in {"start", "recv", "callback"}
    /\ \/ task'[t].pc \in {"start", "recv", "callback", "died"}
       \/ task'[t].pc = "done" /\ ~running[task[t].conn]
    /\ UNCHANGED <<connection, network, manager, client>>

(* it tries again, or gives up;                                            *)
Tries(t) ==
    LET c == task[t].conn
    IN  /\ OnlyTask(t) /\ task[t].pc = "closing"
        /\ \/ /\ running[c] /\ attempts[c] < max_reconnect_attempts
              /\ task'[t].pc = "sleep"
              /\ attempts' = [attempts EXCEPT ![c] = @ + 1] /\ running' = running
           \/ /\ ~(running[c] /\ attempts[c] < max_reconnect_attempts)
              /\ task'[t].pc = "done"
              /\ running' = [running EXCEPT ![c] = FALSE] /\ attempts' = attempts
        /\ UNCHANGED <<websocket, connected, subs, processing_task, network, manager, client>>

(* it finds that another task has connected, or restores a subscription;   *)
Goes(t, todo) ==
    IF todo = {} THEN task'[t].pc = "done"
    ELSE /\ task'[t].pc = "restore" /\ task'[t].todo = todo
         /\ task'[t].sock = websocket[task[t].conn]

FindsConnected(t) ==
    LET c == task[t].conn
    IN  /\ OnlyTask(t) /\ task[t].pc = "sleep" /\ Goes(t, subs[c])
        /\ connected[c]
        /\ UNCHANGED <<connection, network, manager, client>>

RestoresOne(t) ==
    LET s == task[t].sock
    IN  /\ OnlyTask(t) /\ task[t].pc = "restore"
        /\ \E i \in task[t].todo :
                 /\ s \in open /\ sent' = [sent EXCEPT ![s] = @ \cup {i}]
                 /\ Goes(t, task[t].todo \ {i})
        /\ UNCHANGED <<connection, open, manager, client>>

(* it drops the socket of its connection, which is not connected any more; *)
Drops(t) ==
    LET c == task[t].conn
    IN  /\ OnlyTask(t)
        /\ \/ task[t].pc \in {"recv", "connecting", "restore", "sleep"} /\ task'[t].pc = "closing"
              /\ connected' = [connected EXCEPT ![c] = FALSE]
           \/ task[t].pc = "sleep" /\ task'[t].pc = "connecting"
              /\ ~connected[c] /\ connected' = connected
        /\ websocket' = [websocket EXCEPT ![c] = 0]
        /\ \E asked : Asked(asked) /\ stop_streaming(websocket[c], asked)
        /\ UNCHANGED <<running, subs, attempts, processing_task, manager, client>>

(* or it has connected.                                                    *)
Connects(t) ==
    LET c == task[t].conn
        tasks == restoring(t, Len(sent) + 1, subs[c])
    IN  /\ task[t].pc = "connecting"
        /\ connected_as(c, tasks)
        /\ UNCHANGED <<subs, manager, client>>

LEMMA TaskMoves ==
    ASSUME Types, NEW t \in 1 .. Len(task), NEW pc \in TaskPcs, NEW sock \in Nat,
           NEW todo \in SUBSET SubIds, NEW size \in Sizes,
           task' = Becomes(t, pc, sock, todo, size)
    PROVE  OnlyTask(t) /\ task'[t].pc = pc /\ task'[t].todo = todo /\ task'[t].sock = sock
  <1> DEFINE new == [conn |-> task[t].conn, pc |-> pc, sock |-> sock, todo |-> todo, size |-> size]
  <1>1. task[t] \in Task /\ task \in Seq(Task)
    BY ElementOfSeq DEF Types, TaskType
  <1>2. new \in Task /\ new.conn = task[t].conn /\ new.pc = pc /\ new.todo = todo /\ new.sock = sock
    BY <1>1 DEF Task
  <1>3. task' = [task EXCEPT ![t] = new]
    BY DEF Becomes
  <1> HIDE DEF new
  <1>4. /\ task' \in Seq(Task) /\ Len(task') = Len(task) /\ task'[t] = new
        /\ \A u \in 1 .. Len(task) : u # t => task'[u] = task[u]
    BY <1>1, <1>2, <1>3, ExceptSeq
  <1>5. QED BY <1>2, <1>4, Zenon DEF OnlyTask, TaskType

LEMMA TaskGoes ==
    ASSUME Types, NEW t \in 1 .. Len(task), NEW todo \in SUBSET SubIds,
           websocket[task[t].conn] \in Nat,
           task' = restoring(t, websocket[task[t].conn], todo)
    PROVE  OnlyTask(t) /\ Goes(t, todo)
  <1>1. "done" \in TaskPcs /\ "restore" \in TaskPcs /\ 0 \in Nat /\ 0 \in Sizes /\ {} \in SUBSET SubIds
    BY DEF TaskPcs, Sizes
  <1>2. CASE todo = {}
    BY <1>1, <1>2, TaskMoves DEF restoring, Goto, Goes
  <1>3. CASE todo # {}
    BY <1>1, <1>3, TaskMoves DEF restoring, Goes
  <1>4. QED BY <1>2, <1>3

LEMMA ReaderSteps ==
    ASSUME Types, NEW t \in 1 .. Len(task), Reader(t)
    PROVE  \/ Reads(t) \/ Tries(t) \/ FindsConnected(t) \/ RestoresOne(t)
           \/ Drops(t) \/ Connects(t)
           \/ UNCHANGED <<connection, task, network, manager, client>>
  <1> DEFINE c == task[t].conn
  <1>1. /\ c \in Conns /\ task[t].todo \in SUBSET SubIds
    <2>1. task[t] \in Task
      BY ElementOfSeq DEF Types, TaskType
    <2>2. QED BY <2>1 DEF Task
  <1>2. /\ websocket[c] \in Nat /\ subs[c] \in SUBSET SubIds
        /\ 0 \in Sizes /\ Cardinality(subs[c]) \in Sizes
        /\ {} \in SUBSET SubIds /\ 0 \in Nat
    BY <1>1 DEF Types, ConnectionType, Sizes
  <1>3. TaskPcs = {"start", "recv", "callback", "closing", "sleep", "connecting",
                   "restore", "done", "died"}
    BY DEF TaskPcs
  <1> HIDE DEF c
  <1>14. Asked(sent)
    BY DEF Asked, Types, NetworkType
  <1>4. CASE _process_messages(t)
    <2>1. CASE ~running[c]
      <3>1. task' = Becomes(t, "done", 0, {}, 0)
        BY <1>4, <2>1 DEF _process_messages, Goto, c
      <3>2. QED BY <1>2, <1>3, <1>4, <2>1, <3>1, TaskMoves DEF _process_messages, At, Reads, c
    <2>2. CASE running[c] /\ websocket[c] = 0
      BY <1>4, <2>2 DEF _process_messages, c
    <2>3. CASE running[c] /\ websocket[c] # 0
      <3>1. \/ task' = Becomes(t, "died", 0, {}, 0)
            \/ task' = Becomes(t, "recv", websocket[c], {}, 0)
        BY <1>4, <2>3 DEF _process_messages, Goto, c
      <3>2. OnlyTask(t) /\ task'[t].pc \in {"recv", "died"}
        BY <1>2, <1>3, <3>1, TaskMoves
      <3>3. QED BY <1>4, <3>2 DEF _process_messages, At, Reads, c
    <2>4. QED BY <2>1, <2>2, <2>3
  <1>5. CASE _handle_data_message(t)
    <2>1. OnlyTask(t) /\ task'[t].pc = "callback"
      BY <1>2, <1>3, <1>5, TaskMoves DEF _handle_data_message, c
    <2>2. QED BY <1>5, <2>1 DEF _handle_data_message, At, Reads
  <1>6. CASE callback_returns(t)
    <2>1. \/ task' = Becomes(t, "start", 0, {}, 0)
          \/ task' = Becomes(t, "died", 0, {}, 0)
      BY <1>6 DEF callback_returns, Goto
    <2>2. OnlyTask(t) /\ task'[t].pc \in {"start", "died"}
      <3>1. CASE task' = Becomes(t, "start", 0, {}, 0)
        BY <1>2, <1>3, <3>1, TaskMoves
      <3>2. CASE task' = Becomes(t, "died", 0, {}, 0)
        BY <1>2, <1>3, <3>2, TaskMoves
      <3>3. QED BY <2>1, <3>1, <3>2
    <2>3. QED BY <1>6, <2>2 DEF callback_returns, At, Reads
  <1>7. CASE _handle_disconnect(t)
    <2>1. OnlyTask(t) /\ task'[t].pc = "closing"
      BY <1>2, <1>3, <1>7, TaskMoves DEF _handle_disconnect, Goto
    <2>2. QED BY <1>7, <1>14, <2>1 DEF _handle_disconnect, lose_socket, At, Drops
  <1>8. CASE reconnect_test(t)
    <2>1. CASE running[c] /\ attempts[c] < max_reconnect_attempts
      <3>1. OnlyTask(t) /\ task'[t].pc = "sleep"
        BY <1>2, <1>3, <1>8, <2>1, TaskMoves DEF reconnect_test, Goto, c
      <3>2. QED BY <1>8, <2>1, <3>1 DEF reconnect_test, At, Tries, c
    <2>2. CASE ~(running[c] /\ attempts[c] < max_reconnect_attempts)
      <3>1. OnlyTask(t) /\ task'[t].pc = "done"
        BY <1>2, <1>3, <1>8, <2>2, TaskMoves DEF reconnect_test, Goto, c
      <3>2. QED BY <1>8, <2>2, <3>1 DEF reconnect_test, At, Tries, c
    <2>3. QED BY <2>1, <2>2
  <1>9. CASE reconnect(t)
    <2>1. CASE connected[c] /\ (CanSend(c) \/ subs[c] = {})
      <3>1. OnlyTask(t) /\ Goes(t, subs[c])
        <4>1. task' = restoring(t, websocket[c], subs[c])
          BY <1>9, <2>1 DEF reconnect, c
        <4>2. QED BY <1>2, <4>1, TaskGoes DEF c
      <3>2. UNCHANGED <<websocket, connected, network>>
        BY <1>9, <2>1 DEF reconnect, c
      <3>3. QED BY <1>9, <2>1, <3>1, <3>2 DEF reconnect, At, FindsConnected, connection, c
    <2>2. CASE connected[c] /\ ~CanSend(c) /\ subs[c] # {}
      <3>1. OnlyTask(t) /\ task'[t].pc = "closing"
        BY <1>2, <1>3, <1>9, <2>2, TaskMoves DEF reconnect, Goto, c
      <3>2. lose_socket(c, sent)
        BY <1>9, <2>2 DEF reconnect, c
      <3>3. QED BY <1>9, <1>14, <3>1, <3>2 DEF reconnect, lose_socket, At, Drops, c
    <2>3. CASE ~connected[c]
      <3>1. OnlyTask(t) /\ task'[t].pc = "connecting"
        <4>1. task' = Becomes(t, "connecting", 0, {}, 0)
          BY <1>9, <2>3 DEF reconnect, Goto, c
        <4>2. QED BY <1>2, <1>3, <4>1, TaskMoves
      <3>2. /\ websocket' = [websocket EXCEPT ![c] = 0] /\ connected' = connected
            /\ stop_streaming(websocket[c], sent)
        BY <1>9, <2>3 DEF reconnect, close_socket, c
      <3>3. QED BY <1>9, <1>14, <2>3, <3>1, <3>2 DEF reconnect, At, Drops, c
    <2>4. QED BY <2>1, <2>2, <2>3
  <1>10. CASE reconnected(t)
    BY <1>10 DEF reconnected, At, Connects
  <1>11. CASE reconnect_fails(t)
    <2>1. OnlyTask(t) /\ task'[t].pc = "closing"
      BY <1>2, <1>3, <1>11, TaskMoves DEF reconnect_fails, Goto
    <2>2. QED BY <1>11, <1>14, <2>1 DEF reconnect_fails, lose_socket, At, Drops
  <1>12. CASE _restore_subscriptions(t)
    <2> DEFINE s == task[t].sock
               more(i) == [sent EXCEPT ![s] = @ \cup {i}]
    <2>1. PICK i \in task[t].todo :
             /\ s \in open
             /\ \/ /\ task' = restoring(t, websocket[c], task[t].todo \ {i})
                   /\ sent' = more(i)
                   /\ UNCHANGED <<open, websocket, connected>>
                \/ /\ task' = Goto(t, "closing")
                   /\ lose_socket(c, more(i))
      BY <1>12 DEF _restore_subscriptions, c
    <2>2. task[t].pc = "restore"
          /\ UNCHANGED <<running, subs, count, attempts, processing_task, manager, client>>
      BY <1>12 DEF _restore_subscriptions, At
    <2>3. CASE task' = restoring(t, websocket[c], task[t].todo \ {i}) /\ sent' = more(i)
               /\ UNCHANGED <<open, websocket, connected>>
      <3>1. OnlyTask(t) /\ Goes(t, task[t].todo \ {i})
        <4>1. task[t].todo \ {i} \in SUBSET SubIds
          BY <1>1
        <4>2. QED BY <1>2, <2>3, <4>1, TaskGoes DEF c
      <3>2. QED BY <2>1, <2>2, <2>3, <3>1 DEF RestoresOne, connection
    <2>4. CASE task' = Goto(t, "closing") /\ lose_socket(c, more(i))
      <3>1. OnlyTask(t) /\ task'[t].pc = "closing"
        BY <1>2, <1>3, <2>4, TaskMoves DEF Goto
      <3>2. Asked(more(i))
        <4>1. task[t] \in Task /\ sent \in Seq(SUBSET SubIds)
          BY ElementOfSeq DEF Types, TaskType, NetworkType
        <4>2. Len(sent) \in Nat /\ DOMAIN sent = 1 .. Len(sent)
          BY <4>1, LenProperties
        <4>3. CASE s \in 1 .. Len(sent)
          <5>1. sent[s] \cup {i} \in SUBSET SubIds
            BY <2>1, <4>1, <4>3, ElementOfSeq DEF Task
          <5>2. more(i) = [sent EXCEPT ![s] = sent[s] \cup {i}]
            OBVIOUS
          <5>3. QED BY <4>1, <4>3, <5>1, <5>2, ExceptSeq DEF Asked
        <4>4. CASE s \notin 1 .. Len(sent)
          <5>1. more(i) = sent
            BY <4>1, <4>2, <4>4
          <5>2. QED BY <1>14, <5>1
        <4>5. QED BY <4>3, <4>4
      <3>3. lose_socket(task[t].conn, more(i))
        BY <2>4 DEF c
      <3> HIDE DEF more
      <3>4. QED BY <2>2, <3>1, <3>2, <3>3 DEF lose_socket, Drops
    <2>5. QED BY <2>1, <2>3, <2>4
  <1>13. QED
    BY <1>4, <1>5, <1>6, <1>7, <1>8, <1>9, <1>10, <1>11, <1>12 DEF Reader
-----------------------------------------------------------------------------
(* A step of a reading task changes nothing of the clients, the pool and   *)
(* the subscriptions: what is left of the invariant is about sockets,      *)
(* tasks and flags.                                                        *)
LEMMA OpenedStay ==
    ASSUME IInv, TaskType', Len(task) <= Len(task'),
           \A u \in 1 .. Len(task) : task'[u].conn = task[u].conn,
           \A k \in Clients : client[k].pc = "connect" => client[k].conn \in Fresh',
           UNCHANGED <<subs, manager, client>>
    PROVE  LockHeld' /\ PoolOpened' /\ PoolBounded' /\ PoolType' /\ ClientType'
  <1>1. Fresh' \subseteq Fresh
    BY FreshFacts DEF IInv, Types
  <1>2. LockHeld'
    BY DEF IInv, LockHeld, manager
  <1>3. PoolOpened'
    BY <1>1 DEF IInv, PoolOpened, manager
  <1>4. QED BY <1>2, <1>3 DEF IInv, Types, PoolBounded, PoolType, ClientType, manager

LEMMA OnlyTaskFacts ==
    ASSUME IInv, NEW t \in 1 .. Len(task), OnlyTask(t), UNCHANGED <<subs, manager, client>>
    PROVE  /\ LockHeld' /\ PoolOpened' /\ PoolBounded' /\ PoolType' /\ ClientType' /\ TaskType'
           /\ Len(task') = Len(task) /\ Len(task) \in Nat /\ task[t].conn \in Conns
           /\ \A u \in 1 .. Len(task) : task'[u].conn = task[u].conn
  <1>1. /\ TaskType /\ TaskType' /\ Len(task') = Len(task) /\ Len(task) \in Nat
        /\ \A u \in 1 .. Len(task) : task'[u].conn = task[u].conn
    BY LenProperties DEF OnlyTask, IInv, Types, TaskType
  <1>2. Fresh' = Fresh
    BY <1>1, FreshFacts
  <1>3. \A k \in Clients : client[k].pc = "connect" => client[k].conn \in Fresh'
    BY <1>2, Zenon DEF IInv, LockHeld
  <1>4. Len(task) <= Len(task')
    BY <1>1
  <1>5. LockHeld' /\ PoolOpened' /\ PoolBounded' /\ PoolType' /\ ClientType'
    BY <1>1, <1>3, <1>4, OpenedStay
  <1>6. task[t] \in Task
    BY <1>1, ElementOfSeq DEF TaskType
  <1>7. task[t].conn \in Conns
    BY <1>6 DEF Task
  <1>8. QED BY <1>1, <1>5, <1>7

LEMMA ReadsKeeps ==
    ASSUME IInv, NEW t \in 1 .. Len(task), Reads(t)
    PROVE  IInv'
  <1>1. OnlyTask(t) /\ UNCHANGED <<subs, manager, client>>
    BY DEF Reads, connection
  <1>2. /\ LockHeld' /\ PoolOpened' /\ PoolBounded' /\ PoolType' /\ ClientType' /\ TaskType'
        /\ Len(task') = Len(task) /\ Len(task) \in Nat
        /\ \A u \in 1 .. Len(task) : task'[u].conn = task[u].conn
    BY <1>1, OnlyTaskFacts
  <1>3. Types'
    BY <1>2 DEF Reads, IInv, Types, ConnectionType, NetworkType, connection, network
  <1>4. SocketsKnown' /\ SocketsOwned'
    BY DEF Reads, IInv, SocketsKnown, SocketsOwned, Busy, connection, network
  <1>5. KnownTask'
    BY <1>2 DEF Reads, OnlyTask, IInv, KnownTask, connection
  <1>6. StoppedBy'
    BY <1>2 DEF Reads, OnlyTask, IInv, StoppedBy, connection
  <1>7. AskedOrOwed'
    BY <1>2 DEF Reads, OnlyTask, IInv, AskedOrOwed, Restores, Sends, connection, network
  <1>8. QED BY <1>2, <1>3, <1>4, <1>5, <1>6, <1>7 DEF IInv

LEMMA TriesKeeps ==
    ASSUME IInv, NEW t \in 1 .. Len(task), Tries(t)
    PROVE  IInv'
  <1> DEFINE c == task[t].conn
  <1>1. OnlyTask(t) /\ UNCHANGED <<subs, manager, client>>
    BY DEF Tries
  <1>2. /\ LockHeld' /\ PoolOpened' /\ PoolBounded' /\ PoolType' /\ ClientType' /\ TaskType'
        /\ Len(task') = Len(task) /\ Len(task) \in Nat /\ c \in Conns
        /\ \A u \in 1 .. Len(task) : task'[u].conn = task[u].conn
    BY <1>1, OnlyTaskFacts
  <1>3. /\ attempts \in [Conns -> Nat] /\ running \in [Conns -> BOOLEAN]
    BY DEF IInv, Types, ConnectionType
  <1>4. SocketsKnown' /\ SocketsOwned'
    BY DEF Tries, IInv, SocketsKnown, SocketsOwned, Busy, network
  <1>5. AskedOrOwed'
    BY <1>2 DEF Tries, OnlyTask, IInv, AskedOrOwed, Restores, Sends, network
  <1>6. CASE /\ running[c] /\ attempts[c] < max_reconnect_attempts
             /\ task'[t].pc = "sleep"
             /\ attempts' = [attempts EXCEPT ![c] = @ + 1] /\ running' = running
    <2>1. /\ attempts' \in [Conns -> Nat]
          /\ \A d \in Conns : d # c => attempts'[d] = attempts[d]
      BY <1>2, <1>3, <1>6
    <2>2. Types'
      BY <1>2, <1>6, <2>1 DEF Tries, IInv, Types, ConnectionType, NetworkType, network
    <2>3. KnownTask'
      BY <1>2, <1>6 DEF Tries, OnlyTask, IInv, KnownTask
    <2>4. StoppedBy'
      BY <1>2, <1>6, <2>1 DEF Tries, OnlyTask, IInv, StoppedBy
    <2>5. QED BY <1>2, <1>4, <1>5, <2>2, <2>3, <2>4 DEF IInv
  <1>7. CASE /\ ~(running[c] /\ attempts[c] < max_reconnect_attempts)
             /\ task'[t].pc = "done"
             /\ running' = [running EXCEPT ![c] = FALSE] /\ attempts' = attempts
    <2>1. /\ running' \in [Conns -> BOOLEAN] /\ ~running'[c]
          /\ \A d \in Conns : d # c => running'[d] = running[d]
      BY <1>2, <1>3, <1>7, Zenon
    <2>2. Types'
      BY <1>2, <1>7, <2>1 DEF Tries, IInv, Types, ConnectionType, NetworkType, network
    <2>3. KnownTask'
      BY <1>2, <1>7, <2>1 DEF Tries, OnlyTask, IInv, KnownTask
    <2>4. StoppedBy'
      BY <1>2, <1>7, <2>1 DEF Tries, OnlyTask, IInv, StoppedBy
    <2>5. QED BY <1>2, <1>4, <1>5, <2>2, <2>3, <2>4 DEF IInv
  <1>8. QED BY <1>6, <1>7 DEF Tries

LEMMA FindsConnectedKeeps ==
    ASSUME IInv, NEW t \in 1 .. Len(task), FindsConnected(t)
    PROVE  IInv'
  <1>1. OnlyTask(t) /\ UNCHANGED <<subs, manager, client>>
    BY DEF FindsConnected, connection
  <1>2. /\ LockHeld' /\ PoolOpened' /\ PoolBounded' /\ PoolType' /\ ClientType' /\ TaskType'
        /\ Len(task') = Len(task) /\ Len(task) \in Nat
        /\ \A u \in 1 .. Len(task) : task'[u].conn = task[u].conn
    BY <1>1, OnlyTaskFacts
  <1>3. Types'
    BY <1>2 DEF FindsConnected, IInv, Types, ConnectionType, NetworkType, connection, network
  <1>4. SocketsKnown' /\ SocketsOwned'
    BY DEF FindsConnected, IInv, SocketsKnown, SocketsOwned, Busy, connection, network
  <1>5. KnownTask'
    BY <1>2 DEF FindsConnected, Goes, OnlyTask, IInv, KnownTask, connection
  <1>6. StoppedBy'
    BY <1>2 DEF FindsConnected, Goes, OnlyTask, IInv, StoppedBy, connection
  <1>7. AskedOrOwed'
    BY <1>2 DEF FindsConnected, Goes, OnlyTask, IInv, AskedOrOwed, Restores, Sends, connection, network
  <1>8. QED BY <1>2, <1>3, <1>4, <1>5, <1>6, <1>7 DEF IInv

LEMMA RestoresOneKeeps ==
    ASSUME IInv, NEW t \in 1 .. Len(task), RestoresOne(t)
    PROVE  IInv'
  <1> DEFINE c == task[t].conn
             s == task[t].sock
  <1>1. OnlyTask(t) /\ UNCHANGED <<subs, manager, client>>
    BY DEF RestoresOne, connection
  <1>2. /\ LockHeld' /\ PoolOpened' /\ PoolBounded' /\ PoolType' /\ ClientType' /\ TaskType'
        /\ Len(task') = Len(task) /\ Len(task) \in Nat /\ c \in Conns
        /\ \A u \in 1 .. Len(task) : task'[u].conn = task[u].conn
    BY <1>1, OnlyTaskFacts
  <1>3. KnownTask'
    BY <1>2 DEF RestoresOne, Goes, OnlyTask, IInv, KnownTask, connection
  <1>4. StoppedBy'
    BY <1>2 DEF RestoresOne, Goes, OnlyTask, IInv, StoppedBy, connection
  <1>5. PICK i \in task[t].todo :
               /\ s \in open /\ sent' = [sent EXCEPT ![s] = @ \cup {i}]
               /\ Goes(t, task[t].todo \ {i})
    BY DEF RestoresOne
  <1>6. s \in 1 .. Len(sent) /\ sent \in Seq(SUBSET SubIds) /\ task[t] \in Task
    BY <1>5, ElementOfSeq DEF IInv, SocketsKnown, Types, NetworkType, TaskType
  <1>7. sent[s] \cup {i} \in SUBSET SubIds
    BY <1>5, <1>6, ElementOfSeq DEF Task
  <1>8. sent' = [sent EXCEPT ![s] = sent[s] \cup {i}]
    BY <1>5
  <1>9. /\ sent' \in Seq(SUBSET SubIds) /\ Len(sent') = Len(sent)
        /\ \A x \in 1 .. Len(sent) : sent'[x] = IF x = s THEN sent[s] \cup {i} ELSE sent[x]
    BY <1>6, <1>7, <1>8, ExceptSeq
  <1>10. Types'
    BY <1>2, <1>9 DEF RestoresOne, IInv, Types, ConnectionType, NetworkType, connection
  <1>11. SocketsKnown' /\ SocketsOwned'
    BY <1>9 DEF RestoresOne, IInv, SocketsKnown, SocketsOwned, Busy, connection
  <1>12. \A x \in open : sent[x] \subseteq sent'[x]
    BY <1>9 DEF IInv, SocketsKnown
  <1>13. i \in sent'[s]
    BY <1>6, <1>9
  <1>14. AskedOrOwed'
    <2> SUFFICES ASSUME NEW d \in Conns, connected[d], websocket[d] \in open, NEW j \in subs[d]
                 PROVE  \/ j \in sent'[websocket[d]]
                        \/ \E u \in 1 .. Len(task') : Restores(u, d, j)'
                        \/ \E k \in Clients : Sends(k, d, j)'
      BY DEF RestoresOne, AskedOrOwed, connection
    <2>0. UNCHANGED <<websocket, client>>
      BY DEF RestoresOne, connection
    <2>1. CASE j \in sent[websocket[d]]
      BY <1>12, <2>1
    <2>2. CASE \E k \in Clients : Sends(k, d, j)
      BY <2>0, <2>2 DEF Sends
    <2>3. CASE \E u \in 1 .. Len(task) : Restores(u, d, j)
      <3>1. PICK u \in 1 .. Len(task) : Restores(u, d, j)
        BY <2>3
      <3>2. CASE u # t
        <4>1. task'[u] = task[u]
          BY <1>1, <3>2 DEF OnlyTask
        <4>2. QED BY <1>2, <2>0, <3>1, <4>1 DEF Restores
      <3>3. CASE u = t /\ j = i
        BY <1>13, <3>1, <3>3 DEF Restores
      <3>4. CASE u = t /\ j # i
        <4>1. d = c /\ j \in task[t].todo \ {i}
          BY <3>1, <3>4 DEF Restores
        <4>2. /\ task'[t].pc = "restore" /\ task'[t].todo = task[t].todo \ {i}
              /\ task'[t].sock = websocket[c] /\ task'[t].conn = c
          BY <1>2, <1>5, <4>1 DEF Goes
        <4>3. Restores(t, d, j)'
          BY <2>0, <4>1, <4>2 DEF Restores
        <4>4. QED BY <1>2, <4>3
      <3>5. QED BY <3>2, <3>3, <3>4
    <2>4. QED BY <2>1, <2>2, <2>3 DEF IInv, AskedOrOwed
  <1>15. QED BY <1>2, <1>3, <1>4, <1>10, <1>11, <1>14 DEF IInv

LEMMA DropsKeeps ==
    ASSUME IInv, NEW t \in 1 .. Len(task), Drops(t)
    PROVE  IInv'
  <1> DEFINE c == task[t].conn
  <1>1. OnlyTask(t) /\ UNCHANGED <<subs, manager, client>>
    BY DEF Drops
  <1>2. /\ LockHeld' /\ PoolOpened' /\ PoolBounded' /\ PoolType' /\ ClientType' /\ TaskType'
        /\ Len(task') = Len(task) /\ Len(task) \in Nat /\ c \in Conns
        /\ \A u \in 1 .. Len(task) : task'[u].conn = task[u].conn
    BY <1>1, OnlyTaskFacts
  <1>3. NetworkType /\ websocket \in [Conns -> Nat] /\ connected \in [Conns -> BOOLEAN]
    BY DEF IInv, Types, ConnectionType
  <1>4. PICK asked : Asked(asked) /\ stop_streaming(websocket[c], asked)
    BY DEF Drops
  <1>5. /\ NetworkType' /\ Len(sent') = Len(sent) /\ open' = open \ {websocket[c]}
        /\ \A x \in 1 .. Len(sent) : x # websocket[c] => sent[x] \subseteq sent'[x]
    <2>1. websocket[c] \in Nat
      BY <1>2, <1>3
    <2>2. /\ NetworkType' /\ Len(sent') = Len(sent) /\ open' = open \ {websocket[c]}
          /\ \A x \in 1 .. Len(sent) : x # websocket[c] => sent'[x] = asked[x]
      BY <1>3, <1>4, <2>1, StopFacts
    <2>3. QED BY <1>4, <2>2 DEF Asked
  <1>6. /\ websocket' \in [Conns -> Nat] /\ websocket'[c] = 0
        /\ \A d \in Conns : d # c => websocket'[d] = websocket[d]
    BY <1>2, <1>3 DEF Drops
  <1>7. /\ connected' \in [Conns -> BOOLEAN] /\ ~connected'[c]
        /\ \A d \in Conns : d # c => connected'[d] = connected[d]
    BY <1>2, <1>3, Zenon DEF Drops
  <1>8. Types'
    BY <1>2, <1>5, <1>6, <1>7 DEF Drops, IInv, Types, ConnectionType
  <1>9. SocketsKnown'
    BY <1>2, <1>5, <1>6 DEF Drops, IInv, SocketsKnown, Busy
  <1>10. SocketsOwned'
    BY <1>6 DEF Drops, IInv, SocketsKnown, SocketsOwned, Busy
  <1>11. /\ task[t].pc \in {"recv", "connecting", "restore", "sleep"}
         /\ task'[t].pc \in {"closing", "connecting"}
    BY DEF Drops
  <1>12. KnownTask'
    BY <1>2, <1>7, <1>11 DEF Drops, OnlyTask, IInv, KnownTask
  <1>13. StoppedBy'
    BY <1>2, <1>7, <1>11 DEF Drops, OnlyTask, IInv, StoppedBy
  <1>14. \A x \in open' : x \in 1 .. Len(sent) /\ sent[x] \subseteq sent'[x] /\ x \in open
    BY <1>5 DEF IInv, SocketsKnown
  <1>15. AskedOrOwed'
    <2> SUFFICES ASSUME NEW d \in Conns, connected'[d], websocket'[d] \in open', NEW i \in subs[d]
                 PROVE  \/ i \in sent'[websocket'[d]]
                        \/ \E u \in 1 .. Len(task') : Restores(u, d, i)'
                        \/ \E k \in Clients : Sends(k, d, i)'
      BY <1>1 DEF AskedOrOwed
    <2>1. d # c /\ websocket'[d] = websocket[d] /\ connected[d] /\ websocket[d] \in open
      BY <1>6, <1>7, <1>14
    <2>2. CASE i \in sent[websocket[d]]
      BY <1>14, <2>1, <2>2
    <2>3. CASE \E u \in 1 .. Len(task) : Restores(u, d, i)
      BY <1>2, <2>1, <2>3 DEF Drops, OnlyTask, Restores
    <2>4. CASE \E k \in Clients : Sends(k, d, i)
      BY <1>1, <2>1, <2>4 DEF Sends
    <2>5. QED BY <2>1, <2>2, <2>3, <2>4 DEF IInv, AskedOrOwed
  <1>16. QED BY <1>2, <1>8, <1>9, <1>10, <1>12, <1>13, <1>15 DEF IInv

LEMMA ConnectsKeeps ==
    ASSUME IInv, NEW t \in 1 .. Len(task), Connects(t)
    PROVE  IInv'
  <1> DEFINE c == task[t].conn
             new == Len(task) + 1
             s == Len(sent) + 1
             tasks == restoring(t, s, subs[c])
  <1>1. task[t] \in Task /\ Types /\ TaskType /\ Len(task) \in Nat /\ Len(sent) \in Nat
    BY ElementOfSeq, LenProperties DEF IInv, Types, TaskType, NetworkType
  <1>2. c \in Conns /\ "restore" \in TaskPcs /\ 0 \in Sizes /\ 0 \in Nat
    BY <1>1 DEF Task, TaskPcs, Sizes
  <1>3. subs[c] \in SUBSET SubIds
    BY <1>1, <1>2 DEF Types, ConnectionType
  <1>4. /\ tasks \in Seq(Task) /\ Len(tasks) = Len(task)
        /\ tasks[t].conn = c
        /\ subs[c] # {} =>
              tasks[t].pc = "restore" /\ tasks[t].todo = subs[c] /\ tasks[t].sock = s
        /\ \A u \in 1 .. Len(task) : u # t => tasks[u] = task[u]
    <2> DEFINE todo == subs[c]
               pc == IF todo = {} THEN "done" ELSE "restore"
               sock == IF todo = {} THEN 0 ELSE s
    <2>1. /\ todo \in SUBSET SubIds /\ todo = subs[c] /\ pc \in TaskPcs /\ sock \in Nat
          /\ todo # {} => pc = "restore" /\ sock = s
      BY <1>1, <1>3 DEF TaskPcs
    <2>2. tasks = Becomes(t, pc, sock, todo, 0)
      BY DEF restoring, Goto
    <2> HIDE DEF todo, pc, sock, s, tasks
    <2>3. /\ Becomes(t, pc, sock, todo, 0) \in Seq(Task)
          /\ Len(Becomes(t, pc, sock, todo, 0)) = Len(task)
          /\ Becomes(t, pc, sock, todo, 0)[t] =
               [conn |-> task[t].conn, pc |-> pc, sock |-> sock, todo |-> todo, size |-> 0]
          /\ \A u \in 1 .. Len(task) : u # t => Becomes(t, pc, sock, todo, 0)[u] = task[u]
      BY <1>1, <1>2, <2>1, BecomesFacts
    <2>4. QED BY <2>1, <2>2, <2>3
  <1>5. \A u \in 1 .. Len(task) : tasks[u].conn = task[u].conn
    BY <1>4
  <1>6. connected_as(c, tasks) /\ task[t].pc = "connecting" /\ UNCHANGED <<subs, manager, client>>
    BY DEF Connects
  <1>0. /\ c = task[t].conn /\ new = Len(task) + 1 /\ s = Len(sent) + 1
        /\ \A u \in 1 .. new : u \in 1 .. Len(task) \/ u = new
        /\ \A u \in 1 .. Len(task) : u \in 1 .. new /\ u # new /\ u # 0
        /\ new # 0 /\ new \in 1 .. new
    BY <1>1
  <1> HIDE DEF tasks
  <1>7. /\ TaskType' /\ NetworkType'
        /\ websocket' \in [Conns -> Nat] /\ processing_task' \in [Conns -> Nat]
        /\ connected' \in [Conns -> BOOLEAN] /\ running' \in [Conns -> BOOLEAN]
        /\ attempts' \in [Conns -> Nat]
        /\ Len(task') = new /\ Len(sent') = s /\ open' = open \cup {s}
        /\ \A u \in 1 .. Len(task) : task'[u] = tasks[u]
        /\ task'[new].conn = c /\ task'[new].pc = "start"
        /\ \A x \in 1 .. Len(sent) : sent'[x] = sent[x]
        /\ websocket'[c] = s /\ processing_task'[c] = new
        /\ connected'[c] /\ running'[c]
        /\ \A d \in Conns : d # c =>
              /\ websocket'[d] = websocket[d] /\ processing_task'[d] = processing_task[d]
              /\ connected'[d] = connected[d] /\ running'[d] = running[d]
              /\ attempts'[d] = attempts[d]
    BY <1>1, <1>2, <1>4, <1>6, ConnectFacts, Zenon
  <1> HIDE DEF new, s, c
  <1>8. /\ \A u \in 1 .. Len(task) : task'[u].conn = task[u].conn
        /\ \A u \in 1 .. Len(task) : u # t => task'[u] = task[u]
        /\ subs[c] # {} =>
              task'[t].pc = "restore" /\ task'[t].todo = subs[c] /\ task'[t].sock = s
    <2>1. \A u \in 1 .. Len(task) : task'[u] = tasks[u]
      BY <1>7
    <2>2. subs[c] # {} =>
            tasks[t].pc = "restore" /\ tasks[t].todo = subs[c] /\ tasks[t].sock = s
      BY <1>4
    <2>3. \A u \in 1 .. Len(task) : u # t => tasks[u] = task[u]
      BY <1>4
    <2>4. task'[t] = tasks[t]
      BY <2>1
    <2>5. QED BY <1>5, <2>1, <2>2, <2>3, <2>4
  <1>9. \A k \in Clients : client[k].pc = "connect" => client[k].conn \in Fresh'
    <2> SUFFICES ASSUME NEW k \in Clients, client[k].pc = "connect"
                 PROVE  client[k].conn \in Fresh'
      OBVIOUS
    <2>1. client[k].conn \in Conns /\ \A u \in 1 .. Len(task) : task[u].conn # client[k].conn
      BY <1>1, LenProperties DEF IInv, LockHeld, Fresh, Tasks, TaskType
    <2>2. client[k].conn # c /\ DOMAIN task' = 1 .. Len(task')
      <3>1. task' \in Seq(Task)
        BY <1>7 DEF TaskType
      <3>2. client[k].conn # c
        BY <1>0, <2>1
      <3>3. QED BY <3>1, <3>2, LenProperties
    <2>3. \A u \in 1 .. Len(task') : task'[u].conn # client[k].conn
      <3>1. \A u \in 1 .. Len(task') : u \in 1 .. Len(task) \/ u = new
        BY <1>0, <1>7
      <3>2. task'[new].conn = c
        BY <1>7
      <3>3. QED BY <1>8, <2>1, <2>2, <3>1, <3>2, Zenon
    <2>4. QED BY <1>6, <2>1, <2>2, <2>3 DEF Fresh, Tasks
  <1>10. LockHeld' /\ PoolOpened' /\ PoolBounded' /\ PoolType' /\ ClientType'
    <2>1. Len(task) <= Len(task')
      BY <1>0, <1>1, <1>7
    <2>2. QED BY <1>6, <1>7, <1>8, <1>9, <2>1, OpenedStay, Zenon
  <1>11. Types'
    BY <1>6, <1>7, <1>10 DEF IInv, Types, ConnectionType
  <1>12. SocketsKnown'
    <2>1. \A d \in Conns : websocket'[d] <= s
      <3>1. \A d \in Conns : websocket[d] \in Nat /\ websocket[d] <= Len(sent)
        BY DEF IInv, SocketsKnown, Types, ConnectionType
      <3>2. s = Len(sent) + 1 /\ Len(sent) \in Nat
        BY <1>0, <1>1
      <3>3. \A d \in Conns : websocket'[d] = IF d = c THEN s ELSE websocket[d]
        BY <1>7
      <3>4. QED BY <3>1, <3>2, <3>3
    <2>2. \A x \in open' : x \in 1 .. s
      BY <1>0, <1>1, <1>7 DEF IInv, SocketsKnown
    <2>3. \A k \in Clients : Busy(k) => client[k].sock \in 1 .. s /\ client[k].conn \in Conns
      BY <1>0, <1>1 DEF IInv, SocketsKnown
    <2>4. \A k \in Clients : client[k].pc \in {"cancelled", "closed"} => client[k].conn \in Conns
      BY DEF IInv, SocketsKnown
    <2>5. client' = client /\ Len(sent') = s
      BY <1>6, <1>7
    <2>6. QED BY <2>1, <2>2, <2>3, <2>4, <2>5 DEF SocketsKnown, Busy
  <1>13. SocketsOwned'
    <2>1. \A d \in Conns : d # c => websocket'[d] = websocket[d] /\ websocket[d] # s
      BY <1>0, <1>1, <1>7 DEF IInv, SocketsKnown, Types, ConnectionType
    <2>2. \A k \in Clients : Busy(k) => client[k].sock # s
      BY <1>0, <1>1 DEF IInv, SocketsKnown
    <2>3. websocket'[c] = s /\ client' = client
      BY <1>6, <1>7
    <2>4. QED BY <2>1, <2>2, <2>3 DEF IInv, SocketsOwned, Busy
  <1>14. KnownTask'
    <2>1. \A d \in Conns : d # c =>
             processing_task'[d] = processing_task[d] /\ connected'[d] = connected[d]
             /\ running'[d] = running[d]
      BY <1>7
    <2>2. processing_task'[c] = new /\ Len(task') = new
          /\ task'[new].conn = c /\ task'[new].pc = "start"
      BY <1>7
    <2>3. \A d \in Conns : d # c /\ processing_task[d] # 0 =>
             /\ processing_task[d] \in 1 .. new
             /\ task'[processing_task[d]] = task[processing_task[d]]
      BY <1>0, <1>8 DEF IInv, KnownTask
    <2>4. QED BY <1>0, <2>1, <2>2, <2>3 DEF IInv, KnownTask
  <1>15. StoppedBy'
    <2>1. \A d \in Conns : connected'[d] /\ ~running'[d] =>
             d # c /\ connected[d] /\ ~running[d] /\ attempts'[d] = attempts[d]
      BY <1>7
    <2>2. \A u \in 1 .. Len(task) : task[u].pc = "died" =>
             u \in 1 .. Len(task') /\ task'[u] = task[u]
      BY <1>0, <1>6, <1>7, <1>8
    <2>3. client' = client
      BY <1>6
    <2>4. QED BY <2>1, <2>2, <2>3 DEF IInv, StoppedBy
  <1>16. AskedOrOwed'
    <2> SUFFICES ASSUME NEW d \in Conns, connected'[d], websocket'[d] \in open', NEW i \in subs[d]
                 PROVE  \/ i \in sent'[websocket'[d]]
                        \/ \E u \in 1 .. Len(task') : Restores(u, d, i)'
                        \/ \E k \in Clients : Sends(k, d, i)'
      BY <1>6 DEF AskedOrOwed
    <2>1. CASE d = c
      <3>1. t \in 1 .. Len(task') /\ Restores(t, d, i)'
        BY <1>0, <1>6, <1>7, <1>8, <2>1 DEF Restores
      <3>2. QED BY <3>1
    <2>2. CASE d # c
      <3>1. /\ websocket'[d] = websocket[d] /\ connected[d] /\ websocket[d] \in open
            /\ websocket[d] \in 1 .. Len(sent) /\ sent'[websocket[d]] = sent[websocket[d]]
        BY <1>0, <1>1, <1>7, <2>2 DEF IInv, SocketsKnown, Types, ConnectionType
      <3>2. CASE i \in sent[websocket[d]]
        BY <3>1, <3>2
      <3>3. CASE \E u \in 1 .. Len(task) : Restores(u, d, i)
        <4>1. PICK u \in 1 .. Len(task) : Restores(u, d, i)
          BY <3>3
        <4>2. u # t /\ u \in 1 .. Len(task') /\ task'[u] = task[u]
          BY <1>0, <1>7, <1>8, <2>2, <4>1 DEF Restores
        <4>3. QED BY <3>1, <4>1, <4>2 DEF Restores
      <3>4. CASE \E k \in Clients : Sends(k, d, i)
        BY <1>6, <3>1, <3>4 DEF Sends
      <3>5. QED BY <3>1, <3>2, <3>3, <3>4 DEF IInv, AskedOrOwed
    <2>3. QED BY <2>1, <2>2
  <1>17. QED BY <1>10, <1>11, <1>12, <1>13, <1>14, <1>15, <1>16 DEF IInv

LEMMA UnchangedKeeps ==
    ASSUME IInv, UNCHANGED <<connection, task, network, manager, client>>
    PROVE  IInv'
  <1>1. Types'
    BY DEF IInv, Types, TaskType, ClientType, ConnectionType, NetworkType, PoolType,
       connection, network, manager
  <1>2. SocketsKnown' /\ SocketsOwned'
    BY DEF IInv, SocketsKnown, SocketsOwned, Busy, connection, network
  <1>3. LockHeld' /\ PoolOpened' /\ PoolBounded'
    BY DEF IInv, LockHeld, Fresh, Tasks, PoolOpened, PoolBounded, connection, manager
  <1>4. KnownTask' /\ StoppedBy'
    BY DEF IInv, KnownTask, StoppedBy, connection
  <1>5. AskedOrOwed'
    BY DEF IInv, AskedOrOwed, Restores, Sends, connection, network
  <1>6. QED BY <1>1, <1>2, <1>3, <1>4, <1>5 DEF IInv

LEMMA ReaderKeeps ==
    ASSUME IInv, NEW t \in 1 .. Len(task), Reader(t)
    PROVE  IInv'
  BY UnchangedKeeps, ReaderSteps, ReadsKeeps, TriesKeeps, FindsConnectedKeeps,
     RestoresOneKeeps, DropsKeeps, ConnectsKeeps DEF IInv

-----------------------------------------------------------------------------
(* The steps of a client.                                                  *)
LEMMA ClientGoes ==
    ASSUME ClientType, NEW k \in Clients, NEW state \in ClientState,
           client' = [client EXCEPT ![k] = state]
    PROVE  /\ ClientType' /\ client'[k] = state
           /\ \A j \in Clients : j # k => client'[j] = client[j]
  BY DEF ClientType

LEMMA StatesOfClients ==
    /\ idle \in ClientState /\ idle.pc = "idle"
    /\ \A c \in Conns, id \in SubIds, s \in Nat, pc \in ClientPcs :
          [pc |-> pc, conn |-> c, ids |-> {id}, sock |-> s] \in ClientState
    /\ \A c \in Conns, s \in Nat :
          [pc |-> "cancelled", conn |-> c, ids |-> {}, sock |-> s] \in ClientState
    /\ \A s \in Nat : [pc |-> "closing", conn |-> 0, ids |-> {}, sock |-> s] \in ClientState
    /\ \A state \in ClientState, pc \in ClientPcs :
          /\ [state EXCEPT !.pc = pc] \in ClientState
          /\ [state EXCEPT !.pc = pc].pc = pc /\ [state EXCEPT !.pc = pc].conn = state.conn
  <1>1. idle \in ClientState /\ idle.pc = "idle"
    BY DEF idle, ClientState, ClientPcs
  <1>2. ASSUME NEW c \in Conns, NEW id \in SubIds, NEW s \in Nat, NEW pc \in ClientPcs
        PROVE  [pc |-> pc, conn |-> c, ids |-> {id}, sock |-> s] \in ClientState
    BY DEF ClientState
  <1>3. ASSUME NEW s \in Nat
        PROVE  [pc |-> "closing", conn |-> 0, ids |-> {}, sock |-> s] \in ClientState
    BY DEF ClientState, ClientPcs
  <1>4. ASSUME NEW state \in ClientState, NEW pc \in ClientPcs
        PROVE  /\ [state EXCEPT !.pc = pc] \in ClientState
               /\ [state EXCEPT !.pc = pc].pc = pc /\ [state EXCEPT !.pc = pc].conn = state.conn
    BY DEF ClientState
  <1>5. ASSUME NEW c \in Conns, NEW s \in Nat
        PROVE  [pc |-> "cancelled", conn |-> c, ids |-> {}, sock |-> s] \in ClientState
    BY DEF ClientState, ClientPcs
  <1>6. QED BY <1>1, <1>2, <1>3, <1>4, <1>5

(* A step that leaves the connections, their sockets and tasks alone.      *)
LEMMA QuietKeeps ==
    ASSUME IInv, UNCHANGED <<websocket, connected, running, attempts, processing_task, task, open>>,
           NEW k \in Clients, \A j \in Clients : j # k => client'[j] = client[j],
           client[k].pc \notin {"cancelled", "closed"}, Len(sent') = Len(sent),
           client'[k].pc \notin {"send", "unsend", "cancelled", "closed"}
    PROVE  Fresh' = Fresh /\ SocketsKnown' /\ SocketsOwned' /\ KnownTask' /\ StoppedBy'
  <1>1. Fresh' = Fresh
    BY DEF Fresh, Tasks
  <1>2. SocketsKnown' /\ SocketsOwned'
    BY DEF IInv, SocketsKnown, SocketsOwned, Busy
  <1>3. KnownTask'
    BY DEF IInv, KnownTask
  <1>4. StoppedBy'
    BY DEF IInv, StoppedBy
  <1>5. QED BY <1>1, <1>2, <1>3, <1>4

LEMMA RefusedKeeps ==
    ASSUME IInv, NEW k \in Clients, connection_refused(k)
    PROVE  IInv'
  <1>1. /\ client' = [client EXCEPT ![k] = idle] /\ client[k].pc = "connect"
        /\ lock' = NoClient
        /\ UNCHANGED <<websocket, connected, running, subs, attempts, processing_task, task,
                       open, sent, pool, round_robin>>
    BY DEF connection_refused, ClientAt, connection, network
  <1>2. /\ ClientType' /\ client'[k].pc = "idle"
        /\ \A j \in Clients : j # k => client'[j] = client[j]
    BY <1>1, ClientGoes, StatesOfClients DEF IInv, Types
  <1>3. Types'
    BY <1>1, <1>2 DEF IInv, Types, TaskType, ConnectionType, NetworkType, PoolType
  <1>4. Fresh' = Fresh /\ SocketsKnown' /\ SocketsOwned' /\ KnownTask' /\ StoppedBy'
    BY <1>1, <1>2, QuietKeeps
  <1>5. LockHeld'
    BY <1>1, <1>2, <1>4 DEF IInv, LockHeld
  <1>6. PoolOpened' /\ PoolBounded'
    BY <1>1, <1>2, <1>4 DEF IInv, PoolOpened, PoolBounded
  <1>7. AskedOrOwed'
    BY <1>1, <1>2 DEF IInv, AskedOrOwed, Restores, Sends
  <1>8. QED BY <1>3, <1>4, <1>5, <1>6, <1>7 DEF IInv

LEMMA CloseAllKeeps ==
    ASSUME IInv, NEW k \in Clients, close_all(k)
    PROVE  IInv'
  <1>1. /\ client' = [client EXCEPT ![k] = [idle EXCEPT !.pc = "closing"]]
        /\ client[k].pc = "idle"
        /\ UNCHANGED <<websocket, connected, running, subs, attempts, processing_task, task,
                       open, sent, pool, round_robin, lock>>
    BY DEF close_all, ClientAt, connection, network, manager
  <1>2. /\ [idle EXCEPT !.pc = "closing"] \in ClientState
        /\ [idle EXCEPT !.pc = "closing"].pc = "closing"
    BY StatesOfClients DEF ClientPcs
  <1>3. /\ ClientType' /\ client'[k].pc = "closing"
        /\ \A j \in Clients : j # k => client'[j] = client[j]
    BY <1>1, <1>2, ClientGoes DEF IInv, Types
  <1>4. Types'
    BY <1>1, <1>3 DEF IInv, Types, TaskType, ConnectionType, NetworkType, PoolType
  <1>5. Fresh' = Fresh /\ SocketsKnown' /\ SocketsOwned' /\ KnownTask' /\ StoppedBy'
    BY <1>1, <1>3, QuietKeeps
  <1>6. LockHeld'
    BY <1>1, <1>3, <1>5 DEF IInv, LockHeld
  <1>7. PoolOpened' /\ PoolBounded'
    BY <1>1, <1>3, <1>5 DEF IInv, PoolOpened, PoolBounded
  <1>8. AskedOrOwed'
    BY <1>1, <1>3 DEF IInv, AskedOrOwed, Restores, Sends
  <1>9. QED BY <1>4, <1>5, <1>6, <1>7, <1>8 DEF IInv

LEMMA ClearedKeeps ==
    ASSUME IInv, NEW k \in Clients, pool_cleared(k)
    PROVE  IInv'
  <1>1. /\ client' = [client EXCEPT ![k] = idle] /\ client[k].pc = "closing"
        /\ pool' = << >> /\ round_robin' = 0
        /\ UNCHANGED <<websocket, connected, running, subs, attempts, processing_task, task,
                       open, sent, lock>>
    BY DEF pool_cleared, ClientAt, connection, network
  <1>2. /\ ClientType' /\ client'[k].pc = "idle"
        /\ \A j \in Clients : j # k => client'[j] = client[j]
    BY <1>1, ClientGoes, StatesOfClients DEF IInv, Types
  <1>3. PoolType' /\ Len(pool') = 0
    BY <1>1, EmptySeq, ConnectionsAllowed DEF PoolType
  <1>4. Types'
    BY <1>1, <1>2, <1>3 DEF IInv, Types, TaskType, ConnectionType, NetworkType
  <1>5. Fresh' = Fresh /\ SocketsKnown' /\ SocketsOwned' /\ KnownTask' /\ StoppedBy'
    BY <1>1, <1>2, QuietKeeps
  <1>6. LockHeld'
    BY <1>1, <1>2, <1>3, <1>5, ConnectionsAllowed DEF IInv, LockHeld
  <1>7. PoolOpened' /\ PoolBounded'
    BY <1>1, <1>2, <1>3, <1>5, ConnectionsAllowed DEF IInv, PoolOpened, PoolBounded
  <1>8. AskedOrOwed'
    BY <1>1, <1>2 DEF IInv, AskedOrOwed, Restores, Sends
  <1>9. QED BY <1>4, <1>5, <1>6, <1>7, <1>8 DEF IInv

LEMMA SentKeeps ==
    ASSUME IInv, NEW k \in Clients, subscription_sent(k)
    PROVE  IInv'
  <1> DEFINE s == client[k].sock
  <1>1. /\ client' = [client EXCEPT ![k] = idle] /\ client[k].pc = "send"
        /\ sent' = IF s \in open THEN [sent EXCEPT ![s] = @ \cup client[k].ids] ELSE sent
        /\ UNCHANGED <<websocket, connected, running, subs, attempts, processing_task, task,
                       open, lock, pool, round_robin>>
    BY DEF subscription_sent, ClientAt, connection, manager
  <1>2. /\ ClientType' /\ client'[k].pc = "idle"
        /\ \A j \in Clients : j # k => client'[j] = client[j]
    BY <1>1, ClientGoes, StatesOfClients DEF IInv, Types
  <1>3. s \in 1 .. Len(sent) /\ sent \in Seq(SUBSET SubIds)
    BY <1>1 DEF IInv, SocketsKnown, Busy, Types, NetworkType
  <1>4. client[k] \in ClientState
    BY DEF IInv, Types, ClientType
  <1>5. sent[s] \in SUBSET SubIds /\ client[k].ids \in SUBSET SubIds
    BY <1>3, <1>4, ElementOfSeq DEF ClientState
  <1>6. sent' = IF s \in open THEN [sent EXCEPT ![s] = sent[s] \cup client[k].ids] ELSE sent
    BY <1>1
  <1>7. sent[s] \cup client[k].ids \in SUBSET SubIds
    BY <1>5
  <1> HIDE DEF s
  <1>8. /\ sent' \in Seq(SUBSET SubIds) /\ Len(sent') = Len(sent)
        /\ s \in open => sent'[s] = sent[s] \cup client[k].ids
        /\ \A x \in 1 .. Len(sent) : sent[x] \subseteq sent'[x]
    BY <1>3, <1>6, <1>7, ExceptSeq
  <1>9. Types'
    BY <1>1, <1>2, <1>8 DEF IInv, Types, TaskType, ConnectionType, NetworkType, PoolType
  <1>10. Fresh' = Fresh /\ SocketsKnown' /\ SocketsOwned' /\ KnownTask' /\ StoppedBy'
    BY <1>1, <1>2, <1>8, QuietKeeps
  <1>11. LockHeld'
    BY <1>1, <1>2, <1>10 DEF IInv, LockHeld
  <1>12. PoolOpened' /\ PoolBounded'
    BY <1>1, <1>2, <1>10 DEF IInv, PoolOpened, PoolBounded
  <1>13. \A x \in open : sent[x] \subseteq sent'[x]
    BY <1>8 DEF IInv, SocketsKnown
  <1>14. AskedOrOwed'
    BY <1>1, <1>2, <1>8, <1>13 DEF IInv, AskedOrOwed, Restores, Sends, s
  <1>15. QED BY <1>9, <1>10, <1>11, <1>12, <1>14 DEF IInv

LEMMA UnsentKeeps ==
    ASSUME IInv, NEW k \in Clients, unsubscription_sent(k)
    PROVE  IInv'
  <1> DEFINE s == client[k].sock
  <1>1. /\ client' = [client EXCEPT ![k] = idle] /\ client[k].pc = "unsend"
        /\ lock' = NoClient
        /\ sent' = IF s \in open THEN [sent EXCEPT ![s] = @ \ client[k].ids] ELSE sent
        /\ UNCHANGED <<websocket, connected, running, subs, attempts, processing_task, task,
                       open, pool, round_robin>>
    BY DEF unsubscription_sent, ClientAt, connection
  <1>2. /\ ClientType' /\ client'[k].pc = "idle"
        /\ \A j \in Clients : j # k => client'[j] = client[j]
    BY <1>1, ClientGoes, StatesOfClients DEF IInv, Types
  <1>3. s \in 1 .. Len(sent) /\ sent \in Seq(SUBSET SubIds)
    BY <1>1 DEF IInv, SocketsKnown, Busy, Types, NetworkType
  <1>4. sent[s] \ client[k].ids \in SUBSET SubIds
    BY <1>3, ElementOfSeq
  <1>5. sent' = IF s \in open THEN [sent EXCEPT ![s] = sent[s] \ client[k].ids] ELSE sent
    BY <1>1
  <1>6. \A c \in Conns : websocket[c] = s => client[k].ids \cap subs[c] = {}
    BY <1>1 DEF IInv, SocketsOwned, LockHeld, Busy
  <1> HIDE DEF s
  <1>7. /\ sent' \in Seq(SUBSET SubIds) /\ Len(sent') = Len(sent)
        /\ \A x \in 1 .. Len(sent) :
              sent'[x] = sent[x] \/ (x = s /\ sent'[x] = sent[x] \ client[k].ids)
    BY <1>3, <1>4, <1>5, ExceptSeq
  <1>8. Types'
    BY <1>1, <1>2, <1>7 DEF IInv, Types, TaskType, ConnectionType, NetworkType, PoolType
  <1>9. Fresh' = Fresh /\ SocketsKnown' /\ SocketsOwned' /\ KnownTask' /\ StoppedBy'
    BY <1>1, <1>2, <1>7, QuietKeeps
  <1>10. LockHeld'
    BY <1>1, <1>2, <1>9 DEF IInv, LockHeld
  <1>11. PoolOpened' /\ PoolBounded'
    BY <1>1, <1>2, <1>9 DEF IInv, PoolOpened, PoolBounded
  <1>12. \A c \in Conns, i \in SubIds :
            websocket[c] \in open /\ i \in subs[c] /\ i \in sent[websocket[c]] =>
               i \in sent'[websocket[c]]
    BY <1>6, <1>7 DEF IInv, SocketsKnown
  <1>13. \A c \in Conns : subs[c] \subseteq SubIds
    BY DEF IInv, Types, ConnectionType
  <1>14. AskedOrOwed'
    BY <1>1, <1>2, <1>12, <1>13 DEF IInv, AskedOrOwed, Restores, Sends
  <1>15. QED BY <1>8, <1>9, <1>10, <1>11, <1>14 DEF IInv

LEMMA SubscribeOnKeeps ==
    ASSUME IInv, NEW k \in Clients, client[k].pc = "idle", lock = NoClient,
           NEW c \in Conns, c \notin Fresh, NEW id \in SubIds, subscribe_on(k, c, id),
           round_robin' \in 0 .. max_connections - 1,
           UNCHANGED <<websocket, connected, running, attempts, processing_task, task,
                       open, sent, pool, lock>>
    PROVE  IInv'
  <1> DEFINE message == [pc |-> "send", conn |-> c, ids |-> {id}, sock |-> websocket[c]]
  <1>1. \/ client' = [client EXCEPT ![k] = idle] /\ subs' = subs
        \/ /\ subs' = [subs EXCEPT ![c] = @ \cup {id}]
           /\ client' = [client EXCEPT ![k] =
                           IF connected[c] /\ websocket[c] # 0 THEN message ELSE idle]
    BY DEF subscribe_on
  <1>2. /\ message \in ClientState /\ message.pc = "send" /\ message.conn = c
        /\ message.ids = {id} /\ message.sock = websocket[c]
    BY StatesOfClients DEF IInv, Types, ConnectionType, ClientPcs
  <1>3. idle \in ClientState /\ idle.pc = "idle"
    BY StatesOfClients
  <1>4. subs \in [Conns -> SUBSET SubIds]
    BY DEF IInv, Types, ConnectionType
  <1> HIDE DEF message
  <1>5. \/ /\ client' = [client EXCEPT ![k] = idle] /\ subs' = subs
        \/ /\ subs' = [subs EXCEPT ![c] = @ \cup {id}]
           /\ client' = [client EXCEPT ![k] = idle]
           /\ ~(connected[c] /\ websocket[c] # 0)
        \/ /\ subs' = [subs EXCEPT ![c] = @ \cup {id}]
           /\ client' = [client EXCEPT ![k] = message]
           /\ connected[c] /\ websocket[c] # 0
    BY <1>1
  <1>6. /\ ClientType'
        /\ \A j \in Clients : j # k => client'[j] = client[j]
        /\ \/ client'[k] = idle /\ subs' = subs
           \/ /\ client'[k] = idle /\ subs' = [subs EXCEPT ![c] = @ \cup {id}]
              /\ ~(connected[c] /\ websocket[c] # 0)
           \/ /\ client'[k] = message /\ subs' = [subs EXCEPT ![c] = @ \cup {id}]
              /\ connected[c] /\ websocket[c] # 0
    BY <1>2, <1>3, <1>5, ClientGoes DEF IInv, Types
  <1>7. /\ subs' \in [Conns -> SUBSET SubIds]
        /\ \A d \in Conns : d # c => subs'[d] = subs[d]
        /\ subs'[c] = subs[c] \/ subs'[c] = subs[c] \cup {id}
    BY <1>4, <1>6
  <1>8. client'[k].pc = "idle" \/ (client'[k] = message /\ websocket[c] # 0)
    BY <1>3, <1>6
  <1>9. Types'
    BY <1>6, <1>7 DEF IInv, Types, TaskType, ConnectionType, NetworkType, PoolType
  <1>10. Fresh' = Fresh
    BY DEF Fresh, Tasks
  <1>11. SocketsKnown'
    <2>1. websocket[c] # 0 => websocket[c] \in 1 .. Len(sent)
      <3>1. websocket[c] \in Nat /\ websocket[c] <= Len(sent) /\ Len(sent) \in Nat
        BY LenProperties DEF IInv, SocketsKnown, Types, ConnectionType, NetworkType
      <3>2. QED BY <3>1
    <2>2. client'[k].pc \notin {"cancelled", "closed"}
      BY <1>2, <1>8
    <2>3. Busy(k)' => client'[k].sock \in 1 .. Len(sent) /\ client'[k].conn \in Conns
      BY <1>2, <1>8, <2>1 DEF Busy
    <2>4. QED BY <1>6, <2>2, <2>3 DEF IInv, SocketsKnown, Busy
  <1>12. SocketsOwned'
    BY <1>2, <1>6, <1>8 DEF IInv, SocketsOwned, Busy
  <1>13. LockHeld'
    BY <1>2, <1>6, <1>8, NoClientIsNone DEF IInv, LockHeld
  <1>14. PoolOpened' /\ PoolBounded'
    <2>1. \A d \in Fresh : d \in Conns /\ d # c
      BY DEF Fresh
    <2>2. \A d \in Fresh' : subs'[d] = {}
      BY <1>7, <1>10, <2>1 DEF IInv, PoolOpened
    <2>3. \A j \in Clients : client'[j].pc = "send" => client'[j].conn \notin Fresh'
      BY <1>2, <1>6, <1>8, <1>10 DEF IInv, PoolOpened
    <2>4. QED BY <1>10, <2>2, <2>3 DEF IInv, PoolOpened, PoolBounded
  <1>15. KnownTask' /\ StoppedBy'
    <2>1. KnownTask'
      BY DEF IInv, KnownTask
    <2>2. StoppedBy'
      BY <1>6 DEF IInv, StoppedBy
    <2>3. QED BY <2>1, <2>2
  <1>16. AskedOrOwed'
    <2> SUFFICES ASSUME NEW d \in Conns, connected[d], websocket[d] \in open, NEW i \in subs'[d]
                 PROVE  \/ i \in sent[websocket[d]]
                        \/ \E t \in 1 .. Len(task) : Restores(t, d, i)
                        \/ \E j \in Clients : Sends(j, d, i)'
      BY DEF AskedOrOwed, Restores
    <2>1. CASE i \in subs[d]
      <3>1. ASSUME NEW j \in Clients, Sends(j, d, i)
            PROVE  Sends(j, d, i)'
        BY <1>6, <3>1 DEF Sends
      <3>2. QED BY <2>1, <3>1 DEF IInv, AskedOrOwed
    <2>2. CASE i \notin subs[d]
      <3>1. d = c /\ i = id /\ subs' # subs
        BY <1>7, <2>2
      <3>2. websocket[d] # 0
        BY DEF IInv, SocketsKnown
      <3>3. client'[k] = message
        BY <1>6, <3>1, <3>2
      <3>4. Sends(k, d, i)'
        BY <1>2, <3>1, <3>3 DEF Sends
      <3>5. QED BY <3>4
    <2>3. QED BY <2>1, <2>2
  <1>17. QED
    BY <1>9, <1>11, <1>12, <1>13, <1>14, <1>15, <1>16 DEF IInv

LEMMA SubscribeKeeps ==
    ASSUME IInv, NEW k \in Clients, subscribe(k)
    PROVE  IInv'
  <1>1. PICK id \in SubIds : get_connection(k, id)
    BY DEF subscribe
  <1>2. /\ client[k].pc = "idle" /\ lock = NoClient
        /\ UNCHANGED <<websocket, connected, running, attempts, processing_task, task,
                       open, sent, pool>>
    BY DEF subscribe, ClientAt, network
  <1>3. /\ pool \in Seq(Conns) /\ DOMAIN pool = 1 .. Len(pool) /\ Len(pool) \in Nat
        /\ round_robin \in 0 .. max_connections - 1 /\ max_connections \in Nat \ {0}
    BY LenProperties, ConnectionsAllowed DEF IInv, Types, PoolType
  <1>4. \A n \in 1 .. Len(pool) : pool[n] \in Conns /\ pool[n] \notin Fresh
    BY <1>3, ElementOfSeq DEF IInv, PoolOpened
  <1>5. CASE \E n \in DOMAIN pool :
               /\ IsFirst(n, Usable) /\ subscribe_on(k, pool[n], id)
               /\ UNCHANGED <<round_robin, lock>>
    BY <1>2, <1>3, <1>4, <1>5, SubscribeOnKeeps
  <1>6. CASE Len(pool) >= max_connections /\ next_in_turn(k, id)
    <2>1. round_robin + 1 \in 1 .. Len(pool)
      BY <1>3, <1>6
    <2>2. (round_robin + 1) % max_connections \in 0 .. max_connections - 1
      BY <1>3
    <2>3. /\ subscribe_on(k, pool[round_robin + 1], id) /\ lock' = lock
          /\ round_robin' = (round_robin + 1) % max_connections
      BY <1>6 DEF next_in_turn
    <2>4. pool[round_robin + 1] \in Conns /\ pool[round_robin + 1] \notin Fresh
      BY <1>4, <2>1
    <2>5. QED BY <1>2, <2>2, <2>3, <2>4, SubscribeOnKeeps
  <1>7. CASE /\ Len(pool) < max_connections /\ Fresh # {} /\ lock' = k
             /\ client' = [client EXCEPT ![k] =
                  [pc |-> "connect", conn |-> NewOf(Fresh), ids |-> {id}, sock |-> 0]]
             /\ UNCHANGED <<subs, count, round_robin>>
    <2> DEFINE state == [pc |-> "connect", conn |-> NewOf(Fresh), ids |-> {id}, sock |-> 0]
    <2>1. NewOf(Fresh) \in Fresh
      BY <1>7 DEF NewOf
    <2>2. NewOf(Fresh) \in Conns /\ 0 \in Nat /\ "connect" \in ClientPcs
      BY <2>1 DEF Fresh, ClientPcs
    <2>3. state \in ClientState /\ state.pc = "connect" /\ state.conn \in Fresh
      BY <2>1, <2>2, StatesOfClients
    <2>4. client' = [client EXCEPT ![k] = state]
      BY <1>7
    <2> HIDE DEF state
    <2>5. /\ ClientType' /\ client'[k] = state
          /\ \A j \in Clients : j # k => client'[j] = client[j]
      BY <2>3, <2>4, ClientGoes DEF IInv, Types
    <2>6. client'[k].pc = "connect" /\ client'[k].conn \in Fresh
      BY <2>3, <2>5
    <2>7. Types'
      BY <1>2, <1>7, <2>5 DEF IInv, Types, TaskType, ConnectionType, NetworkType, PoolType
    <2>8. Fresh' = Fresh /\ SocketsKnown' /\ SocketsOwned' /\ KnownTask' /\ StoppedBy'
      BY <1>2, <2>5, <2>6, QuietKeeps
    <2>9. LockHeld'
      BY <1>2, <1>7, <2>5, <2>6, <2>8, NoClientIsNone DEF IInv, LockHeld
    <2>10. PoolOpened' /\ PoolBounded'
      BY <1>2, <1>7, <2>5, <2>6, <2>8 DEF IInv, PoolOpened, PoolBounded
    <2>11. AskedOrOwed'
      BY <1>2, <1>7, <2>5 DEF IInv, AskedOrOwed, Restores, Sends
    <2>12. QED BY <2>7, <2>8, <2>9, <2>10, <2>11 DEF IInv
  <1>8. QED BY <1>1, <1>5, <1>6, <1>7 DEF get_connection

LEMMA UnsubscribeKeeps ==
    ASSUME IInv, NEW k \in Clients, unsubscribe(k)
    PROVE  IInv'
  <1>1. PICK id \in SubIds, n \in DOMAIN pool :
           /\ IsFirst(n, Holding(id))
           /\ subs' = [subs EXCEPT ![pool[n]] = @ \ {id}]
           /\ IF connected[pool[n]] /\ websocket[pool[n]] # 0
              THEN /\ lock' = k
                   /\ client' = [client EXCEPT ![k] =
                        [pc |-> "unsend", conn |-> pool[n], ids |-> {id},
                         sock |-> websocket[pool[n]]]]
              ELSE UNCHANGED <<lock, client>>
    BY DEF unsubscribe
  <1>2. /\ client[k].pc = "idle" /\ lock = NoClient
        /\ UNCHANGED <<websocket, connected, running, attempts, processing_task, task,
                       open, sent, pool, round_robin>>
    BY DEF unsubscribe, ClientAt, network
  <1> DEFINE c == pool[n]
             message == [pc |-> "unsend", conn |-> c, ids |-> {id}, sock |-> websocket[c]]
  <1>3. c \in Conns /\ c \notin Fresh
    <2>1. pool \in Seq(Conns)
      BY DEF IInv, Types, PoolType
    <2>2. n \in 1 .. Len(pool)
      BY <2>1, LenProperties
    <2>3. QED BY <2>1, <2>2, ElementOfSeq DEF IInv, PoolOpened
  <1>4. /\ websocket \in [Conns -> Nat] /\ subs \in [Conns -> SUBSET SubIds]
        /\ client \in [Clients -> ClientState]
    BY DEF IInv, Types, ConnectionType, ClientType
  <1>5. /\ message \in ClientState /\ message.pc = "unsend" /\ message.conn = c
        /\ message.ids = {id} /\ message.sock = websocket[c]
    BY <1>3, <1>4, StatesOfClients DEF ClientPcs
  <1>6. /\ subs' = [subs EXCEPT ![c] = @ \ {id}]
        /\ \/ /\ websocket[c] # 0 /\ lock' = k
              /\ client' = [client EXCEPT ![k] = message]
           \/ lock' = lock /\ client' = client
    BY <1>1
  <1> HIDE DEF message, c
  <1>7. /\ subs' \in [Conns -> SUBSET SubIds] /\ subs'[c] = subs[c] \ {id}
        /\ \A d \in Conns : subs'[d] \subseteq subs[d]
    BY <1>3, <1>4, <1>6
  <1>8. /\ ClientType' /\ \A j \in Clients : j # k => client'[j] = client[j]
        /\ \/ websocket[c] # 0 /\ lock' = k /\ client'[k] = message
           \/ lock' = lock /\ client'[k].pc = "idle"
    BY <1>2, <1>4, <1>5, <1>6, ClientGoes DEF ClientType
  <1>9. Types'
    BY <1>2, <1>7, <1>8 DEF IInv, Types, TaskType, ConnectionType, NetworkType, PoolType
  <1>10. Fresh' = Fresh
    BY <1>2 DEF Fresh, Tasks
  <1>11. SocketsKnown'
    <2>1. websocket[c] # 0 => websocket[c] \in 1 .. Len(sent)
      <3>1. websocket[c] \in Nat /\ websocket[c] <= Len(sent) /\ Len(sent) \in Nat
        BY <1>3, LenProperties DEF IInv, SocketsKnown, Types, ConnectionType, NetworkType
      <3>2. QED BY <3>1
    <2>2. client'[k].pc \notin {"cancelled", "closed"}
      BY <1>5, <1>8
    <2>3. Busy(k)' => client'[k].sock \in 1 .. Len(sent) /\ client'[k].conn \in Conns
      BY <1>3, <1>5, <1>8, <2>1 DEF Busy
    <2>4. QED BY <1>2, <1>8, <2>2, <2>3 DEF IInv, SocketsKnown, Busy
  <1>12. SocketsOwned'
    <2>1. \A d \in Conns : Busy(k)' /\ websocket[d] = client'[k].sock => d = client'[k].conn
      BY <1>3, <1>5, <1>8 DEF IInv, SocketsOwned, Busy
    <2>2. QED BY <1>2, <1>8, <2>1 DEF IInv, SocketsOwned, Busy
  <1>13. LockHeld'
    <2>1. \A j \in Clients : client[j].pc \notin {"connect", "unsend"}
      BY <1>2, NoClientIsNone DEF IInv, LockHeld
    <2>2. client'[k].pc = "unsend" => /\ lock' = k
                                      /\ client'[k].ids \cap subs'[client'[k].conn] = {}
      BY <1>5, <1>7, <1>8
    <2>3. client'[k].pc # "connect"
      BY <1>5, <1>8
    <2>4. QED BY <1>8, <2>1, <2>2, <2>3 DEF LockHeld
  <1>14. PoolOpened' /\ PoolBounded'
    <2>1. \A d \in Fresh' : subs'[d] = {}
      BY <1>7, <1>10 DEF IInv, PoolOpened, Fresh
    <2>2. client'[k].pc # "send"
      BY <1>5, <1>8
    <2>3. QED BY <1>2, <1>8, <1>10, <2>1, <2>2 DEF IInv, PoolOpened, PoolBounded
  <1>15. KnownTask'
    BY <1>2 DEF IInv, KnownTask
  <1>16. StoppedBy'
    BY <1>2, <1>8 DEF IInv, StoppedBy
  <1>17. AskedOrOwed'
    <2> SUFFICES ASSUME NEW d \in Conns, connected[d], websocket[d] \in open, NEW i \in subs'[d]
                 PROVE  \/ i \in sent[websocket[d]]
                        \/ \E t \in 1 .. Len(task) : Restores(t, d, i)
                        \/ \E j \in Clients : Sends(j, d, i)'
      BY <1>2 DEF AskedOrOwed, Restores
    <2>1. i \in subs[d]
      BY <1>7
    <2>2. ASSUME NEW j \in Clients, Sends(j, d, i)
          PROVE  Sends(j, d, i)'
      BY <1>2, <1>8, <2>2 DEF Sends
    <2>3. QED BY <2>1, <2>2 DEF IInv, AskedOrOwed
  <1>18. QED
    BY <1>9, <1>11, <1>12, <1>13, <1>14, <1>15, <1>16, <1>17 DEF IInv

(* Only the task known as _processing_task ends, and never one that has    *)
(* subscriptions to restore.                                               *)
LEMMA DisconnectKeeps ==
    ASSUME IInv, NEW k \in Clients, disconnect(k)
    PROVE  IInv'
  <1> DEFINE n == client[k].sock + 1
             c == pool[n]
             t == processing_task[c]
             next == [pc |-> "cancelled", conn |-> c, ids |-> {}, sock |-> client[k].sock]
             raises == t # 0 /\ task[t].pc = "died"
  <1>1. /\ client[k].pc = "closing" /\ client[k].sock < Len(pool)
        /\ running' = [running EXCEPT ![c] = FALSE]
        /\ processing_task' = [processing_task EXCEPT ![c] = 0]
        /\ task' = IF t = 0 \/ task[t].pc = "died" THEN task ELSE Goto(t, "done")
        /\ client' = [client EXCEPT ![k] = IF raises THEN idle ELSE next]
        /\ UNCHANGED <<websocket, connected, subs, attempts, open, sent, pool, round_robin, lock>>
    BY DEF disconnect, ClientAt, network, manager
  <1>2. client[k].sock \in Nat
    BY DEF IInv, Types, ClientType, ClientState
  <1>3. c \in Conns
    <2>1. pool \in Seq(Conns) /\ Len(pool) \in Nat
      BY LenProperties DEF IInv, Types, PoolType
    <2>2. n \in 1 .. Len(pool)
      BY <1>1, <1>2, <2>1
    <2>3. QED BY <2>1, <2>2, ElementOfSeq
  <1>4. /\ next \in ClientState /\ next.pc = "cancelled" /\ next.conn = c
        /\ idle \in ClientState /\ idle.pc = "idle"
    BY <1>2, <1>3, StatesOfClients
  <1> HIDE DEF next, n, c
  <1>5. /\ t # 0 => /\ t \in 1 .. Len(task) /\ task[t].conn = c /\ task[t].pc # "restore"
        /\ c = pool[n] /\ t = processing_task[c]
    BY <1>3 DEF IInv, KnownTask, c
  <1>6. /\ Len(task') = Len(task) /\ TaskType'
        /\ \A u \in 1 .. Len(task) :
              \/ task'[u] = task[u]
              \/ /\ u = t /\ t # 0 /\ task[t].pc # "died" /\ task[t].pc # "restore"
                 /\ task[t].conn = c /\ task'[u].conn = c /\ task'[u].pc = "done"
    <2>1. CASE t = 0 \/ task[t].pc = "died"
      BY <1>1, <2>1 DEF IInv, Types, TaskType
    <2>2. CASE ~(t = 0 \/ task[t].pc = "died")
      <3>1. /\ task' = Becomes(t, "done", 0, {}, 0) /\ t \in 1 .. Len(task)
            /\ "done" \in TaskPcs /\ 0 \in Nat /\ {} \in SUBSET SubIds /\ 0 \in Sizes
        BY <1>1, <1>5, <2>2 DEF Goto, TaskPcs, Sizes
      <3>2. OnlyTask(t) /\ task'[t].pc = "done"
        BY <3>1, TaskMoves DEF IInv
      <3>3. QED BY <1>5, <2>2, <3>2 DEF OnlyTask
    <2>3. QED BY <2>1, <2>2
  <1>7. /\ running' \in [Conns -> BOOLEAN] /\ ~running'[c]
        /\ \A d \in Conns : d # c => running'[d] = running[d]
    BY <1>1, <1>3, Zenon DEF IInv, Types, ConnectionType
  <1>8. /\ processing_task' \in [Conns -> Nat] /\ processing_task'[c] = 0
        /\ \A d \in Conns : d # c => processing_task'[d] = processing_task[d]
    BY <1>1, <1>3 DEF IInv, Types, ConnectionType
  <1> HIDE DEF raises
  <1>9. \/ client' = [client EXCEPT ![k] = idle] /\ raises
        \/ client' = [client EXCEPT ![k] = next] /\ ~raises
    BY <1>1
  <1>10. /\ ClientType' /\ \A j \in Clients : j # k => client'[j] = client[j]
         /\ \/ client'[k].pc = "idle" /\ t # 0 /\ task[t].pc = "died"
            \/ client'[k].pc = "cancelled" /\ client'[k].conn = c
    BY <1>4, <1>9, ClientGoes DEF IInv, Types, raises
  <1> HIDE DEF t
  <1>11. Types'
    BY <1>1, <1>6, <1>7, <1>8, <1>10 DEF IInv, Types, ConnectionType, NetworkType, PoolType
  <1>12. Fresh' = Fresh
    <2>1. TaskType /\ Len(task) \in Nat
      BY LenProperties DEF IInv, Types, TaskType
    <2>2. \A u \in 1 .. Len(task) : task'[u].conn = task[u].conn
      BY <1>6
    <2>3. Len(task) <= Len(task')
      BY <1>6, <2>1
    <2>4. QED BY <1>6, <2>1, <2>2, <2>3, FreshFacts
  <1>13. SocketsKnown' /\ SocketsOwned'
    <2>1. ~Busy(k)' /\ (client'[k].pc \in {"cancelled", "closed"} => client'[k].conn \in Conns)
      BY <1>3, <1>10 DEF Busy
    <2>2. SocketsKnown'
      BY <1>1, <1>10, <2>1 DEF IInv, SocketsKnown, Busy
    <2>3. SocketsOwned'
      BY <1>1, <1>10, <2>1 DEF IInv, SocketsOwned, Busy
    <2>4. QED BY <2>2, <2>3
  <1>14. LockHeld' /\ PoolOpened' /\ PoolBounded'
    <2>1. client'[k].pc \notin {"connect", "unsend", "send"}
      BY <1>10
    <2>2. LockHeld'
      BY <1>1, <1>10, <1>12, <2>1 DEF IInv, LockHeld
    <2>3. PoolOpened'
      BY <1>1, <1>10, <1>12, <2>1 DEF IInv, PoolOpened
    <2>4. QED BY <1>1, <2>2, <2>3 DEF IInv, PoolBounded
  <1>15. KnownTask'
    <2> SUFFICES ASSUME NEW d \in Conns, d # c
                 PROVE  LET u == processing_task[d]
                        IN  /\ u # 0 =>
                                 /\ u \in 1 .. Len(task') /\ task'[u].conn = d
                                 /\ task'[u].pc # "restore"
                                 /\ task'[u].pc \in {"closing", "sleep", "connecting"} =>
                                       ~connected[d]
                            /\ running[d] => u # 0 /\ task'[u].pc # "done"
      BY <1>1, <1>7, <1>8 DEF KnownTask
    <2>1. processing_task[d] # 0 =>
             /\ processing_task[d] \in 1 .. Len(task) /\ task[processing_task[d]].conn = d
             /\ task'[processing_task[d]] = task[processing_task[d]]
      BY <1>6 DEF IInv, KnownTask
    <2>2. QED BY <1>6, <2>1 DEF IInv, KnownTask
  <1>16. StoppedBy'
    <2> SUFFICES ASSUME NEW d \in Conns, connected[d], ~running'[d]
                 PROVE  \/ ~(attempts[d] < max_reconnect_attempts)
                        \/ \E u \in 1 .. Len(task') : task'[u].conn = d /\ task'[u].pc = "died"
                        \/ \E j \in Clients : client'[j].conn = d
                                              /\ client'[j].pc \in {"cancelled", "closed"}
      BY <1>1 DEF StoppedBy
    <2>1. CASE d = c
      <3>1. CASE t # 0 /\ task[t].pc = "died"
        BY <1>5, <1>6, <2>1, <3>1
      <3>2. CASE client'[k].pc = "cancelled" /\ client'[k].conn = c
        BY <2>1, <3>2
      <3>3. QED BY <1>10, <3>1, <3>2
    <2>2. CASE d # c
      <3>1. ~running[d]
        BY <1>7, <2>2
      <3>2. CASE \E u \in 1 .. Len(task) : task[u].conn = d /\ task[u].pc = "died"
        BY <1>6, <2>2, <3>2
      <3>3. CASE \E j \in Clients : client[j].conn = d /\ client[j].pc \in {"cancelled", "closed"}
        BY <1>1, <1>10, <3>3
      <3>4. QED BY <3>1, <3>2, <3>3 DEF IInv, StoppedBy
    <2>3. QED BY <2>1, <2>2
  <1>17. AskedOrOwed'
    <2>1. ASSUME NEW u \in 1 .. Len(task), NEW d, NEW i, Restores(u, d, i)
          PROVE  u \in 1 .. Len(task') /\ Restores(u, d, i)'
      BY <1>1, <1>6, <2>1 DEF Restores
    <2>2. ASSUME NEW j \in Clients, NEW d, NEW i, Sends(j, d, i)
          PROVE  Sends(j, d, i)'
      BY <1>1, <1>10, <2>2 DEF Sends
    <2>3. QED BY <1>1, <2>1, <2>2 DEF IInv, AskedOrOwed
  <1>18. QED
    BY <1>11, <1>13, <1>14, <1>15, <1>16, <1>17 DEF IInv

LEMMA CancelledKeeps ==
    ASSUME IInv, NEW k \in Clients, cancelled(k)
    PROVE  IInv'
  <1> DEFINE c == client[k].conn
             next == [client[k] EXCEPT !.pc = "closed"]
  <1>1. /\ client[k].pc = "cancelled"
        /\ websocket' = [websocket EXCEPT ![c] = 0]
        /\ close_socket(websocket[c])
        /\ client' = [client EXCEPT ![k] = next]
        /\ UNCHANGED <<connected, running, subs, attempts, processing_task, task,
                       pool, round_robin, lock>>
    BY DEF cancelled, ClientAt, manager
  <1>2. c \in Conns
    BY <1>1 DEF IInv, SocketsKnown
  <1>3. /\ NetworkType /\ websocket \in [Conns -> Nat] /\ client[k] \in ClientState
        /\ "closed" \in ClientPcs
    BY DEF IInv, Types, ConnectionType, ClientType, ClientPcs
  <1>4. next \in ClientState /\ next.pc = "closed" /\ next.conn = c
    BY <1>3, StatesOfClients
  <1> HIDE DEF next
  <1>5. websocket[c] \in Nat
    BY <1>2, <1>3
  <1>6. /\ NetworkType' /\ Len(sent') = Len(sent) /\ open' = open \ {websocket[c]}
        /\ \A x \in 1 .. Len(sent) : x # websocket[c] => sent'[x] = sent[x]
    BY <1>1, <1>3, <1>5, CloseFacts
  <1>7. /\ websocket' \in [Conns -> Nat] /\ websocket'[c] = 0
        /\ \A d \in Conns : d # c => websocket'[d] = websocket[d]
    BY <1>1, <1>2, <1>3
  <1>8. /\ ClientType' /\ client'[k].pc = "closed" /\ client'[k].conn = c
        /\ \A j \in Clients : j # k => client'[j] = client[j]
    BY <1>1, <1>4, ClientGoes DEF IInv, Types
  <1> HIDE DEF c
  <1>9. Types'
    BY <1>1, <1>6, <1>7, <1>8 DEF IInv, Types, TaskType, ConnectionType, PoolType
  <1>10. Fresh' = Fresh
    BY <1>1 DEF Fresh, Tasks
  <1>11. SocketsKnown'
    BY <1>2, <1>6, <1>7, <1>8 DEF IInv, SocketsKnown, Busy
  <1>12. SocketsOwned'
    BY <1>7, <1>8 DEF IInv, SocketsKnown, SocketsOwned, Busy
  <1>13. LockHeld'
    BY <1>1, <1>8, <1>10 DEF IInv, LockHeld
  <1>14. PoolOpened' /\ PoolBounded'
    BY <1>1, <1>8, <1>10 DEF IInv, PoolOpened, PoolBounded
  <1>15. KnownTask'
    BY <1>1 DEF IInv, KnownTask
  <1>16. StoppedBy'
    <2>1. ASSUME NEW d \in Conns, NEW j \in Clients, client[j].conn = d,
                 client[j].pc \in {"cancelled", "closed"}
          PROVE  client'[j].conn = d /\ client'[j].pc \in {"cancelled", "closed"}
      BY <1>8, <2>1 DEF c
    <2>2. QED BY <1>1, <2>1 DEF IInv, StoppedBy
  <1>17. \A x \in open' : x \in 1 .. Len(sent) /\ sent'[x] = sent[x] /\ x \in open
    BY <1>6 DEF IInv, SocketsKnown
  <1>18. AskedOrOwed'
    <2> SUFFICES ASSUME NEW d \in Conns, connected[d], websocket'[d] \in open', NEW i \in subs[d]
                 PROVE  \/ i \in sent'[websocket'[d]]
                        \/ \E u \in 1 .. Len(task) : Restores(u, d, i)'
                        \/ \E j \in Clients : Sends(j, d, i)'
      BY <1>1 DEF AskedOrOwed
    <2>1. websocket'[d] = websocket[d] /\ websocket[d] \in open
      <3>1. websocket'[d] # 0
        BY <1>17
      <3>2. QED BY <1>7, <1>17, <3>1
    <2>2. CASE i \in sent[websocket[d]]
      BY <1>17, <2>1, <2>2
    <2>3. CASE \E j \in Clients : Sends(j, d, i)
      BY <1>1, <1>8, <2>1, <2>3 DEF Sends
    <2>4. CASE \E u \in 1 .. Len(task) : Restores(u, d, i)
      <3>1. PICK u \in 1 .. Len(task) : Restores(u, d, i)
        BY <2>4
      <3>2. Restores(u, d, i)'
        BY <1>1, <2>1, <3>1 DEF Restores
      <3>3. QED BY <1>1, <3>2
    <2>5. QED BY <2>1, <2>2, <2>3, <2>4 DEF IInv, AskedOrOwed
  <1>19. QED
    BY <1>9, <1>11, <1>12, <1>13, <1>14, <1>15, <1>16, <1>18 DEF IInv

LEMMA DisconnectedKeeps ==
    ASSUME IInv, NEW k \in Clients, disconnected(k)
    PROVE  IInv'
  <1> DEFINE c == client[k].conn
             next == [pc |-> "closing", conn |-> 0, ids |-> {}, sock |-> client[k].sock + 1]
  <1>1. /\ client[k].pc = "closed"
        /\ connected' = [connected EXCEPT ![c] = FALSE]
        /\ client' = [client EXCEPT ![k] = next]
        /\ UNCHANGED <<websocket, running, subs, attempts, processing_task, task,
                       open, sent, pool, round_robin, lock>>
    BY DEF disconnected, ClientAt, network, manager
  <1>2. c \in Conns
    BY <1>1 DEF IInv, SocketsKnown
  <1>3. client[k].sock + 1 \in Nat
    BY DEF IInv, Types, ClientType, ClientState
  <1>4. next \in ClientState /\ next.pc = "closing"
    BY <1>3, StatesOfClients
  <1> HIDE DEF next
  <1>5. /\ connected' \in [Conns -> BOOLEAN] /\ ~connected'[c]
        /\ \A d \in Conns : d # c => connected'[d] = connected[d]
    BY <1>1, <1>2, Zenon DEF IInv, Types, ConnectionType
  <1>6. /\ ClientType' /\ client'[k].pc = "closing"
        /\ \A j \in Clients : j # k => client'[j] = client[j]
    BY <1>1, <1>4, ClientGoes DEF IInv, Types
  <1> HIDE DEF c
  <1>7. Types'
    BY <1>1, <1>5, <1>6 DEF IInv, Types, TaskType, ConnectionType, NetworkType, PoolType
  <1>8. Fresh' = Fresh
    BY <1>1 DEF Fresh, Tasks
  <1>9. SocketsKnown' /\ SocketsOwned'
    BY <1>1, <1>6 DEF IInv, SocketsKnown, SocketsOwned, Busy
  <1>10. LockHeld'
    BY <1>1, <1>6, <1>8 DEF IInv, LockHeld
  <1>11. PoolOpened' /\ PoolBounded'
    BY <1>1, <1>6, <1>8 DEF IInv, PoolOpened, PoolBounded
  <1>12. KnownTask'
    BY <1>1, <1>5 DEF IInv, KnownTask
  <1>13. StoppedBy'
    <2>1. ASSUME NEW d \in Conns, d # c, NEW j \in Clients, client[j].conn = d,
                 client[j].pc \in {"cancelled", "closed"}
          PROVE  client'[j].conn = d /\ client'[j].pc \in {"cancelled", "closed"}
      BY <1>6, <2>1 DEF c
    <2>2. QED BY <1>1, <1>5, <2>1 DEF IInv, StoppedBy
  <1>14. AskedOrOwed'
    BY <1>1, <1>5, <1>6 DEF IInv, AskedOrOwed, Restores, Sends
  <1>15. QED
    BY <1>7, <1>9, <1>10, <1>11, <1>12, <1>13, <1>14 DEF IInv

(* The network closes a socket. *)
LEMMA LostKeeps ==
    ASSUME IInv, socket_lost
    PROVE  IInv'
  <1>1. PICK s \in open : close_socket(s)
    BY DEF socket_lost
  <1>2. UNCHANGED <<websocket, connected, running, subs, attempts, processing_task, task,
                    client, pool, round_robin, lock>>
    BY DEF socket_lost, connection, manager
  <1>3. NetworkType /\ s \in Nat
    BY DEF IInv, Types, NetworkType
  <1>4. /\ NetworkType' /\ Len(sent') = Len(sent) /\ open' = open \ {s}
        /\ \A x \in 1 .. Len(sent) : x # s => sent'[x] = sent[x]
    BY <1>1, <1>3, CloseFacts
  <1>5. \A x \in open' : x \in open /\ x \in 1 .. Len(sent) /\ sent'[x] = sent[x]
    BY <1>4 DEF IInv, SocketsKnown
  <1>6. Types'
    BY <1>2, <1>4 DEF IInv, Types, TaskType, ClientType, ConnectionType, PoolType
  <1>7. SocketsKnown' /\ SocketsOwned'
    BY <1>2, <1>4, <1>5 DEF IInv, SocketsKnown, SocketsOwned, Busy
  <1>8. LockHeld' /\ PoolOpened' /\ PoolBounded'
    BY <1>2 DEF IInv, LockHeld, PoolOpened, PoolBounded, Fresh, Tasks
  <1>9. KnownTask' /\ StoppedBy'
    BY <1>2 DEF IInv, KnownTask, StoppedBy
  <1>10. AskedOrOwed'
    BY <1>2, <1>5 DEF IInv, AskedOrOwed, Restores, Sends
  <1>11. QED BY <1>6, <1>7, <1>8, <1>9, <1>10 DEF IInv

(* The new connection is of nobody else: the lock has been held since the  *)
(* object was made.                                                        *)
LEMMA ConnectionMadeKeeps ==
    ASSUME IInv, NEW k \in Clients, connection_made(k)
    PROVE  IInv'
  <1> DEFINE c == client[k].conn
             new == Len(task) + 1
             s == Len(sent) + 1
  <1>1. /\ client[k].pc = "connect" /\ connected_as(c, task)
        /\ pool' = Append(pool, c) /\ lock' = NoClient /\ round_robin' = round_robin
        /\ \E id \in client[k].ids : subscribe_on(k, c, id)
    BY DEF connection_made, ClientAt
  <1>2. /\ c \in Fresh /\ c \in Conns /\ lock = k /\ Len(pool) < max_connections
        /\ subs[c] = {}
    BY <1>1 DEF IInv, LockHeld, PoolOpened, Fresh
  <1>3. /\ task \in Seq(Task) /\ Len(task) \in Nat /\ Len(sent) \in Nat
        /\ pool \in Seq(Conns) /\ Len(pool) \in Nat
        /\ subs \in [Conns -> SUBSET SubIds] /\ websocket \in [Conns -> Nat]
        /\ client[k] \in ClientState /\ max_connections \in Nat
    BY LenProperties, ConnectionsAllowed
    DEF IInv, Types, TaskType, NetworkType, PoolType, ConnectionType, ClientType
  <1>4. PICK id \in SubIds : subscribe_on(k, c, id)
    BY <1>1, <1>3 DEF ClientState
  <1>5. /\ TaskType' /\ NetworkType'
        /\ websocket' \in [Conns -> Nat] /\ processing_task' \in [Conns -> Nat]
        /\ connected' \in [Conns -> BOOLEAN] /\ running' \in [Conns -> BOOLEAN]
        /\ attempts' \in [Conns -> Nat]
        /\ Len(task') = new /\ Len(sent') = s /\ open' = open \cup {s}
        /\ \A u \in 1 .. Len(task) : task'[u] = task[u]
        /\ task'[new].conn = c /\ task'[new].pc = "start"
        /\ \A x \in 1 .. Len(sent) : sent'[x] = sent[x]
        /\ websocket'[c] = s /\ processing_task'[c] = new
        /\ connected'[c] /\ running'[c]
        /\ \A d \in Conns : d # c =>
              /\ websocket'[d] = websocket[d] /\ processing_task'[d] = processing_task[d]
              /\ connected'[d] = connected[d] /\ running'[d] = running[d]
              /\ attempts'[d] = attempts[d]
    BY <1>1, <1>2, <1>3, ConnectFacts, Zenon DEF IInv
  <1>6. /\ new = Len(task) + 1 /\ s = Len(sent) + 1 /\ new \in Nat /\ s \in Nat /\ s # 0
        /\ \A u \in 1 .. new : u \in 1 .. Len(task) \/ u = new
        /\ \A u \in 1 .. Len(task) : u \in 1 .. new /\ u # new /\ u # 0
        /\ new # 0 /\ new \in 1 .. new /\ Len(task) <= new
        /\ c = client[k].conn
    BY <1>3
  <1> HIDE DEF new, s, c
  <1> DEFINE message == [pc |-> "send", conn |-> c, ids |-> {id}, sock |-> s]
  <1>7. \/ client' = [client EXCEPT ![k] = idle] /\ subs' = subs
        \/ /\ subs' = [subs EXCEPT ![c] = @ \cup {id}]
           /\ client' = [client EXCEPT ![k] = message]
    <2>1. connected'[c] /\ websocket'[c] = s /\ s # 0
      BY <1>5, <1>6
    <2>2. QED BY <1>4, <2>1 DEF subscribe_on
  <1>8. /\ message \in ClientState /\ message.pc = "send" /\ message.conn = c
        /\ message.ids = {id} /\ message.sock = s
        /\ idle \in ClientState /\ idle.pc = "idle"
    BY <1>2, <1>6, StatesOfClients DEF ClientPcs
  <1> HIDE DEF message
  <1>9. /\ ClientType' /\ \A j \in Clients : j # k => client'[j] = client[j]
        /\ \/ client'[k] = idle /\ subs' = subs
           \/ client'[k] = message /\ subs' = [subs EXCEPT ![c] = @ \cup {id}]
    BY <1>7, <1>8, ClientGoes DEF IInv, Types
  <1>10. /\ subs' \in [Conns -> SUBSET SubIds]
         /\ \A d \in Conns : d # c => subs'[d] = subs[d]
         /\ subs'[c] = {} \/ (subs'[c] = {id} /\ client'[k] = message)
    BY <1>2, <1>3, <1>9
  <1>11. client'[k].pc = "idle" \/ client'[k] = message
    BY <1>8, <1>9
  <1>12. /\ pool' \in Seq(Conns) /\ Len(pool') = Len(pool) + 1
         /\ pool'[Len(pool) + 1] = c
         /\ \A n \in 1 .. Len(pool) : pool'[n] = pool[n]
    BY <1>1, <1>2, <1>3, AppendProperties
  <1>13. Types'
    BY <1>1, <1>5, <1>9, <1>10, <1>12 DEF IInv, Types, ConnectionType, PoolType
  <1>14. Fresh' \subseteq Fresh /\ c \notin Fresh'
    <2>1. \A u \in 1 .. Len(task) : task'[u].conn = task[u].conn
      BY <1>5
    <2>2. Fresh' \subseteq Fresh
      BY <1>5, <1>6, <2>1, FreshFacts DEF IInv, Types
    <2>3. new \in DOMAIN task' /\ task'[new].conn = c
      BY <1>5, <1>6, LenProperties DEF TaskType
    <2>4. QED BY <2>2, <2>3 DEF Fresh, Tasks
  <1>15. SocketsKnown'
    <2>1. \A d \in Conns : websocket'[d] <= s
      <3>1. \A d \in Conns : websocket[d] \in Nat /\ websocket[d] <= Len(sent)
        BY DEF IInv, SocketsKnown, Types, ConnectionType
      <3>2. \A d \in Conns : websocket'[d] = IF d = c THEN s ELSE websocket[d]
        BY <1>5
      <3>3. QED BY <1>3, <1>6, <3>1, <3>2
    <2>2. \A x \in open' : x \in 1 .. s
      BY <1>3, <1>5, <1>6 DEF IInv, SocketsKnown
    <2>3. \A j \in Clients : j # k /\ Busy(j) =>
             client[j].sock \in 1 .. s /\ client[j].conn \in Conns
      BY <1>3, <1>6 DEF IInv, SocketsKnown
    <2>4. Busy(k)' => client'[k].sock \in 1 .. s /\ client'[k].conn \in Conns
      BY <1>2, <1>3, <1>6, <1>8, <1>11 DEF Busy
    <2>5. \A j \in Clients : client'[j].pc \in {"cancelled", "closed"} =>
             client'[j].conn \in Conns
      BY <1>8, <1>9, <1>11 DEF IInv, SocketsKnown
    <2>6. \A j \in Clients : Busy(j)' => client'[j].sock \in 1 .. s /\ client'[j].conn \in Conns
      BY <1>9, <2>3, <2>4 DEF Busy
    <2>7. Len(sent') = s
      BY <1>5
    <2>8. QED BY <2>1, <2>2, <2>5, <2>6, <2>7 DEF SocketsKnown
  <1>16. SocketsOwned'
    <2>1. \A d \in Conns : d # c => websocket'[d] = websocket[d] /\ websocket[d] # s
      BY <1>3, <1>5, <1>6 DEF IInv, SocketsKnown, Types, ConnectionType
    <2>2. \A j \in Clients : Busy(j) => client[j].sock # s
      BY <1>3, <1>6 DEF IInv, SocketsKnown
    <2>3. websocket'[c] = s
      BY <1>5
    <2>4. \A d, e \in Conns : websocket'[d] = websocket'[e] /\ websocket'[d] # 0 => d = e
      BY <2>1, <2>3 DEF IInv, SocketsOwned
    <2>5. \A j \in Clients, d \in Conns :
             Busy(j)' /\ websocket'[d] = client'[j].sock => d = client'[j].conn
      <3>1. ASSUME NEW j \in Clients, j # k, NEW d \in Conns, Busy(j)',
                   websocket'[d] = client'[j].sock
            PROVE  d = client'[j].conn
        BY <1>9, <2>1, <2>2, <2>3, <3>1 DEF IInv, SocketsOwned, Busy
      <3>2. ASSUME NEW d \in Conns, Busy(k)', websocket'[d] = client'[k].sock
            PROVE  d = client'[k].conn
        BY <1>8, <1>11, <2>1, <2>3, <3>2 DEF Busy
      <3>3. QED BY <3>1, <3>2
    <2>6. QED BY <2>4, <2>5 DEF SocketsOwned
  <1>17. LockHeld'
    <2>1. \A j \in Clients : j # k => client[j].pc \notin {"connect", "unsend"}
      BY <1>2 DEF IInv, LockHeld
    <2>2. client'[k].pc \notin {"connect", "unsend"}
      BY <1>8, <1>11
    <2>3. QED BY <1>9, <2>1, <2>2 DEF LockHeld
  <1>18. PoolOpened' /\ PoolBounded'
    <2>1. \A n \in 1 .. Len(pool') : pool'[n] \notin Fresh'
      <3>1. \A n \in 1 .. Len(pool') : n \in 1 .. Len(pool) \/ n = Len(pool) + 1
        BY <1>3, <1>12
      <3>2. QED BY <1>12, <1>14, <3>1 DEF IInv, PoolOpened
    <2>2. \A d \in Fresh' : subs'[d] = {}
      BY <1>10, <1>14 DEF IInv, PoolOpened, Fresh
    <2>3. \A j \in Clients : client'[j].pc = "send" => client'[j].conn \notin Fresh'
      BY <1>8, <1>9, <1>11, <1>14 DEF IInv, PoolOpened
    <2>4. Len(pool') <= max_connections
      BY <1>2, <1>3, <1>12
    <2>5. QED BY <2>1, <2>2, <2>3, <2>4 DEF PoolOpened, PoolBounded
  <1>19. KnownTask'
    <2>1. \A d \in Conns : d # c =>
             processing_task'[d] = processing_task[d] /\ connected'[d] = connected[d]
             /\ running'[d] = running[d]
      BY <1>5
    <2>2. processing_task'[c] = new /\ Len(task') = new
          /\ task'[new].conn = c /\ task'[new].pc = "start"
      BY <1>5
    <2>3. \A d \in Conns : d # c /\ processing_task[d] # 0 =>
             /\ processing_task[d] \in 1 .. new
             /\ task'[processing_task[d]] = task[processing_task[d]]
      BY <1>5, <1>6 DEF IInv, KnownTask
    <2>4. QED BY <1>6, <2>1, <2>2, <2>3 DEF IInv, KnownTask
  <1>20. StoppedBy'
    <2>1. \A d \in Conns : connected'[d] /\ ~running'[d] =>
             d # c /\ connected[d] /\ ~running[d] /\ attempts'[d] = attempts[d]
      BY <1>5
    <2>2. \A u \in 1 .. Len(task) : u \in 1 .. Len(task') /\ task'[u] = task[u]
      BY <1>5, <1>6
    <2>3. \A j \in Clients : client[j].pc \in {"cancelled", "closed"} => client'[j] = client[j]
      BY <1>1, <1>9
    <2>4. QED BY <2>1, <2>2, <2>3 DEF IInv, StoppedBy
  <1>21. AskedOrOwed'
    <2> SUFFICES ASSUME NEW d \in Conns, connected'[d], websocket'[d] \in open', NEW i \in subs'[d]
                 PROVE  \/ i \in sent'[websocket'[d]]
                        \/ \E u \in 1 .. Len(task') : Restores(u, d, i)'
                        \/ \E j \in Clients : Sends(j, d, i)'
      BY DEF AskedOrOwed
    <2>1. CASE d = c
      <3>1. i = id /\ client'[k] = message
        BY <1>10, <2>1
      <3>2. Sends(k, d, i)'
        BY <1>5, <1>8, <2>1, <3>1 DEF Sends
      <3>3. QED BY <3>2
    <2>2. CASE d # c
      <3>0. websocket[d] # s
        BY <1>3, <1>6 DEF IInv, SocketsKnown
      <3>1. /\ websocket'[d] = websocket[d] /\ connected[d] /\ websocket[d] \in open
            /\ websocket[d] \in 1 .. Len(sent) /\ sent'[websocket[d]] = sent[websocket[d]]
            /\ i \in subs[d]
        <4>1. /\ websocket'[d] = websocket[d] /\ connected[d] /\ i \in subs[d]
          BY <1>5, <1>10, <2>2
        <4>2. websocket[d] \in open
          BY <1>5, <3>0, <4>1
        <4>3. QED BY <1>5, <4>1, <4>2 DEF IInv, SocketsKnown
      <3>2. CASE i \in sent[websocket[d]]
        BY <3>1, <3>2
      <3>3. CASE \E u \in 1 .. Len(task) : Restores(u, d, i)
        BY <1>5, <1>6, <3>1, <3>3 DEF Restores
      <3>4. CASE \E j \in Clients : Sends(j, d, i)
        BY <1>1, <1>9, <3>1, <3>4 DEF Sends
      <3>5. QED BY <3>1, <3>2, <3>3, <3>4 DEF IInv, AskedOrOwed
    <2>3. QED BY <2>1, <2>2
  <1>22. QED
    BY <1>13, <1>15, <1>16, <1>17, <1>18, <1>19, <1>20, <1>21 DEF IInv

LEMMA ClientKeeps ==
    ASSUME IInv, NEW k \in Clients, Client(k)
    PROVE  IInv'
  BY SubscribeKeeps, ConnectionMadeKeeps, RefusedKeeps, SentKeeps, UnsubscribeKeeps,
     UnsentKeeps, CloseAllKeeps, DisconnectKeeps, CancelledKeeps, DisconnectedKeeps,
     ClearedKeeps DEF Client

-----------------------------------------------------------------------------
(* The invariant holds from the start and every step keeps it.             *)
LEMMA InvInit == Init => IInv
  <1> SUFFICES ASSUME Init PROVE IInv
    OBVIOUS
  <1>1. idle \in ClientState /\ idle.pc = "idle"
    BY StatesOfClients
  <1>2. Len(task) = 0 /\ Len(sent) = 0 /\ Len(pool) = 0
        /\ task \in Seq(Task) /\ sent \in Seq(SUBSET SubIds) /\ pool \in Seq(Conns)
    BY EmptySeq DEF Init
  <1>3. \A k \in Clients : client[k] = idle
    BY DEF Init
  <1>4. Types
    <2>1. client \in [Clients -> ClientState]
      BY <1>1 DEF Init
    <2>2. round_robin \in 0 .. max_connections - 1
      BY ConnectionsAllowed DEF Init
    <2>3. QED BY <1>2, <2>1, <2>2
      DEF Init, Types, TaskType, ClientType, ConnectionType, NetworkType, PoolType
  <1>5. SocketsKnown /\ SocketsOwned
    BY <1>1, <1>2, <1>3 DEF Init, SocketsKnown, SocketsOwned, Busy
  <1>6. LockHeld /\ PoolOpened /\ PoolBounded
    BY <1>1, <1>2, <1>3, ConnectionsAllowed DEF Init, LockHeld, PoolOpened, PoolBounded, Fresh
  <1>7. KnownTask /\ StoppedBy /\ AskedOrOwed
    BY DEF Init, KnownTask, StoppedBy, AskedOrOwed
  <1>8. QED BY <1>4, <1>5, <1>6, <1>7 DEF IInv

LEMMA InvNext == IInv /\ [Next]_vars => IInv'
  <1> SUFFICES ASSUME IInv, [Next]_vars PROVE IInv'
    OBVIOUS
  <1>1. CASE \E t \in Tasks : Reader(t)
    <2>1. Tasks = 1 .. Len(task)
      BY LenProperties DEF IInv, Types, TaskType, Tasks
    <2>2. QED BY <1>1, <2>1, ReaderKeeps
  <1>2. CASE \E k \in Clients : Client(k)
    BY <1>2, ClientKeeps
  <1>3. CASE socket_lost
    BY <1>3, LostKeeps
  <1>4. CASE UNCHANGED vars
    BY <1>4, UnchangedKeeps DEF vars
  <1>5. QED BY <1>1, <1>2, <1>3, <1>4 DEF Next

LEMMA InvHolds == Spec => []IInv
  <1>1. QED BY InvInit, InvNext, PTL DEF Spec

(* get_connection tests the length of the pool, opens a connection, which  *)
(* is awaited, and appends it: the lock makes the three one, and no number *)
(* of clients, with close_all at any moment, makes the pool too long.      *)
THEOREM PoolStaysBounded == Spec => []PoolBounded
  <1>1. IInv => PoolBounded
    BY DEF IInv
  <1>2. QED BY <1>1, InvHolds, PTL

(* subscribe, unsubscribe, the reconnects of several tasks of a connection *)
(* and close_all, in any order: what a connection is subscribed to, and    *)
(* its live socket has not been asked for, is still owed by the task that  *)
(* restores or the client that sends.                                      *)
THEOREM AllSubscriptionsSent == Spec => []SubscriptionsAreSent
  <1>1. ASSUME IInv PROVE SubscriptionsAreSent
    <2>1. Tasks = 1 .. Len(task)
      BY <1>1, LenProperties DEF IInv, Types, TaskType, Tasks
    <2> SUFFICES ASSUME NEW c \in Conns, connected[c], websocket[c] \in open,
                        NEW i \in subs[c], i \notin sent[websocket[c]]
                 PROVE  i \in Owed(c)
      BY DEF SubscriptionsAreSent
    <2>2. CASE \E t \in 1 .. Len(task) : Restores(t, c, i)
      BY <2>1, <2>2 DEF Restores, Owed
    <2>3. CASE \E k \in Clients : Sends(k, c, i)
      BY <2>3 DEF Sends, Owed
    <2>4. QED BY <1>1, <2>2, <2>3 DEF IInv, AskedOrOwed
  <1>2. QED BY <1>1, InvHolds, PTL

(* A connection that runs has its _processing_task, which has not ended,   *)
(* and one that is connected stopped running for a reason the property     *)
(* names: _handle_disconnect giving up, an error that no handler catches,  *)
(* a disconnect that has not come to its end.                              *)
THEOREM ConnectionsAttended == Spec => []ConnectionsAreAttended
  <1>1. ASSUME IInv PROVE ConnectionsAreAttended
    <2>1. Tasks = 1 .. Len(task)
      BY <1>1, LenProperties DEF IInv, Types, TaskType, Tasks
    <2>2. ASSUME NEW c \in Conns, running[c]
          PROVE  Attended(c)
      BY <1>1, <2>1, <2>2 DEF IInv, KnownTask, Attended
    <2>3. ASSUME NEW c \in Conns, connected[c], ~running[c], attempts[c] < max_reconnect_attempts
          PROVE  Attended(c)
      BY <1>1, <2>1, <2>3 DEF IInv, StoppedBy, Attended
    <2>4. QED BY <2>2, <2>3 DEF ConnectionsAreAttended
  <1>2. QED BY <1>1, InvHolds, PTL
===============================================================================
