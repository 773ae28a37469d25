-------------------------- MODULE GatewayLifecycle ---------------------------
(***************************************************************************)
(* gateway/runtime_remote.py: the life of a GatewayRuntime.  Three kinds   *)
(* of thread share its attributes without a lock:                          *)
(*   - the owner, which calls start_in_thread and stop;                    *)
(*   - the loop thread, which runs start: it binds the sockets, spawns the *)
(*     connector and serves commands until running becomes false;          *)
(*   - connectors, which run _connect_adapter_background.  Nobody joins    *)
(*     them, so one can outlive the run that spawned it.                   *)
(* An assignment to a shared attribute, a call into the adapter or the     *)
(* tick writer, and a test of running are one step each.  The adapter is   *)
(* external: connect returns or raises after any time, and disconnect      *)
(* leaves it disconnected also when it raises, as the callers assume.      *)
(* health.trade_conn is left out: it is only ever written next to          *)
(* market_conn and nothing reads it.                                       *)
(***************************************************************************)
EXTENDS Integers

CONSTANTS
    MaxStarts,      \* bound: loop threads created
    MaxFaults,      \* bound: exceptions that leave the body of the loop
    max_retries,    \* connect attempts of one connector
    SlowStart,      \* may start need longer than start_in_thread waits?
    SlowLoop        \* may an iteration need longer than stop joins?

ASSUME LifecycleBounds ==
    /\ MaxStarts \in Nat \ {0}
    /\ MaxFaults \in Nat
    /\ max_retries \in Nat \ {0}
    /\ SlowStart \in BOOLEAN /\ SlowLoop \in BOOLEAN

Runs == 1..MaxStarts

VARIABLES
    rt,         \* the attributes of the runtime, see Attributes
    owner,      \* where the owner is
    loop,       \* where the loop thread is
    connector,  \* per run: where its connector is
    attempt,    \* per run: the failed attempts of its connector
    runs,       \* loop threads created so far
    faults,     \* counter for the bound
    quiet,      \* history: what the latest stop met
    overlap     \* history: this run began while the connector of an
                \* earlier one was alive

vars == <<rt, owner, loop, connector, attempt, runs, faults, quiet, overlap>>

(***************************************************************************)
(* running and adapter_connected; health.state and health.market_conn; are *)
(* the three sockets open; is the tick writer started; and, external, is   *)
(* the adapter connected.                                                  *)
(***************************************************************************)
Attributes ==
    [running : BOOLEAN, adapter_connected : BOOLEAN,
     state : {"STARTING", "RUNNING", "STOPPING", "STOPPED", "ERROR"},
     market : {"DISCONNECTED", "CONNECTING", "CONNECTED", "RECONNECTING", "ERROR"},
     sockets : BOOLEAN, tick_writer : BOOLEAN, link : BOOLEAN]

Init ==
    /\ rt = [running |-> FALSE, adapter_connected |-> FALSE,
             state |-> "STOPPED", market |-> "DISCONNECTED",
             sockets |-> FALSE, tick_writer |-> FALSE, link |-> FALSE]
    /\ owner = "idle" /\ loop = "dead"
    /\ connector = [r \in Runs |-> "none"] /\ attempt = [r \in Runs |-> 0]
    /\ runs = 0 /\ faults = 0
    /\ quiet = "never" /\ overlap = FALSE

LoopAlive == loop # "dead"
ConnectorAlive == \E r \in Runs : connector[r] \notin {"none", "done"}

(* One step of the owner: at from, write the attributes, go to to. *)
OwnerStep(from, to, attributes) ==
    /\ owner = from /\ owner' = to
    /\ rt' = attributes
    /\ UNCHANGED <<loop, connector, attempt, faults>>

(* One step of the loop thread. *)
LoopStep(from, to, attributes) ==
    /\ loop = from /\ loop' = to
    /\ rt' = attributes
    /\ UNCHANGED <<owner, attempt, runs, overlap>>

(* One step of the connector of run r. *)
ConnectorStep(r, from, to, attributes) ==
    /\ connector[r] = from /\ connector' = [connector EXCEPT ![r] = to]
    /\ rt' = attributes
    /\ UNCHANGED <<owner, loop, runs, faults, quiet, overlap>>

-----------------------------------------------------------------------------
(***************************************************************************)
(* The owner.  start_in_thread does nothing while the thread is alive;     *)
(* else it polls running and the state for at most two seconds.            *)
(***************************************************************************)
start_in_thread ==
    \/ /\ ~LoopAlive /\ runs < MaxStarts
       /\ owner = "idle" /\ owner' = "starting"
       /\ loop' = "check"
       /\ runs' = runs + 1
       /\ quiet' = "never" /\ overlap' = ConnectorAlive
       /\ UNCHANGED <<rt, connector, attempt, faults>>
    \/ /\ rt.running \/ rt.state = "ERROR" \/ SlowStart
       /\ OwnerStep("starting", "idle", rt)
       /\ UNCHANGED <<runs, quiet, overlap>>

(* Faulty variant: stop does not wait for the loop thread. *)
join_Never ==
    OwnerStep("join", "cleanup", rt) /\ UNCHANGED quiet

(* thread.join(timeout=1.0): the loop has ended, or the second has passed. *)
join ==
    /\ ~LoopAlive \/ SlowLoop
    /\ OwnerStep("join", "cleanup", rt)
    /\ quiet' = IF LoopAlive THEN "timeout" ELSE quiet

(* Faulty variant: stop forgets to disconnect the adapter. *)
stop_disconnects_Skip == OwnerStep("disconnect", "market", rt)

stop_disconnects == OwnerStep("disconnect", "market", [rt EXCEPT !.link = FALSE])

stop ==
    OwnerStep("idle", "running", [rt EXCEPT !.state = "STOPPING"]) /\ UNCHANGED <<runs, quiet, overlap>>

stop_proceeds ==
    /\ \/ /\ OwnerStep("running", "connected", [rt EXCEPT !.running = FALSE])
          /\ quiet' = IF ConnectorAlive THEN "connecting" ELSE "alone"
       \/ join
       \/ /\ \/ OwnerStep("connected", "disconnect", [rt EXCEPT !.adapter_connected = FALSE])
             \/ stop_disconnects
             \/ OwnerStep("market", "tick_writer", [rt EXCEPT !.market = "DISCONNECTED"])
             \/ OwnerStep("tick_writer", "join", [rt EXCEPT !.tick_writer = FALSE])
             \/ OwnerStep("cleanup", "stopped", [rt EXCEPT !.sockets = FALSE])
             \/ OwnerStep("stopped", "idle", [rt EXCEPT !.state = "STOPPED"])
          /\ UNCHANGED quiet
    /\ UNCHANGED <<runs, overlap>>

Stopping == owner \notin {"idle", "starting"}

-----------------------------------------------------------------------------
(***************************************************************************)
(* The loop thread: start, with an early return when running is set.       *)
(***************************************************************************)
start ==
    /\ \/ LoopStep("check", IF rt.running THEN "dead" ELSE "starting", rt)
       \/ LoopStep("starting", "clear", [rt EXCEPT !.state = "STARTING"])
       \/ LoopStep("clear", "bind", [rt EXCEPT !.adapter_connected = FALSE])
       \/ LoopStep("bind", "tick_writer", [rt EXCEPT !.sockets = TRUE])
       \/ LoopStep("tick_writer", "running", [rt EXCEPT !.tick_writer = TRUE])
       \/ LoopStep("running", "state", [rt EXCEPT !.running = TRUE])
       \/ LoopStep("state", "spawn", [rt EXCEPT !.state = "RUNNING"])
    /\ UNCHANGED <<connector, faults, quiet>>

spawn_connector ==
    /\ LoopStep("spawn", "while", rt)
    /\ connector' = [connector EXCEPT ![runs] = "begin"]
    /\ quiet' = IF quiet = "alone" THEN "connecting" ELSE quiet
    /\ UNCHANGED faults

(* Faulty variant: the sockets that did open stay open. *)
close_after_bind_error_Leak == LoopStep("bind_error", "dead", [rt EXCEPT !.running = FALSE])

close_after_bind_error ==
    LoopStep("bind_error", "dead", [rt EXCEPT !.sockets = FALSE, !.running = FALSE])

(* Faulty variant: the loop never looks at running. *)
iterate_Forever == LoopStep("while", "body", rt) \/ LoopStep("body", "while", rt)

(* while running: an iteration serves commands and flushes the output of   *)
(* the adapter.                                                            *)
iterate ==
    \/ LoopStep("while", IF rt.running THEN "body" ELSE "cleanup", rt)
    \/ LoopStep("body", "while", rt)

(* A ZMQError while binding (the state is ERROR before the sockets that    *)
(* did open are closed), or an exception that leaves the body: a malformed *)
(* command, or a socket that stop has closed under the loop.               *)
raise ==
    /\ faults < MaxFaults /\ faults' = faults + 1
    /\ \/ LoopStep("bind", "bind_error", [rt EXCEPT !.state = "ERROR", !.sockets = TRUE])
       \/ LoopStep("body", "except", rt)
    /\ UNCHANGED <<connector, quiet>>

(* The handlers after the try re-read running: a stop wins over a failure. *)
_handle_runtime_failure ==
    \/ LoopStep("except", IF rt.running THEN "fail" ELSE "cleanup", rt)
    \/ LoopStep("fail", "fail_connected", [rt EXCEPT !.running = FALSE])
    \/ LoopStep("fail_connected", "fail_state", [rt EXCEPT !.adapter_connected = FALSE])
    \/ LoopStep("fail_state", "fail_market", [rt EXCEPT !.state = "ERROR"])
    \/ LoopStep("fail_market", "fail_tick_writer", [rt EXCEPT !.market = "ERROR"])
    \/ LoopStep("fail_tick_writer", "fail_disconnect", [rt EXCEPT !.tick_writer = FALSE])
    \/ LoopStep("fail_disconnect", "cleanup", [rt EXCEPT !.link = FALSE])

(* finally: the sockets are closed and the thread ends. *)
_cleanup_sockets == LoopStep("cleanup", "dead", [rt EXCEPT !.sockets = FALSE])

serve ==
    /\ iterate \/ close_after_bind_error \/ _handle_runtime_failure \/ _cleanup_sockets
    /\ UNCHANGED <<connector, faults, quiet>>

loop_thread == start \/ spawn_connector \/ raise \/ serve

-----------------------------------------------------------------------------
(***************************************************************************)
(* The connector of run r: _connect_adapter_background.                    *)
(***************************************************************************)
begin_connecting(r) ==
    /\ \/ ConnectorStep(r, "begin", "check", [rt EXCEPT !.market = "CONNECTING"])
       \/ ConnectorStep(r, "check", IF rt.running THEN "connect" ELSE "done", rt)
    /\ UNCHANGED attempt

(* Faulty variant: the return after a success is missing. *)
connect_succeeds_NoReturn(r) ==
    \/ /\ \/ ConnectorStep(r, "connect", "connected", [rt EXCEPT !.link = TRUE])
          \/ ConnectorStep(r, "connected", "publish", [rt EXCEPT !.adapter_connected = TRUE])
       /\ UNCHANGED attempt
    \/ /\ ConnectorStep(r, "publish", "failed", [rt EXCEPT !.market = "CONNECTED"])
       /\ attempt' = [attempt EXCEPT ![r] = @ + 1]

(* adapter.connect() returns: the flag first, health after it. *)
connect_succeeds(r) ==
    /\ \/ ConnectorStep(r, "connect", "connected", [rt EXCEPT !.link = TRUE])
       \/ ConnectorStep(r, "connected", "publish", [rt EXCEPT !.adapter_connected = TRUE])
       \/ ConnectorStep(r, "publish", "done", [rt EXCEPT !.market = "CONNECTED"])
    /\ UNCHANGED attempt

(* Faulty variant: an exception of connect is taken for success. *)
connect_raises_Swallowed(r) ==
    ConnectorStep(r, "connect", "connected", rt) /\ UNCHANGED attempt

(* adapter.connect() raises: health says whether another attempt follows,  *)
(* which running decides as well.                                          *)
connect_raises(r) ==
    /\ ConnectorStep(r, "connect", "failed",
         [rt EXCEPT !.market = IF attempt[r] < max_retries - 1 /\ rt.running
                                 THEN "RECONNECTING" ELSE "ERROR"])
    /\ attempt' = [attempt EXCEPT ![r] = @ + 1]

(* Faulty variant: one attempt too many. *)
retry_or_give_up_OneMore(r) ==
    /\ ConnectorStep(r, "failed",
         IF attempt[r] <= max_retries THEN "check" ELSE "exhausted", rt)
    /\ UNCHANGED attempt

retry_or_give_up(r) ==
    /\ \/ ConnectorStep(r, "failed",
            IF attempt[r] < max_retries THEN "check" ELSE "exhausted", rt)
       \/ ConnectorStep(r, "exhausted", "exhausted_market",
            [rt EXCEPT !.adapter_connected = FALSE])
       \/ ConnectorStep(r, "exhausted_market", "done", [rt EXCEPT !.market = "ERROR"])
    /\ UNCHANGED attempt

_connect_adapter_background(r) ==
    \/ begin_connecting(r) \/ connect_succeeds(r)
    \/ connect_raises(r) \/ retry_or_give_up(r)

-----------------------------------------------------------------------------
Next ==
    \/ start_in_thread \/ stop \/ stop_proceeds
    \/ loop_thread
    \/ \E r \in Runs : _connect_adapter_background(r)

Spec == Init /\ [][Next]_vars

(***************************************************************************)
(* The threads are scheduled: a thread that can take a step takes it at    *)
(* last, and adapter.connect does return.  Nothing makes the owner call    *)
(* start_in_thread or stop.                                                *)
(***************************************************************************)
Fairness ==
    /\ WF_vars(stop_proceeds) /\ WF_vars(loop_thread)
    /\ \A r \in Runs : WF_vars(_connect_adapter_background(r))

FairSpec == Spec /\ Fairness

-----------------------------------------------------------------------------
(* The attributes keep their types and a connector its attempts within     *)
(* max_retries.                                                            *)
TypeOK ==
    /\ rt \in Attributes
    /\ attempt \in [Runs -> 0..max_retries]
    /\ runs \in 0..MaxStarts /\ faults \in 0..MaxFaults
    /\ quiet \in {"never", "alone", "connecting", "timeout"} /\ overlap \in BOOLEAN

(* A stop that saw the loop thread end is final: until the next start the  *)
(* state stays STOPPED, running false, the sockets closed and the tick     *)
(* writer off, whatever the failure handler was doing when stop was called *)
(* and whatever connectors are still alive.                                *)
StoppedIsFinal ==
    (owner = "idle" /\ quiet \in {"alone", "connecting"}) =>
        /\ rt.state = "STOPPED" /\ ~rt.running /\ ~rt.sockets /\ ~rt.tick_writer
        /\ ~LoopAlive

(* A stop that no connector overlapped leaves the adapter disconnected and *)
(* health does not claim otherwise (ERROR when the failure handler was     *)
(* running at the same time).  With a connector inside connect() this      *)
(* fails: nobody joins it or disconnects what it connects.                 *)
StoppedIsDisconnected ==
    (owner = "idle" /\ quiet = "alone") =>
        ~rt.adapter_connected /\ ~rt.link /\ rt.market \in {"DISCONNECTED", "ERROR"}

(* The loop serves and no stop was called since it was started. *)
Serving == loop \in {"while", "body"} /\ rt.running /\ ~Stopping /\ quiet = "never"

(* In a run that no earlier connector reaches into, commands are only sent *)
(* to an adapter that is connected; and once its connector has ended,      *)
(* health agrees with the readiness the runtime acts on.                   *)
ReadinessIsTrue ==
    (Serving /\ ~overlap) =>
        /\ rt.adapter_connected => rt.link
        /\ connector[runs] = "done" =>
              rt.market = IF rt.adapter_connected THEN "CONNECTED" ELSE "ERROR"

(* A run that failed has released everything by the time its thread ends.  *)
FailureReleases ==
    (owner = "idle" /\ loop = "dead" /\ rt.state = "ERROR") =>
        ~rt.running /\ ~rt.sockets /\ ~rt.tick_writer

(* What a stop and a failure leave behind.                                 *)
StopsAndFailuresAreClean == StoppedIsFinal /\ StoppedIsDisconnected /\ FailureReleases

(* Readiness is lost only to stop, to the failure handler or to the next   *)
(* start, never to the connector that established it.                      *)
ReadyUntilStopped ==
    [][(rt.adapter_connected /\ ~rt'.adapter_connected /\ ~overlap) =>
          (Stopping \/ loop \in {"clear", "fail_connected"})]_vars

(* A stop that clears running once start has set it ends the loop thread.  *)
(* A stop that comes before start sets running does not: start_in_thread   *)
(* may return that early when start is slow, or when the state is still    *)
(* ERROR from the run before.                                              *)
StopEndsLoop ==
    (/\ owner = "connected" /\ ~rt.running
     /\ loop \in {"state", "spawn", "while", "body", "except"}) ~> (loop = "dead")

(* A gateway stays ready until it is stopped, and then its loop ends.      *)
ReadyThenStopped == ReadyUntilStopped /\ StopEndsLoop
=============================================================================
