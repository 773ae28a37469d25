----------------------- MODULE GatewayLifecycleProofs ------------------------
(***************************************************************************)
(* The safety of GatewayLifecycle for any number of runs, faults and       *)
(* connect attempts, with slow or quick starts and loops: what a stop and  *)
(* a failure leave behind, what a connected adapter means, and that        *)
(* readiness is lost only to a stop, a failure or the next start.          *)
(***************************************************************************)
EXTENDS GatewayLifecycle, TLAPS

OwnerSteps == {"idle", "starting", "running", "connected", "disconnect", "market",
               "tick_writer", "join", "cleanup", "stopped"}

BeforeSpawn == {"check", "starting", "clear", "bind", "tick_writer", "running", "state", "spawn"}

LoopSteps == BeforeSpawn \cup
    {"dead", "bind_error", "while", "body", "except", "fail", "fail_connected", "fail_state",
     "fail_market", "fail_tick_writer", "fail_disconnect", "cleanup"}

ConnectorSteps == {"none", "begin", "check", "connect", "connected", "publish", "failed",
                   "exhausted", "exhausted_market", "done"}

(* The threads are at steps they have.                                     *)
ThreadsOK ==
    /\ owner \in OwnerSteps /\ loop \in LoopSteps
    /\ connector \in [Runs -> ConnectorSteps]
    /\ loop # "dead" => runs # 0

(* A connector is spawned late in its run, and its attempts are counted    *)
(* from 0.                                                                 *)
ConnectorsSpawned ==
    \A r \in Runs :
        /\ r > runs \/ (r = runs /\ loop \in BeforeSpawn) => connector[r] = "none"
        /\ connector[r] \in {"none", "begin", "check", "connect"} => attempt[r] < max_retries

(* A loop that serves or fails is the only reason for running and for open *)
(* sockets.                                                                *)
RunningIsServing ==
    /\ rt.running => loop \in {"state", "spawn", "while", "body", "except", "fail"}
    /\ rt.sockets => loop \notin {"dead", "check", "starting", "clear", "bind"}

(* The tick writer is on beyond the run only until the stop or the failure *)
(* handler has come to it.                                                 *)
TickWriterIsWanted ==
    rt.tick_writer =>
        \/ rt.running
        \/ owner \in {"connected", "disconnect", "market", "tick_writer"}
        \/ loop \in {"running", "fail_connected", "fail_state", "fail_market", "fail_tick_writer"}

(* What the latest stop met, as it goes on: whether it joined the loop,    *)
(* which connectors are left, and what it has cleared so far.              *)
StopProceeds ==
    /\ owner = "starting" => quiet = "never"
    /\ quiet = "never" => owner \in {"idle", "starting", "running"}
    /\ quiet \in {"alone", "connecting"} /\ owner \in {"cleanup", "stopped", "idle"} => loop = "dead"
    /\ quiet \in {"alone", "connecting"} /\ owner = "idle" => rt.state = "STOPPED"

AloneIsDisconnected ==
    quiet = "alone" =>
        /\ ~ConnectorAlive
        /\ owner # "connected" => ~rt.adapter_connected
        /\ owner \notin {"connected", "disconnect"} => ~rt.link
        /\ owner \notin {"connected", "disconnect", "market"} => rt.market \in {"DISCONNECTED", "ERROR"}

(* Without a stop the loop has kept running set since it set it.           *)
NotStoppedIsRunning ==
    quiet = "never" /\ loop \in {"state", "spawn", "while", "body", "except", "fail"} => rt.running

(* Without overlap the connector of the present run is the only one, and   *)
(* the adapter is not marked connected before that connector marks it.     *)
OneConnector ==
    ~overlap =>
        /\ \A r \in Runs : r # runs => connector[r] \in {"none", "done"}
        /\ runs # 0 /\ connector[runs] \notin {"publish", "done"} =>
              ~rt.adapter_connected \/ loop \in {"check", "starting", "clear"}
        /\ runs = 0 => ~rt.adapter_connected

(* In such a run the mark is true until a stop or a failure.               *)
MarkIsTrue ==
    ~overlap /\ quiet = "never" /\ loop \in (BeforeSpawn \cup {"while", "body"}) \ {"check", "starting", "clear"} =>
        /\ connector[runs] \in {"connected", "publish"} => rt.link
        /\ connector[runs] = "publish" => rt.adapter_connected
        /\ connector[runs] = "exhausted_market" => ~rt.adapter_connected
        /\ rt.adapter_connected => rt.link
        /\ connector[runs] = "done" =>
              rt.market = IF rt.adapter_connected THEN "CONNECTED" ELSE "ERROR"

IInv ==
    /\ TypeOK /\ ThreadsOK /\ ConnectorsSpawned
    /\ RunningIsServing /\ TickWriterIsWanted
    /\ StopProceeds /\ AloneIsDisconnected
    /\ NotStoppedIsRunning /\ OneConnector /\ MarkIsTrue

-----------------------------------------------------------------------------
(* Every step of start_in_thread and of stop preserves the invariant.      *)
LEMMA OwnerKeepsInv == IInv /\ (start_in_thread \/ stop \/ stop_proceeds) => IInv'
  <1> SUFFICES ASSUME IInv, start_in_thread \/ stop \/ stop_proceeds PROVE IInv'
    OBVIOUS
  <1> USE LifecycleBounds DEF IInv, OwnerStep, LoopAlive, ConnectorAlive
  <1>1. TypeOK'
    <2>1. rt' \in Attributes /\ attempt' = attempt /\ faults' = faults
      <3>1. CASE start_in_thread
        BY <3>1 DEF TypeOK, start_in_thread, Attributes
      <3>2. CASE stop
        BY <3>2 DEF TypeOK, stop, Attributes
      <3>3. CASE stop_proceeds
        BY <3>3, ZenonT(60) DEF TypeOK, stop_proceeds, stop_disconnects, join, Attributes
      <3> QED BY <3>1, <3>2, <3>3
    <2>2. runs' \in 0..MaxStarts
      <3>1. runs' = runs \/ (runs < MaxStarts /\ runs' = runs + 1)
        BY DEF start_in_thread, stop, stop_proceeds
      <3> QED BY <3>1 DEF TypeOK
    <2>3. quiet' \in {"never", "alone", "connecting", "timeout"}
      <3>1. quiet' \in {quiet, "never", "alone", "connecting", "timeout"}
        BY DEF start_in_thread, stop, stop_proceeds, join
      <3> QED BY <3>1 DEF TypeOK
    <2>4. overlap' \in BOOLEAN
      BY Zenon DEF TypeOK, start_in_thread, stop, stop_proceeds
    <2> QED BY <2>1, <2>2, <2>4, <2>3 DEF TypeOK
  <1>2. ThreadsOK'
    <2>1. owner' \in OwnerSteps /\ loop' \in LoopSteps /\ connector' = connector
      BY DEF ThreadsOK, start_in_thread, stop, stop_proceeds, stop_disconnects, join,
         OwnerSteps, LoopSteps, BeforeSpawn
    <2>2. loop' # "dead" => runs' # 0
      <3>1. (runs' = runs /\ loop' = loop) \/ runs' = runs + 1
        BY DEF start_in_thread, stop, stop_proceeds, stop_disconnects, join
      <3> QED BY <3>1 DEF TypeOK, ThreadsOK
    <2> QED BY <2>1, <2>2 DEF ThreadsOK
  <1>3. ConnectorsSpawned'
    <2>1. /\ connector' = connector /\ attempt' = attempt
          /\ (runs' = runs /\ loop' = loop) \/ runs' = runs + 1
      BY DEF start_in_thread, stop, stop_proceeds, stop_disconnects, join
    <2> QED BY <2>1 DEF TypeOK, ConnectorsSpawned, Runs
  <1>4. RunningIsServing' /\ TickWriterIsWanted'
    <2>1. CASE start_in_thread \/ stop
      BY <2>1 DEF TypeOK, RunningIsServing, TickWriterIsWanted, start_in_thread, stop, Attributes
    <2>2. CASE stop_proceeds
      BY <2>2, SMTT(30) DEF TypeOK, RunningIsServing, TickWriterIsWanted, stop_proceeds,
         stop_disconnects, join, Attributes
    <2> QED BY <2>1, <2>2
  <1>5. StopProceeds'
    BY DEF TypeOK, StopProceeds, start_in_thread, stop, stop_proceeds,
      stop_disconnects, join, Attributes
  <1>6. AloneIsDisconnected'
    BY DEF TypeOK, ThreadsOK, StopProceeds, AloneIsDisconnected, start_in_thread, stop, stop_proceeds,
      stop_disconnects, join, Attributes
  <1>7. NotStoppedIsRunning' 
    BY DEF TypeOK, StopProceeds, NotStoppedIsRunning, start_in_thread, stop, stop_proceeds,
      stop_disconnects, join, Attributes
  <1>8. OneConnector'
    <2>1. CASE UNCHANGED <<runs, overlap, loop>>
      BY <2>1 DEF TypeOK, OneConnector, start_in_thread, stop, stop_proceeds, stop_disconnects, join, Attributes
    <2>2. CASE ~UNCHANGED <<runs, overlap, loop>>
      <3>1. /\ runs' = runs + 1 /\ overlap' = (\E r \in Runs : connector[r] \notin {"none", "done"})
            /\ loop' = "check" /\ connector' = connector
        BY <2>2 DEF start_in_thread, stop, stop_proceeds, stop_disconnects, join
      <3> QED BY <3>1 DEF TypeOK, OneConnector
    <2> QED BY <2>1, <2>2
  <1>9. MarkIsTrue'
    <2>1. CASE start_in_thread
      BY <2>1 DEF TypeOK, StopProceeds, MarkIsTrue, start_in_thread, Attributes, BeforeSpawn
    <2>2. CASE stop
      BY <2>2 DEF TypeOK, StopProceeds, MarkIsTrue, stop, Attributes, BeforeSpawn
    <2>3. CASE stop_proceeds
      BY <2>3, SMTT(30) DEF TypeOK, StopProceeds, MarkIsTrue, stop_proceeds, stop_disconnects, join,
         Attributes, BeforeSpawn
    <2> QED BY <2>1, <2>2, <2>3
  <1> QED BY <1>1, <1>2, <1>4, <1>5, <1>6, <1>7, <1>8, <1>9, <1>3

(* Every step of the loop thread does: start, its loop, what it does when  *)
(* an iteration raises, and its last cleanup.                              *)
LEMMA LoopKeepsInv == IInv /\ loop_thread => IInv'
  <1> SUFFICES ASSUME IInv, loop_thread PROVE IInv'
    OBVIOUS
  <1> USE LifecycleBounds DEF IInv, LoopStep, LoopAlive, ConnectorAlive, loop_thread, start,
        spawn_connector, raise, serve, iterate, close_after_bind_error, _handle_runtime_failure,
        _cleanup_sockets
  <1>1. TypeOK'
    <2>1. rt' \in Attributes
      <3>1. CASE start \/ spawn_connector \/ raise
        BY <3>1, ZenonT(60) DEF TypeOK, Attributes
      <3>2. CASE iterate \/ close_after_bind_error \/ _cleanup_sockets
        BY <3>2 DEF TypeOK, Attributes
      <3>3. CASE _handle_runtime_failure
        BY <3>3, ZenonT(60) DEF TypeOK, Attributes
      <3> QED BY <3>1, <3>2, <3>3
    <2>2. attempt' = attempt /\ runs' = runs /\ overlap' = overlap
      OBVIOUS
    <2>3. faults' \in 0..MaxFaults
      BY DEF TypeOK
    <2>4. quiet' \in {"never", "alone", "connecting", "timeout"}
      BY DEF TypeOK
    <2> QED BY <2>1, <2>2, <2>3, <2>4 DEF TypeOK
  <1>2. ThreadsOK'
    <2>1. owner' = owner /\ runs' = runs /\ loop' \in LoopSteps /\ (loop' # "dead" => loop # "dead")
      BY DEF LoopSteps, BeforeSpawn
    <2>2. connector' \in [Runs -> ConnectorSteps]
      BY DEF ThreadsOK, ConnectorSteps
    <2> QED BY <2>1, <2>2 DEF ThreadsOK
  <1>3. ConnectorsSpawned'
    <2>1. /\ runs' = runs /\ attempt' = attempt
          /\ \/ connector' = connector /\ (loop' \in BeforeSpawn => loop \in BeforeSpawn)
             \/ /\ loop = "spawn" /\ loop' = "while"
                /\ connector' = [connector EXCEPT ![runs] = "begin"]
      BY DEF BeforeSpawn
    <2> QED BY <2>1 DEF TypeOK, ThreadsOK, ConnectorsSpawned, BeforeSpawn, Runs
  <1>4. RunningIsServing' /\ TickWriterIsWanted'
    <2>1. RunningIsServing'
      BY ZenonT(60) DEF TypeOK, RunningIsServing, Attributes
    <2>2. TickWriterIsWanted'
      BY ZenonT(60) DEF TypeOK, RunningIsServing, TickWriterIsWanted, Attributes
    <2> QED BY <2>1, <2>2
  <1>5. StopProceeds'
    BY DEF TypeOK, StopProceeds, Attributes
  <1>6. AloneIsDisconnected'
    <2>1. CASE spawn_connector
      BY <2>1 DEF AloneIsDisconnected
    <2>2. CASE ~spawn_connector
      <3>1. connector' = connector /\ quiet' = quiet /\ owner' = owner
        BY <2>2
      <3>2. /\ rt'.adapter_connected \in {FALSE, rt.adapter_connected}
            /\ rt'.link \in {FALSE, rt.link}
            /\ rt'.market \in {"ERROR", rt.market}
        BY <2>2, ZenonT(60) DEF TypeOK, Attributes
      <3> HIDE DEF loop_thread
      <3> QED BY <3>1, <3>2 DEF AloneIsDisconnected
    <2> QED BY <2>1, <2>2
  <1>7. NotStoppedIsRunning'
    BY DEF TypeOK, StopProceeds, NotStoppedIsRunning, Attributes
  <1>8. OneConnector'
    <2>1. CASE spawn_connector
      BY <2>1 DEF TypeOK, ThreadsOK, ConnectorsSpawned, OneConnector, Runs, BeforeSpawn
    <2>2. CASE ~spawn_connector
      <3>1. connector' = connector /\ overlap' = overlap /\ runs' = runs
        BY <2>2
      <3>2. /\ rt'.adapter_connected \in {FALSE, rt.adapter_connected}
            /\ loop \in {"check", "starting", "clear"} =>
                  loop' \in {"check", "starting", "clear"} \/ ~rt'.adapter_connected
        <4>1. rt'.adapter_connected \in {FALSE, rt.adapter_connected}
          BY <2>2, ZenonT(60) DEF TypeOK, Attributes
        <4>2. loop \in {"check", "starting"} => loop' \in {"starting", "clear", "dead"}
          BY <2>2
        <4>3. loop = "check" /\ loop' = "dead" => FALSE
          BY <2>2 DEF RunningIsServing
        <4>4. loop = "clear" => ~rt'.adapter_connected
          BY <2>2, SMTT(30) DEF TypeOK, Attributes
        <4>5. loop = "starting" => loop' = "clear"
          BY <2>2
        <4> HIDE DEF loop_thread
        <4> QED BY <4>1, <4>2, <4>3, <4>4, <4>5
      <3> HIDE DEF loop_thread
      <3> QED BY <3>1, <3>2 DEF OneConnector
    <2> QED BY <2>1, <2>2
  <1>9. MarkIsTrue'
    BY SMTT(30) DEF TypeOK, ThreadsOK, ConnectorsSpawned, StopProceeds, OneConnector, MarkIsTrue, Attributes, BeforeSpawn, Runs
  <1> QED BY <1>1, <1>2, <1>4, <1>5, <1>6, <1>7, <1>8, <1>9, <1>3

(* Every step of _connect_adapter_background does, of any run.             *)
LEMMA ConnectorKeepsInv ==
    ASSUME IInv, NEW r \in Runs, _connect_adapter_background(r)
    PROVE  IInv'
  <1> USE LifecycleBounds DEF IInv, ConnectorStep, LoopAlive, ConnectorAlive, _connect_adapter_background,
        begin_connecting, connect_succeeds, connect_raises, retry_or_give_up
  <1>1. TypeOK'
    <2>1. attempt' \in [Runs -> 0..max_retries]
      BY DEF TypeOK, ConnectorsSpawned
    <2> QED BY <2>1, ZenonT(60) DEF TypeOK, Attributes
  <1>2. ThreadsOK'
    BY DEF ThreadsOK, ConnectorSteps
  <1>3. ConnectorsSpawned'
    BY SMTT(30) DEF TypeOK, ThreadsOK, ConnectorsSpawned, BeforeSpawn, Runs
  <1>4. RunningIsServing' /\ TickWriterIsWanted'
    BY DEF TypeOK, RunningIsServing, TickWriterIsWanted, Attributes
  <1>5. StopProceeds'
    BY DEF TypeOK, StopProceeds, Attributes
  <1>6. AloneIsDisconnected'
    BY DEF TypeOK, ThreadsOK, StopProceeds, AloneIsDisconnected, Attributes
  <1>7. NotStoppedIsRunning'
    BY DEF TypeOK, StopProceeds, NotStoppedIsRunning, Attributes
  <1>8. OneConnector'
    BY SMTT(30) DEF TypeOK, ThreadsOK, ConnectorsSpawned, OneConnector, Attributes, Runs, BeforeSpawn
  <1>9. MarkIsTrue'
    <2> SUFFICES ASSUME ~overlap, quiet = "never",
                        loop \in (BeforeSpawn \cup {"while", "body"}) \ {"check", "starting", "clear"}
                 PROVE  MarkIsTrue'
      BY DEF MarkIsTrue
    <2>1. r = runs /\ runs # 0 /\ loop \in {"while", "body"} /\ rt.running
      BY DEF TypeOK, ThreadsOK, OneConnector, ConnectorsSpawned, NotStoppedIsRunning, BeforeSpawn, Runs
    <2>2. connector[r] \notin {"publish", "done"} => ~rt.adapter_connected
      BY <2>1 DEF OneConnector
    <2>3. connector'[runs'] = connector'[r] /\ connector \in [Runs -> ConnectorSteps] /\ rt \in Attributes
      BY <2>1 DEF TypeOK, ThreadsOK
    <2>4. CASE begin_connecting(r)
      BY <2>1, <2>2, <2>3, <2>4 DEF MarkIsTrue, Attributes
    <2>5. CASE connect_succeeds(r)
      BY <2>1, <2>2, <2>3, <2>5 DEF MarkIsTrue, Attributes
    <2>6. CASE connect_raises(r)
      BY <2>1, <2>2, <2>3, <2>6 DEF MarkIsTrue, Attributes
    <2>7. CASE retry_or_give_up(r)
      BY <2>1, <2>2, <2>3, <2>7 DEF MarkIsTrue, Attributes
    <2> QED BY <2>4, <2>5, <2>6, <2>7
  <1> QED BY <1>1, <1>2, <1>4, <1>5, <1>6, <1>7, <1>8, <1>9, <1>3

(* So does every step of the runtime ... *)
LEMMA NextKeepsInv == IInv /\ [Next]_vars => IInv'
  <1> SUFFICES ASSUME IInv, [Next]_vars PROVE IInv'
    OBVIOUS
  <1>1. CASE UNCHANGED vars
    BY <1>1 DEF vars, IInv, TypeOK, ThreadsOK, ConnectorsSpawned, RunningIsServing,
       TickWriterIsWanted, StopProceeds, AloneIsDisconnected, NotStoppedIsRunning, OneConnector,
       MarkIsTrue, ConnectorAlive
  <1> QED BY <1>1, OwnerKeepsInv, LoopKeepsInv, ConnectorKeepsInv DEF Next

(* ... and a runtime that has not been started satisfies it.               *)
LEMMA InvHolds == Spec => []IInv
  <1>1. Init => IInv
    <2> SUFFICES ASSUME Init PROVE IInv
      OBVIOUS
    <2> USE LifecycleBounds DEF Init
    <2>1. TypeOK
      <3>1. rt \in Attributes
        BY DEF Attributes
      <3>2. attempt \in [Runs -> 0..max_retries]
        OBVIOUS
      <3>3. runs \in 0..MaxStarts /\ faults \in 0..MaxFaults
        OBVIOUS
      <3>4. quiet = "never" /\ overlap \in BOOLEAN
        OBVIOUS
      <3> HIDE DEF Init
      <3> QED BY <3>1, <3>2, <3>3, <3>4 DEF TypeOK
    <2>2. ThreadsOK
      BY DEF ThreadsOK, OwnerSteps, LoopSteps, ConnectorSteps
    <2>3. ConnectorsSpawned
      BY DEF ConnectorsSpawned
    <2>4. RunningIsServing /\ TickWriterIsWanted /\ StopProceeds /\ AloneIsDisconnected
      BY DEF RunningIsServing, TickWriterIsWanted, StopProceeds, AloneIsDisconnected
    <2>5. NotStoppedIsRunning /\ OneConnector /\ MarkIsTrue
      BY DEF NotStoppedIsRunning, OneConnector, MarkIsTrue, BeforeSpawn
    <2> QED BY <2>1, <2>2, <2>3, <2>4, <2>5 DEF IInv
  <1> QED BY <1>1, NextKeepsInv, PTL DEF Spec

-----------------------------------------------------------------------------
(* The attributes of the runtime keep their types, and no connector        *)
(* (_connect_adapter_background) tries more often than max_retries.        *)
THEOREM TypesAreKept == Spec => []TypeOK
  BY InvHolds, PTL DEF IInv

(* A stop is final for a loop it has joined, a stop that met no connector  *)
(* leaves the adapter disconnected, and the failure handler of start       *)
(* releases what the run held: whatever the other threads do meanwhile.    *)
THEOREM StopsAndFailuresClean == Spec => []StopsAndFailuresAreClean
  <1>1. IInv => StopsAndFailuresAreClean
    BY DEF IInv, StopsAndFailuresAreClean, StoppedIsFinal, StoppedIsDisconnected, FailureReleases,
       TypeOK, ThreadsOK, RunningIsServing, TickWriterIsWanted, StopProceeds, AloneIsDisconnected,
       LoopAlive, Attributes
  <1> QED BY <1>1, InvHolds, PTL

(* While one run serves, a gateway that says it is ready has an adapter    *)
(* that is connected, and one whose connector has given up says so.        *)
THEOREM ReadinessTrue == Spec => []ReadinessIsTrue
  <1>1. IInv => ReadinessIsTrue
    BY DEF IInv, ReadinessIsTrue, Serving, Stopping, MarkIsTrue, BeforeSpawn
  <1> QED BY <1>1, InvHolds, PTL

(* Readiness is lost in a step of a stop, of the failure handler or of the *)
(* next start, and in no other.                                            *)
THEOREM ReadinessStays == Spec => ReadyUntilStopped
  <1>1. IInv /\ [Next]_vars =>
          [(rt.adapter_connected /\ ~rt'.adapter_connected /\ ~overlap) =>
              (Stopping \/ loop \in {"clear", "fail_connected"})]_vars
    <2> SUFFICES ASSUME IInv, [Next]_vars, rt.adapter_connected, ~rt'.adapter_connected, ~overlap
                 PROVE  Stopping \/ loop \in {"clear", "fail_connected"}
      OBVIOUS
    <2> USE DEF IInv, TypeOK, Attributes
    <2>1. CASE start_in_thread \/ stop \/ stop_proceeds
      BY <2>1 DEF start_in_thread, stop, stop_proceeds, stop_disconnects, join, OwnerStep, Stopping
    <2>2. CASE loop_thread
      BY <2>2 DEF loop_thread, start, spawn_connector, raise, serve, iterate,
         close_after_bind_error, _handle_runtime_failure, _cleanup_sockets, LoopStep
    <2>3. ASSUME NEW r \in Runs, _connect_adapter_background(r) PROVE FALSE
      <3>1. connector[r] = "exhausted"
        BY <2>3 DEF _connect_adapter_background, begin_connecting, connect_succeeds,
           connect_raises, retry_or_give_up, ConnectorStep
      <3> QED BY <3>1 DEF OneConnector, ConnectorsSpawned, BeforeSpawn, Runs
    <2>4. ~UNCHANGED vars
      BY DEF vars
    <2> QED BY <2>1, <2>2, <2>3, <2>4 DEF Next
  <1> QED BY <1>1, InvHolds, PTL DEF Spec, ReadyUntilStopped
=============================================================================
