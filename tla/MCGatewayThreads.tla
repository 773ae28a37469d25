------------------------- MODULE MCGatewayThreads ---------------------------
(***************************************************************************)
(* Two parts of a gateway that have threads of their own: the tick writer  *)
(* and the standalone runtime.  They do not run together here: a behaviour *)
(* is one of the part it starts with, and leaves the other as it is when   *)
(* it has been made.                                                       *)
(*                                                                         *)
(* Writer: buffers that flush at two rows and three ticks let the writer   *)
(* flush while the flush thread and stop do; one file system error and one *)
(* restart are enough for a put back behind which newer ticks have come.   *)
(* Runtime: two starts make a restart; two events an order; one write at  *)
(* a time, two in all, so that one can outlive the stop that a second      *)
(* follows.                                                                *)
(***************************************************************************)
EXTENDS TickWriter

(* The runtime's; its starts are bounded by MaxStarts, too. *)
CONSTANTS MaxEvents, MaxCommands, MaxFaults, SlowPump, None

VARIABLES component, rt, owner, pumps, command, ack, linked, stuck, output_queue,
          emitted, published, faults, commands

Runtime == INSTANCE GatewayRuntime

-----------------------------------------------------------------------------
runtime == <<rt, owner, pumps, command, ack, linked, stuck, output_queue, emitted,
             published, faults, commands>>
threads == <<component, vars, runtime>>

WriterRuns == component = "tick writer" /\ UNCHANGED <<component, runtime>>
RuntimeRuns == component = "standalone runtime" /\ UNCHANGED <<component, vars>>

ThreadsInit ==
    component \in {"tick writer", "standalone runtime"} /\ Init /\ Runtime!Init

ThreadsNext ==
    \/ WriterRuns /\ Next
    \/ RuntimeRuns /\ Runtime!Next

(* The fairness each module states for itself.  As a behaviour is one of a *)
(* single part, one condition can stand for those of both.                 *)
ThreadsFairness ==
    /\ WF_threads((WriterRuns /\ _flush_loop) \/ (RuntimeRuns /\ Runtime!OwnerStep))
    /\ SF_threads(WriterRuns /\ interval_passed)
    /\ \A i \in 1 .. MaxStarts : WF_threads(RuntimeRuns /\ Runtime!PumpStep(i))
    /\ \A t \in Threads : WF_threads(WriterRuns /\ _flush_symbol(t))

ThreadsSpec == ThreadsInit /\ [][ThreadsNext]_threads /\ ThreadsFairness

-----------------------------------------------------------------------------
(* Beside TicksAreKept of the tick writer: a write that the exchange has   *)
(* taken is not acknowledged as rejected, and only such a one as accepted  *)
(* (GatewayRuntime._handle_command, _write_result).                        *)
AcknowledgementsAreTrue == Runtime!AcknowledgementsAreTrue

(* A runtime that does not run holds nothing, and events are published in  *)
(* order (GatewayRuntime._cleanup, _pump_adapter_output).                  *)
RuntimeIsClean == Runtime!RuntimeIsClean

(* What waits in a buffer or a queue leaves it: ticks reach the file and   *)
(* events are pumped while the threads run (TickWriter._flush_loop,        *)
(* GatewayRuntime._pump_adapter_output).                                   *)
Waits(n) ==
    \/ component = "tick writer" /\ n = 1 /\ \E s \in Symbols : Buffered(s)
    \/ component = "standalone runtime" /\ Runtime!Queued(n)

Leaves(n) ==
    \/ component = "tick writer" /\ \A s \in Symbols : OnDiskOrExcused(s)
    \/ component = "standalone runtime" /\ Runtime!PumpedOrStopped(n)

NothingIsLeftBehind == \A n \in 1 .. 2 : Waits(n) ~> Leaves(n)
=============================================================================
