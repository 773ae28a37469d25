---------------------------- MODULE GatewayRuntime ----------------------------
(***************************************************************************)
(* gateway/runtime.py: the runtime the package exports.  Three kinds of    *)
(* threads share one object without a lock: the owner, who calls           *)
(* start_in_thread and stop; the pump, which publishes what the adapter    *)
(* puts out; and the thread of the command server, which calls             *)
(* _handle_command.                                                        *)
(*                                                                         *)
(* The command server and the publishers (bt_api_py.forwarding) and the    *)
(* adapter are external.  What is assumed of them: the server runs one     *)
(* handler at a time, and stopping it does not end a handler it runs;      *)
(* creating any of them may raise, closing the server and the publishers   *)
(* does not; the adapter is truthful (see Truthful).                       *)
(***************************************************************************)
EXTENDS Integers, Sequences, SequencesExt

CONSTANTS
    MaxStarts,      \* bound: calls of start_in_thread
    MaxEvents,      \* bound: events an adapter puts out
    MaxCommands,    \* bound: write commands
    MaxFaults,      \* bound: exceptions of external parts
    SlowPump,       \* may the pump outlast the join timeout of _cleanup?
    None            \* Python's None

VARIABLES
    rt,             \* the attributes of the runtime
    owner,          \* where the owner is in start_in_thread or stop
    pumps,          \* the pump threads, by number of the start
    command,        \* the handler of the command server
    ack,            \* the last acknowledgement of a write, and its real fate
    linked,         \* adapters that are connected, by number of the start
    stuck,          \* adapters whose disconnect raised
    output_queue,   \* of the adapter the runtime refers to
    emitted, published,     \* events, numbered per adapter
    faults, commands        \* consumed bounds

vars == <<rt, owner, pumps, command, ack, linked, stuck, output_queue, emitted,
          published, faults, commands>>

Servers == {"event_publisher", "market_publisher", "command_server"}
NoCommand == [phase |-> "none", adapter |-> 0, fate |-> "none"]
NoPump == [phase |-> "none", item |-> 0]

FaultLeft == faults < MaxFaults
Fault == faults' = faults + 1

-----------------------------------------------------------------------------
Init ==
    /\ rt = [state |-> "stopped", adapter_connected |-> FALSE, stop |-> FALSE,
             servers |-> {}, adapter |-> 0, pump_thread |-> 0, starts |-> 0]
    /\ owner = "idle"
    /\ pumps = [i \in 1..MaxStarts |-> NoPump]
    /\ command = NoCommand
    /\ ack = [status |-> "none", fate |-> "none"]
    /\ linked = {} /\ stuck = {}
    /\ output_queue = << >> /\ emitted = 0 /\ published = << >>
    /\ faults = 0 /\ commands = 0

-----------------------------------------------------------------------------
(***************************************************************************)
(* start_in_thread.                                                        *)
(***************************************************************************)
start_in_thread ==
    /\ owner = "idle" /\ rt.state # "running" /\ rt.starts < MaxStarts
    /\ rt' = [rt EXCEPT !.stop = FALSE, !.state = "starting", !.starts = @ + 1]
    /\ owner' = "bind"
    /\ UNCHANGED <<pumps, command, ack, linked, stuck, output_queue, emitted,
                   published, faults, commands>>

(* The publishers and the server come up in this order. *)
NextServer ==
    IF "event_publisher" \notin rt.servers THEN "event_publisher"
    ELSE IF "market_publisher" \notin rt.servers THEN "market_publisher"
    ELSE "command_server"

bind ==
    /\ owner = "bind"
    /\ rt' = [rt EXCEPT !.servers = @ \cup {NextServer}]
    /\ owner' = IF NextServer = "command_server" THEN "construct" ELSE "bind"
    /\ UNCHANGED <<pumps, command, ack, linked, stuck, output_queue, emitted,
                   published, faults, commands>>

(* self.adapter = adapter_cls(...): a new adapter has a queue of its own. *)
construct ==
    /\ owner = "construct"
    /\ rt' = [rt EXCEPT !.adapter = rt.starts]
    /\ owner' = "connect"
    /\ output_queue' = << >> /\ emitted' = 0 /\ published' = << >>
    /\ UNCHANGED <<pumps, command, ack, linked, stuck, faults, commands>>

connect ==
    /\ owner = "connect"
    /\ linked' = linked \cup {rt.adapter}
    /\ rt' = [rt EXCEPT !.adapter_connected = TRUE, !.state = "running"]
    /\ owner' = "spawn"
    /\ UNCHANGED <<pumps, command, ack, stuck, output_queue, emitted, published,
                   faults, commands>>

spawn ==
    /\ owner = "spawn"
    /\ rt' = [rt EXCEPT !.pump_thread = rt.starts]
    /\ pumps' = [pumps EXCEPT ![rt.starts] = [phase |-> "test", item |-> 0]]
    /\ owner' = "idle"
    /\ UNCHANGED <<command, ack, linked, stuck, output_queue, emitted, published,
                   faults, commands>>

(* Faulty variant: the exception is passed on without a cleanup. *)
start_raises_NoCleanup ==
    /\ owner \in {"bind", "construct", "connect"} /\ FaultLeft /\ Fault
    /\ rt' = [rt EXCEPT !.state = "error"]
    /\ owner' = "idle"
    /\ UNCHANGED <<pumps, command, ack, linked, stuck, output_queue, emitted,
                   published, commands>>

(* A publisher, the server, the adapter or its connect() raises. *)
start_raises ==
    /\ owner \in {"bind", "construct", "connect"} /\ FaultLeft /\ Fault
    /\ rt' = [rt EXCEPT !.state = "error", !.stop = TRUE]
    /\ owner' = "join"
    /\ UNCHANGED <<pumps, command, ack, linked, stuck, output_queue, emitted,
                   published, commands>>

(***************************************************************************)
(* stop, and _cleanup, which a failed start runs, too.                     *)
(***************************************************************************)
stop ==
    /\ owner = "idle"
    /\ rt.state # "stopped" \/ rt.adapter_connected
    /\ rt' = [rt EXCEPT !.state = "stopping", !.stop = TRUE]
    /\ owner' = "join"
    /\ UNCHANGED <<pumps, command, ack, linked, stuck, output_queue, emitted,
                   published, faults, commands>>

(* Faulty variant: the pump is not waited for. *)
join_NotAtAll ==
    /\ owner = "join"
    /\ rt' = [rt EXCEPT !.pump_thread = 0]
    /\ owner' = "close"
    /\ UNCHANGED <<pumps, command, ack, linked, stuck, output_queue, emitted,
                   published, faults, commands>>

(* join(timeout=2.0): the pump has ended, or the timeout has passed. *)
join ==
    /\ owner = "join"
    /\ rt.pump_thread # 0 => pumps[rt.pump_thread].phase = "ended" \/ SlowPump
    /\ rt' = [rt EXCEPT !.pump_thread = 0]
    /\ owner' = "close"
    /\ UNCHANGED <<pumps, command, ack, linked, stuck, output_queue, emitted,
                   published, faults, commands>>

close ==
    /\ owner = "close"
    /\ rt' = [rt EXCEPT !.servers = {}]
    /\ owner' = "disconnect"
    /\ UNCHANGED <<pumps, command, ack, linked, stuck, output_queue, emitted,
                   published, faults, commands>>

(* adapter.disconnect(), whose exception is only recorded. *)
disconnect ==
    /\ owner = "disconnect"
    /\ IF rt.adapter_connected
       THEN \/ linked' = linked \ {rt.adapter} /\ UNCHANGED <<stuck, faults>>
            \/ /\ FaultLeft /\ Fault
               /\ stuck' = stuck \cup {rt.adapter} /\ UNCHANGED linked
       ELSE UNCHANGED <<linked, stuck, faults>>
    /\ owner' = "return"
    /\ UNCHANGED <<rt, pumps, command, ack, output_queue, emitted, published, commands>>

(* Only then the flag falls; stop, not a failed start, ends in "stopped". *)
mark_down ==
    /\ owner = "return"
    /\ rt' = [rt EXCEPT !.adapter_connected = FALSE,
                        !.state = IF @ = "error" THEN "error" ELSE "stopped"]
    /\ owner' = "idle"
    /\ UNCHANGED <<pumps, command, ack, linked, stuck, output_queue, emitted, published,
                   faults, commands>>

-----------------------------------------------------------------------------
(***************************************************************************)
(* _pump_adapter_output: the test of the stop event, the poll, and the     *)
(* publishing are steps of their own.  The pump polls the adapter the      *)
(* runtime refers to now, and publishes only while there is a publisher.   *)
(***************************************************************************)
emit ==
    /\ rt.adapter \in linked /\ emitted < MaxEvents
    /\ emitted' = emitted + 1
    /\ output_queue' = Append(output_queue, emitted + 1)
    /\ UNCHANGED <<rt, owner, pumps, command, ack, linked, stuck, published, faults, commands>>

pump_test(i) ==
    /\ pumps[i].phase = "test"
    /\ pumps' = [pumps EXCEPT ![i].phase = IF rt.stop THEN "ended" ELSE "poll"]
    /\ UNCHANGED <<rt, owner, command, ack, linked, stuck, output_queue, emitted,
                   published, faults, commands>>

poll_output(i) ==
    /\ pumps[i].phase = "poll"
    /\ IF output_queue = << >>
       THEN pumps' = [pumps EXCEPT ![i].phase = "test"] /\ UNCHANGED output_queue
       ELSE /\ pumps' = [pumps EXCEPT ![i] = [phase |-> "publish", item |-> Head(output_queue)]]
            /\ output_queue' = Tail(output_queue)
    /\ UNCHANGED <<rt, owner, command, ack, linked, stuck, emitted, published, faults, commands>>

_publish_adapter_item(i) ==
    /\ pumps[i].phase = "publish"
    /\ published' = IF "event_publisher" \in rt.servers
                    THEN Append(published, pumps[i].item) ELSE published
    /\ pumps' = [pumps EXCEPT ![i] = [phase |-> "test", item |-> 0]]
    /\ UNCHANGED <<rt, owner, command, ack, linked, stuck, output_queue, emitted, faults, commands>>

(* Faulty variant: an exception ends the pump. *)
pump_raises_Ends(i) ==
    /\ pumps[i].phase \in {"poll", "publish"} /\ FaultLeft /\ Fault
    /\ pumps' = [pumps EXCEPT ![i] = [phase |-> "ended", item |-> 0]]
    /\ UNCHANGED <<rt, owner, command, ack, linked, stuck, output_queue, emitted,
                   published, commands>>

(* Polling or publishing raises: recorded, and the item, if any, is lost. *)
pump_raises(i) ==
    /\ pumps[i].phase \in {"poll", "publish"} /\ FaultLeft /\ Fault
    /\ pumps' = [pumps EXCEPT ![i] = [phase |-> "test", item |-> 0]]
    /\ UNCHANGED <<rt, owner, command, ack, linked, stuck, output_queue, emitted,
                   published, commands>>

-----------------------------------------------------------------------------
(***************************************************************************)
(* _handle_command for place_order and cancel_order, the writes.           *)
(***************************************************************************)
Results ==
    [status : {"", "done", "rejected", "error", "unknown"}, execution_unknown : BOOLEAN,
     accepted : {None, TRUE, FALSE}, error : BOOLEAN]

SaysUnknown(result) == result.execution_unknown \/ result.status = "unknown"

SaysRejected(result) ==
    result.status \in {"rejected", "error"} \/ result.accepted = FALSE \/ result.error

(* What an adapter may answer for a write with this fate: it does not call *)
(* a write refused that was taken, nor taken that was refused, unless it   *)
(* says that it does not know.                                             *)
Truthful(result, fate) ==
    SaysUnknown(result) \/ (SaysRejected(result) <=> fate # "taken")

(* The status of the acknowledgement ("accepted" for any accepted one). *)
_write_result(result) ==
    IF SaysUnknown(result) THEN "unknown"
    ELSE IF SaysRejected(result) THEN "rejected" ELSE "accepted"

Acknowledge(status, fate) ==
    /\ ack' = [status |-> status, fate |-> fate]
    /\ command' = NoCommand

(* A write arrives; the payload is built and the adapter is called. *)
dispatch_write ==
    /\ command = NoCommand /\ "command_server" \in rt.servers /\ commands < MaxCommands
    /\ commands' = commands + 1
    /\ command' = [phase |-> "adapter", adapter |-> rt.adapter, fate |-> "not_sent"]
    /\ UNCHANGED <<rt, owner, pumps, ack, linked, stuck, output_queue, emitted, published, faults>>

(* The payload cannot be built: nothing was dispatched. *)
write_refused ==
    /\ command = NoCommand /\ "command_server" \in rt.servers /\ commands < MaxCommands
    /\ FaultLeft /\ Fault
    /\ commands' = commands + 1
    /\ Acknowledge("rejected", "not_sent")
    /\ UNCHANGED <<rt, owner, pumps, linked, stuck, output_queue, emitted, published>>

(* The exchange, reached over a connected adapter, takes or refuses it. *)
exchange_decides ==
    /\ command.phase = "adapter" /\ command.fate = "not_sent" /\ command.adapter \in linked
    /\ \E fate \in {"taken", "refused"} : command' = [command EXCEPT !.fate = fate]
    /\ UNCHANGED <<rt, owner, pumps, ack, linked, stuck, output_queue, emitted,
                   published, faults, commands>>

adapter_answers ==
    /\ command.phase = "adapter" /\ command.adapter # 0
    /\ \E result \in Results :
         /\ Truthful(result, command.fate)
         /\ Acknowledge(_write_result(result), command.fate)
    /\ UNCHANGED <<rt, owner, pumps, linked, stuck, output_queue, emitted, published,
                   faults, commands>>

(* Faulty variant: an exception of the adapter is taken for a rejection. *)
adapter_raises_Rejected ==
    /\ command.phase = "adapter"
    /\ Acknowledge("rejected", command.fate)
    /\ UNCHANGED <<rt, owner, pumps, linked, stuck, output_queue, emitted, published,
                   faults, commands>>

(* The adapter (or the lack of one) raises, or its answer is no dictionary *)
(* at all: the write was dispatched, so the outcome is unknown.            *)
adapter_raises ==
    /\ command.phase = "adapter"
    /\ Acknowledge("unknown", command.fate)
    /\ UNCHANGED <<rt, owner, pumps, linked, stuck, output_queue, emitted, published,
                   faults, commands>>

-----------------------------------------------------------------------------
OwnerStep ==
    \/ bind \/ construct \/ connect \/ spawn \/ start_raises
    \/ join \/ close \/ disconnect \/ mark_down
PumpStep(i) == pump_test(i) \/ poll_output(i) \/ _publish_adapter_item(i) \/ pump_raises(i)
CommandStep == exchange_decides \/ adapter_answers \/ adapter_raises

Next ==
    \/ start_in_thread \/ stop \/ OwnerStep
    \/ emit \/ \E i \in 1..MaxStarts : PumpStep(i)
    \/ dispatch_write \/ write_refused \/ CommandStep

Spec == Init /\ [][Next]_vars

(* Threads that can run do run.  Nobody has to start or stop the runtime,  *)
(* and adapters need neither put out events nor ever answer.               *)
FairSpec ==
    /\ Spec
    /\ WF_vars(OwnerStep)
    /\ \A i \in 1..MaxStarts : WF_vars(PumpStep(i))

-----------------------------------------------------------------------------
(* Whatever the adapter answers or raises, and whatever becomes of the     *)
(* runtime meanwhile, a write that the exchange has taken is never         *)
(* acknowledged as rejected, for the caller would send it again, and only  *)
(* a write that it has taken is acknowledged as accepted.                  *)
AcknowledgementsAreTrue ==
    /\ ack.status = "rejected" => ack.fate # "taken"
    /\ ack.status = "accepted" => ack.fate = "taken"

(* Once start_in_thread or stop has returned and the runtime does not run, *)
(* it holds nothing: no publisher, no server, and no adapter, of this or   *)
(* of an earlier start, except one that failed to disconnect.              *)
IdleHoldsNothing ==
    owner = "idle" /\ rt.state # "running" => rt.servers = {} /\ linked \subseteq stuck

(* The events of an adapter are published in the order it put them out,    *)
(* none twice, across stops and restarts, if the pump ends in time.        *)
PublishedInOrder == \A i, j \in DOMAIN published : i < j => published[i] < published[j]

RuntimeIsClean == IdleHoldsNothing /\ (~SlowPump => PublishedInOrder)

(* An event that is put out while the runtime runs does not stay in the    *)
(* queue: the pump takes it, or the runtime is stopped.                    *)
Queued(n) == rt.state = "running" /\ owner = "idle" /\ Contains(output_queue, n)
PumpedOrStopped(n) == ~Contains(output_queue, n) \/ rt.state # "running"

EventsArePumped == \A n \in 1..MaxEvents : Queued(n) ~> PumpedOrStopped(n)
=============================================================================
