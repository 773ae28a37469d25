----------------------------- MODULE OrderRouting -----------------------------
(***************************************************************************)
(* How the gateway (gateway/runtime_remote.py) routes order events back to *)
(* the strategy that placed the order: the place_order branch of           *)
(* _dispatch, which fills the order map before and after it calls the      *)
(* adapter, and _flush_adapter_output, which enriches every event of the   *)
(* adapter from the map and teaches the map the ids the event carries.     *)
(*                                                                         *)
(* A CTP gateway numbers the orders itself: GatewayOrders composes this     *)
(* module with the allocator of the numbers, which survives the process.   *)
(* One thread runs both, alternating; the adapter's threads put events     *)
(* into the queue between any two of its steps.  An event names its order  *)
(* by some of the ids the exchange knows, under the canonical key          *)
(* (client_order_id, venue_order_id) or under one of the aliases of each   *)
(* (order_ref stands for the client aliases, order_id for the venue ones). *)
(* The adapter is connected throughout (GatewayLifecycle has the rest).    *)
(***************************************************************************)
EXTENDS Integers, Sequences, FiniteSets, FiniteSetsExt

CONSTANTS
    None,           \* Python's None
    NoId,           \* "", the request id of a command that brings none
    Commands,       \* the place_order commands that clients send, any number
                    \* of times: a request id (or NoId), a strategy, and the
                    \* client id the command brings along (or None)
    AliasKeys,      \* do events use the alias keys, too?
    VenueIdsPerOrder,   \* how many ids the exchange knows the first, second ... order by
    MaxOrders,      \* bound: place_order commands
    MaxQueue,       \* bound: events waiting in the adapter's queue
    RecentLimit     \* maxlen of the deque _recent_trades

VARIABLES
    pc,             \* the loop: "commands", "ref" or "flush"
    placing,        \* the command whose order waits for its reference
    order_map,      \* the map from ids to entries
    orders,         \* what the exchange was sent, in order: the request id,
                    \* the strategy and the client id
    output_queue,   \* the adapter's events
    recent_trades,  \* the enriched events kept, and published, oldest first
    seen,           \* history: venue ids this process has met, unhidden, with
                    \* an order it knew
    since           \* history: the orders that earlier processes had sent

vars == <<pc, placing, order_map, orders, output_queue, recent_trades, seen, since>>

-----------------------------------------------------------------------------
(* The map (gateway/order_identity_map.py): three dictionaries that find   *)
(* the entry of an order by its request id, its client order id or its     *)
(* venue order id.  The entries are objects shared by the dictionaries, so *)
(* the map is a heap of entries (an entry is its index) and three indexes  *)
(* into it.  Every method holds the lock from its first to its last        *)
(* access; the methods the gateway calls are operators on the map, so that *)
(* a step that makes several calls can nest them.  The gateway never calls *)
(* set_venue_order_id_by_client and remove.                                *)
Has(index, id) == id \in DOMAIN index

Put(index, id, e) == [i \in DOMAIN index \cup {id} |-> IF i = id THEN e ELSE index[i]]

PutUnlessNone(index, id, e) == IF id = None THEN index ELSE Put(index, id, e)

Empty ==
    [entries |-> << >>,
     by_request |-> [r \in {} |-> 0],
     by_client_oid |-> [c \in {} |-> 0],
     by_venue_oid |-> [v \in {} |-> 0]]

(* register: an earlier entry of the request is replaced under its request *)
(* id only; its client and venue ids go on finding it.                     *)
register(m, request_id, strategy_id, client_order_id, venue_order_id) ==
    LET e == Len(m.entries) + 1
    IN  [entries |-> Append(m.entries,
                       [request_id |-> request_id, strategy_id |-> strategy_id,
                        client_order_id |-> client_order_id,
                        venue_order_id |-> venue_order_id, status |-> "pending"]),
         by_request |-> Put(m.by_request, request_id, e),
         by_client_oid |-> PutUnlessNone(m.by_client_oid, client_order_id, e),
         by_venue_oid |-> PutUnlessNone(m.by_venue_oid, venue_order_id, e)]

set_client_order_id(m, request_id, client_order_id) ==
    IF ~Has(m.by_request, request_id) THEN m
    ELSE LET e == m.by_request[request_id]
         IN  [m EXCEPT !.entries[e].client_order_id = client_order_id,
                       !.by_client_oid = Put(@, client_order_id, e)]

set_venue_order_id(m, request_id, venue_order_id) ==
    IF ~Has(m.by_request, request_id) THEN m
    ELSE LET e == m.by_request[request_id]
         IN  [m EXCEPT !.entries[e].venue_order_id = venue_order_id,
                       !.by_venue_oid = Put(@, venue_order_id, e)]

update_status(m, request_id, status) ==
    IF ~Has(m.by_request, request_id) THEN m
    ELSE [m EXCEPT !.entries[m.by_request[request_id]].status = status]

-----------------------------------------------------------------------------
VenueIdsOf(o) == {<<o, k>> : k \in 1..VenueIdsPerOrder[o]}

(* _order_text over the canonical key and its aliases, in the code's order *)
FirstText(canonical, alias) == IF canonical # None THEN canonical ELSE alias

(* dict.setdefault *)
SetDefault(value, default) == IF value # None THEN value ELSE default

(* Faulty variant: an event that no id finds goes to the newest order. *)
_order_entry_for_event_Newest(m, event) ==
    LET lookups == << <<m.by_request, event.request_id>>,
                      <<m.by_client_oid, event.client_order_id>>,
                      <<m.by_client_oid, event.order_ref>>,
                      <<m.by_venue_oid, event.venue_order_id>>,
                      <<m.by_venue_oid, event.order_id>> >>
        hits == {i \in 1..5 : lookups[i][2] \notin {None, NoId} /\ Has(lookups[i][1], lookups[i][2])}
    IN  IF hits = {} THEN Len(m.entries) ELSE lookups[Min(hits)][1][lookups[Min(hits)][2]]

(* The lookups _order_entry_for_event makes, in its order; the first that  *)
(* finds an entry decides.  0: no entry.                                   *)
_order_entry_for_event(m, event) ==
    LET lookups == << <<m.by_request, event.request_id>>,
                      <<m.by_client_oid, event.client_order_id>>,
                      <<m.by_client_oid, event.order_ref>>,
                      <<m.by_venue_oid, event.venue_order_id>>,
                      <<m.by_venue_oid, event.order_id>> >>
        hits == {i \in 1..5 : lookups[i][2] \notin {None, NoId} /\ Has(lookups[i][1], lookups[i][2])}
    IN  IF hits = {} THEN 0 ELSE lookups[Min(hits)][1][lookups[Min(hits)][2]]

(* Faulty variant: the venue id of an event is not recorded. *)
_record_event_order_ids_ClientOnly(m, entry, event) ==
    LET client_order_id == FirstText(event.client_order_id, event.order_ref)
    IN  IF client_order_id \in {None, entry.client_order_id} THEN m
        ELSE set_client_order_id(m, entry.request_id, client_order_id)

_record_event_order_ids(m, entry, event) ==
    LET client_order_id == FirstText(event.client_order_id, event.order_ref)
        venue_order_id == FirstText(event.venue_order_id, event.order_id)
        named == IF client_order_id \in {None, entry.client_order_id} THEN m
                 ELSE set_client_order_id(m, entry.request_id, client_order_id)
    IN  IF venue_order_id \in {None, entry.venue_order_id} THEN named
        ELSE set_venue_order_id(named, entry.request_id, venue_order_id)

(* The event as it is published: completed from the entry where a key is   *)
(* missing.  (order is the order the event is really about.)               *)
Completed(event, entry) ==
    [event EXCEPT !.strategy_id = SetDefault(@, entry.strategy_id),
                  !.request_id = SetDefault(@, entry.request_id),
                  !.client_order_id = SetDefault(@, entry.client_order_id),
                  !.venue_order_id = SetDefault(@, entry.venue_order_id)]

(* _record_order_result_ids: the ids of the adapter's answer, or else of   *)
(* the payload (which has no venue id).                                    *)
_record_order_result_ids(m, request_id, sent, result) ==
    LET client_order_id == FirstText(result.client_order_id, sent)
        named == IF client_order_id = None THEN m
                 ELSE set_client_order_id(m, request_id, client_order_id)
    IN  IF result.venue_order_id = None THEN named
        ELSE set_venue_order_id(named, request_id, result.venue_order_id)

(* Faulty variant: the reference that is sent is not put into the map      *)
(* before the adapter is called.                                           *)
Registered_SuppliedOnly(ref) == order_map

(* The map when the adapter is called. *)
Registered(ref) == set_client_order_id(order_map, placing.request_id, ref)

-----------------------------------------------------------------------------
Init ==
    /\ pc = "commands" /\ placing = None
    /\ order_map = Empty
    /\ orders = << >>
    /\ output_queue = << >>
    /\ recent_trades = << >>
    /\ seen = {} /\ since = 0

(* A place_order command, up to the call of the allocator.                 *)
register_order(command) ==
    /\ pc = "commands" /\ Len(orders) < MaxOrders
    /\ pc' = "ref" /\ placing' = command
    /\ order_map' = register(order_map, command.request_id, command.strategy_id,
                             command.client_order_id, None)
    /\ UNCHANGED <<orders, output_queue, recent_trades, seen, since>>

(* What the two outcomes of the command have in common.                    *)
send_order(ref) ==
    /\ pc = "ref"
    /\ pc' = "flush" /\ placing' = None
    /\ orders' = Append(orders, [request_id |-> placing.request_id,
                                 strategy_id |-> placing.strategy_id, client_order_id |-> ref])
    /\ UNCHANGED <<output_queue, recent_trades, since>>

(* adapter.place_order answers: the answer may repeat the client id and    *)
(* may know a venue id.                                                    *)
place_order(ref) ==
    /\ send_order(ref)
    /\ LET o == Len(orders) + 1
       IN  \E c \in {None, ref}, v \in VenueIdsOf(o) \cup {None} :
             /\ order_map' = _record_order_result_ids(Registered(ref), placing.request_id, ref,
                               [client_order_id |-> c, venue_order_id |-> v])
             /\ seen' = seen \cup ({v} \ {None})

(* adapter.place_order raises, after the exchange has been reached.  The   *)
(* client is told of an error; the order may live on and send events.      *)
place_order_raises(ref) ==
    /\ send_order(ref)
    /\ order_map' = Registered(ref)
    /\ UNCHANGED seen

(* Any other command, or none within the poll timeout. *)
no_order_command ==
    /\ pc = "commands"
    /\ pc' = "flush"
    /\ UNCHANGED <<placing, order_map, orders, output_queue, recent_trades, seen, since>>

(* An event of order o, with its ids under the canonical keys or under the *)
(* aliases.                                                                *)
EventOf(o, r, c, v, aliased) ==
    [order |-> o, strategy_id |-> None, request_id |-> r,
     client_order_id |-> IF aliased THEN None ELSE c,
     order_ref |-> IF aliased THEN c ELSE None,
     venue_order_id |-> IF aliased THEN None ELSE v,
     order_id |-> IF aliased THEN v ELSE None]

(* The adapter's threads: an event of an order, naming it by the request   *)
(* id, the client id and a venue id, or by some of the three.              *)
emit ==
    /\ Len(output_queue) < MaxQueue
    /\ \E o \in DOMAIN orders :
         \E r \in {None, orders[o].request_id}, c \in {None, orders[o].client_order_id},
            v \in {None} \cup VenueIdsOf(o), aliased \in {FALSE, AliasKeys} :
           /\ r \notin {None, NoId} \/ c # None \/ v # None
           /\ output_queue' = Append(output_queue, EventOf(o, r, c, v, aliased))
    /\ UNCHANGED <<pc, placing, order_map, orders, recent_trades, seen, since>>

(* The venue ids of an event that the completion does not hide: an alias   *)
(* is only looked at when neither the event nor the entry has an id for    *)
(* the canonical key.                                                      *)
VisibleVenueIds(event, entry) ==
    {event.venue_order_id} \cup (IF entry.venue_order_id = None THEN {event.order_id} ELSE {})

(* deque(maxlen=RecentLimit).append *)
Kept(rows, row) ==
    LET all == Append(rows, row)
    IN  IF Len(all) > RecentLimit THEN Tail(all) ELSE all

(* One round of the loop of _flush_adapter_output, on a trade: enrich the  *)
(* event, record its ids and its status, keep it and publish it.           *)
flush_event ==
    /\ pc = "flush" /\ output_queue # << >>
    /\ LET event == Head(output_queue)
           e == _order_entry_for_event(order_map, event)
       IN  IF e = 0
           THEN /\ recent_trades' = Kept(recent_trades, event)
                /\ UNCHANGED <<order_map, seen>>
           ELSE LET entry == order_map.entries[e]
                    completed == Completed(event, entry)
                IN  /\ recent_trades' = Kept(recent_trades, completed)
                    /\ order_map' =
                         update_status(_record_event_order_ids(order_map, entry, completed),
                                       entry.request_id, "reported")
                    /\ seen' = seen \cup (VisibleVenueIds(event, entry) \ {None})
    /\ output_queue' = Tail(output_queue)
    /\ UNCHANGED <<pc, placing, orders, since>>

(* poll_output has nothing more: back to the commands. *)
flush_done ==
    /\ pc = "flush" /\ output_queue = << >>
    /\ pc' = "commands"
    /\ UNCHANGED <<placing, order_map, orders, output_queue, recent_trades, seen, since>>

(* The process ends and another one starts: the map, which is kept in      *)
(* memory only, is empty, and the exchange knows the orders of before.     *)
restart ==
    /\ pc' = "commands" /\ placing' = None
    /\ order_map' = Empty
    /\ output_queue' = << >> /\ recent_trades' = << >>
    /\ seen' = {} /\ since' = Len(orders)
    /\ UNCHANGED orders

-----------------------------------------------------------------------------
(* No other strategy has placed an order under the request id of order o.  *)
(* The code takes any request id, also none, from any strategy, and keeps  *)
(* one entry per request id to which it adds what it learns.               *)
SoleUser(o) ==
    \A p \in DOMAIN orders :
        orders[p].request_id = orders[o].request_id =>
            orders[p].strategy_id = orders[o].strategy_id

(* No event of an order whose request id one strategy alone uses is ever   *)
(* published under another strategy than the one that placed it, whichever *)
(* of its ids it carries, whatever was placed, retried or raised before,   *)
(* by this process or an earlier one, and however others share the request *)
(* ids of their orders, or have none, as long as no two orders have been   *)
(* given one reference.                                                    *)
EventsReachOwner ==
    \A i \in DOMAIN recent_trades :
        LET o == recent_trades[i].order
        IN  SoleUser(o) => recent_trades[i].strategy_id \in {None, orders[o].strategy_id}

(* An event of an order of this process that carries the request id or the *)
(* client id the exchange was sent is never published without a strategy,  *)
(* even if place_order raised and nothing was said of the order.           *)
SentIdsAreKnown ==
    \A i \in DOMAIN recent_trades :
        LET row == recent_trades[i]
        IN  row.order > since /\ row.strategy_id = None =>
                /\ row.request_id \in {None, NoId}
                /\ row.client_order_id = None /\ row.order_ref = None

(* A venue id that arrived in an answer, or in an event of an order the    *)
(* gateway knew, finds an entry of that order's request id from then on,   *)
(* and its strategy if that one alone uses the id, so that a later event   *)
(* that carries nothing else is not lost.  A second venue id under an      *)
(* alias key is the exception: the id known so far is put into the event   *)
(* first and hides it (line 599).                                          *)
VenueIdsLearned ==
    \A v \in seen :
        /\ v \in DOMAIN order_map.by_venue_oid
        /\ LET entry == order_map.entries[order_map.by_venue_oid[v]]
           IN  /\ entry.request_id = orders[v[1]].request_id
               /\ SoleUser(v[1]) => entry.strategy_id = orders[v[1]].strategy_id
=============================================================================
