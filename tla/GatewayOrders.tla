---------------------------- MODULE GatewayOrders ----------------------------
(***************************************************************************)
(* The orders of a CTP gateway: OrderRouting, which forgets all of its     *)
(* orders when the process ends, with OrderRefAllocator, whose state file  *)
(* is to keep a reference from being given to a second order.  The order   *)
(* events of an earlier process arrive after the restart as well.          *)
(*                                                                         *)
(* The gateway calls next only.  With caller = "anyone" the allocator is   *)
(* used by itself and all of its methods are called.                       *)
(***************************************************************************)
EXTENDS OrderRefAllocator

CONSTANTS
    None, NoId, Commands, AliasKeys, VenueIdsPerOrder,
    MaxOrders, MaxQueue, RecentLimit,
    MaxGatewayCrashes, MaxGatewayFailures   \* bounds of the gateway's process

(* None and the empty text are no ids. *)
ASSUME NoneIsNoId ==
    /\ {None, NoId} \cap (Nat \cup (Nat \X Nat)) = {}
    /\ \A c \in Commands :
         /\ c.request_id # None /\ c.strategy_id # None
         /\ c.client_order_id # NoId

(* A client id that a command brings along ("client-1" in the tests) is no *)
(* number of the allocator.  The code relies on it: register would let the *)
(* command take over the id of the order that was sent with the number.    *)
ASSUME SuppliedIsNoRef == \A c \in Commands : c.client_order_id \notin Nat

VARIABLES
    caller,         \* who uses the allocator: "gateway" or "anyone"
    loop, placing, order_map, orders, output_queue, recent_trades, seen, since

Routing == INSTANCE OrderRouting WITH pc <- loop

routing == <<loop, placing, order_map, orders, output_queue, recent_trades, seen, since>>

(* The gateway starts with no file: the other ones matter to the allocator *)
(* only.                                                                   *)
OrdersInit ==
    /\ caller \in {"gateway", "anyone"} /\ Init /\ Routing!Init
    /\ caller = "gateway" => file = NoFile

(* The allocator by itself. *)
Allocates == caller = "anyone" /\ Next /\ UNCHANGED <<caller, routing>>

GatewayConstruct ==
    /\ construct \/ load_fails
    /\ failures' <= MaxGatewayFailures
    /\ UNCHANGED <<caller, routing>>

(* _dispatch registers the order and asks for a reference; ...             *)
AskForRef(command) == Routing!register_order(command) /\ next /\ UNCHANGED caller

GatewayPersist ==
    /\ Persist /\ failures' <= MaxGatewayFailures
    /\ UNCHANGED <<caller, routing>>

(* ... it sends the order with what next returns.                          *)
SendWithRef ==
    /\ return
    /\ Routing!place_order(value) \/ Routing!place_order_raises(value)
    /\ UNCHANGED caller

Route ==
    /\ up
    /\ Routing!no_order_command \/ Routing!emit \/ Routing!flush_event \/ Routing!flush_done
    /\ UNCHANGED <<caller, vars>>

GatewayCrash ==
    /\ crash /\ crashes' <= MaxGatewayCrashes
    /\ Routing!restart /\ UNCHANGED caller

OrdersNext ==
    \/ Allocates
    \/ /\ caller = "gateway"
       /\ \/ GatewayConstruct \/ GatewayPersist \/ SendWithRef \/ Route \/ GatewayCrash
          \/ \E command \in Commands : AskForRef(command)

OrdersSpec == OrdersInit /\ [][OrdersNext]_<<vars, caller, routing>>

-----------------------------------------------------------------------------
(* Over restarts, failing loads and persists and adapters that raise, the  *)
(* events of an order whose request id no other strategy uses are          *)
(* published under no strategy but the one that placed it                  *)
(* (_enrich_event_payload), save where two orders got one reference: the   *)
(* process ended while its latest persist had failed, or a new one could   *)
(* not read the state file.                                                *)
EventsReachOwner == ~lost => Routing!EventsReachOwner

(* What the map knows of the orders of this process: their own ids, and    *)
(* every venue id met (_record_order_result_ids, _record_event_order_ids). *)
OrdersAreKnown == Routing!SentIdsAreKnown /\ (~lost => Routing!VenueIdsLearned)
=============================================================================
