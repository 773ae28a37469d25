--------------------------- MODULE MCGatewayOrders ---------------------------
(***************************************************************************)
(* The allocator alone: four refs, two crashes and two failures give every *)
(* order of failed and successful loads and persists around a restart.     *)
(* The gateway: a request id of one strategy, which may be sent again, and *)
(* two strategies that send none, which is like sharing one; two venue ids *)
(* for the first order, the least with which one can hide another, and     *)
(* none for the second.                                                    *)
(***************************************************************************)
EXTENDS GatewayOrders

CONSTANTS r1, t1, t2, c2

FrontRefs == {-1, 2, MaxRef}

SomeRefs == {0, 2, MaxRef}

Command(r, t, c) == [request_id |-> r, strategy_id |-> t, client_order_id |-> c]

(* Only one of the commands brings a client id along. *)
SomeCommands == {Command(r1, t1, None), Command(NoId, t1, None), Command(NoId, t2, c2)}

VenueIds == <<2, 0>>
=============================================================================
