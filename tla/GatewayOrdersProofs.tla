------------------------- MODULE GatewayOrdersProofs --------------------------
(***************************************************************************)
(* Events of orders reach the strategy that placed the order, and the      *)
(* gateway goes on knowing the ids it was told, for any number of          *)
(* requests, orders, events, venue ids, crashes and failing persists, and  *)
(* whatever ids an answer or an event carries.                             *)
(* The first part is about the allocator alone: its refs strictly          *)
(* increase, for every value of the bounds, every initial value and every  *)
(* argument of align_with_max and reset, as long as no crash follows a     *)
(* failed persist, every load of a file that knows more than the default   *)
(* succeeds and reset does not lower the value.                            *)
(***************************************************************************)
EXTENDS GatewayOrders, TLAPS

(* No ref given out is above n. *)
AllUpTo(n) == \A i \in 1..Len(issued) : issued[i] <= n

(* While the object exists its value bounds the refs given out, strictly   *)
(* while next is on its way with a new one.                                *)
ValueAhead ==
    (up /\ ~lost) => IF op = "next" THEN AllUpTo(value - 1) ELSE AllUpTo(value)

(* The file bounds the refs given out whenever the object is gone or its   *)
(* latest persist succeeded; a crash moves from the second case to the     *)
(* first.                                                                  *)
FileAhead == (~lost /\ (persisted \/ ~up)) => AllUpTo(Saved(file))

(* A call is running exactly while pc is not idle. *)
CallShape == (pc = "idle" <=> op = "none") /\ (~up => pc = "idle")

(* A call whose persist succeeded returns with its value in the file. *)
ReturnSaved == (pc = "return" /\ persisted) => file = value

Inv ==
    /\ TypeOK /\ CallShape
    /\ ValueAhead /\ FileAhead /\ ReturnSaved
    /\ RefsIncrease

-----------------------------------------------------------------------------
(* Loading never goes below what the file has saved. *)
LEMMA LoadedCoversSaved ==
    ASSUME NEW f \in Nat \cup NotANumber
    PROVE  /\ Saved(f) \in Nat
           /\ LoadedValue(f) \in Nat
           /\ Saved(f) <= LoadedValue(f)
  BY ArgumentTypes, FileKindsDistinct DEF Saved, LoadedValue, Larger

(* A larger bound still bounds. *)
LEMMA AllUpToMonotone ==
    ASSUME TypeOK, NEW m \in Int, NEW n \in Int, m <= n, AllUpTo(m)
    PROVE  AllUpTo(n)
  <1> SUFFICES ASSUME NEW i \in 1..Len(issued) PROVE issued[i] <= n
    BY DEF AllUpTo
  <1>1. issued[i] \in Nat
    BY DEF TypeOK
  <1> QED BY <1>1 DEF AllUpTo

(* Appending a ref above all others keeps the sequence increasing. *)
LEMMA AppendKeepsIncreasing ==
    ASSUME NEW s \in Seq(Nat), NEW v \in Nat, Increasing(s),
           \A i \in 1..Len(s) : s[i] <= v - 1
    PROVE  /\ Increasing(Append(s, v))
           /\ \A i \in 1..Len(Append(s, v)) : Append(s, v)[i] <= v
  <1> DEFINE r == Append(s, v)
  <1>1. /\ Len(r) = Len(s) + 1
        /\ Len(s) \in Nat
        /\ r[Len(s) + 1] = v
        /\ \A i \in 1..Len(s) : r[i] = s[i] /\ s[i] \in Nat
    OBVIOUS
  <1> HIDE DEF r
  <1>2. \A i \in 1..Len(r) : i \in 1..Len(s) \/ i = Len(s) + 1
    BY <1>1
  <1>3. \A i \in 1..Len(r) : r[i] <= v
    BY <1>1, <1>2
  <1>4. Increasing(r)
    <2> SUFFICES ASSUME NEW i \in 1..Len(r), NEW j \in 1..Len(r), i < j
                 PROVE  r[i] < r[j]
      BY DEF Increasing
    <2>1. i \in 1..Len(s)
      BY <1>1, <1>2
    <2>2. CASE j \in 1..Len(s)
      BY <1>1, <2>1, <2>2 DEF Increasing
    <2>3. CASE j = Len(s) + 1
      BY <1>1, <2>1, <2>3
    <2> QED BY <1>2, <2>2, <2>3
  <1> QED BY <1>3, <1>4 DEF r

-----------------------------------------------------------------------------
(* Every step of a call, a crash and a restart keep the invariant. *)
LEMMA NextKeepsInv == Inv /\ [Next]_vars => Inv'
  <1> SUFFICES ASSUME Inv, [Next]_vars PROVE Inv'
    OBVIOUS
  <1> USE DEF Inv
  <1>1. CASE construct
    <2>1. TypeOK' /\ CallShape' /\ ReturnSaved' /\ RefsIncrease'
      BY <1>1, LoadedCoversSaved
         DEF construct, TypeOK, CallShape, ReturnSaved, RefsIncrease, Increasing
    <2>2. ~lost => AllUpTo(LoadedValue(file))
      <3>1. ~lost => AllUpTo(Saved(file))
        BY <1>1 DEF construct, FileAhead
      <3>2. Saved(file) \in Int /\ LoadedValue(file) \in Int /\ Saved(file) <= LoadedValue(file)
        <4>1. file \in Nat \cup NotANumber
          BY DEF TypeOK
        <4>2. /\ Saved(file) \in Nat /\ LoadedValue(file) \in Nat
              /\ Saved(file) <= LoadedValue(file)
          BY <4>1, LoadedCoversSaved, Zenon
        <4> QED BY <4>2
      <3> QED BY <3>1, <3>2, AllUpToMonotone
    <2>3. ValueAhead'
      BY <1>1, <2>2 DEF construct, ValueAhead, AllUpTo, CallShape
    <2>4. FileAhead'
      BY <1>1 DEF construct, FileAhead, AllUpTo
    <2> QED BY <2>1, <2>3, <2>4
  <1>2. CASE next
    <2>1. TypeOK' /\ CallShape' /\ ReturnSaved' /\ RefsIncrease'
      BY <1>2 DEF next, Idle, TypeOK, CallShape, ReturnSaved, RefsIncrease, Increasing
    <2>2. value \in Int /\ value' - 1 = value
      BY <1>2 DEF next, TypeOK
    <2>3. ValueAhead'
      BY <1>2, <2>2 DEF next, Idle, ValueAhead, AllUpTo, CallShape
    <2>4. FileAhead'
      BY <1>2 DEF next, FileAhead, AllUpTo
    <2> QED BY <2>1, <2>3, <2>4
  <1>3. ASSUME NEW m \in AlignArgs, align_with_max(m) PROVE Inv'
    <2>1. /\ value \in Int /\ value' \in Nat /\ value <= value'
      BY <1>3, ArgumentTypes DEF align_with_max, TypeOK, Larger
    <2>2. TypeOK' /\ CallShape' /\ ReturnSaved' /\ RefsIncrease'
      BY <1>3, <2>1 DEF align_with_max, Idle, TypeOK, CallShape, ReturnSaved, RefsIncrease, Increasing
    <2>3. ~lost => AllUpTo(value)
      BY <1>3 DEF align_with_max, Idle, ValueAhead, CallShape
    <2>4. ~lost => AllUpTo(value')
      BY <2>1, <2>3, AllUpToMonotone
    <2>5. ValueAhead'
      BY <1>3, <2>4 DEF align_with_max, ValueAhead, AllUpTo
    <2>6. FileAhead'
      BY <1>3 DEF align_with_max, FileAhead, AllUpTo
    <2> QED BY <2>2, <2>5, <2>6
  <1>4. ASSUME NEW v \in ResetArgs, reset(v) PROVE Inv'
    <2>1. value \in Int /\ v \in Nat /\ value' = v
      BY <1>4, ArgumentTypes DEF reset, TypeOK
    <2>2. TypeOK' /\ CallShape' /\ ReturnSaved'
      <3>1. lost' \in BOOLEAN
        BY <1>4 DEF reset, TypeOK
      <3> QED BY <1>4, <2>1, <3>1 DEF reset, Idle, TypeOK, CallShape, ReturnSaved
    <2>3. ~lost' => ~lost /\ value <= v
      <3>1. ~lost' => ~lost /\ ~(v < value)
        BY <1>4, Zenon DEF reset
      <3> QED BY <2>1, <3>1
    <2>4. ~lost' => AllUpTo(v)
      BY <1>4, <2>1, <2>3, AllUpToMonotone DEF reset, Idle, ValueAhead, CallShape
    <2>5. ValueAhead'
      BY <1>4, <2>4 DEF reset, ValueAhead, AllUpTo
    <2>6. FileAhead' /\ RefsIncrease'
      BY <1>4, <2>3 DEF reset, FileAhead, AllUpTo, RefsIncrease, Increasing
    <2> QED BY <2>2, <2>5, <2>6
  <1>5. CASE write_temp
    BY <1>5 DEF write_temp, TypeOK, CallShape, ReturnSaved, ValueAhead, FileAhead, AllUpTo,
                RefsIncrease, Increasing
  <1>6. CASE os_replace
    <2>1. TypeOK' /\ CallShape' /\ ReturnSaved' /\ ValueAhead' /\ RefsIncrease'
      BY <1>6 DEF os_replace, TypeOK, CallShape, ReturnSaved, ValueAhead, AllUpTo,
                  RefsIncrease, Increasing
    <2>2. Saved(file') = value /\ value \in Nat
      BY <1>6, FileKindsDistinct DEF os_replace, Saved, TypeOK
    <2>3. up
      BY <1>6 DEF os_replace, CallShape
    <2>4. ~lost => AllUpTo(value)
      BY <2>2, <2>3, AllUpToMonotone DEF ValueAhead
    <2>5. FileAhead'
      BY <1>6, <2>2, <2>4 DEF os_replace, FileAhead, AllUpTo
    <2> QED BY <2>1, <2>5
  <1>7. CASE undecodable_state \/ persist_fails
    <2>1. /\ pc \in {"persist", "replace"} /\ pc' = "return"
          /\ persisted' = FALSE /\ failures' \in Nat
          /\ UNCHANGED <<up, value, file, op, issued, lost, crashes>>
      BY <1>7 DEF undecodable_state, persist_fails, TypeOK
    <2>2. TypeOK' /\ CallShape' /\ ReturnSaved'
      BY <2>1 DEF TypeOK, CallShape, ReturnSaved
    <2>3. up
      BY <2>1 DEF CallShape
    <2>4. ValueAhead' /\ FileAhead' /\ RefsIncrease'
      BY <2>1, <2>3 DEF ValueAhead, FileAhead, AllUpTo, RefsIncrease, Increasing
    <2> QED BY <2>2, <2>4
  <1>8. CASE return
    <2>1. CASE op = "next"
      <3>1. issued' = Append(issued, value) /\ value' = value /\ lost' = lost
        BY <1>8, <2>1 DEF return
      <3>2. up /\ up' = up /\ file' = file /\ persisted' = persisted /\ op' = "none"
        BY <1>8 DEF return, CallShape
      <3>3. issued \in Seq(Nat) /\ value \in Nat
        BY DEF TypeOK
      <3>4. TypeOK' /\ CallShape' /\ ReturnSaved'
        BY <1>8, <3>1, <3>3 DEF return, TypeOK, CallShape, ReturnSaved
      <3>5. ~lost => /\ Increasing(issued')
                     /\ \A i \in 1..Len(issued') : issued'[i] <= value
        BY <2>1, <3>1, <3>2, <3>3, AppendKeepsIncreasing
           DEF ValueAhead, AllUpTo, RefsIncrease
      <3>6. RefsIncrease' /\ ValueAhead'
        BY <3>1, <3>2, <3>5 DEF RefsIncrease, ValueAhead, AllUpTo, Increasing
      <3>7. FileAhead'
        <4>1. (~lost /\ persisted) => Saved(file) = value
          BY <1>8, <3>3, FileKindsDistinct DEF return, ReturnSaved, Saved
        <4> QED
          BY <3>1, <3>2, <3>5, <4>1 DEF FileAhead, AllUpTo
      <3> QED BY <3>4, <3>6, <3>7
    <2>2. CASE op # "next"
      BY <1>8, <2>2 DEF return, TypeOK, CallShape, ReturnSaved, ValueAhead, FileAhead, AllUpTo,
                RefsIncrease, Increasing
    <2> QED BY <2>1, <2>2
  <1>9. CASE crash
    <2>1. lost' \in BOOLEAN /\ up' \in BOOLEAN
      BY <1>9 DEF crash
    <2>2. TypeOK' /\ CallShape' /\ ReturnSaved'
      BY <1>9, <2>1 DEF crash, TypeOK, CallShape, ReturnSaved
    <2>3. ~lost' => ~lost /\ persisted
      BY <1>9 DEF crash
    <2>4. ValueAhead' /\ FileAhead' /\ RefsIncrease'
      BY <1>9, <2>3 DEF crash, ValueAhead, FileAhead, AllUpTo, RefsIncrease, Increasing
    <2> QED BY <2>2, <2>4
  <1>10. CASE UNCHANGED vars
    BY <1>10 DEF vars, TypeOK, CallShape, ReturnSaved, ValueAhead, FileAhead, AllUpTo,
                 RefsIncrease, Increasing
  <1>11. CASE load_fails
    <2>1. /\ up' = TRUE /\ value' = InitialValue /\ persisted' = TRUE
          /\ failures' = failures + 1 /\ lost' = (lost \/ LoadedValue(file) # InitialValue)
          /\ UNCHANGED <<file, pc, op, issued, crashes>> /\ ~up
      BY <1>11 DEF load_fails
    <2>2. ~lost' => ~lost /\ value' = LoadedValue(file)
      BY <2>1, Zenon
    <2>3. TypeOK' /\ CallShape' /\ ReturnSaved'
      <3>1. lost' \in BOOLEAN
        BY <2>1
      <3> QED BY <2>1, <3>1, ArgumentTypes DEF TypeOK, CallShape, ReturnSaved
    <2>4. RefsIncrease'
      BY <2>1, <2>2 DEF RefsIncrease, Increasing
    <2>5. ~lost => AllUpTo(Saved(file))
      BY <2>1 DEF FileAhead
    <2>6. ~lost => AllUpTo(LoadedValue(file))
      <3>1. Saved(file) \in Int /\ LoadedValue(file) \in Int /\ Saved(file) <= LoadedValue(file)
        <4>1. file \in Nat \cup NotANumber
          BY DEF TypeOK
        <4>2. /\ Saved(file) \in Nat /\ LoadedValue(file) \in Nat
              /\ Saved(file) <= LoadedValue(file)
          BY <4>1, LoadedCoversSaved, Zenon
        <4> QED BY <4>2
      <3> QED BY <2>5, <3>1, AllUpToMonotone
    <2>7. ValueAhead'
      <3>1. op' # "next"
        BY <2>1 DEF CallShape
      <3>2. ~lost' => AllUpTo(value')
        BY <2>2, <2>6
      <3> QED BY <2>1, <3>1, <3>2 DEF ValueAhead, AllUpTo
    <2>8. FileAhead'
      BY <2>1, <2>2, <2>5 DEF FileAhead, AllUpTo
    <2> QED BY <2>3, <2>4, <2>7, <2>8
  <1> QED
    BY <1>1, <1>2, <1>3, <1>4, <1>5, <1>6, <1>7, <1>8, <1>9, <1>10, <1>11 DEF Next, Persist

(* A new object has given out nothing. *)
LEMMA InitGivesInv == Init => Inv
  <1> SUFFICES ASSUME Init PROVE Inv
    OBVIOUS
  <1>1. Len(issued) = 0 /\ issued \in Seq(Nat)
    BY DEF Init
  <1>2. TypeOK /\ CallShape /\ ReturnSaved
    <2>1. up \in BOOLEAN /\ persisted \in BOOLEAN /\ lost \in BOOLEAN
      BY DEF Init
    <2>2. file \in Nat \cup NotANumber
      BY DEF Init
    <2>3. pc = "idle" /\ op = "none" /\ value = 0 /\ failures = 0 /\ crashes = 0
      BY DEF Init
    <2> QED
      BY <1>1, <2>1, <2>2, <2>3 DEF TypeOK, CallShape, ReturnSaved
  <1>3. ValueAhead /\ FileAhead /\ RefsIncrease
    BY <1>1 DEF ValueAhead, FileAhead, AllUpTo, RefsIncrease, Increasing
  <1> QED BY <1>2, <1>3 DEF Inv

LEMMA InvHolds == Spec => []Inv
  BY InitGivesInv, NextKeepsInv, PTL DEF Spec

(* For every bound and every argument of align_with_max and reset: the     *)
(* refs next gives out strictly increase over crashes and made-good        *)
(* failures of _persist_locked, save after a load that fails on a file     *)
(* that knew more than initial_value (the except of _load).                *)
THEOREM RefsUnique == Spec => [](TypeOK /\ RefsIncrease)
  <1>1. Inv => TypeOK /\ RefsIncrease
    BY DEF Inv
  <1> QED BY <1>1, InvHolds, PTL

(* A persist that succeeds leaves a file that covers every ref given out,  *)
(* the ones whose own persist failed included.                             *)
THEOREM FileIsAhead == Spec => []FileCoversIssued
  <1>1. Inv => FileCoversIssued
    BY DEF Inv, FileAhead, AllUpTo, FileCoversIssued
  <1> QED BY <1>1, InvHolds, PTL

-----------------------------------------------------------------------------
(* The orders of the gateway.                                              *)

Requests == {command.request_id : command \in Commands}
Owners == {command.strategy_id : command \in Commands}
ClientIds == Nat \cup {command.client_order_id : command \in Commands}
AllVenueIds == Nat \X Nat

Entries == [request_id : Requests, strategy_id : Owners, client_order_id : ClientIds \cup {None},
            venue_order_id : AllVenueIds \cup {None}, status : {"pending", "reported"}]

Events == [order : Nat, strategy_id : Owners \cup {None}, request_id : Requests \cup {None},
           client_order_id : ClientIds \cup {None}, order_ref : ClientIds \cup {None},
           venue_order_id : AllVenueIds \cup {None}, order_id : AllVenueIds \cup {None}]

Orders == [request_id : Requests, strategy_id : Owners, client_order_id : Nat]

(* An index of the map leads to entries.                                   *)
Leads(index, ids, m) ==
    DOMAIN index \subseteq ids /\ \A i \in DOMAIN index : index[i] \in DOMAIN m.entries

(* The map by itself: a request id finds an entry of its own, and the      *)
(* request and venue ids of an entry are in their indexes.                 *)
MapOK(m) ==
    /\ m = [entries |-> m.entries, by_request |-> m.by_request,
            by_client_oid |-> m.by_client_oid, by_venue_oid |-> m.by_venue_oid]
    /\ m.entries \in Seq(Entries)
    /\ Leads(m.by_request, Requests, m)
    /\ Leads(m.by_client_oid, ClientIds, m)
    /\ Leads(m.by_venue_oid, AllVenueIds, m)
    /\ \A r \in DOMAIN m.by_request : m.entries[m.by_request[r]].request_id = r
    /\ \A e \in DOMAIN m.entries :
         /\ m.entries[e].request_id \in DOMAIN m.by_request
         /\ m.entries[e].venue_order_id # None => m.entries[e].venue_order_id \in DOMAIN m.by_venue_oid

(* An id the exchange may put into an event of order o leads to an entry   *)
(* of the request id under which o was placed.                             *)
LeadsToRequest(m, os) ==
    /\ \A c \in DOMAIN m.by_client_oid : \A o \in DOMAIN os :
         os[o].client_order_id = c =>
             m.entries[m.by_client_oid[c]].request_id = os[o].request_id
    /\ \A v \in DOMAIN m.by_venue_oid :
         /\ v[1] \in DOMAIN os
         /\ m.entries[m.by_venue_oid[v]].request_id = os[v[1]].request_id

(* An entry has the request id and the strategy of an order that was sent, *)
(* or of the command that waits for its reference.                         *)
PlacedAs(entry, order) ==
    entry.request_id = order.request_id /\ entry.strategy_id = order.strategy_id

ArePlaced(m, os) == \A e \in DOMAIN m.entries : \E o \in DOMAIN os : PlacedAs(m.entries[e], os[o])

EntriesPlaced ==
    \A e \in DOMAIN order_map.entries :
        \/ \E o \in DOMAIN orders : PlacedAs(order_map.entries[e], orders[o])
        \/ loop = "ref" /\ PlacedAs(order_map.entries[e], placing)

(* A venue id only leads to the entry of an order that was sent.           *)
VenuesPlaced ==
    \A v \in DOMAIN order_map.by_venue_oid : \E o \in DOMAIN orders :
        PlacedAs(order_map.entries[order_map.by_venue_oid[v]], orders[o])

(* The orders of this process are found by both ids that were sent.        *)
SentAreFound(m, os, old) ==
    \A o \in DOMAIN os : o > old =>
        os[o].request_id \in DOMAIN m.by_request /\ os[o].client_order_id \in DOMAIN m.by_client_oid

(* An event that waits names an order that was sent, by ids of its own.    *)
IsOf(event, os) ==
    /\ event.order \in DOMAIN os /\ event.strategy_id = None
    /\ event.request_id \in {None, os[event.order].request_id}
    /\ event.client_order_id \in {None, os[event.order].client_order_id}
    /\ event.order_ref \in {None, os[event.order].client_order_id}
    /\ event.venue_order_id # None => event.venue_order_id[1] = event.order
    /\ event.order_id # None => event.order_id[1] = event.order
    /\ None \in {event.venue_order_id, event.order_id}

RowsOK ==
    /\ recent_trades \in Seq(Events)
    /\ \A i \in DOMAIN recent_trades : recent_trades[i].order \in DOMAIN orders

RoutingOK ==
    /\ orders \in Seq(Orders) /\ since \in 0 .. Len(orders)
    /\ MapOK(order_map)
    /\ EntriesPlaced /\ VenuesPlaced
    /\ SentAreFound(order_map, orders, since)
    /\ output_queue \in Seq(Events)
    /\ \A i \in DOMAIN output_queue : IsOf(output_queue[i], orders)
    /\ RowsOK
    /\ seen \subseteq DOMAIN order_map.by_venue_oid
    /\ Routing!SentIdsAreKnown
    /\ ~lost => LeadsToRequest(order_map, orders) /\ Routing!EventsReachOwner

(* The gateway's orders were sent with the references the allocator gave.  *)
Linked ==
    /\ caller = "gateway" =>
         /\ Len(orders) = Len(issued)
         /\ \A o \in DOMAIN orders : orders[o].client_order_id = issued[o]
         /\ loop = "ref" <=> pc # "idle"
         /\ pc # "idle" => op = "next" /\ placing \in Commands
                           /\ placing.request_id \in DOMAIN order_map.by_request
    /\ caller = "anyone" => Routing!Init

OrdersInv == Inv /\ Linked /\ RoutingOK

-----------------------------------------------------------------------------
(* A map with one entry renamed or recorded under one more venue id is     *)
(* still a map, and nothing else about it has changed.                     *)
SameBut(n, m) ==
    /\ n.by_request = m.by_request
    /\ DOMAIN n.entries = DOMAIN m.entries
    /\ \A e \in DOMAIN m.entries :
         /\ n.entries[e].request_id = m.entries[e].request_id
         /\ n.entries[e].strategy_id = m.entries[e].strategy_id

(* set_client_order_id *)
LEMMA SetClientKeepsMap ==
    ASSUME NEW m, MapOK(m), NEW r \in DOMAIN m.by_request, NEW c \in ClientIds
    PROVE  LET n == Routing!set_client_order_id(m, r, c)
           IN  /\ MapOK(n) /\ SameBut(n, m)
               /\ n.by_venue_oid = m.by_venue_oid
               /\ \A e \in DOMAIN m.entries : n.entries[e].venue_order_id = m.entries[e].venue_order_id
               /\ DOMAIN n.by_client_oid = DOMAIN m.by_client_oid \cup {c}
               /\ \A d \in DOMAIN n.by_client_oid :
                    n.by_client_oid[d] = IF d = c THEN m.by_request[r] ELSE m.by_client_oid[d]
  <1> DEFINE n == Routing!set_client_order_id(m, r, c)
             e == m.by_request[r]
             Index == Routing!Put(m.by_client_oid, c, e)
             Entry == [m.entries[e] EXCEPT !.client_order_id = c]
  <1>1. e \in DOMAIN m.entries /\ m.entries[e] \in Entries
    BY DEF MapOK, Leads
  <1>2. n = [entries |-> [m.entries EXCEPT ![e] = Entry], by_request |-> m.by_request,
             by_client_oid |-> Index, by_venue_oid |-> m.by_venue_oid]
    BY DEF Routing!set_client_order_id, Routing!Has, MapOK
  <1>3. /\ DOMAIN Index = DOMAIN m.by_client_oid \cup {c}
        /\ \A d \in DOMAIN Index : Index[d] = IF d = c THEN e ELSE m.by_client_oid[d]
    BY DEF Routing!Put
  <1>4. /\ Entry \in Entries
        /\ Entry.request_id = m.entries[e].request_id
        /\ Entry.strategy_id = m.entries[e].strategy_id
        /\ Entry.venue_order_id = m.entries[e].venue_order_id
    BY <1>1 DEF Entries
  <1>5. /\ [m.entries EXCEPT ![e] = Entry] \in Seq(Entries)
        /\ DOMAIN [m.entries EXCEPT ![e] = Entry] = DOMAIN m.entries
        /\ \A i \in DOMAIN m.entries :
             [m.entries EXCEPT ![e] = Entry][i] = IF i = e THEN Entry ELSE m.entries[i]
    BY <1>1, <1>4 DEF MapOK
  <1> HIDE DEF n, Index, Entry, e
  <1>6. SameBut(n, m)
    BY <1>2, <1>4, <1>5 DEF SameBut
  <1>7. MapOK(n)
    BY <1>1, <1>2, <1>3, <1>4, <1>5, SMTT(30) DEF MapOK, Leads
  <1> QED BY <1>2, <1>3, <1>4, <1>5, <1>6, <1>7 DEF n, e

(* set_venue_order_id *)
LEMMA SetVenueKeepsMap ==
    ASSUME NEW m, MapOK(m), NEW r \in DOMAIN m.by_request, NEW v \in AllVenueIds
    PROVE  LET n == Routing!set_venue_order_id(m, r, v)
           IN  /\ MapOK(n) /\ SameBut(n, m)
               /\ n.by_client_oid = m.by_client_oid
               /\ DOMAIN n.by_venue_oid = DOMAIN m.by_venue_oid \cup {v}
               /\ \A d \in DOMAIN n.by_venue_oid :
                    n.by_venue_oid[d] = IF d = v THEN m.by_request[r] ELSE m.by_venue_oid[d]
  <1> DEFINE n == Routing!set_venue_order_id(m, r, v)
             e == m.by_request[r]
             Index == Routing!Put(m.by_venue_oid, v, e)
             Entry == [m.entries[e] EXCEPT !.venue_order_id = v]
  <1>1. e \in DOMAIN m.entries /\ m.entries[e] \in Entries
    BY DEF MapOK, Leads
  <1>2. n = [entries |-> [m.entries EXCEPT ![e] = Entry], by_request |-> m.by_request,
             by_client_oid |-> m.by_client_oid, by_venue_oid |-> Index]
    BY DEF Routing!set_venue_order_id, Routing!Has, MapOK
  <1>3. /\ DOMAIN Index = DOMAIN m.by_venue_oid \cup {v}
        /\ \A d \in DOMAIN Index : Index[d] = IF d = v THEN e ELSE m.by_venue_oid[d]
    BY DEF Routing!Put
  <1>4. /\ Entry \in Entries
        /\ Entry.request_id = m.entries[e].request_id
        /\ Entry.strategy_id = m.entries[e].strategy_id
        /\ Entry.venue_order_id = v
    BY <1>1 DEF Entries
  <1>5. /\ [m.entries EXCEPT ![e] = Entry] \in Seq(Entries)
        /\ DOMAIN [m.entries EXCEPT ![e] = Entry] = DOMAIN m.entries
        /\ \A i \in DOMAIN m.entries :
             [m.entries EXCEPT ![e] = Entry][i] = IF i = e THEN Entry ELSE m.entries[i]
    BY <1>1, <1>4 DEF MapOK
  <1> HIDE DEF n, Index, Entry, e
  <1>6. SameBut(n, m)
    BY <1>2, <1>4, <1>5 DEF SameBut
  <1>7. MapOK(n)
    <2>1. /\ n.entries \in Seq(Entries)
          /\ DOMAIN n.entries = DOMAIN m.entries
          /\ n.by_request = m.by_request /\ n.by_client_oid = m.by_client_oid /\ n.by_venue_oid = Index
      BY <1>2, <1>5
    <2>2. Leads(n.by_request, Requests, n) /\ Leads(n.by_client_oid, ClientIds, n)
      BY <2>1 DEF MapOK, Leads
    <2>3. Leads(n.by_venue_oid, AllVenueIds, n)
      BY <1>1, <1>3, <2>1 DEF MapOK, Leads
    <2>4. \A q \in DOMAIN n.by_request : n.entries[n.by_request[q]].request_id = q
      BY <1>6, <2>1 DEF MapOK, Leads, SameBut
    <2>5. ASSUME NEW i \in DOMAIN n.entries
          PROVE  n.entries[i].venue_order_id # None => n.entries[i].venue_order_id \in DOMAIN n.by_venue_oid
      <3>1. n.entries[i] = IF i = e THEN Entry ELSE m.entries[i]
        BY <1>2, <1>5, <2>1
      <3> QED BY <1>3, <1>4, <2>1, <3>1 DEF MapOK
    <2>6. \A i \in DOMAIN n.entries : n.entries[i].request_id \in DOMAIN n.by_request
      BY <1>6, <2>1 DEF MapOK, SameBut
    <2>7. n = [entries |-> n.entries, by_request |-> n.by_request,
               by_client_oid |-> n.by_client_oid, by_venue_oid |-> n.by_venue_oid]
      BY <1>2
    <2> QED BY <2>1, <2>2, <2>3, <2>4, <2>5, <2>6, <2>7 DEF MapOK
  <1> QED BY <1>2, <1>3, <1>6, <1>7 DEF n, e

(* update_status *)
LEMMA UpdateStatusKeepsMap ==
    ASSUME NEW m, MapOK(m), NEW r \in DOMAIN m.by_request
    PROVE  LET n == Routing!update_status(m, r, "reported")
           IN  /\ MapOK(n) /\ SameBut(n, m)
               /\ n.by_client_oid = m.by_client_oid /\ n.by_venue_oid = m.by_venue_oid
  <1> DEFINE n == Routing!update_status(m, r, "reported")
             e == m.by_request[r]
             Entry == [m.entries[e] EXCEPT !.status = "reported"]
  <1>1. e \in DOMAIN m.entries /\ m.entries[e] \in Entries
    BY DEF MapOK, Leads
  <1>2. n = [entries |-> [m.entries EXCEPT ![e] = Entry], by_request |-> m.by_request,
             by_client_oid |-> m.by_client_oid, by_venue_oid |-> m.by_venue_oid]
    BY DEF Routing!update_status, Routing!Has, MapOK
  <1>3. /\ Entry \in Entries
        /\ Entry.request_id = m.entries[e].request_id
        /\ Entry.strategy_id = m.entries[e].strategy_id
        /\ Entry.venue_order_id = m.entries[e].venue_order_id
    BY <1>1 DEF Entries
  <1>4. /\ [m.entries EXCEPT ![e] = Entry] \in Seq(Entries)
        /\ DOMAIN [m.entries EXCEPT ![e] = Entry] = DOMAIN m.entries
        /\ \A i \in DOMAIN m.entries :
             [m.entries EXCEPT ![e] = Entry][i] = IF i = e THEN Entry ELSE m.entries[i]
    BY <1>1, <1>3 DEF MapOK
  <1> HIDE DEF n, Entry, e
  <1>5. SameBut(n, m)
    BY <1>2, <1>3, <1>4 DEF SameBut
  <1>6. MapOK(n)
    BY <1>1, <1>2, <1>3, <1>4, SMTT(30) DEF MapOK, Leads
  <1> QED BY <1>2, <1>5, <1>6 DEF n

(* register puts a new entry behind the others, and under its ids. *)
LEMMA RegisterKeepsMap ==
    ASSUME NEW m, MapOK(m), NEW command \in Commands
    PROVE  LET n == Routing!register(m, command.request_id, command.strategy_id,
                                     command.client_order_id, None)
           IN  /\ MapOK(n)
               /\ n.by_venue_oid = m.by_venue_oid
               /\ DOMAIN m.entries \subseteq DOMAIN n.entries
               /\ \A e \in DOMAIN m.entries : n.entries[e] = m.entries[e]
               /\ \A e \in DOMAIN n.entries \ DOMAIN m.entries : PlacedAs(n.entries[e], command)
               /\ DOMAIN n.by_request = DOMAIN m.by_request \cup {command.request_id}
               /\ DOMAIN m.by_client_oid \subseteq DOMAIN n.by_client_oid
               /\ \A c \in DOMAIN n.by_client_oid :
                    c = command.client_order_id \/ (c \in DOMAIN m.by_client_oid /\ n.by_client_oid[c] = m.by_client_oid[c])
  <1> DEFINE r == command.request_id
             n == Routing!register(m, r, command.strategy_id, command.client_order_id, None)
             e == Len(m.entries) + 1
             Entry == [request_id |-> r, strategy_id |-> command.strategy_id,
                       client_order_id |-> command.client_order_id,
                       venue_order_id |-> None, status |-> "pending"]
             Requested == Routing!Put(m.by_request, r, e)
             Named == Routing!PutUnlessNone(m.by_client_oid, command.client_order_id, e)
  <1>1. Entry \in Entries /\ m.entries \in Seq(Entries)
    BY DEF Entries, Requests, Owners, ClientIds, MapOK
  <1>2. n = [entries |-> Append(m.entries, Entry), by_request |-> Requested,
             by_client_oid |-> Named, by_venue_oid |-> m.by_venue_oid]
    BY DEF Routing!register, Routing!PutUnlessNone
  <1>3. /\ DOMAIN Requested = DOMAIN m.by_request \cup {r}
        /\ \A q \in DOMAIN Requested : Requested[q] = IF q = r THEN e ELSE m.by_request[q]
    BY DEF Routing!Put
  <1>4. /\ DOMAIN m.by_client_oid \subseteq DOMAIN Named
        /\ DOMAIN Named \subseteq DOMAIN m.by_client_oid \cup {command.client_order_id}
        /\ DOMAIN Named \subseteq ClientIds
        /\ \A c \in DOMAIN Named : IF c \in DOMAIN m.by_client_oid THEN Named[c] \in {m.by_client_oid[c], e} ELSE Named[c] = e
        /\ \A c \in DOMAIN Named : c = command.client_order_id \/ Named[c] = m.by_client_oid[c]
    BY DEF Routing!Put, Routing!PutUnlessNone, MapOK, Leads, ClientIds
  <1>8. r \in Requests
    BY DEF Requests
  <1>5. /\ Append(m.entries, Entry) \in Seq(Entries)
        /\ DOMAIN Append(m.entries, Entry) = DOMAIN m.entries \cup {e}
        /\ e \notin DOMAIN m.entries
        /\ Append(m.entries, Entry)[e] = Entry
        /\ \A i \in DOMAIN m.entries : Append(m.entries, Entry)[i] = m.entries[i]
    BY <1>1
  <1>6. /\ Entry.request_id = r /\ Entry.strategy_id = command.strategy_id /\ Entry.venue_order_id = None
    OBVIOUS
  <1> HIDE DEF n, e, r, Entry, Requested, Named
  <1>7. MapOK(n)
    BY <1>1, <1>2, <1>3, <1>4, <1>5, <1>6, <1>8 DEF MapOK, Leads
  <1>9. /\ DOMAIN n.entries = DOMAIN m.entries \cup {e}
        /\ PlacedAs(n.entries[e], command)
    BY <1>2, <1>5, <1>6 DEF PlacedAs, r
  <1> QED BY <1>2, <1>3, <1>4, <1>5, <1>7, <1>9 DEF n, r

-----------------------------------------------------------------------------
(* No two orders were sent with one reference. *)
UniqueRefs(os) == \A o, p \in DOMAIN os : os[o].client_order_id = os[p].client_order_id => o = p

(* The ids that m finds something by are found by n as well. *)
Extends(n, m) ==
    /\ DOMAIN m.by_request \subseteq DOMAIN n.by_request
    /\ DOMAIN m.by_client_oid \subseteq DOMAIN n.by_client_oid
    /\ DOMAIN m.by_venue_oid \subseteq DOMAIN n.by_venue_oid

(* A client id leads to the request of its order once it is set on an      *)
(* entry of that request, ...                                              *)
LEMMA ClientKeepsRequests ==
    ASSUME NEW m, MapOK(m), NEW os, LeadsToRequest(m, os), NEW r \in DOMAIN m.by_request, NEW c \in ClientIds,
           \A o \in DOMAIN os : os[o].client_order_id = c => r = os[o].request_id
    PROVE  LeadsToRequest(Routing!set_client_order_id(m, r, c), os)
  <1> DEFINE n == Routing!set_client_order_id(m, r, c)
  <1>1. /\ MapOK(n) /\ SameBut(n, m)
        /\ n.by_venue_oid = m.by_venue_oid
        /\ DOMAIN n.by_client_oid = DOMAIN m.by_client_oid \cup {c}
        /\ \A d \in DOMAIN n.by_client_oid :
             n.by_client_oid[d] = IF d = c THEN m.by_request[r] ELSE m.by_client_oid[d]
    BY SetClientKeepsMap
  <1>2. /\ m.by_request[r] \in DOMAIN m.entries
        /\ m.entries[m.by_request[r]].request_id = r
    BY DEF MapOK, Leads
  <1>3. /\ \A d \in DOMAIN m.by_client_oid : m.by_client_oid[d] \in DOMAIN m.entries
        /\ \A d \in DOMAIN m.by_venue_oid : m.by_venue_oid[d] \in DOMAIN m.entries
    BY DEF MapOK, Leads
  <1> HIDE DEF n
  <1>4. ASSUME NEW d \in DOMAIN n.by_client_oid, NEW o \in DOMAIN os, os[o].client_order_id = d
        PROVE  n.entries[n.by_client_oid[d]].request_id = os[o].request_id
    BY <1>1, <1>2, <1>3, <1>4 DEF SameBut, LeadsToRequest
  <1>5. ASSUME NEW v \in DOMAIN n.by_venue_oid
        PROVE  /\ v[1] \in DOMAIN os
               /\ n.entries[n.by_venue_oid[v]].request_id = os[v[1]].request_id
    BY <1>1, <1>3 DEF SameBut, LeadsToRequest
  <1>6. LeadsToRequest(n, os)
    BY <1>4, <1>5 DEF LeadsToRequest
  <1> QED BY <1>6 DEF n

(* ... and so does a venue id.                                             *)
LEMMA VenueKeepsRequests ==
    ASSUME NEW m, MapOK(m), NEW os, LeadsToRequest(m, os), NEW r \in DOMAIN m.by_request,
           NEW v \in AllVenueIds, v[1] \in DOMAIN os, r = os[v[1]].request_id
    PROVE  LeadsToRequest(Routing!set_venue_order_id(m, r, v), os)
  <1> DEFINE n == Routing!set_venue_order_id(m, r, v)
  <1>1. /\ MapOK(n) /\ SameBut(n, m)
        /\ n.by_client_oid = m.by_client_oid
        /\ DOMAIN n.by_venue_oid = DOMAIN m.by_venue_oid \cup {v}
        /\ \A d \in DOMAIN n.by_venue_oid :
             n.by_venue_oid[d] = IF d = v THEN m.by_request[r] ELSE m.by_venue_oid[d]
    BY SetVenueKeepsMap
  <1>2. /\ m.by_request[r] \in DOMAIN m.entries
        /\ m.entries[m.by_request[r]].request_id = r
    BY DEF MapOK, Leads
  <1>3. /\ \A d \in DOMAIN m.by_client_oid : m.by_client_oid[d] \in DOMAIN m.entries
        /\ \A d \in DOMAIN m.by_venue_oid : m.by_venue_oid[d] \in DOMAIN m.entries
    BY DEF MapOK, Leads
  <1> HIDE DEF n
  <1>4. ASSUME NEW d \in DOMAIN n.by_client_oid, NEW o \in DOMAIN os, os[o].client_order_id = d
        PROVE  n.entries[n.by_client_oid[d]].request_id = os[o].request_id
    BY <1>1, <1>3, <1>4 DEF SameBut, LeadsToRequest
  <1>5. ASSUME NEW w \in DOMAIN n.by_venue_oid
        PROVE  /\ w[1] \in DOMAIN os
               /\ n.entries[n.by_venue_oid[w]].request_id = os[w[1]].request_id
    BY <1>1, <1>2, <1>3 DEF SameBut, LeadsToRequest
  <1>6. LeadsToRequest(n, os)
    BY <1>4, <1>5 DEF LeadsToRequest
  <1> QED BY <1>6 DEF n

(* The first of the lookups that finds an entry finds one of the order's   *)
(* request, and if none does then none of the ids is in the map.           *)
LEMMA FirstHitIsRequest ==
    ASSUME NEW m, MapOK(m), NEW os \in Seq(Orders), NEW event \in Events, IsOf(event, os)
    PROVE  LET e == Routing!_order_entry_for_event(m, event)
           IN  \/ /\ e \in DOMAIN m.entries /\ e # 0
                  /\ LeadsToRequest(m, os) => m.entries[e].request_id = os[event.order].request_id
               \/ /\ e = 0
                  /\ event.request_id \notin {None, NoId} => event.request_id \notin DOMAIN m.by_request
                  /\ event.client_order_id \notin {None, NoId} => event.client_order_id \notin DOMAIN m.by_client_oid
                  /\ event.order_ref \notin {None, NoId} => event.order_ref \notin DOMAIN m.by_client_oid
                  /\ event.venue_order_id \notin {None, NoId} => event.venue_order_id \notin DOMAIN m.by_venue_oid
                  /\ event.order_id \notin {None, NoId} => event.order_id \notin DOMAIN m.by_venue_oid
  <1> DEFINE lookups == << <<m.by_request, event.request_id>>,
                           <<m.by_client_oid, event.client_order_id>>,
                           <<m.by_client_oid, event.order_ref>>,
                           <<m.by_venue_oid, event.venue_order_id>>,
                           <<m.by_venue_oid, event.order_id>> >>
             hit(i) == lookups[i][2] \notin {None, NoId} /\ Routing!Has(lookups[i][1], lookups[i][2])
             hits == {i \in 1..5 : hit(i)}
             found(i) == lookups[i][1][lookups[i][2]]
             good(e) == /\ e \in DOMAIN m.entries
                        /\ LeadsToRequest(m, os) => m.entries[e].request_id = os[event.order].request_id
             e0 == Routing!_order_entry_for_event(m, event)
  <1>1. e0 = IF hits = {} THEN 0 ELSE found(Routing!Min(hits))
    BY DEF Routing!_order_entry_for_event
  <1>2. hit(1) => good(found(1))
    BY DEF Routing!Has, MapOK, Leads, IsOf
  <1>3. (hit(2) => good(found(2))) /\ (hit(3) => good(found(3)))
    BY DEF Routing!Has, MapOK, Leads, IsOf, LeadsToRequest
  <1>4. (hit(4) => good(found(4))) /\ (hit(5) => good(found(5)))
    BY DEF Routing!Has, MapOK, Leads, IsOf, LeadsToRequest
  <1>5. \A i \in 1..5 : i = 1 \/ i = 2 \/ i = 3 \/ i = 4 \/ i = 5
    OBVIOUS
  <1>6. CASE hits = {}
    <2>1. ~hit(1) /\ ~hit(2) /\ ~hit(3) /\ ~hit(4) /\ ~hit(5)
      <3> HIDE DEF hit
      <3>1. 1 \in 1..5 /\ 2 \in 1..5 /\ 3 \in 1..5 /\ 4 \in 1..5 /\ 5 \in 1..5
        OBVIOUS
      <3> QED BY <1>6, <3>1
    <2> QED BY <1>1, <1>6, <2>1 DEF Routing!Has
  <1>7. CASE hits # {}
    <2>1. Routing!Min(hits) \in hits
      <3> HIDE DEF hit
      <3>1. \E x \in hits : \A y \in hits : x <= y
        <4>1. hits \subseteq 1..5
          OBVIOUS
        <4> HIDE DEF hits
        <4>2. CASE 1 \in hits
          BY <4>1, <4>2
        <4>3. CASE 1 \notin hits /\ 2 \in hits
          BY <1>5, <4>1, <4>3
        <4>4. CASE 1 \notin hits /\ 2 \notin hits /\ 3 \in hits
          BY <1>5, <4>1, <4>4
        <4>5. CASE 1 \notin hits /\ 2 \notin hits /\ 3 \notin hits /\ 4 \in hits
          BY <1>5, <4>1, <4>5
        <4>6. CASE 1 \notin hits /\ 2 \notin hits /\ 3 \notin hits /\ 4 \notin hits
          <5>1. \A i \in hits : i = 5
            BY <1>5, <4>1, <4>6
          <5> QED BY <1>7, <5>1
        <4> QED BY <4>2, <4>3, <4>4, <4>5, <4>6
      <3> HIDE DEF hits
      <3> QED BY <3>1 DEF Routing!Min
    <2>2. good(e0)
      <3> HIDE DEF hit, good, found, e0
      <3> QED BY <1>1, <1>2, <1>3, <1>4, <1>5, <1>7, <2>1
    <2>3. 0 \notin DOMAIN m.entries
      BY DEF MapOK
    <2> QED BY <2>2, <2>3
  <1> QED BY <1>6, <1>7

-----------------------------------------------------------------------------
(* The order map learns the ids of a completed event, and stays a map that *)
(* leads to owners.                                                        *)
LEMMA EventIsRecorded ==
    ASSUME NEW m, MapOK(m), NEW os \in Seq(Orders), NEW event \in Events, IsOf(event, os),
           NEW e \in DOMAIN m.entries
    PROVE  LET entry == m.entries[e]
               n == Routing!_record_event_order_ids(m, entry, Routing!Completed(event, entry))
           IN  /\ MapOK(n) /\ Extends(n, m) /\ (ArePlaced(m, os) => ArePlaced(n, os))
               /\ Routing!VisibleVenueIds(event, entry) \ {None} \subseteq DOMAIN n.by_venue_oid
               /\ LeadsToRequest(m, os) /\ UniqueRefs(os) /\ entry.request_id = os[event.order].request_id
                    => LeadsToRequest(n, os)
  <1> DEFINE entry == m.entries[e]
             done == Routing!Completed(event, entry)
             c == Routing!FirstText(done.client_order_id, done.order_ref)
             v == Routing!FirstText(done.venue_order_id, done.order_id)
             k == IF c \in {None, entry.client_order_id} THEN m
                  ELSE Routing!set_client_order_id(m, entry.request_id, c)
             n == IF v \in {None, entry.venue_order_id} THEN k
                  ELSE Routing!set_venue_order_id(k, entry.request_id, v)
             Owned == /\ LeadsToRequest(m, os) /\ UniqueRefs(os)
                      /\ entry.request_id = os[event.order].request_id
  <1>1. /\ entry \in Entries
        /\ entry.request_id \in DOMAIN m.by_request
        /\ entry.venue_order_id # None => entry.venue_order_id \in DOMAIN m.by_venue_oid
    BY DEF MapOK
  <1>2. /\ done.client_order_id = (IF event.client_order_id # None THEN event.client_order_id ELSE entry.client_order_id)
        /\ done.order_ref = event.order_ref
        /\ done.venue_order_id = (IF event.venue_order_id # None THEN event.venue_order_id ELSE entry.venue_order_id)
        /\ done.order_id = event.order_id
    BY DEF Routing!Completed, Routing!SetDefault, Events
  <1>3. c \notin {None, entry.client_order_id} => c \in ClientIds /\ c = os[event.order].client_order_id
    BY <1>2 DEF Routing!FirstText, Events, IsOf
  <1>4. v \notin {None, entry.venue_order_id} => v \in AllVenueIds /\ v[1] = event.order
    BY <1>2 DEF Routing!FirstText, Events, IsOf
  <1>5. \A w \in Routing!VisibleVenueIds(event, entry) \ {None} :
           w = v \/ w = entry.venue_order_id
    BY <1>2 DEF Routing!FirstText, Routing!VisibleVenueIds, IsOf
  <1>6. event.order \in DOMAIN os
    BY DEF IsOf
  <1> HIDE DEF entry, done, c, v
  <1>7. /\ MapOK(k) /\ Extends(k, m) /\ k.by_venue_oid = m.by_venue_oid /\ k.by_request = m.by_request
        /\ (ArePlaced(m, os) => ArePlaced(k, os))
    <2>1. CASE c \in {None, entry.client_order_id}
      BY <2>1 DEF Extends
    <2>2. CASE c \notin {None, entry.client_order_id}
      BY <1>1, <1>3, <2>2, SetClientKeepsMap DEF Extends, SameBut, ArePlaced, PlacedAs
    <2> QED BY <2>1, <2>2
  <1>8. Owned => LeadsToRequest(k, os)
    <2>1. CASE c \in {None, entry.client_order_id}
      BY <2>1
    <2>2. ASSUME c \notin {None, entry.client_order_id}, Owned PROVE LeadsToRequest(k, os)
      <3>1. \A o \in DOMAIN os : os[o].client_order_id = c => entry.request_id = os[o].request_id
        BY <1>1, <1>3, <1>6, <2>2 DEF UniqueRefs
      <3>2. LeadsToRequest(Routing!set_client_order_id(m, entry.request_id, c), os)
        <4>1. LeadsToRequest(m, os) /\ c \in ClientIds
          BY <1>3, <2>2
        <4> QED BY <1>1, <3>1, <4>1, ClientKeepsRequests
      <3> QED BY <2>2, <3>2
    <2> QED BY <2>1, <2>2
  <1> HIDE DEF k
  <1>9. /\ MapOK(n) /\ Extends(n, m) /\ (ArePlaced(m, os) => ArePlaced(n, os))
        /\ v \notin {None, entry.venue_order_id} => v \in DOMAIN n.by_venue_oid
    <2>1. CASE v \in {None, entry.venue_order_id}
      BY <1>7, <2>1
    <2>2. CASE v \notin {None, entry.venue_order_id}
      BY <1>1, <1>4, <1>7, <2>2, SetVenueKeepsMap DEF Extends, SameBut, ArePlaced, PlacedAs
    <2> QED BY <2>1, <2>2
  <1>10. Owned => LeadsToRequest(n, os)
    <2>1. CASE v \in {None, entry.venue_order_id}
      BY <1>8, <2>1
    <2>2. ASSUME v \notin {None, entry.venue_order_id}, Owned PROVE LeadsToRequest(n, os)
      <3>1. LeadsToRequest(Routing!set_venue_order_id(k, entry.request_id, v), os)
        BY <1>1, <1>4, <1>6, <1>7, <1>8, <2>2, VenueKeepsRequests
      <3> QED BY <2>2, <3>1
    <2> QED BY <2>1, <2>2
  <1>11. Routing!VisibleVenueIds(event, entry) \ {None} \subseteq DOMAIN n.by_venue_oid
    <2>1. entry.venue_order_id # None => entry.venue_order_id \in DOMAIN n.by_venue_oid
      BY <1>1, <1>9 DEF Extends
    <2> QED BY <1>5, <1>9, <2>1
  <1>12. n = Routing!_record_event_order_ids(m, entry, done)
    BY DEF Routing!_record_event_order_ids, n, k, c, v
  <1> QED BY <1>9, <1>10, <1>11, <1>12 DEF entry, done

(* So does an order map that learns the ids of an answer. *)
LEMMA AnswerIsRecorded ==
    ASSUME NEW m, MapOK(m), NEW os \in Seq(Orders), NEW o \in DOMAIN os,
           NEW r \in DOMAIN m.by_request, NEW ref \in Nat,
           os[o].request_id = r, os[o].client_order_id = ref,
           NEW client_id \in {None, ref}, NEW venue_id \in AllVenueIds \cup {None},
           venue_id # None => venue_id[1] = o
    PROVE  LET n == Routing!_record_order_result_ids(m, r, ref,
                      [client_order_id |-> client_id, venue_order_id |-> venue_id])
           IN  /\ MapOK(n) /\ Extends(n, m) /\ (ArePlaced(m, os) => ArePlaced(n, os))
               /\ venue_id # None => venue_id \in DOMAIN n.by_venue_oid
               /\ LeadsToRequest(m, os) /\ UniqueRefs(os) => LeadsToRequest(n, os)
  <1> DEFINE k == Routing!set_client_order_id(m, r, ref)
             n == IF venue_id = None THEN k ELSE Routing!set_venue_order_id(k, r, venue_id)
  <1>1. Routing!_record_order_result_ids(m, r, ref,
            [client_order_id |-> client_id, venue_order_id |-> venue_id]) = n
    BY NoneIsNoId DEF Routing!_record_order_result_ids, Routing!FirstText
  <1>2. ref \in ClientIds /\ os[o].request_id = r
    BY DEF ClientIds
  <1>3. /\ MapOK(k) /\ Extends(k, m) /\ k.by_request = m.by_request
        /\ (ArePlaced(m, os) => ArePlaced(k, os))
    BY <1>2, SetClientKeepsMap DEF Extends, SameBut, ArePlaced, PlacedAs
  <1>4. LeadsToRequest(m, os) /\ UniqueRefs(os) => LeadsToRequest(k, os)
    <2>1. UniqueRefs(os) => \A p \in DOMAIN os : os[p].client_order_id = ref => r = os[p].request_id
      BY <1>2 DEF UniqueRefs
    <2> QED BY <1>2, <2>1, ClientKeepsRequests
  <1> HIDE DEF k
  <1>5. CASE venue_id = None
    BY <1>1, <1>3, <1>4, <1>5
  <1>6. CASE venue_id # None
    <2>1. /\ MapOK(n) /\ Extends(n, m) /\ (ArePlaced(m, os) => ArePlaced(n, os))
          /\ venue_id \in DOMAIN n.by_venue_oid
      BY <1>3, <1>6, SetVenueKeepsMap DEF Extends, SameBut, ArePlaced, PlacedAs
    <2>2. LeadsToRequest(k, os) => LeadsToRequest(n, os)
      BY <1>2, <1>3, <1>6, VenueKeepsRequests
    <2> QED BY <1>1, <1>4, <2>1, <2>2
  <1> QED BY <1>5, <1>6

-----------------------------------------------------------------------------
(* The refs of the orders are the ones given out, which are all different. *)
LEMMA RefsAreUnique ==
    ASSUME OrdersInv, caller = "gateway", ~lost
    PROVE  UniqueRefs(orders)
  <1>1. /\ Len(orders) = Len(issued)
        /\ \A o \in DOMAIN orders : orders[o].client_order_id = issued[o]
        /\ orders \in Seq(Orders) /\ issued \in Seq(Nat)
        /\ Increasing(issued)
    BY DEF OrdersInv, Linked, RoutingOK, Inv, TypeOK, RefsIncrease
  <1>2. SUFFICES ASSUME NEW o \in DOMAIN orders, NEW p \in DOMAIN orders, issued[o] = issued[p]
                 PROVE  o = p
    BY <1>1 DEF UniqueRefs
  <1>3. o \in 1..Len(issued) /\ p \in 1..Len(issued) /\ issued[o] \in Nat /\ issued[p] \in Nat
    BY <1>1
  <1>4. ~(o < p) /\ ~(p < o)
    BY <1>1, <1>2, <1>3 DEF Increasing
  <1> QED BY <1>3, <1>4

(* A place_order command is registered and waits for its reference.        *)
LEMMA AskForRefKeeps ==
    ASSUME OrdersInv, caller = "gateway", NEW command \in Commands, AskForRef(command)
    PROVE  (Linked /\ RoutingOK)'
  <1> DEFINE n == Routing!register(order_map, command.request_id, command.strategy_id,
                                   command.client_order_id, None)
  <1>1. /\ loop = "commands" /\ loop' = "ref" /\ placing' = command /\ order_map' = n
        /\ UNCHANGED <<orders, output_queue, recent_trades, seen, since, caller>>
        /\ pc' = "persist" /\ op' = "next" /\ UNCHANGED <<issued, lost>>
    BY DEF AskForRef, Routing!register_order, next
  <1>2. /\ MapOK(order_map) /\ RoutingOK /\ Linked
    BY DEF OrdersInv, RoutingOK
  <1>3. /\ MapOK(n)
        /\ n.by_venue_oid = order_map.by_venue_oid
        /\ DOMAIN order_map.entries \subseteq DOMAIN n.entries
        /\ \A e \in DOMAIN order_map.entries : n.entries[e] = order_map.entries[e]
        /\ \A e \in DOMAIN n.entries \ DOMAIN order_map.entries : PlacedAs(n.entries[e], command)
        /\ DOMAIN n.by_request = DOMAIN order_map.by_request \cup {command.request_id}
        /\ DOMAIN order_map.by_client_oid \subseteq DOMAIN n.by_client_oid
        /\ \A c \in DOMAIN n.by_client_oid :
             \/ c = command.client_order_id
             \/ c \in DOMAIN order_map.by_client_oid /\ n.by_client_oid[c] = order_map.by_client_oid[c]
    BY <1>2, RegisterKeepsMap
  <1> HIDE DEF n
  <1>4. SentAreFound(n, orders, since)
    BY <1>2, <1>3 DEF RoutingOK, SentAreFound
  <1>5. LeadsToRequest(order_map, orders) => LeadsToRequest(n, orders)
    <2> SUFFICES ASSUME LeadsToRequest(order_map, orders) PROVE LeadsToRequest(n, orders)
      OBVIOUS
    <2>1. ASSUME NEW c \in DOMAIN n.by_client_oid, NEW o \in DOMAIN orders, orders[o].client_order_id = c
          PROVE  n.entries[n.by_client_oid[c]].request_id = orders[o].request_id
      <3>1. c \in Nat
        <4>1. orders[o] \in Orders
          BY <1>2 DEF RoutingOK
        <4> QED BY <2>1, <4>1 DEF Orders
      <3>2. c \in DOMAIN order_map.by_client_oid /\ n.by_client_oid[c] = order_map.by_client_oid[c]
        BY <1>3, <3>1, SuppliedIsNoRef
      <3>3. order_map.by_client_oid[c] \in DOMAIN order_map.entries
        BY <1>2, <3>2 DEF MapOK, Leads
      <3> QED BY <1>3, <2>1, <3>2, <3>3 DEF LeadsToRequest
    <2>2. ASSUME NEW v \in DOMAIN n.by_venue_oid
          PROVE  /\ v[1] \in DOMAIN orders
                 /\ n.entries[n.by_venue_oid[v]].request_id = orders[v[1]].request_id
      <3>1. order_map.by_venue_oid[v] \in DOMAIN order_map.entries
        BY <1>2, <1>3 DEF MapOK, Leads
      <3> QED BY <1>3, <3>1 DEF LeadsToRequest
    <2> QED BY <2>1, <2>2 DEF LeadsToRequest
  <1>6. RoutingOK'
    <2>1. RowsOK' /\ Routing!SentIdsAreKnown' /\ (Routing!EventsReachOwner => Routing!EventsReachOwner')
      BY <1>1, <1>2 DEF RoutingOK, RowsOK, Routing!SentIdsAreKnown, Routing!EventsReachOwner, Routing!SoleUser
    <2>2. /\ MapOK(order_map)' /\ SentAreFound(order_map, orders, since)'
          /\ (seen \subseteq DOMAIN order_map.by_venue_oid)'
          /\ (~lost => LeadsToRequest(order_map, orders))'
      <3>1. seen \subseteq DOMAIN n.by_venue_oid /\ (~lost => LeadsToRequest(order_map, orders))
        BY <1>2, <1>3 DEF RoutingOK
      <3> QED BY <1>1, <1>3, <1>4, <1>5, <3>1 DEF MapOK, Leads, SentAreFound, LeadsToRequest
    <2>3. /\ orders' \in Seq(Orders) /\ since' \in 0 .. Len(orders')
          /\ output_queue' \in Seq(Events)
          /\ \A i \in DOMAIN output_queue' : IsOf(output_queue'[i], orders')
      BY <1>1, <1>2 DEF RoutingOK
    <2>4. (~lost => Routing!EventsReachOwner)'
      BY <1>1, <1>2, <2>1 DEF RoutingOK
    <2>5. EntriesPlaced'
      BY <1>1, <1>2, <1>3 DEF RoutingOK, EntriesPlaced, PlacedAs
    <2>6. VenuesPlaced'
      <3>1. \A v \in DOMAIN order_map.by_venue_oid : order_map.by_venue_oid[v] \in DOMAIN order_map.entries
        BY <1>2 DEF MapOK, Leads
      <3> QED BY <1>1, <1>2, <1>3, <3>1 DEF RoutingOK, VenuesPlaced, PlacedAs
    <2> QED BY <2>1, <2>2, <2>3, <2>4, <2>5, <2>6 DEF RoutingOK, IsOf
  <1>7. Linked'
    BY <1>1, <1>2, <1>3 DEF Linked
  <1> QED BY <1>6, <1>7

(* The order is sent with the reference, and its answer is recorded.       *)
LEMMA SendKeeps ==
    ASSUME OrdersInv, caller = "gateway", SendWithRef, Inv'
    PROVE  (Linked /\ RoutingOK)'
  <1> DEFINE r == placing.request_id
             order == [request_id |-> r, strategy_id |-> placing.strategy_id, client_order_id |-> value]
             o == Len(orders) + 1
             k == Routing!set_client_order_id(order_map, r, value)
  <1>1. /\ return /\ loop = "ref" /\ loop' = "flush" /\ placing' = None
        /\ orders' = Append(orders, order)
        /\ UNCHANGED <<output_queue, recent_trades, since, caller>>
    BY DEF SendWithRef, Routing!place_order, Routing!place_order_raises, Routing!send_order
  <1>2. /\ MapOK(order_map) /\ RoutingOK /\ Linked /\ TypeOK
    BY DEF OrdersInv, RoutingOK, Inv
  <1>3. /\ pc' = "idle" /\ op = "next" /\ issued' = Append(issued, value)
        /\ UNCHANGED <<value, lost>>
        /\ placing \in Commands /\ r \in DOMAIN order_map.by_request
    BY <1>1, <1>2 DEF return, Linked
  <1>4. /\ r \in Requests /\ value \in Nat /\ order \in Orders
    BY <1>2, <1>3 DEF Requests, Owners, TypeOK, Orders
  <1>5. /\ orders \in Seq(Orders) /\ orders' \in Seq(Orders) /\ o \in Nat
        /\ DOMAIN orders' = DOMAIN orders \cup {o} /\ o \notin DOMAIN orders
        /\ Len(orders') = o /\ since \in 0 .. Len(orders)
        /\ orders'[o] = order
        /\ \A p \in DOMAIN orders : orders'[p] = orders[p]
    BY <1>1, <1>2, <1>4 DEF RoutingOK
  <1> HIDE DEF order, r
  <1>6. order.request_id = r /\ order.strategy_id = placing.strategy_id /\ order.client_order_id = value
    BY DEF order
  <1>7. Linked'
    <2>1. Len(orders') = Len(issued')
      BY <1>2, <1>3, <1>5 DEF Linked, TypeOK
    <2>2. \A p \in DOMAIN orders' : orders'[p].client_order_id = issued'[p]
      BY <1>1, <1>2, <1>3, <1>5, <1>6 DEF Linked, TypeOK
    <2> QED BY <1>1, <1>2, <1>3, <2>1, <2>2 DEF Linked
  <1>8. ~lost' => UniqueRefs(orders')
    <2> SUFFICES ASSUME ~lost' PROVE UniqueRefs(orders')
      OBVIOUS
    <2>1. /\ Len(orders') = Len(issued')
          /\ \A p \in DOMAIN orders' : orders'[p].client_order_id = issued'[p]
          /\ issued' \in Seq(Nat) /\ Increasing(issued')
      BY <1>1, <1>7 DEF Linked, Inv, TypeOK, RefsIncrease
    <2>2. SUFFICES ASSUME NEW p \in DOMAIN orders', NEW q \in DOMAIN orders', issued'[p] = issued'[q]
                   PROVE  p = q
      BY <2>1 DEF UniqueRefs
    <2>3. p \in 1..Len(issued') /\ q \in 1..Len(issued') /\ issued'[p] \in Nat /\ issued'[q] \in Nat
      BY <1>5, <2>1
    <2>4. ~(p < q) /\ ~(q < p)
      BY <2>1, <2>2, <2>3 DEF Increasing
    <2> QED BY <2>3, <2>4
  <1>9. /\ MapOK(k) /\ Extends(k, order_map) /\ k.by_request = order_map.by_request
        /\ value \in DOMAIN k.by_client_oid
    BY <1>2, <1>3, <1>4, SetClientKeepsMap DEF ClientIds, Extends, SameBut
  <1>10. ~lost' => LeadsToRequest(k, orders')
    <2> SUFFICES ASSUME ~lost' PROVE LeadsToRequest(k, orders')
      OBVIOUS
    <2>1. LeadsToRequest(order_map, orders) /\ UniqueRefs(orders')
      BY <1>2, <1>3, <1>8 DEF RoutingOK
    <2>2. /\ SameBut(k, order_map) /\ k.by_venue_oid = order_map.by_venue_oid
          /\ DOMAIN k.by_client_oid = DOMAIN order_map.by_client_oid \cup {value}
          /\ \A d \in DOMAIN k.by_client_oid :
               k.by_client_oid[d] = IF d = value THEN order_map.by_request[r]
                                    ELSE order_map.by_client_oid[d]
      BY <1>2, <1>3, <1>4, SetClientKeepsMap DEF ClientIds
    <2>3. /\ order_map.by_request[r] \in DOMAIN order_map.entries
          /\ order_map.entries[order_map.by_request[r]].request_id = r
          /\ \A d \in DOMAIN order_map.by_client_oid : order_map.by_client_oid[d] \in DOMAIN order_map.entries
          /\ \A d \in DOMAIN order_map.by_venue_oid : order_map.by_venue_oid[d] \in DOMAIN order_map.entries
      BY <1>2, <1>3 DEF MapOK, Leads
    <2> HIDE DEF k
    <2>4. ASSUME NEW c \in DOMAIN k.by_client_oid, NEW p \in DOMAIN orders', orders'[p].client_order_id = c
          PROVE  k.entries[k.by_client_oid[c]].request_id = orders'[p].request_id
      <3>1. CASE p = o
        BY <1>5, <1>6, <2>2, <2>3, <2>4, <3>1 DEF SameBut
      <3>2. CASE p # o
        <4>1. p \in DOMAIN orders /\ orders'[p] = orders[p]
          BY <1>5, <3>2
        <4>2. c # value
          BY <1>5, <1>6, <2>1, <2>4, <3>2 DEF UniqueRefs
        <4> QED BY <2>1, <2>2, <2>3, <2>4, <4>1, <4>2 DEF SameBut, LeadsToRequest
      <3> QED BY <3>1, <3>2
    <2>5. ASSUME NEW v \in DOMAIN k.by_venue_oid
          PROVE  /\ v[1] \in DOMAIN orders'
                 /\ k.entries[k.by_venue_oid[v]].request_id = orders'[v[1]].request_id
      <3>1. v \in DOMAIN order_map.by_venue_oid /\ k.by_venue_oid[v] = order_map.by_venue_oid[v]
        BY <2>2, <2>5
      <3>2. /\ v[1] \in DOMAIN orders
            /\ order_map.entries[order_map.by_venue_oid[v]].request_id = orders[v[1]].request_id
        BY <2>1, <3>1 DEF LeadsToRequest
      <3>3. k.entries[k.by_venue_oid[v]].request_id = order_map.entries[order_map.by_venue_oid[v]].request_id
        BY <2>2, <2>3, <3>1 DEF SameBut
      <3> QED BY <1>5, <3>2, <3>3
    <2> QED BY <2>4, <2>5 DEF LeadsToRequest
  <1>20. ArePlaced(k, orders')
    <2>1. \A e \in DOMAIN order_map.entries :
            \/ \E p \in DOMAIN orders : PlacedAs(order_map.entries[e], orders[p])
            \/ PlacedAs(order_map.entries[e], placing)
      BY <1>2 DEF RoutingOK, EntriesPlaced
    <2>2. SameBut(k, order_map)
      BY <1>2, <1>3, <1>4, SetClientKeepsMap DEF ClientIds
    <2> HIDE DEF k
    <2>3. SUFFICES ASSUME NEW e \in DOMAIN k.entries
                   PROVE  \E p \in DOMAIN orders' : PlacedAs(k.entries[e], orders'[p])
      BY DEF ArePlaced
    <2>4. /\ e \in DOMAIN order_map.entries
          /\ k.entries[e].request_id = order_map.entries[e].request_id
          /\ k.entries[e].strategy_id = order_map.entries[e].strategy_id
      BY <2>2, <2>3 DEF SameBut
    <2>5. CASE PlacedAs(order_map.entries[e], placing)
      <3>1. PlacedAs(k.entries[e], orders'[o]) /\ o \in DOMAIN orders'
        BY <1>5, <1>6, <2>4, <2>5 DEF PlacedAs, r
      <3> QED BY <3>1
    <2>6. ASSUME NEW p \in DOMAIN orders, PlacedAs(order_map.entries[e], orders[p])
          PROVE  \E q \in DOMAIN orders' : PlacedAs(k.entries[e], orders'[q])
      <3>1. PlacedAs(k.entries[e], orders'[p]) /\ p \in DOMAIN orders'
        BY <1>5, <2>4, <2>6 DEF PlacedAs
      <3> QED BY <3>1
    <2> QED BY <2>1, <2>4, <2>5, <2>6
  <1> HIDE DEF k
  <1>11. /\ MapOK(order_map') /\ Extends(order_map', k)
         /\ seen' \subseteq DOMAIN order_map'.by_venue_oid
         /\ ~lost' => LeadsToRequest(order_map', orders')
         /\ ArePlaced(order_map', orders')
    <2>1. seen \subseteq DOMAIN k.by_venue_oid
      BY <1>2, <1>9 DEF RoutingOK, Extends
    <2>2. CASE Routing!place_order(value)
      <3>1. PICK c \in {None, value}, v \in Routing!VenueIdsOf(o) \cup {None} :
              /\ order_map' = Routing!_record_order_result_ids(k, r, value,
                                [client_order_id |-> c, venue_order_id |-> v])
              /\ seen' = seen \cup ({v} \ {None})
        BY <2>2 DEF Routing!place_order, Routing!Registered, k, o, r
      <3>2. v \in AllVenueIds \cup {None} /\ (v # None => v[1] = o)
        BY <1>5, NoneIsNoId DEF Routing!VenueIdsOf, AllVenueIds
      <3>3. /\ orders'[o].request_id = r /\ orders'[o].client_order_id = value
            /\ o \in DOMAIN orders' /\ r \in DOMAIN k.by_request
        BY <1>3, <1>5, <1>6, <1>9
      <3>4. /\ MapOK(order_map') /\ Extends(order_map', k)
            /\ v # None => v \in DOMAIN order_map'.by_venue_oid
            /\ LeadsToRequest(k, orders') /\ UniqueRefs(orders') => LeadsToRequest(order_map', orders')
            /\ ArePlaced(k, orders') => ArePlaced(order_map', orders')
        <4> HIDE DEF o
        <4> QED BY <1>4, <1>5, <1>9, <3>1, <3>2, <3>3, AnswerIsRecorded
      <3> QED BY <1>8, <1>10, <1>20, <2>1, <3>1, <3>4 DEF Extends
    <2>3. CASE Routing!place_order_raises(value)
      BY <1>9, <1>10, <1>20, <2>1, <2>3 DEF Routing!place_order_raises, Routing!Registered, k, r, Extends
    <2> QED BY <2>2, <2>3 DEF SendWithRef
  <1>12. SentAreFound(order_map', orders', since')
    <2>1. DOMAIN order_map.by_request \subseteq DOMAIN order_map'.by_request
      BY <1>9, <1>11 DEF Extends
    <2>2. /\ DOMAIN order_map.by_client_oid \subseteq DOMAIN order_map'.by_client_oid
          /\ value \in DOMAIN order_map'.by_client_oid
      BY <1>9, <1>11 DEF Extends
    <2> QED BY <1>1, <1>2, <1>3, <1>5, <1>6, <2>1, <2>2 DEF RoutingOK, SentAreFound
  <1>13. \A i \in DOMAIN output_queue' : IsOf(output_queue'[i], orders')
    <2>1. \A i \in DOMAIN output_queue : IsOf(output_queue[i], orders)
      BY <1>2 DEF RoutingOK
    <2>2. \A event : IsOf(event, orders) => IsOf(event, orders')
      BY <1>5 DEF IsOf
    <2> QED BY <1>1, <2>1, <2>2
  <1>21. EntriesPlaced' /\ VenuesPlaced'
    BY <1>11 DEF EntriesPlaced, VenuesPlaced, ArePlaced, PlacedAs, MapOK, Leads
  <1>14. RowsOK' /\ Routing!SentIdsAreKnown' /\ (Routing!EventsReachOwner => Routing!EventsReachOwner')
    <2>1. RowsOK' /\ Routing!SentIdsAreKnown'
      BY <1>1, <1>2, <1>5 DEF RoutingOK, RowsOK, Routing!SentIdsAreKnown
    <2>2. \A p \in DOMAIN orders : Routing!SoleUser(p)' => Routing!SoleUser(p)
      BY <1>5 DEF Routing!SoleUser
    <2>3. Routing!EventsReachOwner => Routing!EventsReachOwner'
      BY <1>1, <1>2, <1>5, <2>2 DEF RoutingOK, RowsOK, Routing!EventsReachOwner
    <2> QED BY <2>1, <2>3
  <1>15. since' \in 0 .. Len(orders') /\ output_queue' \in Seq(Events)
    BY <1>1, <1>2, <1>5 DEF RoutingOK
  <1>16. (~lost => Routing!EventsReachOwner)'
    BY <1>2, <1>3, <1>14 DEF RoutingOK
  <1>17. /\ MapOK(order_map)' /\ SentAreFound(order_map, orders, since)'
         /\ (~lost => LeadsToRequest(order_map, orders))'
    <2>1. MapOK(order_map)'
      BY <1>11 DEF MapOK, Leads
    <2>2. SentAreFound(order_map, orders, since)'
      BY <1>12 DEF SentAreFound
    <2>3. (~lost => LeadsToRequest(order_map, orders))'
      BY <1>11 DEF LeadsToRequest
    <2> QED BY <2>1, <2>2, <2>3
  <1>18. (\A i \in DOMAIN output_queue : IsOf(output_queue[i], orders))'
    BY <1>13 DEF IsOf
  <1>19. RoutingOK'
    BY <1>5, <1>11, <1>14, <1>15, <1>16, <1>17, <1>18, <1>21 DEF RoutingOK
  <1> QED BY <1>7, <1>19

-----------------------------------------------------------------------------
(* What is kept of the trades, after another one. *)
LEMMA KeptRows ==
    ASSUME NEW rows \in Seq(Events), NEW row \in Events
    PROVE  LET now == Routing!Kept(rows, row)
           IN  /\ now \in Seq(Events)
               /\ \A i \in DOMAIN now : now[i] = row \/ \E j \in DOMAIN rows : now[i] = rows[j]
  <1> DEFINE all == Append(rows, row)
  <1>1. /\ all \in Seq(Events) /\ all # << >>
        /\ Len(all) = Len(rows) + 1 /\ Len(rows) \in Nat
        /\ \A i \in 1..Len(all) : all[i] = IF i = Len(all) THEN row ELSE rows[i]
    OBVIOUS
  <1> HIDE DEF all
  <1>2. /\ Tail(all) \in Seq(Events) /\ Len(Tail(all)) = Len(all) - 1
        /\ \A i \in 1..Len(Tail(all)) : Tail(all)[i] = all[i + 1]
    BY <1>1
  <1>3. \A i \in DOMAIN all : all[i] = row \/ \E j \in DOMAIN rows : all[i] = rows[j]
    BY <1>1
  <1>4. \A i \in DOMAIN Tail(all) : \E j \in DOMAIN all : Tail(all)[i] = all[j]
    <2> SUFFICES ASSUME NEW i \in 1..Len(Tail(all)) PROVE \E j \in DOMAIN all : Tail(all)[i] = all[j]
      BY <1>2
    <2>1. i + 1 \in DOMAIN all
      BY <1>1, <1>2
    <2> QED BY <1>2, <2>1
  <1>5. Routing!Kept(rows, row) \in {all, Tail(all)}
    BY DEF Routing!Kept, all
  <1>6. \A i \in DOMAIN Tail(all) : Tail(all)[i] = row \/ \E j \in DOMAIN rows : Tail(all)[i] = rows[j]
    BY <1>3, <1>4
  <1> QED BY <1>1, <1>2, <1>3, <1>5, <1>6, ZenonT(60)

(* A flushed event is published under its order's strategy or under none,  *)
(* and the map learns its ids.                                             *)
LEMMA FlushKeeps ==
    ASSUME OrdersInv, caller = "gateway", Routing!flush_event, UNCHANGED <<caller, vars>>
    PROVE  (Linked /\ RoutingOK)'
  <1> DEFINE event == Head(output_queue)
             e == Routing!_order_entry_for_event(order_map, event)
             entry == order_map.entries[e]
             done == Routing!Completed(event, entry)
             k == Routing!_record_event_order_ids(order_map, entry, done)
  <1>1. /\ loop = "flush" /\ output_queue # << >> /\ output_queue' = Tail(output_queue)
        /\ UNCHANGED <<loop, placing, orders, since, caller, issued, lost, pc, op>>
    BY DEF Routing!flush_event, vars
  <1>2. /\ MapOK(order_map) /\ RoutingOK /\ Linked /\ orders \in Seq(Orders)
        /\ recent_trades \in Seq(Events)
    BY DEF OrdersInv, RoutingOK, RowsOK
  <1>3. /\ event \in Events /\ IsOf(event, orders) /\ event.order \in DOMAIN orders
        /\ output_queue' \in Seq(Events)
        /\ \A i \in DOMAIN output_queue' : IsOf(output_queue'[i], orders)
    <2>1. output_queue \in Seq(Events) /\ \A i \in DOMAIN output_queue : IsOf(output_queue[i], orders)
      BY <1>2 DEF RoutingOK
    <2>2. /\ event = output_queue[1] /\ 1 \in DOMAIN output_queue
          /\ output_queue' \in Seq(Events) /\ Len(output_queue') = Len(output_queue) - 1
          /\ \A i \in 1..Len(output_queue') : output_queue'[i] = output_queue[i + 1] /\ i + 1 \in DOMAIN output_queue
      BY <1>1, <2>1
    <2>3. event.order \in DOMAIN orders
      BY <2>1, <2>2 DEF IsOf
    <2> HIDE DEF event
    <2> QED BY <2>1, <2>2, <2>3
  <1>4. \/ /\ e \in DOMAIN order_map.entries /\ e # 0
           /\ LeadsToRequest(order_map, orders) => entry.request_id = orders[event.order].request_id
        \/ /\ e = 0
           /\ event.request_id \notin {None, NoId} => event.request_id \notin DOMAIN order_map.by_request
           /\ event.client_order_id \notin {None, NoId} => event.client_order_id \notin DOMAIN order_map.by_client_oid
           /\ event.order_ref \notin {None, NoId} => event.order_ref \notin DOMAIN order_map.by_client_oid
    BY <1>2, <1>3, FirstHitIsRequest
  <1>5. ~lost => LeadsToRequest(order_map, orders) /\ UniqueRefs(orders)
    BY <1>2, RefsAreUnique DEF RoutingOK
  <1>11. ArePlaced(order_map, orders)
    BY <1>1, <1>2 DEF RoutingOK, EntriesPlaced, ArePlaced
  <1> HIDE DEF event, e
  <1>6. \E row \in Events :
          /\ recent_trades' = Routing!Kept(recent_trades, row) /\ row.order = event.order
          /\ row.order > since /\ row.strategy_id = None =>
                row.request_id \in {None, NoId} /\ row.client_order_id = None /\ row.order_ref = None
          /\ ~lost /\ Routing!SoleUser(event.order) =>
                row.strategy_id \in {None, orders[event.order].strategy_id}
    <2>1. CASE e = 0
      <3>1. recent_trades' = Routing!Kept(recent_trades, event)
        BY <2>1 DEF Routing!flush_event, event, e
      <3>2. event.strategy_id = None
        BY <1>3 DEF IsOf
      <3>3. 0 \notin DOMAIN order_map.entries
        BY <1>2 DEF MapOK
      <3>4. event.order > since =>
              event.request_id \in {None, NoId} /\ event.client_order_id = None /\ event.order_ref = None
        <4>1. SentAreFound(order_map, orders, since)
          BY <1>2 DEF RoutingOK
        <4>2. event.order > since => /\ orders[event.order].request_id \in DOMAIN order_map.by_request
                                     /\ orders[event.order].client_order_id \in DOMAIN order_map.by_client_oid
          BY <1>3, <4>1 DEF SentAreFound
        <4>3. orders[event.order].client_order_id # NoId
          <5>1. orders[event.order] \in Orders
            BY <1>2, <1>3
          <5> QED BY <5>1, NoneIsNoId DEF Orders
        <4> QED BY <1>3, <1>4, <2>1, <3>3, <4>2, <4>3 DEF IsOf
      <3> QED BY <1>3, <3>1, <3>2, <3>4
    <2>2. CASE e # 0
      <3>1. recent_trades' = Routing!Kept(recent_trades, done)
        BY <2>2 DEF Routing!flush_event, event, e
      <3>2. entry \in Entries /\ entry.strategy_id # None
        <4>1. entry \in Entries
          BY <1>2, <1>4, <2>2 DEF MapOK
        <4> QED BY <4>1, NoneIsNoId DEF Entries, Owners
      <3> HIDE DEF entry
      <3>3. /\ done \in Events /\ done.order = event.order
            /\ done.strategy_id = entry.strategy_id
        <4>1. event.strategy_id = None
          BY <1>3 DEF IsOf
        <4>2. done = [event EXCEPT !.strategy_id = Routing!SetDefault(event.strategy_id, entry.strategy_id),
                                   !.request_id = Routing!SetDefault(event.request_id, entry.request_id),
                                   !.client_order_id = Routing!SetDefault(event.client_order_id, entry.client_order_id),
                                   !.venue_order_id = Routing!SetDefault(event.venue_order_id, entry.venue_order_id)]
          BY <1>3 DEF Routing!Completed, Events
        <4>3. /\ Routing!SetDefault(event.strategy_id, entry.strategy_id) = entry.strategy_id
              /\ Routing!SetDefault(event.strategy_id, entry.strategy_id) \in Owners \cup {None}
              /\ Routing!SetDefault(event.request_id, entry.request_id) \in Requests \cup {None}
              /\ Routing!SetDefault(event.client_order_id, entry.client_order_id) \in ClientIds \cup {None}
              /\ Routing!SetDefault(event.venue_order_id, entry.venue_order_id) \in AllVenueIds \cup {None}
          BY <1>3, <3>2, <4>1 DEF Routing!SetDefault, Events, Entries
        <4> HIDE DEF done
        <4> QED BY <1>3, <4>2, <4>3 DEF Events
      <3>4. ~lost /\ Routing!SoleUser(event.order) => entry.strategy_id = orders[event.order].strategy_id
        <4>1. ~lost => entry.request_id = orders[event.order].request_id
          BY <1>4, <1>5, <2>2 DEF entry
        <4>2. PICK p \in DOMAIN orders : PlacedAs(entry, orders[p])
          BY <1>1, <1>4, <1>11, <2>2 DEF ArePlaced, entry
        <4> QED BY <4>1, <4>2 DEF PlacedAs, Routing!SoleUser
      <3> HIDE DEF done
      <3> QED BY <3>1, <3>2, <3>3, <3>4
    <2> QED BY <2>1, <2>2
  <1>7. /\ MapOK(order_map') /\ Extends(order_map', order_map)
        /\ seen' \subseteq DOMAIN order_map'.by_venue_oid
        /\ ~lost => LeadsToRequest(order_map', orders)
        /\ ArePlaced(order_map', orders)
    <2>1. seen \subseteq DOMAIN order_map.by_venue_oid
      BY <1>2 DEF RoutingOK
    <2>2. CASE e = 0
      <3>1. UNCHANGED <<order_map, seen>>
        BY <2>2 DEF Routing!flush_event, event, e
      <3> QED BY <1>2, <1>5, <1>11, <2>1, <3>1 DEF Extends
    <2>3. CASE e # 0
      <3>1. /\ order_map' = Routing!update_status(k, entry.request_id, "reported")
            /\ seen' = seen \cup (Routing!VisibleVenueIds(event, entry) \ {None})
        BY <2>3 DEF Routing!flush_event, event, e
      <3>2. e \in DOMAIN order_map.entries /\ (~lost => entry.request_id = orders[event.order].request_id)
        BY <1>4, <1>5, <2>3
      <3>3. /\ MapOK(k) /\ Extends(k, order_map)
            /\ Routing!VisibleVenueIds(event, entry) \ {None} \subseteq DOMAIN k.by_venue_oid
            /\ ~lost => LeadsToRequest(k, orders)
            /\ ArePlaced(k, orders)
        BY <1>2, <1>3, <1>5, <1>11, <3>2, EventIsRecorded
      <3>4. entry.request_id \in DOMAIN k.by_request
        BY <1>2, <3>2, <3>3 DEF MapOK, Extends
      <3> HIDE DEF k, entry
      <3>5. /\ MapOK(order_map') /\ SameBut(order_map', k)
            /\ order_map'.by_client_oid = k.by_client_oid /\ order_map'.by_venue_oid = k.by_venue_oid
        BY <3>1, <3>3, <3>4, UpdateStatusKeepsMap
      <3>6. ~lost => LeadsToRequest(order_map', orders)
        <4>1. /\ \A d \in DOMAIN k.by_client_oid : k.by_client_oid[d] \in DOMAIN k.entries
              /\ \A d \in DOMAIN k.by_venue_oid : k.by_venue_oid[d] \in DOMAIN k.entries
          BY <3>3 DEF MapOK, Leads
        <4> QED BY <3>3, <3>5, <4>1 DEF SameBut, LeadsToRequest
      <3>7. ArePlaced(order_map', orders)
        BY <3>3, <3>5 DEF SameBut, ArePlaced, PlacedAs
      <3> QED BY <2>1, <3>1, <3>3, <3>5, <3>6, <3>7 DEF Extends, SameBut
    <2> QED BY <2>2, <2>3
  <1>8. RowsOK' /\ Routing!SentIdsAreKnown' /\ (~lost => Routing!EventsReachOwner')
    <2>1. PICK row \in Events :
            /\ recent_trades' = Routing!Kept(recent_trades, row) /\ row.order = event.order
            /\ row.order > since /\ row.strategy_id = None =>
                  row.request_id \in {None, NoId} /\ row.client_order_id = None /\ row.order_ref = None
            /\ ~lost /\ Routing!SoleUser(event.order) =>
                row.strategy_id \in {None, orders[event.order].strategy_id}
      BY <1>6
    <2>2. /\ recent_trades' \in Seq(Events)
          /\ \A i \in DOMAIN recent_trades' :
               recent_trades'[i] = row \/ \E j \in DOMAIN recent_trades : recent_trades'[i] = recent_trades[j]
      BY <1>2, <2>1, KeptRows
    <2>3. RowsOK'
      BY <1>1, <1>2, <1>3, <2>1, <2>2 DEF RoutingOK, RowsOK
    <2>4. Routing!SentIdsAreKnown'
      BY <1>1, <1>2, <2>1, <2>2 DEF RoutingOK, Routing!SentIdsAreKnown
    <2>5. ~lost => Routing!EventsReachOwner'
      <3>1. \A p : Routing!SoleUser(p)' <=> Routing!SoleUser(p)
        BY <1>1 DEF Routing!SoleUser
      <3>2. ~lost => \A j \in DOMAIN recent_trades :
                       Routing!SoleUser(recent_trades[j].order) =>
                          recent_trades[j].strategy_id \in {None, orders[recent_trades[j].order].strategy_id}
        BY <1>2 DEF RoutingOK, Routing!EventsReachOwner
      <3>3. ~lost => \A i \in DOMAIN recent_trades' :
                       Routing!SoleUser(recent_trades'[i].order) =>
                          recent_trades'[i].strategy_id \in {None, orders[recent_trades'[i].order].strategy_id}
        BY <2>1, <2>2, <3>2
      <3> QED BY <1>1, <3>1, <3>3 DEF Routing!EventsReachOwner
    <2> QED BY <2>3, <2>4, <2>5
  <1>9. Linked'
    BY <1>1, <1>2, <1>7 DEF Linked, Extends
  <1>10. RoutingOK'
    <2>1. SentAreFound(order_map, orders, since)'
      BY <1>1, <1>2, <1>7 DEF RoutingOK, SentAreFound, Extends
    <2>2. MapOK(order_map)'
      BY <1>7 DEF MapOK, Leads
    <2>3. (~lost => LeadsToRequest(order_map, orders) /\ Routing!EventsReachOwner)'
      BY <1>1, <1>7, <1>8 DEF LeadsToRequest
    <2>4. (\A i \in DOMAIN output_queue : IsOf(output_queue[i], orders))'
      BY <1>1, <1>3 DEF IsOf
    <2>5. /\ orders' \in Seq(Orders) /\ since' \in 0 .. Len(orders') /\ output_queue' \in Seq(Events)
          /\ seen' \subseteq DOMAIN order_map'.by_venue_oid
      BY <1>1, <1>2, <1>3, <1>7 DEF RoutingOK
    <2>6. EntriesPlaced' /\ VenuesPlaced'
      BY <1>1, <1>7 DEF EntriesPlaced, VenuesPlaced, ArePlaced, PlacedAs, MapOK, Leads
    <2> QED BY <1>8, <2>1, <2>2, <2>3, <2>4, <2>5, <2>6 DEF RoutingOK
  <1> QED BY <1>9, <1>10

(* The other steps of the routing leave the map alone; an event that is    *)
(* put into the queue names an order by ids of its own.                    *)
LEMMA RouteKeeps ==
    ASSUME OrdersInv, caller = "gateway", Route
    PROVE  (Linked /\ RoutingOK)'
  <1>1. UNCHANGED <<caller, vars>>
    BY DEF Route
  <1>2. MapOK(order_map) /\ RoutingOK /\ Linked /\ orders \in Seq(Orders) /\ output_queue \in Seq(Events)
    BY DEF OrdersInv, RoutingOK
  <1>3. CASE Routing!flush_event
    BY <1>1, <1>3, FlushKeeps
  <1>4. ASSUME /\ UNCHANGED <<order_map, orders, recent_trades, seen, since>>
               /\ loop' # "ref" <=> loop # "ref"
               /\ placing' = placing
               /\ output_queue' \in Seq(Events)
               /\ \A i \in DOMAIN output_queue' : IsOf(output_queue'[i], orders)
        PROVE  (Linked /\ RoutingOK)'
    <2>1. Linked'
      BY <1>1, <1>2, <1>4 DEF Linked, vars
    <2>2. RowsOK' /\ Routing!SentIdsAreKnown' /\ (Routing!EventsReachOwner => Routing!EventsReachOwner')
      BY <1>2, <1>4 DEF RoutingOK, RowsOK, Routing!SentIdsAreKnown, Routing!EventsReachOwner, Routing!SoleUser
    <2>3. /\ SentAreFound(order_map, orders, since)'
          /\ MapOK(order_map)' /\ EntriesPlaced' /\ VenuesPlaced'
          /\ (LeadsToRequest(order_map, orders) => LeadsToRequest(order_map, orders)')
          /\ (\A i \in DOMAIN output_queue : IsOf(output_queue[i], orders))'
      BY <1>2, <1>4 DEF RoutingOK, SentAreFound, MapOK, Leads, LeadsToRequest, IsOf,
                        EntriesPlaced, VenuesPlaced, PlacedAs
    <2>4. lost' = lost
      BY <1>1 DEF vars
    <2> QED BY <1>2, <1>4, <2>1, <2>2, <2>3, <2>4 DEF RoutingOK
  <1>5. CASE Routing!no_order_command \/ Routing!flush_done
    BY <1>2, <1>4, <1>5 DEF Routing!no_order_command, Routing!flush_done, RoutingOK
  <1>6. CASE Routing!emit
    <2>1. PICK o \in DOMAIN orders :
            \E r \in {None, orders[o].request_id}, c \in {None, orders[o].client_order_id},
               v \in {None} \cup Routing!VenueIdsOf(o), aliased \in {FALSE, AliasKeys} :
              output_queue' = Append(output_queue, Routing!EventOf(o, r, c, v, aliased))
      BY <1>6 DEF Routing!emit
    <2>2. PICK r \in {None, orders[o].request_id}, c \in {None, orders[o].client_order_id},
               v \in {None} \cup Routing!VenueIdsOf(o), aliased \in {FALSE, AliasKeys} :
            output_queue' = Append(output_queue, Routing!EventOf(o, r, c, v, aliased))
      BY <2>1
    <2> DEFINE event == Routing!EventOf(o, r, c, v, aliased)
    <2>3. /\ orders[o] \in Orders /\ o \in Nat
      BY <1>2
    <2>4. v \in AllVenueIds \cup {None} /\ (v # None => v[1] = o)
      BY <2>3, NoneIsNoId DEF Routing!VenueIdsOf, AllVenueIds
    <2>5. r \in Requests \cup {None} /\ c \in ClientIds \cup {None}
      BY <2>3 DEF Orders, ClientIds
    <2>6. event \in Events
      BY <2>3, <2>4, <2>5 DEF Events, Routing!EventOf
    <2>7. IsOf(event, orders)
      BY <2>4 DEF IsOf, Routing!EventOf
    <2> HIDE DEF event
    <2>8. /\ output_queue' \in Seq(Events)
          /\ \A i \in DOMAIN output_queue' : IsOf(output_queue'[i], orders)
      <3>1. output_queue' = Append(output_queue, event)
        BY <2>2 DEF event
      <3>2. \A i \in DOMAIN output_queue : IsOf(output_queue[i], orders)
        BY <1>2 DEF RoutingOK
      <3>3. /\ output_queue' \in Seq(Events) /\ DOMAIN output_queue' = 1 .. Len(output_queue) + 1
            /\ \A i \in DOMAIN output_queue' :
                 output_queue'[i] = IF i \in DOMAIN output_queue THEN output_queue[i] ELSE event
        BY <1>2, <2>6, <3>1
      <3> QED BY <2>7, <3>2, <3>3
    <2>9. UNCHANGED <<loop, placing, order_map, orders, recent_trades, seen, since>>
      BY <1>6 DEF Routing!emit
    <2> QED BY <1>4, <2>8, <2>9
  <1> QED BY <1>3, <1>5, <1>6 DEF Route

(* A map without entries is right when this process has sent no order.     *)
LEMMA EmptyIsRight ==
    ASSUME NEW os, NEW old \in Nat, \A o \in DOMAIN os : ~(o > old)
    PROVE  /\ MapOK(Routing!Empty) /\ LeadsToRequest(Routing!Empty, os)
           /\ SentAreFound(Routing!Empty, os, old)
  <1>1. /\ Routing!Empty.entries = << >>
        /\ DOMAIN Routing!Empty.entries = {}
        /\ DOMAIN Routing!Empty.by_request = {}
        /\ DOMAIN Routing!Empty.by_client_oid = {} /\ DOMAIN Routing!Empty.by_venue_oid = {}
    BY DEF Routing!Empty
  <1>2. Routing!Empty = [entries |-> Routing!Empty.entries, by_request |-> Routing!Empty.by_request,
            by_client_oid |-> Routing!Empty.by_client_oid, by_venue_oid |-> Routing!Empty.by_venue_oid]
    BY DEF Routing!Empty
  <1> QED BY <1>1, <1>2 DEF MapOK, Leads, LeadsToRequest, SentAreFound

(* Before the first order nothing is wrong. *)
LEMMA IdleIsRight == Routing!Init => RoutingOK
  <1> SUFFICES ASSUME Routing!Init PROVE RoutingOK
    OBVIOUS
  <1>1. /\ order_map = Routing!Empty /\ orders = << >> /\ output_queue = << >>
        /\ recent_trades = << >> /\ seen = {} /\ since = 0
    BY DEF Routing!Init
  <1>2. MapOK(order_map) /\ LeadsToRequest(order_map, orders) /\ SentAreFound(order_map, orders, since)
    BY <1>1, EmptyIsRight
  <1>3. RowsOK /\ Routing!SentIdsAreKnown /\ Routing!EventsReachOwner
    BY <1>1 DEF RowsOK, Routing!SentIdsAreKnown, Routing!EventsReachOwner
  <1>4. EntriesPlaced /\ VenuesPlaced
    BY <1>1 DEF EntriesPlaced, VenuesPlaced, Routing!Empty
  <1> QED BY <1>1, <1>2, <1>3, <1>4 DEF RoutingOK

(* The process ends: what is left are the orders that were sent.           *)
LEMMA CrashKeeps ==
    ASSUME OrdersInv, caller = "gateway", GatewayCrash
    PROVE  (Linked /\ RoutingOK)'
  <1>1. /\ loop' = "commands" /\ placing' = None /\ order_map' = Routing!Empty
        /\ output_queue' = << >> /\ recent_trades' = << >> /\ seen' = {} /\ since' = Len(orders)
        /\ UNCHANGED <<orders, issued, caller>> /\ pc' = "idle"
    BY DEF GatewayCrash, Routing!restart, crash
  <1>2. orders \in Seq(Orders) /\ Linked
    BY DEF OrdersInv, RoutingOK
  <1>3. MapOK(Routing!Empty) /\ LeadsToRequest(Routing!Empty, orders) /\ SentAreFound(Routing!Empty, orders, Len(orders))
    BY <1>2, EmptyIsRight
  <1>4. Linked'
    BY <1>1, <1>2 DEF Linked
  <1>5. RoutingOK'
    <2>1. RowsOK' /\ Routing!SentIdsAreKnown' /\ Routing!EventsReachOwner'
      BY <1>1 DEF RowsOK, Routing!SentIdsAreKnown, Routing!EventsReachOwner
    <2>2. MapOK(order_map)' /\ LeadsToRequest(order_map, orders)' /\ SentAreFound(order_map, orders, since)'
      BY <1>1, <1>3 DEF MapOK, Leads, LeadsToRequest, SentAreFound
    <2>3. (\A i \in DOMAIN output_queue : IsOf(output_queue[i], orders))'
      BY <1>1
    <2>4. EntriesPlaced' /\ VenuesPlaced'
      BY <1>1 DEF EntriesPlaced, VenuesPlaced, Routing!Empty
    <2> QED BY <1>1, <1>2, <2>1, <2>2, <2>3, <2>4 DEF RoutingOK
  <1> QED BY <1>4, <1>5

-----------------------------------------------------------------------------
(* Every step of the gateway, and of the allocator by itself, keeps the    *)
(* invariant ...                                                           *)
LEMMA StepsKeepOrders == OrdersInv /\ [OrdersNext]_<<vars, caller, routing>> => OrdersInv'
  <1> SUFFICES ASSUME OrdersInv, [OrdersNext]_<<vars, caller, routing>> PROVE OrdersInv'
    OBVIOUS
  <1>1. Inv'
    <2>1. [Next]_vars
      BY DEF OrdersNext, Allocates, GatewayConstruct, AskForRef, GatewayPersist, SendWithRef, Route,
             GatewayCrash, Next
    <2> QED BY <2>1, NextKeepsInv DEF OrdersInv
  <1>2. ASSUME UNCHANGED <<caller, routing, issued>>, ~lost' => ~lost,
               caller = "gateway" => (pc' = "idle" <=> pc = "idle") /\ op' = op
        PROVE  (Linked /\ RoutingOK)'
    <2>1. UNCHANGED <<loop, placing, order_map, orders, output_queue, recent_trades, seen, since>>
      BY <1>2 DEF routing
    <2>2. Linked'
      BY <1>2, <2>1 DEF OrdersInv, Linked, Routing!Init, Routing!Empty
    <2>3. RowsOK' /\ Routing!SentIdsAreKnown' /\ (Routing!EventsReachOwner => Routing!EventsReachOwner')
      BY <2>1 DEF OrdersInv, RoutingOK, RowsOK, Routing!SentIdsAreKnown, Routing!EventsReachOwner, Routing!SoleUser
    <2>4. /\ SentAreFound(order_map, orders, since)'
          /\ MapOK(order_map)' /\ EntriesPlaced' /\ VenuesPlaced'
          /\ (LeadsToRequest(order_map, orders) => LeadsToRequest(order_map, orders)')
          /\ (\A i \in DOMAIN output_queue : IsOf(output_queue[i], orders))'
      BY <2>1 DEF OrdersInv, RoutingOK, SentAreFound, MapOK, Leads, LeadsToRequest, IsOf,
                     EntriesPlaced, VenuesPlaced, PlacedAs
    <2> QED BY <1>2, <2>1, <2>2, <2>3, <2>4 DEF OrdersInv, RoutingOK
  <1>3. (Linked /\ RoutingOK)'
    <2>1. CASE Allocates
      <3>1. caller = "anyone" /\ UNCHANGED <<caller, routing>> /\ Next
        BY <2>1 DEF Allocates
      <3>2. Routing!Init
        BY <3>1 DEF OrdersInv, Linked
      <3>3. UNCHANGED <<loop, placing, order_map, orders, output_queue, recent_trades, seen, since>>
        BY <3>1 DEF routing
      <3>4. Routing!Init' /\ caller' = "anyone"
        BY <3>1, <3>2, <3>3 DEF Routing!Init, Routing!Empty
      <3>5. (Routing!Init => RoutingOK)'
        BY IdleIsRight, PTL
      <3>6. Linked'
        BY <3>4, <3>3 DEF Linked
      <3> QED BY <3>4, <3>5, <3>6
    <2>2. CASE caller = "gateway" /\ (GatewayConstruct \/ GatewayPersist)
      <3>1. /\ UNCHANGED <<caller, routing, issued>> /\ (~lost' => ~lost) /\ op' = op
            /\ pc' = "idle" <=> pc = "idle"
        <4>1. CASE GatewayConstruct
          <5>1. ~lost' => ~lost
            BY <4>1, Zenon DEF GatewayConstruct, construct, load_fails
          <5>2. UNCHANGED <<caller, routing, issued, pc, op>>
            BY <4>1 DEF GatewayConstruct, construct, load_fails
          <5> QED BY <5>1, <5>2
        <4>2. CASE GatewayPersist
          BY <4>2 DEF GatewayPersist, Persist, write_temp, os_replace, undecodable_state, persist_fails
        <4> QED BY <2>2, <4>1, <4>2
      <3> QED BY <1>2, <3>1
    <2>3. CASE caller = "gateway" /\ \E command \in Commands : AskForRef(command)
      BY <2>3, AskForRefKeeps
    <2>4. CASE caller = "gateway" /\ SendWithRef
      BY <1>1, <2>4, SendKeeps
    <2>5. CASE caller = "gateway" /\ Route
      BY <2>5, RouteKeeps
    <2>6. CASE caller = "gateway" /\ GatewayCrash
      BY <2>6, CrashKeeps
    <2>7. CASE UNCHANGED <<vars, caller, routing>>
      BY <1>2, <2>7 DEF vars
    <2> QED
      BY <2>1, <2>2, <2>3, <2>4, <2>5, <2>6, <2>7 DEF OrdersNext
  <1> QED BY <1>1, <1>3 DEF OrdersInv

(* ... and a gateway that has sent nothing satisfies it.                   *)
LEMMA OrdersStart == OrdersInit => OrdersInv
  <1> SUFFICES ASSUME OrdersInit PROVE OrdersInv
    OBVIOUS
  <1>1. Inv
    BY InitGivesInv DEF OrdersInit
  <1>2. Routing!Init /\ Len(issued) = 0 /\ pc = "idle" /\ caller \in {"gateway", "anyone"}
    BY DEF OrdersInit, Init
  <1>3. RoutingOK /\ loop = "commands" /\ orders = << >>
    BY <1>2, IdleIsRight DEF Routing!Init
  <1>4. Linked
    BY <1>2, <1>3 DEF Linked
  <1> QED BY <1>1, <1>3, <1>4 DEF OrdersInv

(* The invariant of the gateway with its allocator. *)
LEMMA OrdersInvHolds == OrdersSpec => []OrdersInv
  BY OrdersStart, StepsKeepOrders, PTL DEF OrdersSpec

(* Used by the gateway, too, the allocator's refs increase and its file    *)
(* covers them: next, _persist_locked and the crash between them.          *)
THEOREM RefsOfOrdersUnique == OrdersSpec => [](RefsIncrease /\ FileCoversIssued)
  <1>1. OrdersInv => RefsIncrease /\ FileCoversIssued
    BY DEF OrdersInv, Inv, FileAhead, AllUpTo, FileCoversIssued
  <1> QED BY <1>1, OrdersInvHolds, PTL

(* _enrich_event_payload publishes the events of an order whose request id *)
(* no other strategy has used under no other strategy than the one that    *)
(* placed it, over any number of crashes, failing persists, repeated and   *)
(* missing request ids and adapters that raise; two orders share a         *)
(* reference only after a load or the latest persist has failed.           *)
THEOREM EventsFindOwner == OrdersSpec => []EventsReachOwner
  <1>1. OrdersInv => EventsReachOwner
    BY DEF OrdersInv, RoutingOK, EventsReachOwner
  <1> QED BY <1>1, OrdersInvHolds, PTL

(* What _dispatch, _record_order_result_ids and _record_event_order_ids    *)
(* put into the map is found from then on.                                 *)
THEOREM SentOrdersAreKnown == OrdersSpec => []OrdersAreKnown
  <1>1. OrdersInv => OrdersAreKnown
    <2>1. RoutingOK => Routing!SentIdsAreKnown
      BY DEF RoutingOK
    <2>2. ASSUME RoutingOK, ~lost, Linked PROVE Routing!VenueIdsLearned
      <3> SUFFICES ASSUME NEW v \in seen
                   PROVE  /\ v \in DOMAIN order_map.by_venue_oid
                          /\ LET entry == order_map.entries[order_map.by_venue_oid[v]]
                             IN  /\ entry.request_id = orders[v[1]].request_id
                                 /\ Routing!SoleUser(v[1]) =>
                                        entry.strategy_id = orders[v[1]].strategy_id
        BY DEF Routing!VenueIdsLearned
      <3> DEFINE e == order_map.by_venue_oid[v]
                 entry == order_map.entries[e]
      <3>1. v \in DOMAIN order_map.by_venue_oid /\ e \in DOMAIN order_map.entries
        BY <2>2 DEF RoutingOK, MapOK, Leads
      <3>2. v[1] \in DOMAIN orders /\ entry.request_id = orders[v[1]].request_id
        BY <2>2, <3>1 DEF RoutingOK, LeadsToRequest
      <3> HIDE DEF e
      <3>3. Routing!SoleUser(v[1]) => entry.strategy_id = orders[v[1]].strategy_id
        BY <2>2, <3>1, <3>2 DEF RoutingOK, VenuesPlaced, PlacedAs, Routing!SoleUser, e
      <3> QED BY <3>1, <3>2, <3>3 DEF e
    <2> QED BY <2>1, <2>2 DEF OrdersInv, OrdersAreKnown
  <1> QED BY <1>1, OrdersInvHolds, PTL
=============================================================================
