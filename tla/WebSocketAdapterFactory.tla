----------------------- MODULE WebSocketAdapterFactory -----------------------
(***************************************************************************)
(* websocket/exchange_adapters.py: WebSocketAdapterFactory, asked for      *)
(* adapters by several threads while classes are registered.               *)
(***************************************************************************)
EXTENDS Naturals, FiniteSets

CONSTANTS Threads       \* threads that create adapters

(* Names of exchanges, normalised: with their base and asset type.         *)
Names == [OKX |-> <<"OKX", "">>, OKX___SWAP |-> <<"OKX", "SWAP">>,
          BINANCE |-> <<"BINANCE", "">>, BINANCE___FUTURES |-> <<"BINANCE", "FUTURE">>,
          KRAKEN |-> <<"KRAKEN", "">>]
None == "none"

VARIABLES
    _adapters,          \* WebSocketAdapterFactory._adapters
    creating,           \* the create_adapter of each thread
    adapter,            \* the last adapter made
    registered          \* history: names register_adapter was called for

vars == <<_adapters, creating, adapter, registered>>

idle == [pc |-> "idle", name |-> "OKX", class |-> None, type |-> "SPOT"]

Init ==
    /\ _adapters = [n \in DOMAIN Names |-> IF n = "OKX" THEN "OKXWebSocketAdapter" ELSE None]
    /\ creating = [t \in Threads |-> idle]
    /\ adapter = [name |-> "OKX", class |-> None, type |-> "SPOT"]
    /\ registered = {}

-----------------------------------------------------------------------------
_base_exchange_key(name) == Names[name][1]

_infer_exchange_type(name) ==
    LET asset == Names[name][2] IN IF asset = "FUTURE" THEN "FUTURES" ELSE IF asset = "" THEN "SPOT" ELSE asset

(* Only Binance has a plugin; whether it is installed and holds an adapter *)
(* is open.                                                                *)
_load_plugin_adapter(base) == IF base = "BINANCE" THEN {None, "BinanceWebSocketAdapter"} ELSE {None}

(* create_adapter looks the name up, then the base ...                     *)
create_adapter(t, name, type) ==
    /\ creating[t].pc = "idle"
    /\ LET found == IF _adapters[name] # None THEN _adapters[name] ELSE _adapters[_base_exchange_key(name)]
       IN  creating' = [creating EXCEPT ![t] =
              [pc |-> IF found = None THEN "load" ELSE "make", name |-> name, class |-> found, type |-> type]]
    /\ UNCHANGED <<_adapters, registered, adapter>>

(* Faulty variant: the class of the plugin replaces what is there. *)
loaded_Over(t) ==
    /\ creating[t].pc = "load"
    /\ \E class \in _load_plugin_adapter(_base_exchange_key(creating[t].name)) :
         /\ creating' = [creating EXCEPT ![t].pc = "make", ![t].class = class]
         /\ _adapters' = IF class # None
                         THEN [_adapters EXCEPT ![_base_exchange_key(creating[t].name)] = class]
                         ELSE _adapters
    /\ UNCHANGED <<registered, adapter>>

(* ... imports the plugin of the base when there is neither, and keeps its *)
(* class unless somebody has registered one meanwhile ...                  *)
loaded(t) ==
    /\ creating[t].pc = "load"
    /\ \E class \in _load_plugin_adapter(_base_exchange_key(creating[t].name)) :
         /\ creating' = [creating EXCEPT ![t].pc = "make", ![t].class = class]
         /\ _adapters' = IF class # None
                         THEN [_adapters EXCEPT ![_base_exchange_key(creating[t].name)] =
                                                   IF @ = None THEN class ELSE @]
                         ELSE _adapters
    /\ UNCHANGED <<registered, adapter>>

(* ... and makes the adapter.  Classes with the constructor of the base    *)
(* class, as the generic one, are not told the type.                       *)
made(t) ==
    /\ creating[t].pc = "make"
    /\ LET c == creating[t] IN
       adapter' = [name |-> c.name, class |-> IF c.class = None THEN "GenericWebSocketAdapter" ELSE c.class,
                   type |-> IF c.class \in {None, "CustomAdapter"} THEN "untold"
                            ELSE IF c.type = "SPOT" THEN _infer_exchange_type(c.name) ELSE c.type]
    /\ creating' = [creating EXCEPT ![t] = idle]
    /\ UNCHANGED <<_adapters, registered>>

register_adapter(name) ==
    /\ _adapters' = [_adapters EXCEPT ![name] = "CustomAdapter"]
    /\ registered' = registered \cup {name}
    /\ UNCHANGED <<creating, adapter>>

-----------------------------------------------------------------------------
Next ==
    \/ \E t \in Threads :
         \/ loaded(t) \/ made(t)
         \/ \E n \in DOMAIN Names, type \in {"SPOT", "SWAP"} : create_adapter(t, n, type)
    \/ \E n \in {"BINANCE", "OKX___SWAP"} : register_adapter(n)

Spec == Init /\ [][Next]_vars

-----------------------------------------------------------------------------
(* An adapter that was registered stays: a plugin another thread loads at  *)
(* the same time does not replace it (create_adapter, register_adapter).   *)
RegisteredStay == \A n \in registered : _adapters[n] = "CustomAdapter"
=============================================================================
