-------------------------- MODULE MarketSubscriptions -------------------------
(***************************************************************************)
(* The subscription commands of the gateway (gateway/runtime_remote.py)    *)
(* over SubscriptionManager: register_strategy, unregister_strategy and    *)
(* subscribe decide from the manager's state which symbols the adapter is  *)
(* asked for, and enter into the manager what the adapter accepted.        *)
(*                                                                         *)
(* The loop thread runs one command after the other, and only commands     *)
(* touch the manager; the connector and stop() change _adapter_connected   *)
(* at any moment, also between a command's test of it and what the command *)
(* does about it.  A command is therefore cut at the test, at the call of  *)
(* the adapter, at the entry into the manager and at the health report.    *)
(* The two calls of add that end _subscribe_for_strategy are made for the  *)
(* same strategy with disjoint lists; together they do what one call with  *)
(* both lists does.                                                        *)
(***************************************************************************)
EXTENDS SubscriptionManager

VARIABLES
    adapter_connected,  \* _adapter_connected
    streaming,          \* symbols the adapter accepted since it connected
    at,                 \* where the loop is: "idle", or in a command
    command,            \* the strategy and the symbols of the command
    entering,           \* the symbols that add is about to be called with
    crossed,            \* history: the adapter connected during the command
    carried,            \* history: symbols the manager has held without a
                        \* break since a command that had begun before the
                        \* adapter connected
    health              \* the counts of GatewayHealth

in_command == <<at, command, entering, crossed>>
gateway_vars == <<vars, adapter_connected, streaming, in_command, carried, health>>

-----------------------------------------------------------------------------
(* The requested symbols the adapter has to be asked for. *)
NewlyRequested == command.symbols \ get_active_symbols

(* What the adapter streams once it has accepted more: a subscription made *)
(* while _adapter_connected is off ends with the connection stop() closes. *)
StreamingWith(symbols) == IF adapter_connected THEN streaming \cup symbols ELSE streaming

GatewayInit ==
    /\ Init
    /\ adapter_connected = FALSE
    /\ streaming = {} /\ carried = {}
    /\ at = "idle" /\ command = [strategy_id |-> "default", symbols |-> {}]
    /\ entering = {} /\ crossed = FALSE
    /\ health = [strategy_count |-> 0, symbol_count |-> 0]

Begins(strategy_id, symbols) ==
    /\ at = "idle"
    /\ command' = [strategy_id |-> strategy_id, symbols |-> symbols]
    /\ crossed' = FALSE
    /\ UNCHANGED <<vars, adapter_connected, streaming, carried, health>>

(* subscribe, or register_strategy that finds the adapter connected, goes  *)
(* on in _subscribe_for_strategy.  (subscribe is refused otherwise.)       *)
subscribe(strategy_id, symbols) ==
    /\ adapter_connected
    /\ Begins(strategy_id, symbols)
    /\ at' = "ask" /\ entering' = {}

(* register_strategy that finds the adapter not connected is to enter the  *)
(* symbols, and to call them accepted, without asking anyone.              *)
register_early(strategy_id, symbols) ==
    /\ ~adapter_connected
    /\ Begins(strategy_id, symbols)
    /\ at' = "enter" /\ entering' = symbols

(* Faulty variant: the symbols the adapter skipped are entered as well. *)
subscribe_symbols_IgnoresSkips ==
    /\ at = "ask"
    /\ \E accepted_new \in SUBSET NewlyRequested : streaming' = StreamingWith(accepted_new)
    /\ entering' = command.symbols
    /\ at' = "enter"
    /\ UNCHANGED <<vars, adapter_connected, command, crossed, carried, health>>

(* The adapter accepts some of the symbols that are new to the gateway and *)
(* skips the others; one that a strategy holds is not asked for again.     *)
subscribe_symbols ==
    /\ at = "ask"
    /\ \E accepted_new \in SUBSET NewlyRequested :
         /\ entering' = (command.symbols \ NewlyRequested) \cup accepted_new
         /\ streaming' = StreamingWith(accepted_new)
    /\ at' = "enter"
    /\ UNCHANGED <<vars, adapter_connected, command, crossed, carried, health>>

(* adapter.subscribe_symbols raises, having subscribed some of the symbols *)
(* or none: the command fails and the manager is left as it was.           *)
subscribe_raises ==
    /\ at = "ask" /\ NewlyRequested # {}
    /\ \E done \in SUBSET NewlyRequested : streaming' = StreamingWith(done)
    /\ at' = "idle"
    /\ UNCHANGED <<vars, adapter_connected, command, entering, crossed, carried, health>>

enter ==
    /\ at = "enter"
    /\ add(command.strategy_id, entering)
    /\ carried' = carried \cup (IF crossed THEN entering ELSE {})
    /\ at' = "sync"
    /\ UNCHANGED <<adapter_connected, streaming, command, entering, crossed, health>>

(* unregister_strategy: the manager forgets the strategy; the adapter is   *)
(* not told, it goes on streaming.                                         *)
unregister_strategy(strategy_id) ==
    /\ at = "idle"
    /\ remove_strategy(strategy_id)
    /\ carried' = carried \cap DOMAIN ref_counts'
    /\ at' = "sync"
    /\ UNCHANGED <<adapter_connected, streaming, command, entering, crossed, health>>

(* Faulty variant: the symbols are counted as those that stream. *)
_sync_health_counts_Streaming ==
    /\ at = "sync"
    /\ health' = [strategy_count |-> Cardinality(get_strategies),
                  symbol_count |-> Cardinality(streaming)]
    /\ at' = "idle"
    /\ UNCHANGED <<vars, adapter_connected, streaming, command, entering, crossed, carried>>

_sync_health_counts ==
    /\ at = "sync"
    /\ health' = [strategy_count |-> Cardinality(get_strategies),
                  symbol_count |-> Cardinality(get_active_symbols)]
    /\ at' = "idle"
    /\ UNCHANGED <<vars, adapter_connected, streaming, command, entering, crossed, carried>>

(* The connector finds the adapter connected: nothing is subscribed. *)
connect ==
    /\ ~adapter_connected
    /\ adapter_connected' = TRUE
    /\ carried' = get_active_symbols
    /\ crossed' = (at # "idle")
    /\ UNCHANGED <<vars, streaming, at, command, entering, health>>

(* stop() or a failure of the loop: the adapter's subscriptions are gone,  *)
(* the manager's are kept for the next start.                              *)
disconnect ==
    /\ adapter_connected
    /\ adapter_connected' = FALSE
    /\ streaming' = {} /\ carried' = {}
    /\ UNCHANGED <<vars, in_command, health>>

GatewayNext ==
    \/ \E t \in Strategies, S \in SUBSET Symbols : subscribe(t, S) \/ register_early(t, S)
    \/ \E t \in Strategies : unregister_strategy(t)
    \/ subscribe_symbols \/ subscribe_raises \/ enter \/ _sync_health_counts
    \/ connect \/ disconnect

GatewaySpec == GatewayInit /\ [][GatewayNext]_gateway_vars

-----------------------------------------------------------------------------
(* While the adapter is connected, every symbol some strategy holds is     *)
(* streaming, unless it has been held without a break since a command that *)
(* had begun before the adapter connected: no refusal, failure, sharing,   *)
(* unregistering or reconnecting leaves a strategy with a symbol that it   *)
(* asked this connection for and nobody subscribed.  The exception is the  *)
(* code's gap: what register_strategy accepted too early, or while the     *)
(* connector was just setting _adapter_connected, is never asked for.      *)
HeldSymbolsStream ==
    adapter_connected => get_active_symbols \subseteq streaming \cup carried

(* Between two commands the health report counts the strategies and the    *)
(* symbols of the manager exactly, after every command and also after one  *)
(* that failed half way.                                                   *)
HealthCountsExact ==
    at # "sync" =>
        health = [strategy_count |-> Cardinality(get_strategies),
                  symbol_count |-> Cardinality(get_active_symbols)]

(* What strategies hold is streamed, and what health reports of it is so.  *)
StreamsAreTrue == HeldSymbolsStream /\ HealthCountsExact
=============================================================================
