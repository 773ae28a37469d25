------------------------ MODULE MarketSubscriptionsProofs -----------------------
(***************************************************************************)
(* The reference counts of SubscriptionManager are exact, by themselves    *)
(* and under the steps of the gateway's commands; and with their help      *)
(* every held symbol is streamed but those entered too early: for any      *)
(* finite set of strategies and any symbols.                               *)
(***************************************************************************)
EXTENDS MarketSubscriptions, FiniteSetTheorems, TLAPS

(* The inductive invariant: a count can only be seen to stay exact from    *)
(* the exact count before the call, and the key of a count can only be     *)
(* seen to disappear in time from the types of the counts.                 *)
Inv == TypeOK /\ RefCountExact /\ FollowerHoldsWanted

-----------------------------------------------------------------------------
(* Counting: a set of strategies has one member more with a newcomer, one  *)
(* less without a member, and zero only when it is empty.                  *)
LEMMA CountStrategies ==
    ASSUME NEW S \in SUBSET Strategies
    PROVE  /\ Cardinality(S) \in Nat
           /\ Cardinality(S) = 0 <=> S = {}
           /\ \A t \in Strategies \ S : Cardinality(S \cup {t}) = Cardinality(S) + 1
           /\ \A t \in S : Cardinality(S \ {t}) = Cardinality(S) - 1
  <1>1. IsFiniteSet(S)
    BY StrategiesFinite, FS_Subset
  <1> QED
    BY <1>1, FS_CardinalityType, FS_EmptySet, FS_AddElement, FS_RemoveElement

(* The symbols of a strategy are symbols, and nobody outside the           *)
(* dictionary holds any.                                                   *)
LEMMA StrategySymbolsType ==
    ASSUME TypeOK, NEW t
    PROVE  /\ get_strategy_symbols(t) \subseteq Symbols
           /\ t \in DOMAIN strategy_symbols => get_strategy_symbols(t) # {}
  BY DEF TypeOK, get_strategy_symbols

(* A count is a natural number, positive exactly for the keys.             *)
LEMMA RefCountType ==
    ASSUME TypeOK, NEW s
    PROVE  /\ ref_count(s) \in Nat
           /\ s \in DOMAIN ref_counts <=> ref_count(s) # 0
  BY DEF TypeOK, ref_count

-----------------------------------------------------------------------------
(* A step that gives strategy t the symbols in added, none of which it     *)
(* held, and counts them, keeps the counts exact.                          *)
LEMMA AddKeepsExact ==
    ASSUME Inv, NEW t \in Strategies, NEW added \in SUBSET Symbols,
           added \cap get_strategy_symbols(t) = {},
           \A s \in Symbols :
              Holders(s)' = IF s \in added THEN Holders(s) \cup {t} ELSE Holders(s),
           ref_counts' = CountsAfterAdd(added),
           followed' = followed \cup NewlySubscribed(added)
    PROVE  /\ DOMAIN ref_counts' \subseteq Symbols
           /\ ref_counts' \in [DOMAIN ref_counts' -> Nat \ {0}]
           /\ followed' \subseteq Symbols
           /\ RefCountExact'
           /\ FollowerHoldsWanted'
  <1> USE DEF Inv
  <1>1. /\ DOMAIN ref_counts' = DOMAIN ref_counts \cup added
        /\ \A s \in DOMAIN ref_counts \cup added :
              ref_counts'[s] = ref_count(s) + (IF s \in added THEN 1 ELSE 0)
        /\ ref_counts' = [s \in DOMAIN ref_counts' |-> ref_counts'[s]]
    BY DEF CountsAfterAdd
  <1>2. \A s \in DOMAIN ref_counts' : ref_counts'[s] \in Nat \ {0}
    BY <1>1, RefCountType
  <1>3. \A s \in Symbols : ref_count(s)' = ref_count(s) + (IF s \in added THEN 1 ELSE 0)
    BY <1>1, RefCountType DEF ref_count
  <1>4. \A s \in added : t \notin Holders(s)
    BY DEF Holders
  <1>5. \A s \in Symbols : Holders(s) \in SUBSET Strategies
    BY DEF Holders
  <1>6. RefCountExact'
    <2>1. ASSUME NEW s \in Symbols
          PROVE  Cardinality(Holders(s)')
                   = Cardinality(Holders(s)) + (IF s \in added THEN 1 ELSE 0)
      <3>1. CASE s \in added
        BY <1>4, <1>5, <3>1, CountStrategies
      <3>2. CASE s \notin added
        BY <1>5, <3>2, CountStrategies
      <3> QED BY <3>1, <3>2
    <2>2. ASSUME NEW s \in Symbols PROVE ref_count(s)' = Cardinality(Holders(s)')
      BY <1>3, <2>1 DEF RefCountExact
    <2> QED BY <2>2 DEF RefCountExact
  <1>7. FollowerHoldsWanted'
    <2>1. \A s \in Symbols : ref_count(s) = 0 <=> Holders(s) = {}
      BY <1>5, CountStrategies DEF RefCountExact
    <2>2. NewlySubscribed(added) = {s \in added : Holders(s) = {}}
      BY <2>1, RefCountType DEF NewlySubscribed
    <2>3. \A s \in Symbols : Holders(s)' # {} <=> (Holders(s) # {} \/ s \in added)
      OBVIOUS
    <2>4. followed' = {s \in Symbols : Holders(s)' # {}}
      BY <2>2, <2>3 DEF FollowerHoldsWanted
    <2> QED BY <2>4 DEF FollowerHoldsWanted
  <1>8. followed' \subseteq Symbols
    BY DEF TypeOK, NewlySubscribed
  <1>9. DOMAIN ref_counts' \subseteq Symbols
    BY <1>1 DEF TypeOK
  <1> QED
    BY <1>1, <1>2, <1>6, <1>7, <1>8, <1>9

(* A step that takes the symbols in dropped, all of which it held, from    *)
(* strategy t and releases them keeps the counts exact.                    *)
LEMMA DropKeepsExact ==
    ASSUME Inv, NEW t \in Strategies, NEW dropped \in SUBSET Symbols,
           dropped \subseteq get_strategy_symbols(t),
           \A s \in Symbols :
              Holders(s)' = IF s \in dropped THEN Holders(s) \ {t} ELSE Holders(s),
           ref_counts' = CountsAfterDrop(dropped),
           followed' = followed \ ToUnsubscribe(dropped)
    PROVE  /\ DOMAIN ref_counts' \subseteq Symbols
           /\ ref_counts' \in [DOMAIN ref_counts' -> Nat \ {0}]
           /\ followed' \subseteq Symbols
           /\ RefCountExact'
           /\ FollowerHoldsWanted'
  <1> USE DEF Inv
  <1> DEFINE keys == (DOMAIN ref_counts \cup dropped) \ ToUnsubscribe(dropped)
  <1>1. /\ DOMAIN ref_counts' = keys
        /\ \A s \in keys :
              ref_counts'[s] = ref_count(s) - (IF s \in dropped THEN 1 ELSE 0)
        /\ ref_counts' = [s \in DOMAIN ref_counts' |-> ref_counts'[s]]
    BY DEF CountsAfterDrop
  <1>2. \A s \in keys : ref_counts'[s] \in Nat \ {0}
    BY <1>1, RefCountType DEF ToUnsubscribe
  <1>3. \A s \in Symbols : Holders(s) \in SUBSET Strategies
    BY DEF Holders
  <1>4. \A s \in dropped : t \in Holders(s)
    BY DEF Holders
  <1>5. \A s \in dropped : ref_count(s) >= 1
    BY <1>3, <1>4, RefCountType, CountStrategies DEF RefCountExact
  <1>6. \A s \in Symbols : ref_count(s)' = ref_count(s) - (IF s \in dropped THEN 1 ELSE 0)
    BY <1>1, <1>5, RefCountType DEF ref_count, ToUnsubscribe
  <1>7. RefCountExact'
    <2>1. ASSUME NEW s \in Symbols
          PROVE  Cardinality(Holders(s)')
                   = Cardinality(Holders(s)) - (IF s \in dropped THEN 1 ELSE 0)
      <3>1. CASE s \in dropped
        BY <1>3, <1>4, <3>1, CountStrategies
      <3>2. CASE s \notin dropped
        BY <1>3, <3>2, CountStrategies
      <3> QED BY <3>1, <3>2
    <2>2. ASSUME NEW s \in Symbols PROVE ref_count(s)' = Cardinality(Holders(s)')
      BY <1>6, <2>1 DEF RefCountExact
    <2> QED BY <2>2 DEF RefCountExact
  <1>8. FollowerHoldsWanted'
    <2>1. \A s \in Symbols : ref_count(s) = Cardinality(Holders(s))
      BY DEF RefCountExact
    <2>2. \A s \in dropped : ref_count(s) - 1 <= 0 <=> Holders(s) \ {t} = {}
      <3> TAKE s \in dropped
      <3>1. Cardinality(Holders(s) \ {t}) = ref_count(s) - 1
        BY <1>3, <1>4, <2>1, CountStrategies
      <3>2. Cardinality(Holders(s) \ {t}) = 0 <=> Holders(s) \ {t} = {}
        BY <1>3, CountStrategies
      <3> QED BY <1>5, <3>1, <3>2, RefCountType
    <2>3. ToUnsubscribe(dropped) = {s \in dropped : Holders(s) \ {t} = {}}
      BY <2>2 DEF ToUnsubscribe
    <2>4. followed' = {s \in Symbols : Holders(s)' # {}}
      BY <1>4, <2>3 DEF FollowerHoldsWanted
    <2> QED BY <2>4 DEF FollowerHoldsWanted
  <1>9. followed' \subseteq Symbols
    BY DEF TypeOK
  <1>10. DOMAIN ref_counts' \subseteq Symbols
    BY <1>1 DEF TypeOK
  <1> QED
    BY <1>1, <1>2, <1>7, <1>8, <1>9, <1>10

-----------------------------------------------------------------------------
(* One call of add, remove or remove_strategy, or a stuttering step, keeps *)
(* the invariant.                                                          *)
LEMMA NextKeepsInv == Inv /\ [Next]_vars => Inv'
  <1> SUFFICES ASSUME Inv, [Next]_vars PROVE Inv'
    OBVIOUS
  <1> USE DEF Inv
  <1>1. ASSUME NEW t \in Strategies, NEW S \in SUBSET Symbols, add(t, S)
        PROVE  Inv'
    <2> DEFINE added == S \ get_strategy_symbols(t)
    <2>1. CASE S = {}
      <3>1. /\ strategy_symbols' = strategy_symbols
            /\ added = {}
            /\ ref_counts' = CountsAfterAdd(added)
            /\ followed' = followed \cup NewlySubscribed(added)
        BY <1>1, <2>1 DEF add
      <3>2. \A s \in Symbols : Holders(s)' = Holders(s)
        BY <3>1 DEF Holders, get_strategy_symbols
      <3> HIDE DEF added
      <3>3. /\ added \in SUBSET Symbols
            /\ added \cap get_strategy_symbols(t) = {}
            /\ \A s \in Symbols :
                 Holders(s)' = IF s \in added THEN Holders(s) \cup {t} ELSE Holders(s)
        BY <3>1, <3>2
      <3> QED BY <3>1, <3>3, AddKeepsExact DEF TypeOK
    <2>2. CASE S # {}
      <3>1. /\ DOMAIN strategy_symbols' = DOMAIN strategy_symbols \cup {t}
            /\ \A u \in DOMAIN strategy_symbols' :
                 strategy_symbols'[u] = get_strategy_symbols(u)
                                          \cup (IF u = t THEN added ELSE {})
            /\ strategy_symbols' = [u \in DOMAIN strategy_symbols' |-> strategy_symbols'[u]]
            /\ ref_counts' = CountsAfterAdd(added)
            /\ followed' = followed \cup NewlySubscribed(added)
        BY <1>1, <2>2 DEF add
      <3>2. /\ added \in SUBSET Symbols
            /\ added \cap get_strategy_symbols(t) = {}
            /\ get_strategy_symbols(t) \cup added # {}
        BY <2>2
      <3> HIDE DEF added
      <3>3. \A u \in Strategies :
              get_strategy_symbols(u)' = get_strategy_symbols(u)
                                           \cup (IF u = t THEN added ELSE {})
        BY <3>1 DEF get_strategy_symbols
      <3>4. \A s \in Symbols :
              Holders(s)' = IF s \in added THEN Holders(s) \cup {t} ELSE Holders(s)
        BY <3>3 DEF Holders
      <3>5. /\ DOMAIN strategy_symbols' \subseteq Strategies
            /\ strategy_symbols' \in [DOMAIN strategy_symbols' -> (SUBSET Symbols) \ {{}}]
        <4>1. \A u \in DOMAIN strategy_symbols' :
                strategy_symbols'[u] \in (SUBSET Symbols) \ {{}}
          BY <3>1, <3>2, StrategySymbolsType
        <4> QED BY <3>1, <4>1 DEF TypeOK
      <3> QED BY <3>1, <3>2, <3>4, <3>5, AddKeepsExact DEF TypeOK
    <2> QED BY <2>1, <2>2
  <1>2. ASSUME NEW t \in Strategies, NEW S \in SUBSET Symbols, remove(t, S)
        PROVE  Inv'
    <2> DEFINE dropped == S \cap strategy_symbols[t]
               left    == strategy_symbols[t] \ S
    <2>1. /\ t \in DOMAIN strategy_symbols
          /\ strategy_symbols' =
               [u \in {v \in DOMAIN strategy_symbols : v # t \/ left # {}} |->
                  IF u = t THEN left ELSE strategy_symbols[u]]
          /\ ref_counts' = CountsAfterDrop(dropped)
          /\ followed' = followed \ ToUnsubscribe(dropped)
      BY <1>2 DEF remove
    <2>2. get_strategy_symbols(t) = strategy_symbols[t]
      BY <2>1 DEF get_strategy_symbols
    <2>3. /\ dropped \in SUBSET Symbols
          /\ dropped \subseteq get_strategy_symbols(t)
          /\ left \in SUBSET Symbols
          /\ left = get_strategy_symbols(t) \ dropped
      BY <2>2, StrategySymbolsType
    <2> HIDE DEF dropped, left
    <2>4. \A u \in Strategies :
            get_strategy_symbols(u)' = IF u = t THEN left ELSE get_strategy_symbols(u)
      BY <2>1 DEF get_strategy_symbols
    <2>5. \A s \in Symbols :
            Holders(s)' = IF s \in dropped THEN Holders(s) \ {t} ELSE Holders(s)
      BY <2>3, <2>4 DEF Holders
    <2>6. /\ DOMAIN strategy_symbols' \subseteq Strategies
          /\ strategy_symbols' \in [DOMAIN strategy_symbols' -> (SUBSET Symbols) \ {{}}]
      BY <2>1, <2>3 DEF TypeOK
    <2> QED BY <2>1, <2>3, <2>5, <2>6, DropKeepsExact DEF TypeOK
  <1>3. ASSUME NEW t \in Strategies, remove_strategy(t)
        PROVE  Inv'
    <2> DEFINE dropped == get_strategy_symbols(t)
    <2>1. /\ strategy_symbols' =
               [u \in DOMAIN strategy_symbols \ {t} |-> strategy_symbols[u]]
          /\ ref_counts' = CountsAfterDrop(dropped)
          /\ followed' = followed \ ToUnsubscribe(dropped)
      BY <1>3 DEF remove_strategy
    <2>2. /\ dropped \in SUBSET Symbols
          /\ dropped \subseteq get_strategy_symbols(t)
      BY StrategySymbolsType
    <2>3. \A u \in Strategies :
            get_strategy_symbols(u)' = IF u = t THEN {} ELSE get_strategy_symbols(u)
      BY <2>1 DEF get_strategy_symbols
    <2>4. \A s \in Symbols :
            Holders(s)' = IF s \in dropped THEN Holders(s) \ {t} ELSE Holders(s)
      BY <2>3 DEF Holders
    <2>5. /\ DOMAIN strategy_symbols' \subseteq Strategies
          /\ strategy_symbols' \in [DOMAIN strategy_symbols' -> (SUBSET Symbols) \ {{}}]
      BY <2>1 DEF TypeOK
    <2> HIDE DEF dropped
    <2> QED BY <2>1, <2>2, <2>4, <2>5, DropKeepsExact DEF TypeOK
  <1>4. CASE UNCHANGED vars
    BY <1>4 DEF vars, TypeOK, RefCountExact, FollowerHoldsWanted, Holders,
                ref_count, get_strategy_symbols
  <1> QED
    BY <1>1, <1>2, <1>3, <1>4 DEF Next

(* Empty dictionaries count nobody. *)
LEMMA InitGivesInv == Init => Inv
  <1> SUFFICES ASSUME Init PROVE Inv
    OBVIOUS
  <1>1. DOMAIN strategy_symbols = {} /\ DOMAIN ref_counts = {} /\ followed = {}
    BY DEF Init
  <1>2. TypeOK
    BY <1>1 DEF Init, TypeOK
  <1>3. \A s \in Symbols : Holders(s) = {} /\ ref_count(s) = 0
    BY <1>1 DEF Holders, get_strategy_symbols, ref_count
  <1>4. Cardinality({}) = 0
    BY FS_EmptySet
  <1> QED BY <1>1, <1>2, <1>3, <1>4 DEF Inv, RefCountExact, FollowerHoldsWanted

(* For every finite set of strategies: the dictionaries keep their types,  *)
(* every count is the number of strategies that hold the symbol, and a     *)
(* caller that follows the returned sets holds exactly the wanted symbols. *)
THEOREM SubscriptionsExact == Spec => [](TypeOK /\ RefCountExact /\ FollowerHoldsWanted)
  BY InitGivesInv, NextKeepsInv, PTL DEF Spec, Inv

-----------------------------------------------------------------------------
(* The commands in progress: types, and what add is about to be called     *)
(* with.  A command that has run on one connection enters only symbols     *)
(* that stream or that somebody holds.                                     *)
CommandOK ==
    /\ command.strategy_id \in Strategies \cup {"default"}
    /\ command.symbols \subseteq Symbols /\ entering \subseteq Symbols
    /\ at \in {"enter", "ask"} => command.strategy_id \in Strategies
    /\ at = "enter" /\ adapter_connected /\ ~crossed
          => entering \subseteq streaming \cup DOMAIN ref_counts

GatewayInv == Inv /\ CommandOK /\ StreamsAreTrue

(* The manager starts empty, the gateway idle. *)
LEMMA GatewayInitGivesInv == GatewayInit => GatewayInv
  <1> SUFFICES ASSUME GatewayInit PROVE GatewayInv
    OBVIOUS
  <1>1. Inv
    BY InitGivesInv DEF GatewayInit
  <1>2. CommandOK
    BY DEF GatewayInit, CommandOK
  <1>3. DOMAIN strategy_symbols = {} /\ DOMAIN ref_counts = {}
    BY DEF GatewayInit, Init
  <1>4. Cardinality(DOMAIN strategy_symbols) = 0 /\ Cardinality(DOMAIN ref_counts) = 0
    BY <1>3, FS_EmptySet
  <1>5. StreamsAreTrue
    BY <1>4 DEF GatewayInit, StreamsAreTrue, HeldSymbolsStream, HealthCountsExact,
                get_strategies, get_active_symbols
  <1> QED BY <1>1, <1>2, <1>5 DEF GatewayInv

(* The steps of a command leave the manager alone, or are calls of add or  *)
(* remove_strategy with the arguments its proof is about.                  *)
LEMMA StepsAreCalls == CommandOK /\ [GatewayNext]_gateway_vars => [Next]_vars
  <1> SUFFICES ASSUME CommandOK, [GatewayNext]_gateway_vars PROVE [Next]_vars
    OBVIOUS
  <1>1. ASSUME NEW t \in Strategies, NEW S \in SUBSET Symbols, subscribe(t, S) \/ register_early(t, S)
        PROVE  UNCHANGED vars
    BY <1>1 DEF subscribe, register_early, Begins
  <1>2. ASSUME NEW t \in Strategies, unregister_strategy(t) PROVE Next
    BY <1>2 DEF unregister_strategy, Next
  <1>3. CASE enter
    BY <1>3 DEF enter, CommandOK, Next
  <1>4. subscribe_symbols \/ subscribe_raises \/ _sync_health_counts => UNCHANGED vars
    BY DEF subscribe_symbols, subscribe_raises, _sync_health_counts
  <1>5. connect \/ disconnect => UNCHANGED vars
    BY DEF connect, disconnect
  <1>6. UNCHANGED gateway_vars => UNCHANGED vars
    BY DEF gateway_vars
  <1> QED BY <1>1, <1>2, <1>3, <1>4, <1>5, <1>6 DEF GatewayNext

-----------------------------------------------------------------------------
(* A symbol that some strategy holds has a count. *)
LEMMA HeldAreActive ==
    ASSUME Inv, NEW t \in Strategies
    PROVE  get_strategy_symbols(t) \subseteq DOMAIN ref_counts
  <1> SUFFICES ASSUME NEW s \in get_strategy_symbols(t) PROVE s \in DOMAIN ref_counts
    OBVIOUS
  <1>1. s \in Symbols
    BY DEF Inv, TypeOK, get_strategy_symbols
  <1>2. IsFiniteSet(Holders(s)) /\ t \in Holders(s)
    BY StrategiesFinite, FS_Subset DEF Holders
  <1>3. Cardinality(Holders(s)) # 0
    BY <1>2, FS_EmptySet
  <1>4. ref_count(s) # 0
    BY <1>1, <1>3 DEF Inv, RefCountExact
  <1> QED BY <1>4 DEF ref_count

(* Holding a symbol less makes no symbol active. *)
LEMMA DropActivates ==
    ASSUME Inv, NEW t \in Strategies, remove_strategy(t)
    PROVE  DOMAIN ref_counts' \subseteq DOMAIN ref_counts
  BY HeldAreActive DEF remove_strategy, CountsAfterDrop

(* Each step of a command, and each step of the connector or of stop()     *)
(* between two of them, preserves what is entered, what streams and what   *)
(* health reports.                                                         *)
LEMMA GatewayKeepsInv == GatewayInv /\ [GatewayNext]_gateway_vars => GatewayInv'
  <1> SUFFICES ASSUME GatewayInv, [GatewayNext]_gateway_vars
               PROVE  GatewayInv'
    OBVIOUS
  <1> USE DEF GatewayInv, get_active_symbols, get_strategies
  <1>0. Inv'
    BY StepsAreCalls, NextKeepsInv
  <1>1. ASSUME NEW t \in Strategies, NEW S \in SUBSET Symbols, subscribe(t, S) \/ register_early(t, S)
        PROVE  CommandOK' /\ StreamsAreTrue'
    BY <1>1 DEF subscribe, register_early, Begins, vars, CommandOK, StreamsAreTrue,
                HeldSymbolsStream, HealthCountsExact
  <1>2. ASSUME NEW t \in Strategies, unregister_strategy(t)
        PROVE  CommandOK' /\ StreamsAreTrue'
    <2>1. DOMAIN ref_counts' \subseteq DOMAIN ref_counts
      BY <1>2, DropActivates DEF unregister_strategy
    <2> QED BY <1>2, <2>1 DEF unregister_strategy, CommandOK, StreamsAreTrue, HeldSymbolsStream,
                              HealthCountsExact
  <1>3. CASE subscribe_symbols
    <2>1. PICK accepted_new \in SUBSET NewlyRequested :
             /\ entering' = (command.symbols \ NewlyRequested) \cup accepted_new
             /\ streaming' = StreamingWith(accepted_new)
      BY <1>3 DEF subscribe_symbols
    <2>2. /\ at = "ask" /\ at' = "enter"
          /\ UNCHANGED <<vars, adapter_connected, command, crossed, carried, health>>
      BY <1>3 DEF subscribe_symbols
    <2>3. entering' \subseteq accepted_new \cup DOMAIN ref_counts /\ entering' \subseteq Symbols
      BY <2>1 DEF NewlyRequested, CommandOK
    <2>4. adapter_connected => streaming' = streaming \cup accepted_new
      BY <2>1 DEF StreamingWith
    <2>5. CommandOK'
      BY <2>2, <2>3, <2>4 DEF vars, CommandOK
    <2>6. StreamsAreTrue'
      BY <2>2, <2>4 DEF vars, StreamsAreTrue, HeldSymbolsStream, HealthCountsExact
    <2> QED BY <1>0, <2>5, <2>6
  <1>4. CASE subscribe_raises
    BY <1>0, <1>4 DEF subscribe_raises, StreamingWith, vars, CommandOK, StreamsAreTrue, HeldSymbolsStream,
                HealthCountsExact
  <1>5. CASE enter
    <2>1. DOMAIN ref_counts' \subseteq DOMAIN ref_counts \cup entering
      BY <1>5 DEF enter, add, CountsAfterAdd
    <2>2. HeldSymbolsStream'
      BY <1>5, <2>1 DEF enter, CommandOK, StreamsAreTrue, HeldSymbolsStream
    <2> QED BY <1>0, <1>5, <2>2 DEF enter, CommandOK, StreamsAreTrue, HealthCountsExact
  <1>6. CASE _sync_health_counts
    BY <1>0, <1>6 DEF _sync_health_counts, vars, CommandOK, StreamsAreTrue, HeldSymbolsStream,
                HealthCountsExact
  <1>7. CASE connect
    BY <1>0, <1>7 DEF connect, vars, CommandOK, StreamsAreTrue, HeldSymbolsStream, HealthCountsExact
  <1>8. CASE disconnect
    BY <1>0, <1>8 DEF disconnect, in_command, vars, CommandOK, StreamsAreTrue, HeldSymbolsStream,
                HealthCountsExact
  <1>9. CASE UNCHANGED gateway_vars
    BY <1>0, <1>9 DEF gateway_vars, in_command, vars, CommandOK, StreamsAreTrue, HeldSymbolsStream,
                HealthCountsExact
  <1> QED BY <1>0, <1>1, <1>2, <1>3, <1>4, <1>5, <1>6, <1>7, <1>8, <1>9 DEF GatewayNext

LEMMA GatewayInvariant == GatewaySpec => []GatewayInv
  BY GatewayInitGivesInv, GatewayKeepsInv, PTL DEF GatewaySpec

(* The reference counts stay exact under the gateway's commands, however   *)
(* the connector and stop() run between their steps.                       *)
THEOREM GatewayCountsExact == GatewaySpec => [](TypeOK /\ RefCountExact)
  <1>1. GatewayInv => TypeOK /\ RefCountExact
    BY DEF GatewayInv, Inv
  <1> QED BY <1>1, GatewayInvariant, PTL

(* While the adapter is connected every symbol some strategy holds is      *)
(* streaming or was entered by a command that had begun before the adapter *)
(* connected, and between commands the counts of the health report are     *)
(* those of the manager (_subscribe_for_strategy, register_strategy and    *)
(* unregister_strategy beside the connector).                              *)
THEOREM HeldAreStreamed == GatewaySpec => []StreamsAreTrue
  <1>1. GatewayInv => StreamsAreTrue
    BY DEF GatewayInv
  <1> QED BY <1>1, GatewayInvariant, PTL
===============================================================================
