------------------------- MODULE SubscriptionManager -------------------------
(***************************************************************************)
(* gateway/subscription_manager.py: the reference-counted tracker that     *)
(* tells the gateway which symbols its strategies want.                    *)
(*                                                                         *)
(* Every method runs under one lock, so each is one action.  The two       *)
(* dictionaries are functions whose DOMAIN is the set of keys, because the *)
(* code distinguishes a missing key from an empty value.  The list of      *)
(* symbols a caller passes is abstracted to its set: the code skips a      *)
(* symbol it has already handled in the same call.                         *)
(***************************************************************************)
EXTENDS Integers, FiniteSets

CONSTANTS
    Strategies,     \* strategy ids
    Symbols         \* instrument symbols

ASSUME StrategiesFinite == IsFiniteSet(Strategies)

VARIABLES
    strategy_symbols,   \* _strategy_symbols: strategy -> set of its symbols
    ref_counts,         \* _ref_counts: symbol -> number of strategies
    followed            \* history: the symbols a caller holds that subscribes
                        \* what add returns and drops what remove returns

vars == <<strategy_symbols, ref_counts, followed>>

-----------------------------------------------------------------------------
(***************************************************************************)
(* Reads of the two dictionaries.                                          *)
(***************************************************************************)
get_strategy_symbols(strategy_id) ==
    IF strategy_id \in DOMAIN strategy_symbols
      THEN strategy_symbols[strategy_id] ELSE {}

ref_count(symbol) ==
    IF symbol \in DOMAIN ref_counts THEN ref_counts[symbol] ELSE 0

get_active_symbols == DOMAIN ref_counts

get_strategies == DOMAIN strategy_symbols

(***************************************************************************)
(* What the bodies of the loops do to ref_counts for the symbols that are  *)
(* really added or dropped, and which symbols they report.                 *)
(***************************************************************************)
CountsAfterAdd(added) ==
    [s \in DOMAIN ref_counts \cup added |->
        ref_count(s) + (IF s \in added THEN 1 ELSE 0)]

NewlySubscribed(added) == {s \in added : ref_count(s) + 1 = 1}

ToUnsubscribe(dropped) == {s \in dropped : ref_count(s) - 1 <= 0}

CountsAfterDrop(dropped) ==
    [s \in (DOMAIN ref_counts \cup dropped) \ ToUnsubscribe(dropped) |->
        ref_count(s) - (IF s \in dropped THEN 1 ELSE 0)]

-----------------------------------------------------------------------------
Init ==
    /\ strategy_symbols = [t \in {} |-> {}]
    /\ ref_counts = [s \in {} |-> 0]
    /\ followed = {}

(* Faulty variant: add counts a symbol the strategy already holds. *)
add_NoMembershipTest(strategy_id, symbols) ==
    /\ strategy_symbols' =
         IF symbols = {} THEN strategy_symbols
         ELSE [t \in DOMAIN strategy_symbols \cup {strategy_id} |->
                 get_strategy_symbols(t)
                    \cup (IF t = strategy_id THEN symbols ELSE {})]
    /\ ref_counts' = CountsAfterAdd(symbols)
    /\ followed' = followed \cup NewlySubscribed(symbols)

(***************************************************************************)
(* add: the key of the strategy appears with its first symbol; a call with *)
(* no symbols touches nothing.                                             *)
(***************************************************************************)
add(strategy_id, symbols) ==
    LET added == symbols \ get_strategy_symbols(strategy_id)
    IN  /\ strategy_symbols' =
             IF symbols = {} THEN strategy_symbols
             ELSE [t \in DOMAIN strategy_symbols \cup {strategy_id} |->
                     get_strategy_symbols(t)
                        \cup (IF t = strategy_id THEN added ELSE {})]
        /\ ref_counts' = CountsAfterAdd(added)
        /\ followed' = followed \cup NewlySubscribed(added)

(***************************************************************************)
(* remove: an unknown strategy is an early return; a strategy left without *)
(* symbols loses its key.                                                  *)
(***************************************************************************)
remove(strategy_id, symbols) ==
    LET dropped == symbols \cap strategy_symbols[strategy_id]
        left    == strategy_symbols[strategy_id] \ symbols
    IN  /\ strategy_id \in DOMAIN strategy_symbols
        /\ strategy_symbols' =
             [t \in {u \in DOMAIN strategy_symbols :
                        u # strategy_id \/ left # {}} |->
                IF t = strategy_id THEN left ELSE strategy_symbols[t]]
        /\ ref_counts' = CountsAfterDrop(dropped)
        /\ followed' = followed \ ToUnsubscribe(dropped)

remove_strategy(strategy_id) ==
    LET dropped == get_strategy_symbols(strategy_id)
    IN  /\ strategy_symbols' =
             [t \in DOMAIN strategy_symbols \ {strategy_id} |->
                strategy_symbols[t]]
        /\ ref_counts' = CountsAfterDrop(dropped)
        /\ followed' = followed \ ToUnsubscribe(dropped)

Next ==
    \E t \in Strategies :
        \/ \E S \in SUBSET Symbols : add(t, S)
        \/ \E S \in SUBSET Symbols : remove(t, S)
        \/ remove_strategy(t)

Spec == Init /\ [][Next]_vars

-----------------------------------------------------------------------------
Holders(s) == {t \in Strategies : s \in get_strategy_symbols(t)}

(* The types of the two dictionaries; a count or a symbol set that has     *)
(* become empty is never kept under its key.                               *)
TypeOK ==
    /\ DOMAIN strategy_symbols \subseteq Strategies
    /\ strategy_symbols \in
         [DOMAIN strategy_symbols -> (SUBSET Symbols) \ {{}}]
    /\ DOMAIN ref_counts \subseteq Symbols
    /\ ref_counts \in [DOMAIN ref_counts -> Nat \ {0}]
    /\ followed \subseteq Symbols

(* The two dictionaries never drift apart: however calls of add, remove    *)
(* and remove_strategy follow one another, with overlapping, repeated and  *)
(* unknown symbols, a symbol's count is the number of strategies that      *)
(* hold it.  A drift upwards keeps dead feeds alive, downwards cuts a feed *)
(* another strategy still uses.                                            *)
RefCountExact == \A s \in Symbols : ref_count(s) = Cardinality(Holders(s))

(* A caller that subscribes exactly what add returns and drops exactly     *)
(* what remove and remove_strategy return holds, at all times, the symbols *)
(* some strategy wants: no call reports a symbol too often or too seldom.  *)
FollowerHoldsWanted == followed = {s \in Symbols : Holders(s) # {}}
=============================================================================
