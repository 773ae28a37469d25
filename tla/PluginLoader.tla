----------------------------- MODULE PluginLoader -----------------------------
(***************************************************************************)
(* plugins/loader.py: PluginLoader registers exchanges and adapters from   *)
(* the entry points of plugins.  A plugin registers into a registry and a  *)
(* registrar of its own first; what it left there is committed, piece by   *)
(* piece, once the checks are passed.  The application registers,          *)
(* unregisters and clears at any time, also between a check and a commit.  *)
(*                                                                         *)
(* A plugin is a record: the name of its entry point, the name it gives    *)
(* itself, how its import and its registration end, the exchanges it says  *)
(* it supports, and the feeds and adapters it registers: nobody compares   *)
(* the feeds with what it says.                                            *)
(***************************************************************************)
EXTENDS Sequences, FiniteSets

CONSTANTS
    EntryPoints,        \* the entry points, in the order they are discovered
    Readable,           \* the ones in distributions whose metadata can be read
    Exchanges, AdapterTypes

VARIABLES
    registry,           \* the shared ExchangeRegistry
    adapters,           \* the GatewayRuntimeRegistrar: adapter type to owner
    loaded,             \* the plugins in loaded, by the name they give themselves
    failed, skipped,    \* keys of failed and skipped
    todo,               \* entry points the running load_all has left
    commit,             \* what the first of them has still to commit
    isolates,           \* has the registry a create_isolated?
    touched             \* history: exchanges whose feed the application changed

vars == <<registry, adapters, loaded, failed, skipped, todo, commit, isolates, touched>>

Plugins == {EntryPoints[n] : n \in DOMAIN EntryPoints}
Application == "application"

Nobody == "nobody"

-----------------------------------------------------------------------------
(* registry.py: an ExchangeRegistry knows for an exchange the feed class,  *)
(* and beside it the data class, the balance handler and the stream        *)
(* classes (extras, which are always given together here).  Each operation *)
(* holds its lock.  A registry is the record of the two, from the exchange *)
(* to whoever registered it; the shared default one and the isolated ones  *)
(* of plugins are values of the same kind.                                 *)
create_isolated ==
    [feeds |-> [x \in Exchanges |-> Nobody], extras |-> [x \in Exchanges |-> Nobody]]

has_exchange(r, x) == r.feeds[x] # Nobody

(* What a feed can be created for; the streams and handlers of an exchange *)
(* without a feed are there, but in no list.                               *)
list_exchanges(r) == {x \in Exchanges : has_exchange(r, x)}

(* register_feed, and register_exchange_data, register_balance_handler and *)
(* register_stream beside it: whoever comes last, wins.                    *)
register_feed(r, x, owner) == [r EXCEPT !.feeds[x] = owner]

register_extras(r, x, owner) == [r EXCEPT !.extras[x] = owner]

(* unregister_feed leaves the rest.                                        *)
unregister_feed(r, x) == [r EXCEPT !.feeds[x] = Nobody]

clear(r) == create_isolated

-----------------------------------------------------------------------------
(* No plugin is being committed. *)
nothing == [on |-> FALSE, feeds |-> {}, extras |-> {}, adapters |-> {}]

Init ==
    /\ registry = create_isolated
    /\ adapters = [t \in AdapterTypes |-> Nobody]
    /\ loaded = {} /\ failed = {} /\ skipped = {}
    /\ todo = << >> /\ commit = nothing
    /\ isolates \in BOOLEAN
    /\ touched = {}

(* The entry points of all distributions, or, if their index cannot be     *)
(* made, those of the distributions that can be read one by one.           *)
_discover_entry_points == {EntryPoints, Readable}

load_all ==
    /\ todo = << >>
    /\ todo' \in _discover_entry_points
    /\ UNCHANGED <<registry, adapters, loaded, failed, skipped, commit, isolates, touched>>

Names == {p.name : p \in loaded}

(* Faulty variant: adapters alone are compared. *)
_check_duplicate_registration_Adapters(p) ==
    \A t \in p.adapters : adapters[t] = Nobody

(* The shared registry has none of the exchanges it names, the registrar   *)
(* none of the adapters it registers.                                      *)
_check_duplicate_registration(p) ==
    /\ \A x \in p.exchanges : ~has_exchange(registry, x)
    /\ \A t \in p.adapters : adapters[t] = Nobody

(* What register_plugin leaves in the plugin's own registry. *)
isolated(p) ==
    LET own(x) == IF x \in p.feeds THEN p.entry ELSE Nobody
    IN  [feeds |-> [x \in Exchanges |-> own(x)], extras |-> [x \in Exchanges |-> own(x)]]

(* The next entry point, up to its checks.  Failures are kept under the    *)
(* plugin's own name when it has got as far as to give one, under the      *)
(* entry point's before, and either keeps the entry point from being tried *)
(* again; what was skipped is tried again.  A registry that cannot make an *)
(* isolated one ends load_all with an error: no handler is around it.      *)
_load_one ==
    /\ todo # << >> /\ ~commit.on
    /\ UNCHANGED <<registry, adapters, loaded, isolates, touched>>
    /\ LET p == Head(todo)
           goes_on == todo' = Tail(todo) /\ UNCHANGED commit
           fails(key) == failed' = failed \cup {key} /\ goes_on /\ UNCHANGED skipped
           skips(key) == skipped' = skipped \cup {key} /\ goes_on /\ UNCHANGED failed
       IN  IF p.entry \in failed \cup Names
           THEN goes_on /\ UNCHANGED <<failed, skipped>>
           ELSE CASE p.import = "optional" -> skips(p.entry)
                  [] p.import = "error" -> fails(p.entry)
                  [] p.import = "ok" /\ ~isolates ->
                       todo' = << >> /\ UNCHANGED <<commit, failed, skipped>>
                  [] OTHER ->
                     CASE p.register = "optional" -> skips(p.entry)
                       [] p.register = "error" -> fails(p.entry)
                       [] p.register = "version" \/ ~_check_duplicate_registration(p) -> fails(p.name)
                       [] OTHER ->
                          /\ commit' = [on |-> TRUE, feeds |-> list_exchanges(isolated(p)),
                                        extras |-> {}, adapters |-> p.adapters]
                          /\ UNCHANGED <<todo, failed, skipped>>

(* The exchanges of the plugin's registry, one after the other: the feed   *)
(* is registered, ...                                                      *)
_commit_registry ==
    /\ commit.extras = {}
    /\ \E x \in commit.feeds :
         /\ registry' = register_feed(registry, x, Head(todo).entry)
         /\ commit' = [commit EXCEPT !.feeds = @ \ {x}, !.extras = {x}]
    /\ UNCHANGED <<adapters, loaded, failed, skipped, todo, isolates, touched>>

(* ... then what belongs to it.                                            *)
_commit_extras ==
    /\ \E x \in commit.extras : registry' = register_extras(registry, x, Head(todo).entry)
    /\ commit' = [commit EXCEPT !.extras = {}]
    /\ UNCHANGED <<adapters, loaded, failed, skipped, todo, isolates, touched>>

(* The registrar ignores an adapter for a type that has one.               *)
register_adapter(t, owner) ==
    adapters' = [adapters EXCEPT ![t] = IF @ = Nobody THEN owner ELSE @]

_commit_runtime ==
    /\ commit.feeds = {} /\ commit.extras = {}
    /\ \E t \in commit.adapters :
         /\ register_adapter(t, Head(todo).entry)
         /\ commit' = [commit EXCEPT !.adapters = @ \ {t}]
    /\ UNCHANGED <<registry, loaded, failed, skipped, todo, isolates, touched>>

(* All is committed.  A name that is loaded already is not recorded again, *)
(* but what it registered has been committed.                              *)
committed ==
    LET p == Head(todo)
    IN  /\ commit = [nothing EXCEPT !.on = TRUE]
        /\ commit' = nothing /\ todo' = Tail(todo)
        /\ loaded' = IF p.name \in Names THEN loaded ELSE loaded \cup {p}
        /\ UNCHANGED <<registry, adapters, failed, skipped, isolates, touched>>

application ==
    /\ \/ /\ \E x \in Exchanges :
               \/ /\ registry' \in {register_feed(registry, x, Application),
                                 unregister_feed(registry, x)}
                  /\ touched' = touched \cup {x}
               \/ /\ registry' = register_extras(registry, x, Application)
                  /\ UNCHANGED touched
          /\ UNCHANGED adapters
       \/ /\ registry' = clear(registry) /\ touched' = Exchanges
          /\ UNCHANGED adapters
       \/ /\ \E t \in AdapterTypes : register_adapter(t, Application)
          /\ UNCHANGED <<registry, touched>>
    /\ UNCHANGED <<loaded, failed, skipped, todo, commit, isolates>>

Next ==
    \/ load_all \/ _load_one
    \/ _commit_registry \/ _commit_extras \/ _commit_runtime \/ committed
    \/ application

Spec == Init /\ [][Next]_vars

-----------------------------------------------------------------------------
(* The plugin that is being committed. *)
Committing(p) == commit.on /\ p = Head(todo)

(* Its feed is that of a plugin that does not say it supports the exchange,*)
(* whom therefore no check has stopped.                                    *)
TakenUnchecked(x) ==
    \E q \in Plugins : x \in q.feeds \ q.exchanges /\ registry.feeds[x] = q.entry

(* Over repeated loads, failures, conflicts between plugins and what the   *)
(* application does to the registry at the same time: an exchange that a   *)
(* loaded plugin registered is its own unless the application or a plugin  *)
(* that registers more than it names has taken it; its adapter types are   *)
(* its own, but for those the application registered after the check; and  *)
(* what a plugin owns it has been loaded for, under its name, or is being  *)
(* loaded: of a plugin that failed nothing is left (_load_one and the      *)
(* checks before the commits).                                             *)
PluginsSound ==
    /\ \A p \in loaded :
         /\ \A x \in p.feeds \ touched :
               registry.feeds[x] = p.entry \/ TakenUnchecked(x)
         /\ \A t \in p.adapters : adapters[t] \in {p.entry, Application}
    /\ \A p \in Plugins :
         (\E x \in Exchanges : p.entry \in {registry.feeds[x], registry.extras[x]})
         \/ (\E t \in AdapterTypes : adapters[t] = p.entry)
            => p.name \in Names \/ Committing(p)
=============================================================================
