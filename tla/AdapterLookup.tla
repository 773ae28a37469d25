----------------------------- MODULE AdapterLookup -----------------------------
(***************************************************************************)
(* How threads that make gateways find the adapter class of an exchange:   *)
(* gateway/runtime_remote.py (get_adapter_class, _ensure_plugins_loaded,   *)
(* register_adapter), gateway/runtime.py (_resolve_adapter,                *)
(* _load_default_plugin) and gateway/registrar.py.  The remote runtime     *)
(* loads all plugins once and keeps what it found in a registry of its     *)
(* own; the standalone runtime loads the plugin of one exchange.  A class  *)
(* is named by the plugin that has it.                                     *)
(***************************************************************************)
EXTENDS Sequences

CONSTANTS
    Threads, NoThread,
    Plugins, Nobody, Application,
    Types,              \* names of exchanges
    Provides,           \* for each plugin the types it registers, in order
    module_names        \* the plugin _load_default_plugin imports, by type

VARIABLES
    ADAPTER_REGISTRY,   \* of the remote runtime
    _adapters,          \* of GatewayRuntimeRegistrar
    _plugins_loaded, _plugin_loader_lock,
    thread,             \* what each thread does, and for which type
    found,              \* history: the classes found for a type
    denied,             \* history: a thread was wrongly denied a type
    registered          \* history: types the application has registered for

shared == <<ADAPTER_REGISTRY, _adapters, _plugins_loaded, _plugin_loader_lock>>
history == <<found, denied, registered>>
vars == <<shared, thread, history>>

job(pc, type, todo) == [pc |-> pc, type |-> type, todo |-> todo, plugins |-> {}]
idle == job("idle", CHOOSE t \in Types : TRUE, << >>)

Init ==
    /\ ADAPTER_REGISTRY = [t \in Types |-> Nobody]
    /\ _adapters = [t \in Types |-> Nobody]
    /\ _plugins_loaded = FALSE /\ _plugin_loader_lock = NoThread
    /\ thread = [k \in Threads |-> idle]
    /\ found = [t \in Types |-> {}] /\ denied = FALSE /\ registered = {}

-----------------------------------------------------------------------------
Goto(k, pc) == thread' = [thread EXCEPT ![k].pc = pc]

TypesOf(p) == {Provides[p][n] : n \in DOMAIN Provides[p]}

(* The thread has the class, or an error when there is none.  It is denied *)
(* wrongly when a plugin has the type, the application has not registered  *)
(* for any type of that plugin, which fails it, and no other thread is     *)
(* just about to register the type.                                        *)
ends(k, class) ==
    LET type == thread[k].type
        coming == \E other \in Threads : type \in {thread[other].todo[n] : n \in DOMAIN thread[other].todo}
    IN  /\ thread' = [thread EXCEPT ![k] = idle]
        /\ found' = [found EXCEPT ![type] = @ \cup ({class} \ {Nobody})]
        /\ denied' = (denied \/ (class = Nobody /\ ~coming /\ \E p \in Plugins :
                                   type \in TypesOf(p) /\ TypesOf(p) \cap registered = {}))
        /\ UNCHANGED registered

(* GatewayRuntimeRegistrar.register_adapter: who comes first stays.        *)
register_adapter(type, class) ==
    _adapters' = [_adapters EXCEPT ![type] = IF @ = Nobody THEN class ELSE @]

(* Remote: get_adapter_class, up to the look into its own registry.        *)
get_adapter_class(k, type) ==
    /\ thread[k].pc = "idle"
    /\ thread' = [thread EXCEPT ![k] =
          job(IF ADAPTER_REGISTRY[type] # Nobody THEN "own" ELSE "ensure", type, << >>)]
    /\ UNCHANGED <<shared, history>>

own(k) ==
    /\ thread[k].pc = "own"
    /\ ends(k, ADAPTER_REGISTRY[thread[k].type])
    /\ UNCHANGED shared

(* Faulty variant: the flag is set before the plugins are loaded.          *)
_ensure_plugins_loaded_Early(k) ==
    /\ \/ /\ thread[k].pc = "ensure"
          /\ Goto(k, IF _plugins_loaded THEN "get" ELSE "lock")
          /\ UNCHANGED <<_plugins_loaded, _plugin_loader_lock>>
       \/ /\ thread[k].pc = "lock" /\ _plugin_loader_lock = NoThread
          /\ IF _plugins_loaded
             THEN Goto(k, "get") /\ UNCHANGED _plugin_loader_lock
             ELSE /\ thread' = [thread EXCEPT ![k].pc = "load", ![k].plugins = Plugins]
                  /\ _plugin_loader_lock' = k
          /\ _plugins_loaded' = TRUE
       \/ /\ thread[k].pc = "load" /\ thread[k].plugins = {}
          /\ _plugin_loader_lock' = NoThread
          /\ Goto(k, "get")
          /\ UNCHANGED _plugins_loaded
    /\ UNCHANGED <<ADAPTER_REGISTRY, _adapters, history>>

(* The flag, again with the lock; it is set when load_all is through.      *)
_ensure_plugins_loaded(k) ==
    /\ \/ /\ thread[k].pc = "ensure"
          /\ Goto(k, IF _plugins_loaded THEN "get" ELSE "lock")
          /\ UNCHANGED <<_plugins_loaded, _plugin_loader_lock>>
       \/ /\ thread[k].pc = "lock" /\ _plugin_loader_lock = NoThread
          /\ IF _plugins_loaded
             THEN Goto(k, "get") /\ UNCHANGED _plugin_loader_lock
             ELSE /\ thread' = [thread EXCEPT ![k].pc = "load", ![k].plugins = Plugins]
                  /\ _plugin_loader_lock' = k
          /\ UNCHANGED _plugins_loaded
       \/ /\ thread[k].pc = "load" /\ thread[k].plugins = {}
          /\ _plugins_loaded' = TRUE
          /\ _plugin_loader_lock' = NoThread
          /\ Goto(k, "get")
    /\ UNCHANGED <<ADAPTER_REGISTRY, _adapters, history>>

(* load_all goes through the plugins, in the order of their entry points,  *)
(* which may be any.  One with a type that has an adapter fails; its check *)
(* and its commit are one step (PluginLoader has them in full).            *)
load_one(k) ==
    /\ thread[k].pc = "load"
    /\ \E p \in thread[k].plugins :
         /\ thread' = [thread EXCEPT ![k].plugins = @ \ {p}]
         /\ IF \A t \in TypesOf(p) : _adapters[t] = Nobody
            THEN _adapters' = [t \in Types |-> IF t \in TypesOf(p) THEN p ELSE _adapters[t]]
            ELSE UNCHANGED _adapters
    /\ UNCHANGED <<ADAPTER_REGISTRY, _plugins_loaded, _plugin_loader_lock, history>>

(* What the registrar has now; a class is kept for the next time.          *)
get_adapter(k) ==
    LET class == _adapters[thread[k].type]
    IN  /\ thread[k].pc = "get"
        /\ ends(k, class)
        /\ ADAPTER_REGISTRY' = IF class = Nobody THEN ADAPTER_REGISTRY
                               ELSE [ADAPTER_REGISTRY EXCEPT ![thread[k].type] = class]
        /\ UNCHANGED <<_adapters, _plugins_loaded, _plugin_loader_lock>>

(* Standalone: the registrar, else the plugin of the exchange registers    *)
(* its types one after the other, else an error.                           *)
_resolve_adapter(k, type) ==
    /\ thread[k].pc = "idle"
    /\ thread' = [thread EXCEPT ![k] =
          job("register", type, IF _adapters[type] # Nobody \/ type \notin DOMAIN module_names
                                THEN << >> ELSE Provides[module_names[type]])]
    /\ UNCHANGED <<shared, history>>

_load_default_plugin(k) ==
    /\ thread[k].pc = "register" /\ thread[k].todo # << >>
    /\ register_adapter(Head(thread[k].todo), module_names[thread[k].type])
    /\ thread' = [thread EXCEPT ![k].todo = Tail(@)]
    /\ UNCHANGED <<ADAPTER_REGISTRY, _plugins_loaded, _plugin_loader_lock, history>>

resolved(k) ==
    /\ thread[k].pc = "register" /\ thread[k].todo = << >>
    /\ _adapters[thread[k].type] = Nobody => thread[k].type \notin DOMAIN module_names
    /\ thread' = [thread EXCEPT ![k] = idle]
    /\ found' = [found EXCEPT ![thread[k].type] = @ \cup ({_adapters[thread[k].type]} \ {Nobody})]
    /\ UNCHANGED <<shared, denied, registered>>

(* GatewayRuntime.register_adapter of the remote runtime, by the           *)
(* application: its own registry, then the registrar.                      *)
application(k, type) ==
    /\ thread[k].pc = "idle"
    /\ ADAPTER_REGISTRY' = [ADAPTER_REGISTRY EXCEPT ![type] = Application]
    /\ thread' = [thread EXCEPT ![k] = job("application", type, << >>)]
    /\ registered' = registered \cup {type}
    /\ UNCHANGED <<_adapters, _plugins_loaded, _plugin_loader_lock, found, denied>>

application_registers(k) ==
    /\ thread[k].pc = "application"
    /\ register_adapter(thread[k].type, Application)
    /\ thread' = [thread EXCEPT ![k] = idle]
    /\ UNCHANGED <<ADAPTER_REGISTRY, _plugins_loaded, _plugin_loader_lock, history>>

-----------------------------------------------------------------------------
Next == \E k \in Threads :
    \/ \E type \in Types :
         get_adapter_class(k, type) \/ _resolve_adapter(k, type) \/ application(k, type)
    \/ own(k) \/ _ensure_plugins_loaded(k) \/ load_one(k) \/ get_adapter(k)
    \/ _load_default_plugin(k) \/ resolved(k) \/ application_registers(k)

Spec == Init /\ [][Next]_vars

-----------------------------------------------------------------------------
(* No thread of the remote runtime is told that an exchange is unsupported *)
(* while a plugin has it that can be loaded, however many threads ask while *)
(* the plugins are being loaded (_ensure_plugins_loaded); and for an exchange that the     *)
(* application does not register for, all runtimes of the process use the  *)
(* same class, whichever way they came to it (get_adapter_class,           *)
(* _resolve_adapter).                                                      *)
LookupsAgree ==
    /\ ~denied
    /\ \A t \in Types \ registered : \A c, d \in found[t] : c = d
================================================================================
