---------------------------- MODULE GatewayConfig ----------------------------
(***************************************************************************)
(* gateway/config.py: GatewayConfig, built from keyword arguments or       *)
(* directly, turned into keyword arguments for the adapter (to_kwargs) and *)
(* built from those again, and the TCP ports handed out on the way.        *)
(*                                                                         *)
(* One option stands for each way options are read: the names for the      *)
(* account, the startup timeout, the poll timeout and an option that is    *)
(* not known.  Values are strings, "" for absent; those that are stripped  *)
(* may be given blank (" "), and the name with blanks round it.  A         *)
(* conversion that fails takes the default as if the option were absent.   *)
(* Not on Windows, where ipc becomes tcp.                                  *)
(***************************************************************************)
EXTENDS Naturals, Sequences, FiniteSets, Functions, TLC

CONSTANTS
    Ports,              \* ports the operating system may hand out, none of them 0
    MaxGiven,           \* bound: options a caller gives, the extra one included
    MaxNames            \* bound: names that were given ports before

VARIABLES
    config,             \* the GatewayConfig, or << >>
    rebuilt,            \* the one built from its to_kwargs, or << >>
    _TCP_PORT_ASSIGNMENTS, _TCP_RESERVED_BASE_PORTS

vars == <<config, rebuilt, _TCP_PORT_ASSIGNMENTS, _TCP_RESERVED_BASE_PORTS>>

Offset == [command_endpoint |-> 0, event_endpoint |-> 1, market_endpoint |-> 2]
Kinds == DOMAIN Offset
Options == {"gateway_runtime_name", "runtime_name", "account_id", "investor_id", "transport",
            "gateway_base_dir", "base_dir", "gateway_startup_timeout_sec", "startup_timeout_sec",
            "poll_timeout_ms", "unknown"}

(* An endpoint is <<way, where, port>>.                                    *)
none == <<"", "", 0>>

Init ==
    /\ config = << >> /\ rebuilt = << >>
    /\ _TCP_PORT_ASSIGNMENTS = << >> /\ _TCP_RESERVED_BASE_PORTS = {}

-----------------------------------------------------------------------------
or(a, b) == IF a # "" THEN a ELSE b

padded(v) == " " \o v \o " "

(* str.strip().                                                            *)
strip(v) ==
    IF v = " " THEN "" ELSE
    IF \E u \in Options : v = padded(u) THEN CHOOSE u \in Options : v = padded(u) ELSE v

_runtime_name(name, account) == or(strip(name), "ctp-future-" \o or(account, "default"))

(* Faulty variant: a socket is closed before the next is bound. *)
_reserve_tcp_ports_Closing(name) ==
    [Kinds -> IF name \in DOMAIN _TCP_PORT_ASSIGNMENTS => _TCP_PORT_ASSIGNMENTS[name] # 0
              THEN Ports ELSE {}]

(* What the three sockets may be bound to, all of them before the first is *)
(* closed.  Every assigned port is a reserved one, so that the assignment  *)
(* to the name is never taken again.                                       *)
_reserve_tcp_ports(name) ==
    IF name \in DOMAIN _TCP_PORT_ASSIGNMENTS => _TCP_PORT_ASSIGNMENTS[name] \in _TCP_RESERVED_BASE_PORTS
    THEN {ports \in [Kinds -> Ports] : IsInjective(ports)}
    ELSE {[k \in Kinds |-> _TCP_PORT_ASSIGNMENTS[name] + Offset[k]]}

(* The endpoints asked for, and for the others those of the transport: a   *)
(* file by the runtime's name, or a port.  With ports comes the first.     *)
_resolve_endpoints(name, transport, asked, base_dir) ==
    LET filled(new(_)) == [k \in Kinds |-> IF asked[k] # none THEN asked[k] ELSE new(k)]
    IN  IF transport = "ipc" \/ (\A k \in Kinds : asked[k] # none)
        THEN {<<filled(LAMBDA k : <<"ipc", or(base_dir, "tmp") \o name \o k, 0>>), 0>>}
        ELSE {<<filled(LAMBDA k : <<"tcp", "", ports[k]>>), ports["command_endpoint"]>> :
                 ports \in _reserve_tcp_ports(name)}

assigned(name, port) ==
    /\ _TCP_PORT_ASSIGNMENTS' = IF port = 0 THEN _TCP_PORT_ASSIGNMENTS
                                ELSE (name :> port) @@ _TCP_PORT_ASSIGNMENTS
    /\ _TCP_RESERVED_BASE_PORTS' = _TCP_RESERVED_BASE_PORTS \cup ({port} \ {0})

(* What is missing is filled in; the endpoints are not when from_kwargs    *)
(* has found them.  A name that is given stays as it is; an account that   *)
(* is blank becomes "".                                                    *)
__post_init__(o) ==
    LET account == strip(or(o.account_id, "default"))
        name == or(o.runtime_name, _runtime_name("", account))
        transport == or(strip(or(o.transport, "tcp")), "tcp")
        base_dir == or(o.base_dir, "tmp/btgw")
    IN  {<<[o EXCEPT !.runtime_name = name, !.account_id = account, !.transport = transport,
                     !.base_dir = base_dir, !.endpoints = r[1]], r[2]>> :
            r \in _resolve_endpoints(name, transport, o.endpoints, base_dir)}

nothing == [option \in Options |-> ""]

(* Which of two names for an option counts; the endpoints of files are in  *)
(* the base_dir that is given as such, whatever gateway_base_dir is.  Only *)
(* what is not known is extra.                                             *)
from_kwargs(kw, asked) ==
    LET account == strip(or(or(kw["account_id"], kw["investor_id"]), "default"))
        name == _runtime_name(or(kw["gateway_runtime_name"], kw["runtime_name"]), account)
        transport == or(strip(or(kw["transport"], "tcp")), "tcp")
        made(endpoints) ==
            [runtime_name |-> name, account_id |-> account, transport |-> transport,
             endpoints |-> endpoints, base_dir |-> or(kw["gateway_base_dir"], kw["base_dir"]),
             startup_timeout_sec |->
                 or(or(kw["gateway_startup_timeout_sec"], kw["startup_timeout_sec"]), "30"),
             poll_timeout_ms |-> or(kw["poll_timeout_ms"], "100"),
             extra |-> [nothing EXCEPT !["unknown"] = kw["unknown"]]]
    IN  UNION {{<<c[1], r[2]>> : c \in __post_init__(made(r[1]))} :
               r \in _resolve_endpoints(name, transport, asked, kw["base_dir"])}

(* Faulty variant: the endpoints are not among the arguments. *)
to_kwargs_NoEndpoints(c) ==
    <<[c.extra EXCEPT !["runtime_name"] = c.runtime_name, !["account_id"] = c.account_id,
          !["transport"] = c.transport, !["base_dir"] = c.base_dir,
          !["gateway_startup_timeout_sec"] = c.startup_timeout_sec],
      [k \in Kinds |-> none]>>

(* What is extra, then the fields; poll_timeout_ms is not among them.      *)
to_kwargs(c) ==
    <<[c.extra EXCEPT !["runtime_name"] = c.runtime_name, !["account_id"] = c.account_id,
          !["transport"] = c.transport, !["base_dir"] = c.base_dir,
          !["gateway_startup_timeout_sec"] = c.startup_timeout_sec],
      c.endpoints>>

-----------------------------------------------------------------------------
(* What callers ask for: options, each with a value of its own, and all    *)
(* the endpoints, one of them or none.                                     *)
Asked == {[k \in Kinds |-> IF k \in S THEN <<"given", k, 0>> ELSE none] :
             S \in {{}, {"command_endpoint"}, Kinds}}

Stripped == {"gateway_runtime_name", "runtime_name", "account_id", "investor_id", "transport"}

Values(o) ==
    LET v == IF o = "transport" THEN "ipc" ELSE o
    IN  {v} \cup (IF o \in Stripped THEN {" "} ELSE {})
            \cup (IF o = "runtime_name" THEN {padded(v)} ELSE {})

Given(options, most) ==
    UNION {{[o \in Options |-> IF o \in S THEN f[o] ELSE ""] :
               f \in {f \in [S -> UNION {Values(o) : o \in S}] : \A o \in S : f[o] \in Values(o)}} :
           S \in {S \in SUBSET options : Cardinality(S) <= most}}

from_keywords ==
    /\ config = << >>
    /\ \E kw \in Given(Options, MaxGiven), asked \in Asked : \E made \in from_kwargs(kw, asked) :
         config' = <<made[1]>> /\ assigned(made[1].runtime_name, made[2])
    /\ UNCHANGED rebuilt

(* GatewayConfig(...) itself: the caller gives the fields.  What is extra  *)
(* may have the name of a known option: to_kwargs replaces it, or          *)
(* from_kwargs prefers it, or ignores it, or takes it for a field.         *)
Fields == {"runtime_name", "account_id", "transport", "base_dir", "startup_timeout_sec"}

Extra == {nothing} \cup
    {[nothing EXCEPT ![o] = "extra"] :
        o \in {"unknown", "account_id", "gateway_runtime_name", "gateway_base_dir",
               "investor_id", "poll_timeout_ms"}}

direct ==
    /\ config = << >>
    /\ \E extra \in Extra :
       \E kw \in Given(Fields, IF extra = nothing THEN MaxGiven ELSE MaxGiven - 1), asked \in Asked :
         \E made \in __post_init__(
                [runtime_name |-> kw["runtime_name"], account_id |-> kw["account_id"],
                 transport |-> kw["transport"], endpoints |-> asked,
                 base_dir |-> kw["base_dir"], extra |-> extra,
                 startup_timeout_sec |-> or(kw["startup_timeout_sec"], "30"),
                 poll_timeout_ms |-> "100"]) :
            config' = <<made[1]>> /\ assigned(made[1].runtime_name, made[2])
    /\ UNCHANGED rebuilt

(* Someone builds the configuration again from the adapter's arguments.    *)
again ==
    /\ config # << >> /\ rebuilt = << >>
    /\ LET kw == to_kwargs(config[1]) IN
       \E made \in from_kwargs(kw[1], kw[2]) :
          rebuilt' = <<made[1]>> /\ assigned(made[1].runtime_name, made[2])
    /\ UNCHANGED config

(* The process goes on to another configuration.                           *)
next ==
    /\ rebuilt # << >> /\ Cardinality(DOMAIN _TCP_PORT_ASSIGNMENTS) < MaxNames
    /\ config' = << >> /\ rebuilt' = << >>
    /\ UNCHANGED <<_TCP_PORT_ASSIGNMENTS, _TCP_RESERVED_BASE_PORTS>>

Next == from_keywords \/ direct \/ again \/ next

Spec == Init /\ [][Next]_vars

-----------------------------------------------------------------------------
(* What from_kwargs gives back as it was, but for the poll timeout: a name *)
(* without blanks round it, an account that is not "", nothing extra that  *)
(* has the name of an option.                                              *)
Settled(c) ==
    /\ strip(c.runtime_name) = c.runtime_name /\ c.account_id # ""
    /\ \A o \in Options \ {"unknown"} : c.extra[o] = ""

(* Whoever builds the configuration again from the arguments the adapter   *)
(* was given has the same endpoints, ports included, whatever the caller   *)
(* gave, and all the rest alike, but for the poll timeout, when the caller *)
(* gave nothing that from_kwargs reads in another way than GatewayConfig() *)
(* does; what is built again has nothing of that kind (from_kwargs,        *)
(* to_kwargs, __post_init__).                                              *)
RebuiltAlike ==
    config # << >> /\ rebuilt # << >> =>
        /\ rebuilt[1].endpoints = config[1].endpoints
        /\ Settled(config[1]) => rebuilt[1] = [config[1] EXCEPT !.poll_timeout_ms = "100"]
        /\ Settled(rebuilt[1])

(* No two endpoints of a gateway are the same (_reserve_tcp_ports).        *)
EndpointsDiffer ==
    config # << >> => IsInjective(config[1].endpoints)

ConfigSound == RebuiltAlike /\ EndpointsDiffer
=============================================================================
