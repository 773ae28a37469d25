--------------------------- MODULE MCRateLimiter ------------------------------
(***************************************************************************)
(* A global sliding rule before a stricter fixed and a stricter sliding    *)
(* one for orders, with weights that depend on the method, so that either  *)
(* of two calls can be denied by any rule and has grants of each type to   *)
(* give back; and a path only the global rule matches.                     *)
(***************************************************************************)
EXTENDS RateLimiter

PostIsTwo == [k \in {<<"POST">>} |-> 2]
GlobalSliding == [type |-> "sliding_window", interval |-> 2, limit |-> 3, scope |-> "global",
                  endpoint |-> {}, weight_map |-> PostIsTwo, weight |-> 1]
OrderFixed == [type |-> "fixed_window", interval |-> 2, limit |-> 2, scope |-> "endpoint",
               endpoint |-> {"order"}, weight_map |-> PostIsTwo, weight |-> 1]
OrderSliding == [type |-> "sliding_window", interval |-> 1, limit |-> 2, scope |-> "endpoint",
                 endpoint |-> {"order"}, weight_map |-> [k \in {<<"POST", "order">>} |-> 2], weight |-> 1]
GlobalBucket == [type |-> "token_bucket", interval |-> 2, limit |-> 1, scope |-> "global",
                 endpoint |-> {}, weight_map |-> [k \in {} |-> 0], weight |-> 1]

MCRules == <<GlobalSliding, OrderFixed, OrderSliding>>
MCRulesBucket == <<GlobalBucket>>
MCRequests == {[method |-> "POST", path |-> "order", weight |-> 1],
               [method |-> "GET", path |-> "order", weight |-> 1],
               [method |-> "GET", path |-> "time", weight |-> 1]}
===============================================================================
