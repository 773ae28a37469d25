------------------------------- MODULE Injection ------------------------------
(***************************************************************************)
(* core/dependency_injection.py: DIContainer, the container of services    *)
(* with their lifetimes.  Registering and resolving hold its lock, which   *)
(* is reentrant: resolving creates what a constructor needs first.         *)
(* Entering and leaving a scope take no lock, and there is one current     *)
(* scope for all threads; here only one thread uses scopes, so that they   *)
(* are left in the reverse order, and clear is called outside of them.     *)
(*                                                                         *)
(* Instances are numbered as they are created.  Instances registered from  *)
(* outside and defaults of constructor parameters are left out.            *)
(***************************************************************************)
EXTENDS Naturals, Sequences, FiniteSets

CONSTANTS
    Interfaces,
    Needs(_),           \* what an implementation needs, then itself: one level
    MaxInstances,       \* bound: instances ever created
    MaxScopes,          \* bound: scopes ever entered
    MaxResolves         \* bound: times an interface is resolved

VARIABLES
    registered,         \* the lifetime an interface is registered with, or none
    singletons,         \* _singletons: the instance, 0 for none
    scope,              \* _current_scope: the instances of the scope, with its number
    old_scopes,         \* old_scope of every create_scope under way
    created,            \* number of instances created
    scopes,             \* number of scopes entered
    given               \* history: what resolve gave since the registration

vars == <<registered, singletons, scope, old_scopes, created, scopes, given>>

Unregistered == "none"
Lifetimes == {"singleton", "scoped", "transient"}

Nothing == [i \in Interfaces |-> 0]
NoScope == [number |-> 0, instances |-> Nothing]     \* None

Init ==
    /\ registered = [i \in Interfaces |-> Unregistered]
    /\ singletons = Nothing /\ scope = NoScope /\ old_scopes = << >>
    /\ created = 0 /\ scopes = 0
    /\ given = [i \in Interfaces |-> << >>]

(* Faulty variant: the instance of a former registration stays. *)
_clear_registration_Lazy(i) ==
    /\ UNCHANGED singletons
    /\ scope' = [scope EXCEPT !.instances[i] = 0]

(* Only the current scope forgets its instance, not the scopes around it.  *)
_clear_registration(i) ==
    /\ singletons' = [singletons EXCEPT ![i] = 0]
    /\ scope' = [scope EXCEPT !.instances[i] = 0]

(* register_singleton, register_scoped and register_transient.             *)
register(i, lifetime) ==
    /\ _clear_registration(i)
    /\ registered' = [registered EXCEPT ![i] = lifetime]
    /\ given' = [given EXCEPT ![i] = << >>]
    /\ UNCHANGED <<old_scopes, created, scopes>>

(* What the container has for an interface already, 0 for nothing; the     *)
(* singletons are asked first, whatever the registration.                  *)
kept(s, i) ==
    IF s.singletons[i] # 0 THEN s.singletons[i]
    ELSE IF registered[i] = "scoped" THEN s.scope.instances[i] ELSE 0

(* _create_instance for one interface whose needs are met, and what resolve*)
(* does with the instance; scoped instances outside of a scope are not     *)
(* kept.                                                                   *)
resolve_one(s, i) ==
    LET x == IF kept(s, i) # 0 THEN kept(s, i) ELSE s.created + 1
    IN  [singletons |-> IF registered[i] = "singleton"
                        THEN [s.singletons EXCEPT ![i] = x] ELSE s.singletons,
         scope |-> IF registered[i] = "scoped" /\ s.scope.number # 0
                   THEN [s.scope EXCEPT !.instances[i] = x] ELSE s.scope,
         created |-> IF kept(s, i) # 0 THEN s.created ELSE x,
         given |-> [s.given EXCEPT ![i] = Append(@, <<s.scope.number, x>>)]]

container == [singletons |-> singletons, scope |-> scope, created |-> created, given |-> given]

(* resolve: what is needed comes first, unless the interface is there; one *)
(* that is not registered raises ValueError, and so does whoever needs it. *)
resolve(i) ==
    LET chain == IF kept(container, i) # 0 THEN <<i>> ELSE Needs(i)
        resolved[n \in 0 .. Len(chain)] ==
            IF n = 0 THEN container ELSE resolve_one(resolved[n - 1], chain[n])
        after == resolved[Len(chain)]
    IN  /\ \A n \in DOMAIN chain : registered[chain[n]] # Unregistered
        /\ after.created <= MaxInstances
        /\ \A n \in DOMAIN chain : Len(given[chain[n]]) < MaxResolves
        /\ singletons' = after.singletons /\ scope' = after.scope
        /\ created' = after.created /\ given' = after.given
        /\ UNCHANGED <<registered, old_scopes, scopes>>

(* create_scope, up to its yield ...                                       *)
enter_scope ==
    /\ scopes < MaxScopes
    /\ scopes' = scopes + 1
    /\ old_scopes' = Append(old_scopes, scope)
    /\ scope' = [number |-> scopes + 1, instances |-> Nothing]
    /\ UNCHANGED <<registered, singletons, created, given>>

(* ... and its finally.                                                    *)
leave_scope ==
    /\ old_scopes # << >>
    /\ scope' = old_scopes[Len(old_scopes)]
    /\ old_scopes' = SubSeq(old_scopes, 1, Len(old_scopes) - 1)
    /\ UNCHANGED <<registered, singletons, created, scopes, given>>

clear ==
    /\ old_scopes = << >>
    /\ registered' = [i \in Interfaces |-> Unregistered]
    /\ singletons' = Nothing
    /\ given' = [i \in Interfaces |-> << >>]
    /\ UNCHANGED <<scope, old_scopes, created, scopes>>

Next ==
    \/ \E i \in Interfaces : resolve(i) \/ \E lifetime \in Lifetimes : register(i, lifetime)
    \/ enter_scope \/ leave_scope \/ clear

Spec == Init /\ [][Next]_vars

-----------------------------------------------------------------------------
(* Since it was registered, a singleton has been resolved to one instance, *)
(* a transient service to a new one each time, and a scoped service to one *)
(* instance in a scope and another in every other scope, over nested       *)
(* scopes, instances created for those that need them, and registrations   *)
(* with another lifetime.  (The instances of a scope survive one that is   *)
(* made in a scope inside of it.)                                          *)
LifetimesHold ==
    \A i \in Interfaces : \A m, n \in DOMAIN given[i] :
        LET same == given[i][m][2] = given[i][n][2]
        IN  m # n =>
            CASE registered[i] = "singleton" -> same
              [] registered[i] = "transient" -> ~same
              [] OTHER -> same <=> given[i][m][1] = given[i][n][1] /\ given[i][m][1] # 0
=============================================================================
