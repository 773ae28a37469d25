------------------------------ MODULE SimpleCache -----------------------------
(***************************************************************************)
(* cache.py: SimpleCache, an ordered dictionary under a lock, and what is  *)
(* built on it without a lock of its own: the decorator cached, which      *)
(* looks, computes and stores in three steps, and clear_exchange of        *)
(* ExchangeInfoCache, which lists the keys of an exchange and deletes them *)
(* one by one.                                                             *)
(*                                                                         *)
(* Values are left out; an entry knows the time it has left, -1 when it    *)
(* has expired, and (history) for how long it has been there.              *)
(***************************************************************************)
EXTENDS Integers, Sequences, FiniteSets

CONSTANTS
    Keys,
    ExchangeKeys,       \* those that start with the name of the exchange
    Callers,            \* threads that call a cached function
    default_ttl,
    max_size

VARIABLES
    entries,            \* _cache, the least recently used first
    caller,             \* the key a caller computes, or None
    clearing,           \* keys clear_exchange still deletes
    is_clearing,
    recent,             \* history: keys in the order of their last use
    before              \* history: keys of the exchange since before the clear

vars == <<entries, caller, clearing, is_clearing, recent, before>>

None == "none"

Init ==
    /\ entries = << >> /\ recent = << >>
    /\ caller = [c \in Callers |-> None]
    /\ clearing = {} /\ is_clearing = FALSE /\ before = {}

KeysOf(seq) == {seq[i].key : i \in DOMAIN seq}

Without(seq, k) == SelectSeq(seq, LAMBDA e : e.key # k)

Live(k) == \E i \in DOMAIN entries : entries[i].key = k /\ entries[i].left >= 0

used(k) == recent' = Append(SelectSeq(recent, LAMBDA x : x # k), k)

(* Faulty variant: a hit leaves the entry in its place. *)
hit_Still(k) == used(k) /\ UNCHANGED entries

(* _get_or_default finds the key: it becomes the most recently used.       *)
hit(k) ==
    /\ entries' = Without(entries, k) \o SelectSeq(entries, LAMBDA e : e.key = k)
    /\ used(k)

(* It does not: an expired entry is dropped. *)
miss(k) == entries' = Without(entries, k) /\ UNCHANGED recent

get(k) ==
    /\ IF Live(k) THEN hit(k) ELSE miss(k)
    /\ before' = before \cap KeysOf(entries')
    /\ UNCHANGED <<caller, clearing, is_clearing>>

(* set: the entry goes to the end, and the oldest are evicted.             *)
stored(k, ttl) ==
    LET seq == Append(Without(entries, k), [key |-> k, left |-> ttl, age |-> 0])
        over == IF max_size > 0 /\ Len(seq) > max_size THEN Len(seq) - max_size ELSE 0
    IN  SubSeq(seq, over + 1, Len(seq))

set(k, ttl) ==
    /\ entries' = stored(k, ttl)
    /\ used(k)
    /\ before' = (before \ {k}) \cap KeysOf(entries')

delete(k) ==
    /\ entries' = Without(entries, k)
    /\ before' = before \ {k}
    /\ UNCHANGED recent

clear ==
    /\ entries' = << >> /\ before' = {}
    /\ UNCHANGED <<caller, clearing, is_clearing, recent>>

cleanup ==
    /\ entries' = SelectSeq(entries, LAMBDA e : e.left >= 0)
    /\ before' = before \cap KeysOf(entries')
    /\ UNCHANGED <<caller, clearing, is_clearing, recent>>

(* The wrapper of cached: a miss leads to a call of the function, ...      *)
cached_call(c) ==
    /\ caller[c] = None
    /\ \E k \in Keys :
         /\ IF Live(k) THEN hit(k) /\ UNCHANGED caller
            ELSE miss(k) /\ caller' = [caller EXCEPT ![c] = k]
    /\ before' = before \cap KeysOf(entries')
    /\ UNCHANGED <<clearing, is_clearing>>

(* ... whose result is stored whatever has been stored or cleared since,   *)
(* or it raises.                                                           *)
cached_result(c) ==
    /\ caller[c] # None
    /\ \/ set(caller[c], default_ttl)
       \/ UNCHANGED <<entries, recent, before>>
    /\ caller' = [caller EXCEPT ![c] = None]
    /\ UNCHANGED <<clearing, is_clearing>>

clear_exchange ==
    /\ ~is_clearing /\ is_clearing' = TRUE
    /\ clearing' = KeysOf(entries) \cap ExchangeKeys
    /\ before' = clearing'
    /\ UNCHANGED <<entries, caller, recent>>

cleared_key ==
    /\ is_clearing
    /\ IF clearing = {}
       THEN is_clearing' = FALSE /\ UNCHANGED <<entries, clearing, recent, before>>
       ELSE /\ \E k \in clearing : delete(k) /\ clearing' = clearing \ {k}
            /\ UNCHANGED is_clearing
    /\ UNCHANGED caller

Tick ==
    /\ entries' = [i \in DOMAIN entries |->
                     IF entries[i].left < 0 THEN entries[i]
                     ELSE [entries[i] EXCEPT !.left = @ - 1, !.age = @ + 1]]
    /\ UNCHANGED <<caller, clearing, is_clearing, recent, before>>

Next ==
    \/ \E k \in Keys : \/ get(k)
                       \/ set(k, default_ttl) /\ UNCHANGED <<caller, clearing, is_clearing>>
                       \/ delete(k) /\ UNCHANGED <<caller, clearing, is_clearing>>
    \/ clear \/ cleanup
    \/ \E c \in Callers : cached_call(c) \/ cached_result(c)
    \/ clear_exchange \/ cleared_key
    \/ Tick

Spec == Init /\ [][Next]_vars

-----------------------------------------------------------------------------
(* The cache keeps its size and one entry for a key, evicts in the order   *)
(* of the last use, be it a get, a set or a cached call (_get_or_default,  *)
(* set), and what was there when clear_exchange began is gone when it      *)
(* ends, unless it has been stored again.  What a look-up finds was stored *)
(* no longer ago than it may be kept, however often it has been used.      *)
CacheSound ==
    /\ Len(entries) <= max_size
    /\ [i \in DOMAIN entries |-> entries[i].key]
         = SelectSeq(recent, LAMBDA k : k \in KeysOf(entries))
    /\ ~is_clearing \/ clearing = {} => before = {}
    /\ \A i \in DOMAIN entries :
          Live(entries[i].key) => entries[i].age <= default_ttl
=============================================================================
