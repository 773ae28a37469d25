------------------------------ MODULE RateLimiter -----------------------------
(***************************************************************************)
(* rate_limiter.py.  A RateLimiter admits a request when every rule that   *)
(* matches it has room; the rules are asked one after the other, and what  *)
(* the earlier ones granted is given back when a later one denies.         *)
(*                                                                         *)
(* Time passes in ticks of one second, between any two steps and also      *)
(* while the limiter's lock is held.  No absolute time is kept: a request  *)
(* in a sliding window has an age, a fixed window has a phase and knows    *)
(* whether the clock is still in it.  Ages stop growing once the request   *)
(* is out of its window.  The wait of 0.05 s after a wait time of zero is  *)
(* shorter than a tick.  Rules are a sequence of records with the fields   *)
(* of RateLimitRule; endpoint, a glob in the code, is the set of paths it  *)
(* matches, and the rules have different names.                            *)
(***************************************************************************)
EXTENDS Integers, Sequences, SequencesExt, FiniteSetsExt

CONSTANTS
    Rules,          \* the rules the RateLimiter was made with
    Requests,       \* records [method, path, weight], the arguments of acquire
    Threads,
    Modes,          \* "acquire", "wait_and_acquire" or "async_acquire"
    Timeouts,       \* the timeouts of the two waiting calls, NoTimeout for None
    NoTimeout, NoThread,
    MaxCalls        \* bound on the number of calls

RuleIds == DOMAIN Rules
Sliding == {r \in RuleIds : Rules[r].type = "sliding_window"}
Fixed == {r \in RuleIds : Rules[r].type = "fixed_window"}

(* A rule of another type (token_bucket) gets no limiter. *)
limiters == Sliding \cup Fixed

VARIABLES
    requests,   \* SlidingWindowLimiter._requests of the sliding rules
    window,     \* FixedWindowLimiter: the phase of the clock in the rule's
                \* interval, whether _window_start is the start of the
                \* interval the clock is in, and _window_count
    lock,       \* the thread that holds RateLimiter._lock
    caller,     \* what each thread is doing
    granted,    \* history: per rule, the weights of admitted requests that
                \* are still inside the rule's window
    calls

vars == <<requests, window, lock, caller, granted, calls>>

-----------------------------------------------------------------------------
(* RateLimitRule.  An ip rule matches nothing. *)
match(rule, q) ==
    \/ rule.scope = "global"
    \/ rule.scope = "endpoint" /\ q.path \in rule.endpoint

get_weight(rule, q) ==
    CASE <<q.method, q.path>> \in DOMAIN rule.weight_map -> rule.weight_map[<<q.method, q.path>>]
      [] /\ <<q.method, q.path>> \notin DOMAIN rule.weight_map
         /\ <<q.method>> \in DOMAIN rule.weight_map -> rule.weight_map[<<q.method>>]
      [] OTHER -> rule.weight

_get_matched_rules(q) == {r \in RuleIds : match(Rules[r], q)}
RequestWeight(r, q) == get_weight(Rules[r], q) * q.weight

(* The limiters a call asks, in the order of the rules. *)
ToAsk(q) == SetToSortSeq(_get_matched_rules(q) \cap limiters, <)

-----------------------------------------------------------------------------
(* SlidingWindowLimiter: a request counts until it is older than interval. *)
Weight(entries) == FoldLeft(LAMBDA sum, e : sum + e.weight, 0, entries)
Fresh(r, entries) == SelectSeq(entries, LAMBDA e : e.age <= Rules[r].interval)

(* Faulty variant: requests stay in the deque for good. *)
_prune_expired_Never(r) == requests[r]

(* The deque is ordered by age, so that popping the expired requests at    *)
(* its head leaves the others.                                             *)
_prune_expired(r) == Fresh(r, requests[r])

(* Faulty variant: the limit is tested before the request is counted. *)
SlidingRoom_Late(r, w) == Weight(_prune_expired(r)) < Rules[r].limit

SlidingRoom(r, w) == Weight(_prune_expired(r)) + w <= Rules[r].limit

sliding_acquire(r, w) ==
    /\ requests' = [requests EXCEPT ![r] =
                      IF SlidingRoom(r, w) THEN Append(_prune_expired(r), [age |-> 0, weight |-> w])
                      ELSE _prune_expired(r)]
    /\ UNCHANGED window

(* Faulty variant: the oldest request is taken back. *)
sliding_release_Oldest(r, w) ==
    /\ requests' = [requests EXCEPT ![r] =
                      IF @ # <<>> /\ Head(@).weight = w THEN Tail(@) ELSE @]
    /\ UNCHANGED window

sliding_release(r, w) ==
    /\ LET kept == _prune_expired(r)
       IN  requests' = [requests EXCEPT ![r] =
                          IF kept # <<>> /\ Last(kept).weight = w THEN Front(kept) ELSE kept]
    /\ UNCHANGED window

sliding_wait_time(r) ==
    IF requests[r] = <<>> THEN 0 ELSE Max({0, Rules[r].interval - Head(requests[r]).age})

-----------------------------------------------------------------------------
(* FixedWindowLimiter: the count starts again with every interval. *)
WindowCount(r) == IF window[r].current THEN window[r].count ELSE 0

FixedRoom(r, w) == WindowCount(r) + w <= Rules[r].limit

fixed_acquire(r, w) ==
    /\ window' = [window EXCEPT ![r].current = TRUE,
                                ![r].count = WindowCount(r) + IF FixedRoom(r, w) THEN w ELSE 0]
    /\ UNCHANGED requests

fixed_release(r, w) ==
    /\ window' = [window EXCEPT ![r].count = Max({0, @ - w})]
    /\ UNCHANGED requests

(* A window that the clock has left ended in the past. *)
fixed_wait_time(r) ==
    IF window[r].current THEN Rules[r].interval - window[r].phase ELSE 0

-----------------------------------------------------------------------------
Room(r, w) == IF r \in Sliding THEN SlidingRoom(r, w) ELSE FixedRoom(r, w)
limiter_acquire(r, w) == IF r \in Sliding THEN sliding_acquire(r, w) ELSE fixed_acquire(r, w)
limiter_release(r, w) == IF r \in Sliding THEN sliding_release(r, w) ELSE fixed_release(r, w)
wait_time(r) == IF r \in Sliding THEN sliding_wait_time(r) ELSE fixed_wait_time(r)

_get_max_wait_time(q) == Max({0} \cup {wait_time(r) : r \in _get_matched_rules(q) \cap limiters})

-----------------------------------------------------------------------------
(* The passing of time.  Entry e of rule r gets older with every tick; for *)
(* a fixed rule, whose window is left all at once, only with a new window. *)
LastPhase(r) == window[r].phase = Rules[r].interval - 1
Span(r) == IF r \in Fixed THEN 0 ELSE Rules[r].interval
OneTickOlder(r, e) ==
    IF r \in Fixed /\ ~LastPhase(r) THEN e
    ELSE [e EXCEPT !.age = Min({@ + 1, Span(r) + 1})]
InWindow(r, entries) == SelectSeq(entries, LAMBDA e : e.age <= Span(r))

Idle == [pc |-> "idle"]

(* The time since a call began matters to one that has a deadline, until   *)
(* the deadline has passed.                                                *)
Elapsed(c) == IF c.timeout = NoTimeout THEN 0 ELSE Min({c.elapsed + 1, c.timeout + 1})

Aged(c) ==
    CASE c.pc \in {"rules", "roll_back"} ->
           [c EXCEPT !.acquired = [i \in DOMAIN @ |-> OneTickOlder(@[i].rule, @[i])],
                     !.elapsed = Elapsed(c)]
      [] c.pc \in {"lock", "wait", "sleep"} ->
           [c EXCEPT !.sleep = Max({0, @ - 1}), !.elapsed = Elapsed(c)]
      [] OTHER -> c

Tick ==
    /\ requests' = [r \in Sliding |-> [i \in DOMAIN requests[r] |-> OneTickOlder(r, requests[r][i])]]
    /\ window' = [r \in Fixed |->
                    [window[r] EXCEPT !.phase = (@ + 1) % Rules[r].interval,
                                      !.current = @ /\ ~LastPhase(r)]]
    /\ granted' = [r \in RuleIds |->
                     InWindow(r, [i \in DOMAIN granted[r] |-> OneTickOlder(r, granted[r][i])])]
    /\ caller' = [t \in Threads |-> Aged(caller[t])]
    /\ UNCHANGED <<lock, calls>>

-----------------------------------------------------------------------------
(* The calls.  NoTimeout stands for no deadline.  The clock starts at a    *)
(* common multiple of the intervals, and may run on before the first call. *)
Init ==
    /\ requests = [r \in Sliding |-> <<>>]
    /\ window = [r \in Fixed |-> [phase |-> 0, current |-> FALSE, count |-> 0]]
    /\ lock = NoThread
    /\ caller = [t \in Threads |-> Idle]
    /\ granted = [r \in RuleIds |-> <<>>]
    /\ calls = 0

(* A call.  One that no rule matches returns True at once. *)
call(t, q, mode, timeout) ==
    /\ caller[t].pc = "idle" /\ calls < MaxCalls
    /\ mode = "acquire" => timeout = NoTimeout
    /\ calls' = calls + 1
    /\ caller' = [caller EXCEPT ![t] =
                    IF _get_matched_rules(q) = {} THEN Idle
                    ELSE [pc |-> "lock", q |-> q, mode |-> mode, timeout |-> timeout,
                          elapsed |-> 0, sleep |-> 0]]
    /\ UNCHANGED <<requests, window, lock, granted>>

(* acquire enters its lock. *)
enter(t) ==
    /\ caller[t].pc = "lock" /\ lock = NoThread
    /\ lock' = t
    /\ caller' = [caller EXCEPT ![t] =
                    [pc |-> "rules", q |-> @.q, mode |-> @.mode, timeout |-> @.timeout,
                     elapsed |-> @.elapsed, ask |-> ToAsk(@.q), acquired |-> <<>>]]
    /\ UNCHANGED <<requests, window, granted, calls>>

(* The next rule's limiter is asked; when it denies, what the earlier ones *)
(* granted is given back.                                                  *)
ask_rule(t) ==
    LET r == Head(caller[t].ask)
        w == RequestWeight(r, caller[t].q)
    IN  /\ caller[t].pc = "rules" /\ caller[t].ask # <<>>
        /\ limiter_acquire(r, w)
        /\ caller' = [caller EXCEPT ![t] =
                        IF Room(r, w)
                        THEN [@ EXCEPT !.ask = Tail(@),
                                       !.acquired = Append(@, [rule |-> r, weight |-> w, age |-> 0])]
                        ELSE [@ EXCEPT !.pc = "roll_back"]]
        /\ UNCHANGED <<lock, granted, calls>>

roll_back(t) ==
    /\ caller[t].pc = "roll_back" /\ caller[t].acquired # <<>>
    /\ limiter_release(Last(caller[t].acquired).rule, Last(caller[t].acquired).weight)
    /\ caller' = [caller EXCEPT ![t].acquired = Front(@)]
    /\ UNCHANGED <<lock, granted, calls>>

(* Every rule has granted: the call returns True.  Rules without a limiter *)
(* have been skipped, and the request has passed them as well.             *)
AdmittedTo(c, r) ==
    LET held == SelectSeq(c.acquired, LAMBDA e : e.rule = r)
        weighed == [i \in DOMAIN held |-> [age |-> held[i].age, weight |-> held[i].weight]]
    IN  CASE r \in limiters -> weighed
          [] r \in _get_matched_rules(c.q) \ limiters -> <<[age |-> 0, weight |-> RequestWeight(r, c.q)]>>
          [] OTHER -> <<>>

admit(t) ==
    /\ caller[t].pc = "rules" /\ caller[t].ask = <<>>
    /\ granted' = [r \in RuleIds |-> InWindow(r, granted[r] \o AdmittedTo(caller[t], r))]
    /\ lock' = NoThread
    /\ caller' = [caller EXCEPT ![t] = Idle]
    /\ UNCHANGED <<requests, window, calls>>

(* acquire returns False; the waiting calls look how long to wait. *)
deny(t) ==
    /\ caller[t].pc = "roll_back" /\ caller[t].acquired = <<>>
    /\ lock' = NoThread
    /\ caller' = [caller EXCEPT ![t] =
                    IF @.mode = "acquire" THEN Idle
                    ELSE [pc |-> "wait", q |-> @.q, mode |-> @.mode, timeout |-> @.timeout,
                          elapsed |-> @.elapsed, sleep |-> 0]]
    /\ UNCHANGED <<requests, window, granted, calls>>

(* A wait that would end after the deadline is not begun. *)
PastDeadline(c, wait) ==
    /\ c.timeout # NoTimeout
    /\ \/ c.elapsed + wait > c.timeout
       \/ wait = 0 /\ c.elapsed >= c.timeout

give_up(t) ==
    /\ caller[t].pc = "wait"
    /\ PastDeadline(caller[t], _get_max_wait_time(caller[t].q))
    /\ caller' = [caller EXCEPT ![t] = Idle]
    /\ UNCHANGED <<requests, window, lock, granted, calls>>

(* The thread waits at most a second at a time, the coroutine all of it. *)
wait(t) ==
    LET time == _get_max_wait_time(caller[t].q)
    IN  /\ caller[t].pc = "wait" /\ ~PastDeadline(caller[t], time)
        /\ caller' = [caller EXCEPT ![t].pc = "sleep",
                        ![t].sleep = IF caller[t].mode = "wait_and_acquire" THEN Min({time, 1}) ELSE time]
        /\ UNCHANGED <<requests, window, lock, granted, calls>>

wake(t) ==
    /\ caller[t].pc = "sleep" /\ caller[t].sleep = 0
    /\ caller' = [caller EXCEPT ![t].pc = "lock"]
    /\ UNCHANGED <<requests, window, lock, granted, calls>>

Continue(t) ==
    \/ enter(t) \/ ask_rule(t) \/ roll_back(t) \/ admit(t) \/ deny(t)
    \/ give_up(t) \/ wait(t) \/ wake(t)

Next ==
    \/ Tick
    \/ \E t \in Threads :
         \/ \E q \in Requests, mode \in Modes, timeout \in Timeouts \cup {NoTimeout} :
              call(t, q, mode, timeout)
         \/ Continue(t)

Spec == Init /\ [][Next]_vars

(* Time passes, and the threads run. *)
Fairness == WF_vars(Tick) /\ \A t \in Threads : WF_vars(Continue(t))
LiveSpec == Spec /\ Fairness

-----------------------------------------------------------------------------
(* The requests admitted within one interval of a rule, however many       *)
(* threads asked and whatever was given back in between, never weigh more  *)
(* than the rule's limit: any interval of a sliding_window rule, the       *)
(* current one of a fixed_window rule.                                     *)
LimitsHold == \A r \in limiters : Weight(granted[r]) <= Rules[r].limit

(* The same for the rules RateLimiter.__init__ makes no limiter for: a     *)
(* token bucket of size limit that is refilled with limit per interval     *)
(* passes at most twice its limit within an interval.                      *)
TokenBucketsHold ==
    \A r \in RuleIds \ limiters : Weight(granted[r]) <= 2 * Rules[r].limit

(* Between calls the limiters count exactly the admitted requests: the     *)
(* partial grants of a call that was denied later, also when time passed   *)
(* between the grant and its release, are given back, and no other         *)
(* request's grant is given back in their place.                           *)
UsageIsGranted ==
    lock = NoThread =>
       /\ \A r \in Sliding : Fresh(r, requests[r]) = granted[r]
       /\ \A r \in Fixed : WindowCount(r) = Weight(granted[r])

(* No more is admitted than the rules allow, and it is counted exactly.    *)
GrantsAreExact == LimitsHold /\ UsageIsGranted

(* A request that fits into the limits of its rules. *)
Fits(q) == \A r \in _get_matched_rules(q) \cap limiters : RequestWeight(r, q) <= Rules[r].limit

(* A call for a request that fits is answered, without a deadline too: the *)
(* window moves on while the caller sleeps, the wait time is computed so   *)
(* that it is asked again, and no denied attempt fills the window anew.    *)
Asks(t) == caller[t].pc # "idle" /\ Fits(caller[t].q)
Answered(t) == caller[t].pc = "idle"

CallsAreAnswered == \A t \in Threads : Asks(t) ~> Answered(t)
===============================================================================
