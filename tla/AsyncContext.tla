---------------------------- MODULE AsyncContext -----------------------------
(***************************************************************************)
(* core/async_context.py: what the decorators and the primitives of the    *)
(* services decide, as operators on their state.  Times are ages: how long *)
(* ago something was, counted no further than it matters.                  *)
(***************************************************************************)
EXTENDS Naturals, Sequences

CONSTANTS
    failure_threshold, recovery_timeout,    \* of async_circuit_breaker
    max_requests, time_window               \* of an AsyncRateLimiter

(* _CircuitState: age is the time since last_failure.                      *)
CircuitState == [failures : 0 .. failure_threshold, age : 0 .. recovery_timeout + 1,
                 state : {"CLOSED", "OPEN", "HALF_OPEN"}]

NewCircuit == [failures |-> 0, age |-> recovery_timeout + 1, state |-> "CLOSED"]

(* async_circuit_breaker: an open breaker lets a call pass once the        *)
(* recovery time is over; a half-open one lets every call pass.            *)
should_attempt(b) == b.state = "OPEN" => b.age > recovery_timeout

attempted(b) == IF b.state = "OPEN" THEN [b EXCEPT !.state = "HALF_OPEN"] ELSE b

(* Faulty variant: the failures are not forgotten. *)
on_success_Keep(b) == [b EXCEPT !.state = "CLOSED"]

on_success(b) == NewCircuit

(* The count matters up to the threshold only, the time of the failure in  *)
(* an open breaker only.                                                   *)
on_failure(b) ==
    IF b.failures + 1 < failure_threshold THEN [b EXCEPT !.failures = @ + 1]
    ELSE [failures |-> failure_threshold, age |-> 0, state |-> "OPEN"]

(* AsyncRateLimiter: requests holds the ages of the calls let through.     *)
live(requests) == SelectSeq(requests, LAMBDA age : age < time_window)

has_room(requests) == Len(live(requests)) < max_requests

let_through(requests) == Append(live(requests), 0)

(* async_retry: does another attempt follow this failed one?               *)
retried(attempt, max_attempts) == attempt + 1 < max_attempts

older(age, cap) == IF age < cap THEN age + 1 ELSE age
=============================================================================
