------------------------------- MODULE EventBus -------------------------------
(***************************************************************************)
(* event_bus.py: the handlers of one type of events.  on, off and the copy *)
(* emit takes of the handlers are made under the lock; the handlers are    *)
(* called, and their errors kept in _last_errors, without it, by as many   *)
(* threads as emit.                                                        *)
(*                                                                         *)
(* Any call of a handler may raise.  How an error is classified and logged *)
(* is left out.                                                            *)
(***************************************************************************)
EXTENDS Naturals, Sequences, FiniteSets, Functions

CONSTANTS
    Handlers,
    Emitters,           \* threads that emit
    MaxEmits            \* bound: calls of emit

VARIABLES
    error_mode,         \* "log" or "raise"; "collect" is treated as "log"
    handlers,           \* _handlers[event_type]
    _last_errors,       \* whose call raised, of which emit
    emit,               \* the emit of a thread: what is left and what was done
    emits,              \* number of calls of emit
    latest              \* history: the emit that emptied _last_errors last

vars == <<error_mode, handlers, _last_errors, emit, emits, latest>>

none == [pc |-> "idle", number |-> 0, todo |-> << >>, called |-> << >>, raised |-> << >>,
         errors |-> << >>]

Init ==
    /\ error_mode \in {"log", "raise"}
    /\ handlers = << >> /\ _last_errors = << >>
    /\ emit = [e \in Emitters |-> none]
    /\ emits = 0 /\ latest = 0

(* What is left of a list without the members of a set. *)
Without(list, members) ==
    LET left[n \in 0 .. Len(list)] ==
            IF n = 0 THEN << >>
            ELSE IF list[n] \in members THEN left[n - 1] ELSE Append(left[n - 1], list[n])
    IN  left[Len(list)]

(* Faulty variant: a handler that is there is added again. *)
on_Again(h) ==
    /\ Len(handlers) <= Cardinality(Handlers)
    /\ handlers' = Append(handlers, h)
    /\ UNCHANGED <<error_mode, _last_errors, emit, emits, latest>>

on(h) ==
    /\ h \notin Range(handlers)
    /\ handlers' = Append(handlers, h)
    /\ UNCHANGED <<error_mode, _last_errors, emit, emits, latest>>

off(h) ==
    /\ h \in Range(handlers)
    /\ handlers' = Without(handlers, {h})
    /\ UNCHANGED <<error_mode, _last_errors, emit, emits, latest>>

(* off without a handler. *)
off_all ==
    /\ handlers' = << >>
    /\ UNCHANGED <<error_mode, _last_errors, emit, emits, latest>>

(* emit copies the handlers ...                                            *)
emit_called(e) ==
    /\ emit[e].pc = "idle" /\ emits < MaxEmits
    /\ emits' = emits + 1
    /\ emit' = [emit EXCEPT ![e] = [none EXCEPT !.pc = "reset", !.number = emits + 1,
                                                !.todo = handlers]]
    /\ UNCHANGED <<error_mode, handlers, _last_errors, latest>>

(* ... and, the lock released, starts a new list of errors for everybody.  *)
reset(e) ==
    /\ emit[e].pc = "reset"
    /\ _last_errors' = << >>
    /\ latest' = emit[e].number
    /\ emit' = [emit EXCEPT ![e].pc = "call"]
    /\ UNCHANGED <<error_mode, handlers, emits>>

(* One handler returns, or raises: its error is kept, and ends the emit in *)
(* mode "raise".                                                           *)
call(e) ==
    LET h == Head(emit[e].todo)
        after == [emit[e] EXCEPT !.called = Append(@, h), !.todo = Tail(@)]
    IN  /\ emit[e].pc = "call" /\ emit[e].todo # << >>
        /\ \/ /\ emit' = [emit EXCEPT ![e] = [after EXCEPT !.raised = Append(@, FALSE)]]
              /\ UNCHANGED _last_errors
           \/ /\ _last_errors' = Append(_last_errors, <<emit[e].number, h>>)
              /\ emit' = [emit EXCEPT ![e] = [after EXCEPT
                     !.raised = Append(@, TRUE),
                     !.errors = Append(@, h),
                     !.todo = IF error_mode = "raise" THEN << >> ELSE @]]
        /\ UNCHANGED <<error_mode, handlers, emits, latest>>

returned(e) ==
    /\ emit[e].pc = "call" /\ emit[e].todo = << >>
    /\ emit' = [emit EXCEPT ![e] = none]
    /\ UNCHANGED <<error_mode, handlers, _last_errors, emits, latest>>

clear_errors ==
    /\ _last_errors' = << >> /\ latest' = 0
    /\ UNCHANGED <<error_mode, handlers, emit, emits>>

clear ==
    /\ handlers' = << >> /\ _last_errors' = << >> /\ latest' = 0
    /\ UNCHANGED <<error_mode, emit, emits>>

Next ==
    \/ \E h \in Handlers : on(h) \/ off(h)
    \/ \E e \in Emitters : emit_called(e) \/ reset(e) \/ call(e) \/ returned(e)
    \/ off_all \/ clear_errors \/ clear

Spec == Init /\ [][Next]_vars

-----------------------------------------------------------------------------
(* An emit calls no handler twice and returns the errors of all it called, *)
(* at most one when it raises; and of the emit that emptied the list of    *)
(* errors last, every error is in it, in order.  All this with handlers    *)
(* added and removed by other threads or by handlers, and with emits that  *)
(* run at the same time and write the same list.                           *)
EmitsAreReported ==
    \A e \in Emitters :
        LET r == emit[e] IN
        /\ IsInjective(r.called)
        /\ Len(r.errors) = Cardinality({n \in DOMAIN r.raised : r.raised[n]})
        /\ error_mode = "raise" => \A n \in DOMAIN r.raised : r.raised[n] => n = Len(r.called)
        /\ latest # 0 /\ r.number = latest =>
             Without(_last_errors, (Nat \ {latest}) \X Handlers)
               = [n \in DOMAIN r.errors |-> <<latest, r.errors[n]>>]
=============================================================================
