---------------------------- MODULE EventDelivery -----------------------------
(***************************************************************************)
(* What an event service promises, without its tasks and queues: events    *)
(* published while it is on wait in a channel, one for each way to publish *)
(* them, and reach the handlers in the order of their channel, each once;  *)
(* what still waits when it has stopped is lost.  Events published while   *)
(* it is not on reach the handlers at once, and so do those published from *)
(* outside of the event loop.                                              *)
(***************************************************************************)
EXTENDS Naturals, Sequences

CONSTANTS
    Ways,               \* the ways to publish
    Outside,            \* the one among them that never waits
    Events

VARIABLES
    phase,              \* on, stopping or off
    channel,            \* the events that wait, by way
    delivered           \* the events the handlers have been given, with their way

vars == <<phase, channel, delivered>>

Init ==
    /\ phase = "off"
    /\ channel = [w \in Ways |-> << >>]
    /\ delivered = << >>

Start ==
    /\ phase = "off" /\ phase' = "on"
    /\ UNCHANGED <<channel, delivered>>

Stop ==
    /\ phase = "on" /\ phase' = "stopping"
    /\ UNCHANGED <<channel, delivered>>

Stopped ==
    /\ phase = "stopping" /\ phase' = "off"
    /\ channel' = [w \in Ways |-> << >>]
    /\ UNCHANGED delivered

Enqueue(w, e) ==
    /\ phase = "on" /\ w # Outside
    /\ channel' = [channel EXCEPT ![w] = Append(@, e)]
    /\ UNCHANGED <<phase, delivered>>

Bypass(w, e) ==
    /\ phase # "on" \/ w = Outside
    /\ delivered' = Append(delivered, <<w, e>>)
    /\ UNCHANGED <<phase, channel>>

Deliver(w) ==
    /\ phase # "off" /\ channel[w] # << >>
    /\ delivered' = Append(delivered, <<w, Head(channel[w])>>)
    /\ channel' = [channel EXCEPT ![w] = Tail(@)]
    /\ UNCHANGED phase

Next ==
    \/ Start \/ Stop \/ Stopped
    \/ \E w \in Ways : Deliver(w) \/ \E e \in Events : Enqueue(w, e) \/ Bypass(w, e)

Spec == Init /\ [][Next]_vars
=============================================================================
