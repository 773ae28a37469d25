--------------------------- MODULE InstrumentManager ---------------------------
(***************************************************************************)
(* instrument_manager.py: the instruments by internal name, by venue and   *)
(* venue symbol, and by underlying.  Every method holds the lock from its  *)
(* first line to its last.                                                 *)
(***************************************************************************)
EXTENDS Naturals, Sequences, FiniteSets, Functions

CONSTANTS
    Instruments,        \* records [internal, at, underlying]; at is the venue
                        \* together with the venue symbol, underlying may be ""
    NoInstrument,
    MaxMany             \* bound: instruments in one call of register_many

VARIABLES
    instruments,        \* _instruments
    by_venue,           \* _by_venue
    by_underlying,      \* _by_underlying; << >> when there is no list
    crowded             \* history: places two instruments were registered for at once

vars == <<instruments, by_venue, by_underlying, crowded>>

Internals == {i.internal : i \in Instruments}
Places == {i.at : i \in Instruments}
Underlyings == {i.underlying : i \in Instruments}

Init ==
    /\ instruments = [n \in Internals |-> NoInstrument]
    /\ by_venue = [p \in Places |-> NoInstrument]
    /\ by_underlying = [u \in Underlyings |-> << >>]
    /\ crowded = {}

maps == [instruments |-> instruments, by_venue |-> by_venue,
         by_underlying |-> by_underlying, crowded |-> crowded]

(* Who else is registered for the place of an instrument. *)
Neighbours(m, i) ==
    {n \in Internals \ {i.internal} :
        m.instruments[n] # NoInstrument /\ m.instruments[n].at = i.at}

(* The former instrument of this name leaves the two indexes: its place,   *)
(* whoever is found there by now, and its list.                            *)
without_previous(m, i) ==
    LET previous == m.instruments[i.internal]
    IN  IF previous = NoInstrument THEN m
        ELSE [m EXCEPT !.by_venue[previous.at] = NoInstrument,
                       !.by_underlying[previous.underlying] =
                            SelectSeq(@, LAMBDA j : j.internal # previous.internal)]

(* An instrument without an underlying is in no list. *)
listed(lists, i) ==
    IF i.underlying = "" THEN lists ELSE [lists EXCEPT ![i.underlying] = Append(@, i)]

(* Faulty variant: the indexes keep the former instrument of the name. *)
_register_unlocked_Added(m, i) ==
    [m EXCEPT !.instruments[i.internal] = i,
              !.by_venue[i.at] = i,
              !.by_underlying = listed(@, i),
              !.crowded = IF Neighbours(m, i) = {} THEN @ ELSE @ \cup {i.at}]

_register_unlocked(m, i) ==
    [without_previous(m, i) EXCEPT
              !.instruments[i.internal] = i,
              !.by_venue[i.at] = i,
              !.by_underlying = listed(@, i),
              !.crowded = IF Neighbours(m, i) = {} THEN @ ELSE @ \cup {i.at}]

Become(m) ==
    /\ instruments' = m.instruments /\ by_venue' = m.by_venue
    /\ by_underlying' = m.by_underlying /\ crowded' = m.crowded

register(i) == Become(_register_unlocked(maps, i))

register_many(many) ==
    LET after[n \in 0 .. Len(many)] ==
            IF n = 0 THEN maps ELSE _register_unlocked(after[n - 1], many[n])
    IN  Become(after[Len(many)])

clear ==
    /\ instruments' = [n \in Internals |-> NoInstrument]
    /\ by_venue' = [p \in Places |-> NoInstrument]
    /\ by_underlying' = [u \in Underlyings |-> << >>]
    /\ crowded' = {}

Next ==
    \/ \E i \in Instruments : register(i)
    \/ \E n \in 0 .. MaxMany : \E many \in [1 .. n -> Instruments] : register_many(many)
    \/ clear

Spec == Init /\ [][Next]_vars

-----------------------------------------------------------------------------
(* What get_by_venue and to_internal, and to_venue_symbol, answer.         *)
get_by_venue(p) == by_venue[p]
to_internal(p) ==
    IF by_venue[p] = NoInstrument THEN "none" ELSE by_venue[p].internal
to_venue_symbol(n) ==
    IF instruments[n] = NoInstrument THEN NoInstrument ELSE instruments[n].at

(* find, by venue place or by underlying, over a snapshot of the names.    *)
Registered == {instruments[n] : n \in Internals} \ {NoInstrument}

(* After any registrations, repeated with another place or underlying, in  *)
(* bulk or one by one: an index never answers with an instrument as it was *)
(* before; the list of an underlying has exactly its instruments, once     *)
(* each; and the way from a name to its place and back returns the name,   *)
(* unless another instrument was registered for the same place meanwhile.  *)
IndexesSound ==
    /\ \A p \in Places : get_by_venue(p) \in Registered \cup {NoInstrument}
    /\ \A u \in Underlyings \ {""} :
        /\ Range(by_underlying[u]) = {i \in Registered : i.underlying = u}
        /\ Len(by_underlying[u]) = Cardinality(Range(by_underlying[u]))
    /\ \A i \in Registered :
        i.at \notin crowded => to_internal(to_venue_symbol(i.internal)) = i.internal
=============================================================================
