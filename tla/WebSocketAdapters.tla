-------------------------- MODULE WebSocketAdapters --------------------------
(***************************************************************************)
(* websocket/exchange_adapters.py: what OKXWebSocketAdapter and            *)
(* GenericWebSocketAdapter make of a client's subscriptions and of the     *)
(* venue's messages.                                                       *)
(*                                                                         *)
(* The venue streams the channels it was asked for; that of a message is   *)
(* the record [topic, symbol] in its "arg" (OKX) or in itself (generic).   *)
(* Log-in, signatures and the fields copied for each topic are left out.   *)
(***************************************************************************)
EXTENDS Naturals, Sequences, FiniteSets

CONSTANTS
    Symbols,
    Limits,             \* get_subscription_limits: topic to limit
    MaxSubscriptions    \* bound: calls of subscribe

VARIABLES
    kind,               \* the adapter the client uses: OKX or generic
    counts,             \* _subscription_counts
    subscribed,         \* the client's subscriptions
    asked,              \* history: every topic and symbol subscribed to
    streams,            \* the venue: channels it streams
    received            \* the last message, normalised

vars == <<kind, counts, subscribed, asked, streams, received>>

Init ==
    /\ kind \in {"OKX", "generic"}
    /\ counts = [topic \in DOMAIN Limits |-> 0]
    /\ subscribed = {} /\ asked = {} /\ streams = {}
    /\ received = << >>

-----------------------------------------------------------------------------
Channels == [ticker |-> "tickers", depth |-> "books", kline |-> "candle"]

_get_okx_channel(topic) == IF topic \in DOMAIN Channels THEN Channels[topic] ELSE topic

(* The interval, which is part of a candle's channel, is not given back.   *)
_convert_okx_channel_to_generic(channel) ==
    IF \E topic \in DOMAIN Channels : Channels[topic] = channel
    THEN CHOOSE topic \in DOMAIN Channels : Channels[topic] = channel ELSE channel

(* The channel the messages of OKXWebSocketAdapter to the venue name.      *)
format_subscription_message(topic, symbol) == [topic |-> _get_okx_channel(topic), symbol |-> symbol]

format_unsubscription_message(topic, symbol) == [topic |-> topic, symbol |-> symbol]

(* Faulty variant: the channel is taken for the topic. *)
extract_topic_symbol_Channel(channel) == <<channel.topic, channel.symbol>>

extract_topic_symbol(channel) ==
    <<_convert_okx_channel_to_generic(channel.topic), channel.symbol>>

(* Of the data an OKX message lists, the first is taken.                   *)
normalize_message(channel, data) ==
    [topic |-> extract_topic_symbol(channel)[1], symbol |-> extract_topic_symbol(channel)[2],
     data |-> IF data # << >> THEN <<data[1]>> ELSE data]

(* GenericWebSocketAdapter speaks of topics and symbols to the venue too.  *)
generic_message(topic, symbol) == [topic |-> topic, symbol |-> symbol]

generic_normalize_message(channel, data) ==
    [topic |-> channel.topic, symbol |-> channel.symbol, data |-> data]

check_rate_limits(topic) == counts[topic] < Limits[topic]

(* The client's calls, one after the other.                                *)
subscribe(topic, symbol) ==
    /\ Cardinality(asked) < MaxSubscriptions
    /\ check_rate_limits(topic)
    /\ streams' = streams \cup
          {IF kind = "OKX" THEN format_subscription_message(topic, symbol) ELSE generic_message(topic, symbol)}
    /\ counts' = [counts EXCEPT ![topic] = @ + 1]
    /\ subscribed' = subscribed \cup {<<topic, symbol>>}
    /\ asked' = asked \cup {<<topic, symbol>>}
    /\ UNCHANGED <<kind, received>>

unsubscribe(topic, symbol) ==
    /\ <<topic, symbol>> \in subscribed
    /\ streams' = streams \
          {IF kind = "OKX" THEN format_unsubscription_message(topic, symbol) ELSE generic_message(topic, symbol)}
    /\ counts' = [counts EXCEPT ![topic] = IF @ = 0 THEN 0 ELSE @ - 1]
    /\ subscribed' = subscribed \ {<<topic, symbol>>}
    /\ UNCHANGED <<kind, asked, received>>

message(channel) ==
    /\ \E data \in {<< >>, <<1>>, <<1, 2>>} :
          received' = <<IF kind = "OKX" THEN normalize_message(channel, data)
                        ELSE generic_normalize_message(channel, data)>>
    /\ UNCHANGED <<kind, counts, subscribed, asked, streams>>

-----------------------------------------------------------------------------
Next ==
    \/ \E topic \in DOMAIN Limits, symbol \in Symbols : subscribe(topic, symbol) \/ unsubscribe(topic, symbol)
    \/ \E channel \in streams : message(channel)

Spec == Init /\ [][Next]_vars

-----------------------------------------------------------------------------
(* What the venue sends comes back under the topic and the symbol it was   *)
(* subscribed with (format_subscription_message, extract_topic_symbol).    *)
RoutedBack == \A m \in {received[i] : i \in DOMAIN received} : <<m.topic, m.symbol>> \in asked
=============================================================================
