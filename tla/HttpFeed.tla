------------------------------- MODULE HttpFeed -------------------------------
(***************************************************************************)
(* feeds/feed.py, feeds/http_client.py and feeds/connection_mixin.py: a    *)
(* feed that sends requests over HTTP.  http_request tries again after     *)
(* what it takes for a passing failure; HttpClient turns what came back    *)
(* into data or an exception; disconnect closes the client for good, also  *)
(* under a request of another thread.                                      *)
(*                                                                         *)
(* A reply is a kind: "data" (success, or a 4xx with a JSON body, which    *)
(* callers read themselves), "gone" (404, 410), "odd" (the same, or a      *)
(* redirect, with JSON that is no object), "denied" (401, 403) and         *)
(* "overloaded" (429) without JSON, "server" (5xx), and failures by their  *)
(* text: "named" says 404 or 410, "timeout" says timeout, "failed" says    *)
(* neither (no connection, a redirect, another 4xx).  What is sent,        *)
(* headers, and what is logged, with the secrets removed, are left out.    *)
(*                                                                         *)
(* The tasks of the event loop share it with what runs in it; disconnect   *)
(* runs in the loop, or in one thread outside, between any two steps.      *)
(***************************************************************************)
EXTENDS Naturals, Sequences, FiniteSets

CONSTANTS
    Callers,            \* threads that call http_request
    AsyncCallers,       \* tasks that await async_request, all in one event loop
    max_retries,
    MaxClients,         \* bound: async clients ever made; they are numbered
    MaxRequests         \* bound: http_requests a caller makes

VARIABLES
    sync_open,          \* _sync_client is not closed
    async_client,       \* _async_client, 0 for None
    async_open,         \* async clients that are not closed (is_closed)
    closing,            \* async clients a task will close
    made,               \* number of async clients
    conn_state,         \* _conn_state
    call,               \* what each caller does: its replies so far, its result
    async_call,         \* what each task does
    closer,             \* the thread that disconnects, with the client it read
    orphaned,           \* history: clients put down that nobody had read
    requests            \* counter for the bound

clients == <<sync_open, async_client, async_open, closing, made, conn_state, closer, orphaned>>
vars == <<clients, call, async_call, requests>>

Replies ==
    {"data", "gone", "odd", "denied", "overloaded", "server", "named", "timeout", "failed"}

(* The test of the status, or of the text, that ends a request at once.    *)
terminal(reply) == reply \in {"gone", "named"}

idle == [pc |-> "idle", replies |-> << >>, result |-> "none"]

Init ==
    /\ sync_open = TRUE
    /\ async_client = 0 /\ async_open = {} /\ closing = {} /\ made = 0
    /\ conn_state = "disconnected"
    /\ call = [c \in Callers |-> idle]
    /\ async_call = [a \in AsyncCallers |-> "none"]
    /\ closer = [pc |-> "idle", client |-> 0] /\ orphaned = {}
    /\ requests = [c \in Callers |-> 0]

(* What HttpClient makes of a reply (request, _process_response and        *)
(* _handle_error): data, or an exception.  Those of error.py are not       *)
(* RequestFailedErrors; an odd body has no get to ask for its message.     *)
_process_response(reply) ==
    CASE reply = "data" -> "data"
      [] reply \in {"gone", "named", "timeout", "failed"} -> "RequestFailedError"
      [] reply = "odd" -> "AttributeError"
      [] reply = "denied" -> "UnifiedAuthError"
      [] reply = "overloaded" -> "UnifiedRateLimitError"
      [] reply = "server" -> "ServerError"
      [] OTHER -> "RuntimeError"       \* the client was closed

(* A timeout is told by its text and becomes an exception of its own,      *)
(* whatever it was; all others go on as they are.                          *)
handle_timeout_exception == "RequestTimeoutError"
handle_request_exception(exception) == exception

(* What http_request ends with after the last try.                         *)
last_failure(reply) ==
    IF reply = "timeout" THEN handle_timeout_exception
    ELSE handle_request_exception(_process_response(reply))

(* An attempt is sent and awaits its reply; a closed client sends nothing. *)
attempt == IF sync_open THEN "wait" ELSE "closed"

http_request(c) ==
    /\ call[c].pc \in {"idle", "done"} /\ requests[c] < MaxRequests
    /\ requests' = [requests EXCEPT ![c] = @ + 1]
    /\ call' = [call EXCEPT ![c] = [idle EXCEPT !.pc = IF max_retries > 0 THEN attempt ELSE "done"]]
    /\ UNCHANGED <<clients, async_call>>

(* Faulty variant: the loop over the attempts just ends after the last.    *)
attempt_ended_Beyond(r) ==
    LET n == Len(r.replies)
        reply == r.replies[n]
    IN  IF _process_response(reply) = "data" THEN [r EXCEPT !.pc = "done", !.result = "data"]
        ELSE IF terminal(reply) THEN [r EXCEPT !.pc = "done", !.result = "RequestError"]
        ELSE [r EXCEPT !.pc = IF n < max_retries THEN "backoff" ELSE "done"]

(* What http_request makes of the latest reply: the loop over the attempts.*)
attempt_ended(r) ==
    LET n == Len(r.replies)
        reply == r.replies[n]
    IN  IF _process_response(reply) = "data" THEN [r EXCEPT !.pc = "done", !.result = "data"]
        ELSE IF terminal(reply) THEN [r EXCEPT !.pc = "done", !.result = "RequestError"]
        ELSE IF n < max_retries THEN [r EXCEPT !.pc = "backoff"]
        ELSE [r EXCEPT !.pc = "done", !.result = last_failure(reply)]

(* A reply comes, or the time is up, or the client is closed under it.     *)
replied(c) ==
    /\ call[c].pc \in {"wait", "closed"}
    /\ \E reply \in (IF call[c].pc = "closed" THEN {} ELSE Replies)
                      \cup (IF sync_open THEN {} ELSE {"closed"}) :
         call' = [call EXCEPT ![c] =
                    attempt_ended([call[c] EXCEPT !.replies = Append(@, reply)])]
    /\ UNCHANGED <<clients, async_call, requests>>

(* _retry_backoff is over: Retry-After, or an exponential wait.            *)
_retry_backoff(c) ==
    /\ call[c].pc = "backoff"
    /\ call' = [call EXCEPT ![c].pc = attempt]
    /\ UNCHANGED <<clients, async_call, requests>>

-----------------------------------------------------------------------------
(* While a task is in _get_async_client the event loop runs nothing else.  *)
InLoop == \A a \in AsyncCallers : async_call[a] \notin {"make", "return"}

(* async_request: the test whether there is a client that is not closed.   *)
async_request(a) ==
    /\ async_call[a] = "none" /\ InLoop
    /\ async_call' = [async_call EXCEPT ![a] =
          IF async_client = 0 \/ async_client \notin async_open THEN "make" ELSE "return"]
    /\ UNCHANGED <<clients, call, requests>>

(* The new client is the current one.                                      *)
_get_async_client(a) ==
    /\ async_call[a] = "make" /\ made < MaxClients
    /\ made' = made + 1
    /\ async_client' = made + 1
    /\ async_open' = async_open \cup {made + 1}
    /\ async_call' = [async_call EXCEPT ![a] = "return"]
    /\ UNCHANGED <<sync_open, closing, conn_state, closer, orphaned, call, requests>>

(* The client is read once more, and awaited; when it was put down between *)
(* the two, the caller gets an AttributeError.                             *)
async_sent(a) ==
    /\ async_call[a] = "return"
    /\ async_call' = [async_call EXCEPT ![a] = IF async_client = 0 THEN "none" ELSE "await"]
    /\ UNCHANGED <<clients, call, requests>>

(* The reply, or the error of a client closed meanwhile; no second try.    *)
async_replied(a) ==
    /\ async_call[a] = "await" /\ InLoop
    /\ async_call' = [async_call EXCEPT ![a] = "none"]
    /\ UNCHANGED <<clients, call, requests>>

connect ==
    /\ conn_state' = "connected"
    /\ UNCHANGED <<sync_open, async_client, async_open, closing, made, closer, orphaned,
                   call, async_call, requests>>

(* Faulty variant: the async client is let go without being closed.        *)
_close_async_client_Forgotten ==
    /\ async_client' = 0
    /\ UNCHANGED <<async_open, closing>>

(* Inside of the event loop a task is made that closes the client.         *)
_close_async_client ==
    /\ async_client' = 0
    /\ closing' = closing \cup ({async_client} \cap async_open)
    /\ UNCHANGED async_open

(* Feed.disconnect, with HttpClient.close, in the event loop, where no     *)
(* task makes a client meanwhile: there is no way back.                    *)
disconnect ==
    /\ InLoop
    /\ sync_open' = FALSE
    /\ _close_async_client
    /\ conn_state' = "disconnected"
    /\ UNCHANGED <<made, closer, orphaned, call, async_call, requests>>

(* The same in a thread without an event loop: the client is read, ...     *)
close_reads ==
    /\ closer.pc = "idle"
    /\ sync_open' = FALSE
    /\ closer' = [pc |-> "read", client |-> async_client]
    /\ UNCHANGED <<async_client, async_open, closing, made, conn_state, orphaned,
                   call, async_call, requests>>

(* ... then whichever is the current one is put down, ...                  *)
close_clears ==
    /\ closer.pc = "read"
    /\ async_client' = 0
    /\ orphaned' = orphaned \cup (({async_client} \cap async_open) \ {closer.client})
    /\ closer' = [closer EXCEPT !.pc = "close"]
    /\ UNCHANGED <<sync_open, async_open, closing, made, conn_state, call, async_call, requests>>

(* ... and the one that was read is closed in an event loop of its own:    *)
(* closed it is also when that raises, which is logged.                    *)
close_ends ==
    /\ closer.pc = "close"
    /\ async_open' = async_open \ {closer.client}
    /\ conn_state' = "disconnected"
    /\ closer' = [pc |-> "idle", client |-> 0]
    /\ UNCHANGED <<sync_open, async_client, closing, made, orphaned, call, async_call, requests>>

(* aclose closes the client at once, and it stays the current one.         *)
aclose ==
    /\ InLoop
    /\ sync_open' = FALSE
    /\ async_open' = async_open \ {async_client}
    /\ UNCHANGED <<async_client, closing, made, conn_state, closer, orphaned,
                   call, async_call, requests>>

(* The task that closes a client has run.                                  *)
async_closed ==
    /\ InLoop
    /\ \E x \in closing :
         /\ closing' = closing \ {x}
         /\ async_open' = async_open \ {x}
    /\ UNCHANGED <<sync_open, async_client, made, conn_state, closer, orphaned,
                   call, async_call, requests>>

Next ==
    \/ \E c \in Callers : http_request(c) \/ replied(c) \/ _retry_backoff(c)
    \/ \E a \in AsyncCallers :
         async_request(a) \/ _get_async_client(a) \/ async_sent(a) \/ async_replied(a)
    \/ connect \/ disconnect \/ close_reads \/ close_clears \/ close_ends
    \/ aclose \/ async_closed

Spec == Init /\ [][Next]_vars

-----------------------------------------------------------------------------
(* A request is tried again exactly as often as it should: it ends with    *)
(* data at the first reply that is data, with RequestError at the first    *)
(* failure that is, or says, 404 or 410, and otherwise after max_retries   *)
(* replies with the exception of the last; an answer is never swallowed,   *)
(* whatever came before, and though the client may be closed under it      *)
(* (Feed.http_request).                                                    *)
Ends(reply) == _process_response(reply) = "data" \/ terminal(reply)

RequestsAreTried ==
    \A c \in Callers :
        LET r == call[c]
            n == Len(r.replies)
        IN  /\ n <= max_retries /\ \A m \in 1..(n - 1) : ~Ends(r.replies[m])
            /\ r.pc = "done" /\ max_retries > 0 =>
                /\ Ends(r.replies[n]) \/ n = max_retries
                /\ r.result = IF terminal(r.replies[n]) THEN "RequestError"
                              ELSE last_failure(r.replies[n])

(* Of the async clients that are open, all but the current one are about   *)
(* to be closed, over requests that make one again after a close -- or     *)
(* were made between the two steps in which a thread outside of the loop   *)
(* read and put down the client of then (HttpClient._close_async_client).  *)
OthersAreClosed ==
    async_open \ {async_client}
        \subseteq closing \cup orphaned \cup (IF closer.pc = "close" THEN {closer.client} ELSE {})

RequestsEndRight == RequestsAreTried /\ OthersAreClosed
=============================================================================
