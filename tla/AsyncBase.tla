------------------------------ MODULE AsyncBase ------------------------------
(***************************************************************************)
(* functions/async_base.py: the thread that runs the event loop of a feed, *)
(* the coroutines submitted to it, and the session they share.             *)
(*                                                                         *)
(* The constructor starts one thread; start_loop is public and may start   *)
(* another, for which the loop is running already.  A release stops the    *)
(* loop, which the thread runs again.  The network may fail a request.     *)
(***************************************************************************)
EXTENDS Naturals, FiniteSets

CONSTANTS
    MaxThreads,         \* bound: threads start_loop starts; they are numbered
    Requests,           \* async_http_requests and closings submitted
    MaxLoops,           \* bound: event loops ever made; they are numbered
    MaxSessions         \* bound: sessions ever made

VARIABLES
    loop,               \* self.loop
    loops,              \* number of loops made
    closed,             \* loops that are closed
    stopping,           \* loops told to stop
    thread,             \* what each thread does, with the loop it has
    session,            \* self.session, 0 for None
    sessions,           \* number of sessions made
    open,               \* sessions that are open
    request,            \* what was submitted, on which loop, and how it went
    contested           \* history: sessions made while another loop was
                        \* making one too

vars == <<loop, loops, closed, stopping, thread, session, sessions, open, request, contested>>

Threads == 1 .. MaxThreads

none == [pc |-> "none", loop |-> 0, session |-> 0, raced |-> FALSE]

Init ==
    /\ loop = 1 /\ loops = 1 /\ closed = {} /\ stopping = {}
    /\ thread = [t \in Threads |-> IF t = 1 THEN [pc |-> "top", loop |-> 1]
                                    ELSE [pc |-> "absent", loop |-> 0]]
    /\ session = 0 /\ sessions = 0 /\ open = {}
    /\ request = [r \in Requests |-> none]
    /\ contested = {}

runs(l) == \E t \in Threads : thread[t] = [pc |-> "running", loop |-> l]

(* The requests that are about to make a session; the loop of each runs it *)
(* without an await, and so nothing else.                                  *)
Making == {r \in Requests : request[r].pc = "making"}
Busy(l) == \E r \in Making : request[r].loop = l

-----------------------------------------------------------------------------
start_loop(t) ==
    /\ thread[t].pc = "absent"
    /\ thread' = [thread EXCEPT ![t] = [pc |-> "top", loop |-> loop]]
    /\ UNCHANGED <<loop, loops, closed, stopping, session, sessions, open, request, contested>>

(* The top of the thread's endless loop: a closed event loop is replaced.  *)
(* One that is running already cannot be run.                              *)
_start_thread_loop(t) ==
    /\ thread[t].pc = "top"
    /\ IF thread[t].loop \in closed
       THEN /\ loops < MaxLoops
            /\ loops' = loops + 1 /\ loop' = loops + 1
            /\ thread' = [thread EXCEPT ![t] = [pc |-> "running", loop |-> loops + 1]]
       ELSE /\ thread' = [thread EXCEPT ![t].pc =
                           IF runs(thread[t].loop) THEN "except" ELSE "running"]
            /\ UNCHANGED <<loop, loops>>
    /\ UNCHANGED <<closed, stopping, session, sessions, open, request, contested>>

(* The RuntimeError of run_forever: the thread closes the loop, which      *)
(* raises again, and ends the thread, while another runs it.               *)
except(t) ==
    /\ thread[t].pc = "except"
    /\ IF runs(thread[t].loop)
       THEN thread' = [thread EXCEPT ![t].pc = "dead"] /\ UNCHANGED closed
       ELSE thread' = [thread EXCEPT ![t].pc = "top"] /\ closed' = closed \cup {thread[t].loop}
    /\ UNCHANGED <<loop, loops, stopping, session, sessions, open, request, contested>>

(* Faulty variant: the thread ends when the loop stops. *)
run_forever_returns_Ending(t) ==
    /\ thread[t].pc = "running" /\ thread[t].loop \in stopping /\ ~Busy(thread[t].loop)
    /\ stopping' = stopping \ {thread[t].loop}
    /\ thread' = [thread EXCEPT ![t].pc = "dead"]
    /\ UNCHANGED <<loop, loops, closed, session, sessions, open, request, contested>>

(* The loop stops: run_forever returns, and the thread runs it again.      *)
run_forever_returns(t) ==
    /\ thread[t].pc = "running" /\ thread[t].loop \in stopping /\ ~Busy(thread[t].loop)
    /\ stopping' = stopping \ {thread[t].loop}
    /\ thread' = [thread EXCEPT ![t].pc = "top"]
    /\ UNCHANGED <<loop, loops, closed, session, sessions, open, request, contested>>

release ==
    /\ stopping' = stopping \cup {loop}
    /\ UNCHANGED <<loop, loops, closed, thread, session, sessions, open, request, contested>>

-----------------------------------------------------------------------------
(* A closed loop refuses what is submitted: an error for the caller.       *)
submit(r, pc, s) ==
    /\ request[r].pc = "none"
    /\ request' = [request EXCEPT ![r] =
          IF loop \in closed THEN [@ EXCEPT !.pc = "ended"]
          ELSE [@ EXCEPT !.pc = pc, !.loop = loop, !.session = s]]

submit_request(r) ==
    /\ submit(r, "submitted", 0)
    /\ UNCHANGED <<loop, loops, closed, stopping, thread, session, sessions, open, contested>>

(* close submits the closing of the session of now and stops the loop.     *)
close(r) ==
    /\ session # 0
    /\ submit(r, "closing", session)
    /\ stopping' = stopping \cup {loop}
    /\ UNCHANGED <<loop, loops, closed, thread, session, sessions, open, contested>>

(* Faulty variant: every request makes a session.                          *)
async_http_request_Always(r) ==
    /\ request[r].pc = "submitted" /\ runs(request[r].loop) /\ ~Busy(request[r].loop)
    /\ request' = [q \in Requests |->
          IF q = r THEN [request[r] EXCEPT !.pc = "making", !.raced = Making # {}]
          ELSE IF q \in Making THEN [request[q] EXCEPT !.raced = TRUE]
          ELSE request[q]]
    /\ UNCHANGED <<loop, loops, closed, stopping, thread, session, sessions, open, contested>>

(* The loop runs the coroutine, which takes the feed's session when it is  *)
(* open, and is to make one otherwise: like that of another loop, if there *)
(* is one that has tested and not made.                                    *)
async_http_request(r) ==
    /\ request[r].pc = "submitted" /\ runs(request[r].loop) /\ ~Busy(request[r].loop)
    /\ request' =
          IF session \in open
          THEN [request EXCEPT ![r].pc = "awaiting", ![r].session = session]
          ELSE [q \in Requests |->
                  IF q = r THEN [request[r] EXCEPT !.pc = "making", !.raced = Making # {}]
                  ELSE IF q \in Making THEN [request[q] EXCEPT !.raced = TRUE]
                  ELSE request[q]]
    /\ UNCHANGED <<loop, loops, closed, stopping, thread, session, sessions, open, contested>>

(* The new session is the feed's then.                                     *)
get_session(r) ==
    /\ request[r].pc = "making" /\ sessions < MaxSessions
    /\ sessions' = sessions + 1 /\ session' = sessions + 1
    /\ open' = open \cup {sessions + 1}
    /\ contested' = IF request[r].raced THEN contested \cup {sessions + 1} ELSE contested
    /\ request' = [request EXCEPT ![r].pc = "awaiting", ![r].session = sessions + 1]
    /\ UNCHANGED <<loop, loops, closed, stopping, thread>>

(* An answer, or a RequestFailedError: on a session that was closed it is  *)
(* one for sure.                                                           *)
answered(r) ==
    /\ request[r].pc = "awaiting" /\ runs(request[r].loop) /\ ~Busy(request[r].loop)
    /\ request' = [request EXCEPT ![r].pc = "ended"]
    /\ UNCHANGED <<loop, loops, closed, stopping, thread, session, sessions, open, contested>>

session_closed(r) ==
    /\ request[r].pc = "closing" /\ runs(request[r].loop) /\ ~Busy(request[r].loop)
    /\ open' = open \ {request[r].session}
    /\ request' = [request EXCEPT ![r].pc = "ended"]
    /\ UNCHANGED <<loop, loops, closed, stopping, thread, session, sessions, contested>>

-----------------------------------------------------------------------------
Next ==
    \/ \E t \in Threads :
         start_loop(t) \/ _start_thread_loop(t) \/ except(t) \/ run_forever_returns(t)
    \/ release
    \/ \E r \in Requests :
         \/ submit_request(r) \/ close(r) \/ async_http_request(r) \/ get_session(r)
         \/ answered(r) \/ session_closed(r)

Spec == Init /\ [][Next]_vars

-----------------------------------------------------------------------------
(* What was submitted does not wait for nobody: a thread runs its loop, or *)
(* is about to, whatever is released and closed -- unless a second thread  *)
(* closed the loop between two runs of it (_start_thread_loop, release).   *)
LoopsAreRun ==
    \A r \in Requests :
        request[r].pc \in {"submitted", "making", "awaiting", "closing"} /\ request[r].loop \notin closed
            => \E t \in Threads : thread[t].loop = request[r].loop /\ thread[t].pc \in {"top", "running"}

(* Only one session is open at a time, and it is the feed's: no connection *)
(* is left behind by requests and closings in any order -- but for those   *)
(* that two loops made at the same time, as both had found none: then one  *)
(* stays open and is nobody's (async_http_request, close).                 *)
OneSession ==
    /\ open \ {session} \subseteq contested
    /\ loops = 1 => open \subseteq {session}

AsyncBaseSound == LoopsAreRun /\ OneSession
=============================================================================
