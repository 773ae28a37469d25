-------------------------- MODULE ComponentsProofs --------------------------
(***************************************************************************)
(* Eleven of the components of MCComponents for every value of their      *)
(* constants.  For each an inductive invariant, that it holds at first,    *)
(* that every step of the component keeps it, and that it implies what the *)
(* run checks; at the end, that the component is all that moves in a       *)
(* behaviour that starts with it.                                          *)
(***************************************************************************)
EXTENDS MCComponents, SequenceTheorems, FiniteSetTheorems, WellFoundedInduction, TLAPS

(* AsyncBase: the threads that run event loops and the requests submitted  *)
(* to them. What is shown rests on this: a loop that is not closed is      *)
(* tended by a thread.                                                     *)

(* The states of a thread and of a request.                                *)
ThreadPcs == {"absent", "top", "running", "except", "dead"}
RequestPcs == {"none", "submitted", "making", "closing", "awaiting", "ended"}

(* The part of the invariant that gives the variables their types.         *)
LoopTypeOK ==
    /\ loops \in Nat /\ loop \in 1 .. loops
    /\ closed \in SUBSET (1 .. loops)
    /\ thread \in [Loop!Threads -> [pc : ThreadPcs, loop : Nat]]
    /\ request \in [Requests -> [pc : RequestPcs, loop : Nat, session : Nat, raced : BOOLEAN]]
    /\ session \in Nat /\ sessions \in Nat

(* A thread that was started was given a loop that exists.                 *)
ThreadsHaveLoops ==
    \A t \in Loop!Threads : thread[t].pc # "absent" => thread[t].loop \in 1 .. loops

(* A thread runs a loop only while that is open.                           *)
RunningIsOpen == \A t \in Loop!Threads : thread[t].pc = "running" => thread[t].loop \notin closed

(* A thread runs the loop or is about to.                                  *)
Tended(l) == \E t \in Loop!Threads : thread[t].loop = l /\ thread[t].pc \in {"top", "running"}

(* A loop that is not closed has a thread, also between the start of one   *)
(* thread and the end of another.                                          *)
OpenAreTended == \A l \in (1 .. loops) \ closed : Tended(l)

(* What is under way was submitted to a loop that exists.                  *)
RequestsHaveLoops ==
    \A r \in Requests : request[r].pc \in {"submitted", "making", "awaiting", "closing"}
                            => request[r].loop \in 1 .. loops

(* A loop makes one session at a time.                                     *)
MakersApart ==
    \A r, q \in Loop!Making : request[r].loop = request[q].loop => r = q

(* A request that does not know of another that makes a session is alone.  *)
MakersAlone == \A r \in Loop!Making : ~request[r].raced => Loop!Making = {r}

(* What was made since a request found no session was made in a race.      *)
MadeAreContested == Loop!Making # {} /\ session \in open => session \in contested

(* One loop does not race with itself.                                     *)
OneLoopAlone ==
    loops = 1 => contested = {} /\ \A r \in Loop!Making : ~request[r].raced

(* What is known of the sessions and those who make them.                  *)
SessionsInv == MakersApart /\ MakersAlone /\ MadeAreContested /\ OneLoopAlone
               /\ Loop!OneSession

(* The inductive invariant of AsyncBase.                                   *)
LoopInv == LoopTypeOK /\ ThreadsHaveLoops /\ RunningIsOpen /\ OpenAreTended
           /\ RequestsHaveLoops /\ SessionsInv

(* Every step of a thread or a request keeps the types.                    *)
LEMMA LoopTypeKept == LoopInv /\ [Loop!Next]_Loop!vars => LoopTypeOK'
<1> USE LoopAssumption
<1> SUFFICES ASSUME LoopInv, [Loop!Next]_Loop!vars PROVE LoopTypeOK'
    OBVIOUS
<1>0. LoopTypeOK BY DEF LoopInv
<1>1. ASSUME NEW t \in Loop!Threads, Loop!start_loop(t) PROVE LoopTypeOK'
  BY <1>0, <1>1 DEF LoopTypeOK, Loop!start_loop, ThreadPcs
<1>2. ASSUME NEW t \in Loop!Threads, Loop!_start_thread_loop(t) PROVE LoopTypeOK'
  <2>1. CASE thread[t].loop \in closed
    <3>1. /\ loops' = loops + 1 /\ loop' = loops + 1
          /\ thread' = [thread EXCEPT ![t] = [pc |-> "running", loop |-> loops + 1]]
          /\ UNCHANGED <<closed, stopping, session, sessions, open, request>>
      BY <1>2, <2>1 DEF Loop!_start_thread_loop
    <3>2. thread' \in [Loop!Threads -> [pc : ThreadPcs, loop : Nat]]
      BY <1>0, <3>1 DEF LoopTypeOK, ThreadPcs
    <3>3. closed' \in SUBSET (1 .. loops') /\ loop' \in 1 .. loops' /\ loops' \in Nat
      BY <1>0, <3>1 DEF LoopTypeOK
    <3> QED BY <1>0, <3>1, <3>2, <3>3 DEF LoopTypeOK
  <2>2. CASE thread[t].loop \notin closed
    BY <1>0, <1>2, <2>2 DEF LoopTypeOK, Loop!_start_thread_loop, ThreadPcs
  <2> QED BY <2>1, <2>2
<1>3. ASSUME NEW t \in Loop!Threads, Loop!except(t) PROVE LoopTypeOK'
  <2>1. thread[t].loop \in 1 .. loops BY <1>3 DEF LoopInv, ThreadsHaveLoops, Loop!except
  <2>2. thread' \in [Loop!Threads -> [pc : ThreadPcs, loop : Nat]]
    BY <1>0, <1>3 DEF LoopTypeOK, Loop!except, ThreadPcs
  <2>3. closed' \in SUBSET (1 .. loops')
    BY <1>0, <1>3, <2>1 DEF LoopTypeOK, Loop!except
  <2> QED BY <1>0, <1>3, <2>2, <2>3 DEF LoopTypeOK, Loop!except
<1>4. ASSUME NEW t \in Loop!Threads, Loop!run_forever_returns(t) PROVE LoopTypeOK'
  BY <1>0, <1>4 DEF LoopTypeOK, Loop!run_forever_returns, ThreadPcs
<1>5. CASE Loop!release BY <1>0, <1>5 DEF LoopTypeOK, Loop!release
<1>N. ASSUME NEW r \in Requests, NEW pc \in RequestPcs, NEW s \in Nat, Loop!submit(r, pc, s)
      PROVE  request' \in [Requests -> [pc : RequestPcs, loop : Nat, session : Nat, raced : BOOLEAN]]
  <2>1. CASE loop \in closed
    <3>1. request' = [request EXCEPT ![r].pc = "ended"] BY <1>N, <2>1 DEF Loop!submit
    <3> QED BY <1>0, <3>1 DEF LoopTypeOK, RequestPcs
  <2>2. CASE loop \notin closed
    <3>1. request' = [request EXCEPT ![r].pc = pc, ![r].loop = loop, ![r].session = s]
      BY <1>N, <2>2 DEF Loop!submit
    <3>2. loop \in Nat BY <1>0 DEF LoopTypeOK
    <3>3. request \in [Requests -> [pc : RequestPcs, loop : Nat, session : Nat, raced : BOOLEAN]]
      BY <1>0 DEF LoopTypeOK
    <3> QED BY <1>N, <3>1, <3>2, <3>3
  <2> QED BY <2>1, <2>2
<1>6. ASSUME NEW r \in Requests, Loop!submit_request(r) PROVE LoopTypeOK'
  BY <1>0, <1>6, <1>N DEF LoopTypeOK, Loop!submit_request, RequestPcs
<1>7. ASSUME NEW r \in Requests, Loop!close(r) PROVE LoopTypeOK'
  BY <1>0, <1>7, <1>N DEF LoopTypeOK, Loop!close, RequestPcs
<1>8. ASSUME NEW r \in Requests, Loop!async_http_request(r) PROVE LoopTypeOK'
  <2>1. request' \in [Requests -> [pc : RequestPcs, loop : Nat, session : Nat, raced : BOOLEAN]]
    <3>1. CASE session \in open
      BY <1>0, <1>8, <3>1 DEF LoopTypeOK, Loop!async_http_request, RequestPcs
    <3>2. CASE session \notin open
      <4> DEFINE after(q) == IF q = r
                            THEN [request[r] EXCEPT !.pc = "making", !.raced = Loop!Making # {}]
                            ELSE IF q \in Loop!Making THEN [request[q] EXCEPT !.raced = TRUE]
                            ELSE request[q]
      <4>1. request' = [q \in Requests |-> after(q)]
        BY <1>8, <3>2 DEF Loop!async_http_request
      <4>2. ASSUME NEW q \in Requests
            PROVE  after(q) \in [pc : RequestPcs, loop : Nat, session : Nat, raced : BOOLEAN]
        <5>1. CASE q = r
          <6>1. request[r] \in [pc : RequestPcs, loop : Nat, session : Nat, raced : BOOLEAN]
            BY <1>0 DEF LoopTypeOK
          <6> DEFINE b == Loop!Making # {}
          <6>2. b \in BOOLEAN OBVIOUS
          <6>3. after(q) = [request[r] EXCEPT !.pc = "making", !.raced = b] BY <5>1
          <6> HIDE DEF b, after
          <6> QED BY <6>1, <6>2, <6>3 DEF RequestPcs
        <5>2. CASE q # r /\ q \in Loop!Making
          BY <1>0, <5>2 DEF LoopTypeOK
        <5>3. CASE q # r /\ q \notin Loop!Making
          BY <1>0, <5>3 DEF LoopTypeOK
        <5> QED BY <5>1, <5>2, <5>3
      <4> HIDE DEF after
      <4> QED BY <4>1, <4>2
    <3> QED BY <3>1, <3>2
  <2>2. UNCHANGED <<loop, loops, closed, thread, session, sessions>>
    BY <1>8 DEF Loop!async_http_request
  <2> QED BY <1>0, <2>1, <2>2 DEF LoopTypeOK
<1>12. ASSUME NEW r \in Requests, Loop!get_session(r) PROVE LoopTypeOK'
  <2>1. /\ request' = [request EXCEPT ![r].pc = "awaiting", ![r].session = sessions + 1]
        /\ session' = sessions + 1 /\ sessions' = sessions + 1
        /\ UNCHANGED <<loop, loops, closed, thread>>
    BY <1>12 DEF Loop!get_session
  <2>2. request \in [Requests -> [pc : RequestPcs, loop : Nat, session : Nat, raced : BOOLEAN]]
    BY <1>0 DEF LoopTypeOK
  <2>3. sessions + 1 \in Nat BY <1>0 DEF LoopTypeOK
  <2>4. request' \in [Requests -> [pc : RequestPcs, loop : Nat, session : Nat, raced : BOOLEAN]]
    BY <2>1, <2>2, <2>3 DEF RequestPcs
  <2> QED BY <1>0, <2>1, <2>3, <2>4 DEF LoopTypeOK
<1>9. ASSUME NEW r \in Requests, Loop!answered(r) PROVE LoopTypeOK'
  BY <1>0, <1>9 DEF LoopTypeOK, Loop!answered, RequestPcs
<1>10. ASSUME NEW r \in Requests, Loop!session_closed(r) PROVE LoopTypeOK'
  BY <1>0, <1>10 DEF LoopTypeOK, Loop!session_closed, RequestPcs
<1>11. CASE UNCHANGED Loop!vars BY <1>0, <1>11 DEF LoopTypeOK, Loop!vars
<1> QED BY <1>1, <1>2, <1>3, <1>4, <1>5, <1>6, <1>7, <1>8, <1>9, <1>10, <1>11, <1>12
       DEF Loop!Next

(* What does not touch the sessions and those who make them keeps what is  *)
(* known of them; a session may be closed.                                 *)
LEMMA SessionsLeft ==
    ASSUME LoopTypeOK, SessionsInv, loops' = loops \/ loops' = loops + 1,
           UNCHANGED <<session, contested>>, open' \in SUBSET open,
           \A q \in Requests : \/ request'[q] = request[q]
                               \/ request[q].pc # "making" /\ request'[q].pc # "making"
    PROVE  SessionsInv'
<1>1. Loop!Making' = Loop!Making /\ \A q \in Loop!Making : request'[q] = request[q]
  BY DEF Loop!Making
<1>2. MakersApart' BY <1>1 DEF SessionsInv, MakersApart
<1>3. MakersAlone' BY <1>1 DEF SessionsInv, MakersAlone
<1>4. MadeAreContested' BY <1>1 DEF SessionsInv, MadeAreContested
<1>5. OneLoopAlone' BY <1>1 DEF SessionsInv, OneLoopAlone, LoopTypeOK
<1>6. Loop!OneSession' BY DEF SessionsInv, Loop!OneSession, LoopTypeOK
<1> QED BY <1>2, <1>3, <1>4, <1>5, <1>6 DEF SessionsInv

(* A request that finds no session makes those that are making one race.   *)
LEMMA SessionsTested ==
    ASSUME LoopTypeOK, RequestsHaveLoops, SessionsInv, NEW r \in Requests,
           Loop!async_http_request(r)
    PROVE  SessionsInv'
<1>0. /\ request[r].pc = "submitted" /\ ~Loop!Busy(request[r].loop)
      /\ UNCHANGED <<loops, session, contested, open>>
  BY DEF Loop!async_http_request
<1>1. CASE session \in open
  <2>1. \A q \in Requests : \/ request'[q] = request[q]
                            \/ request[q].pc # "making" /\ request'[q].pc # "making"
    BY <1>0, <1>1 DEF LoopTypeOK, Loop!async_http_request
  <2> QED BY <1>0, <2>1, SessionsLeft
<1>2. CASE session \notin open
  <2>1. request' = [q \in Requests |->
                  IF q = r THEN [request[r] EXCEPT !.pc = "making", !.raced = Loop!Making # {}]
                  ELSE IF q \in Loop!Making THEN [request[q] EXCEPT !.raced = TRUE]
                  ELSE request[q]]
    BY <1>2 DEF Loop!async_http_request
  <2>2. r \notin Loop!Making BY <1>0 DEF Loop!Making
  <2>3. \A q \in Requests : request'[q].loop = request[q].loop
    BY <2>1 DEF LoopTypeOK
  <2>4. \A q \in Loop!Making : request'[q].pc = "making" /\ request'[q].raced = TRUE
    BY <2>1, <2>2 DEF LoopTypeOK, Loop!Making
  <2>5. request'[r].pc = "making" /\ request'[r].raced = (Loop!Making # {})
    BY <2>1 DEF LoopTypeOK
  <2>6. Loop!Making' = Loop!Making \cup {r}
    BY <2>1, <2>4, <2>5 DEF Loop!Making
  <2>7. MakersApart' BY <1>0, <2>3, <2>6 DEF SessionsInv, MakersApart, Loop!Busy, Loop!Making
  <2>8. MakersAlone' BY <2>4, <2>5, <2>6 DEF MakersAlone
  <2>9. MadeAreContested' BY <1>0, <1>2 DEF MadeAreContested
  <2>10. OneLoopAlone'
    <3> SUFFICES ASSUME loops = 1 PROVE Loop!Making = {} /\ contested = {}
        BY <1>0, <2>5, <2>6 DEF OneLoopAlone
    <3>1. \A q \in Loop!Making : request[q].loop = 1
      BY DEF RequestsHaveLoops, Loop!Making
    <3>2. request[r].loop = 1 BY <1>0 DEF RequestsHaveLoops
    <3> QED BY <1>0, <3>1, <3>2 DEF Loop!Busy, SessionsInv, OneLoopAlone
  <2>11. Loop!OneSession' BY <1>0 DEF SessionsInv, Loop!OneSession
  <2> QED BY <2>7, <2>8, <2>9, <2>10, <2>11 DEF SessionsInv
<1> QED BY <1>1, <1>2

(* The session that is made leaves none open but what was made in a race.  *)
LEMMA SessionsMade ==
    ASSUME LoopTypeOK, SessionsInv, NEW r \in Requests, Loop!get_session(r)
    PROVE  SessionsInv'
<1>0. /\ r \in Loop!Making /\ loops' = loops
      /\ session' = sessions + 1 /\ open' = open \cup {sessions + 1}
      /\ contested' = IF request[r].raced THEN contested \cup {sessions + 1} ELSE contested
  BY DEF Loop!get_session, Loop!Making
<1>1. Loop!Making' = Loop!Making \ {r} /\ \A q \in Loop!Making' : request'[q] = request[q]
  BY DEF LoopTypeOK, Loop!get_session, Loop!Making
<1>2. MakersApart' BY <1>1 DEF SessionsInv, MakersApart
<1>3. MakersAlone' BY <1>0, <1>1 DEF SessionsInv, MakersAlone
<1>4. MadeAreContested'
  <2> SUFFICES ASSUME Loop!Making' # {} PROVE session' \in contested'
      BY DEF MadeAreContested
  <2>1. request[r].raced BY <1>0, <1>1 DEF SessionsInv, MakersAlone, LoopTypeOK
  <2> QED BY <1>0, <2>1
<1>5. OneLoopAlone' BY <1>0, <1>1 DEF SessionsInv, OneLoopAlone
<1>6. open \subseteq contested
  BY <1>0 DEF SessionsInv, Loop!OneSession, MadeAreContested
<1>7. Loop!OneSession'
  <2>1. open' \ {session'} \subseteq contested' BY <1>0, <1>6
  <2>2. loops' = 1 => open' \subseteq {session'}
    BY <1>0, <1>6 DEF SessionsInv, OneLoopAlone
  <2> QED BY <2>1, <2>2 DEF Loop!OneSession
<1> QED BY <1>2, <1>3, <1>4, <1>5, <1>7 DEF SessionsInv

(* Every step keeps the invariant; a loop is closed by the thread that ran *)
(* it, which has no other, and a loop that is made has its thread at once. *)
LEMMA LoopInvKept == LoopInv /\ [Loop!Next]_Loop!vars => LoopInv'
<1> USE LoopAssumption
<1> SUFFICES ASSUME LoopInv, [Loop!Next]_Loop!vars PROVE LoopInv'
    OBVIOUS
<1>0. LoopTypeOK /\ LoopTypeOK' BY LoopTypeKept DEF LoopInv
<1>T. ASSUME UNCHANGED <<loops, closed, thread>>
      PROVE  ThreadsHaveLoops' /\ RunningIsOpen' /\ OpenAreTended'
  BY <1>T DEF LoopInv, ThreadsHaveLoops, RunningIsOpen, OpenAreTended, Tended
<1>S. ASSUME UNCHANGED <<session, open, request, contested>>,
             loops' = loops \/ loops' = loops + 1
      PROVE  SessionsInv'
  BY <1>0, <1>S, SessionsLeft DEF LoopInv
<1>R. ASSUME UNCHANGED request, loops' = loops \/ loops' = loops + 1
      PROVE  RequestsHaveLoops'
  BY <1>0, <1>R DEF LoopInv, LoopTypeOK, RequestsHaveLoops
<1>1. ASSUME NEW t \in Loop!Threads, Loop!start_loop(t) PROVE LoopInv'
  <2>1. /\ thread[t].pc = "absent"
        /\ thread' = [thread EXCEPT ![t] = [pc |-> "top", loop |-> loop]]
        /\ UNCHANGED <<loop, loops, closed, stopping, session, sessions, open, request, contested>>
    BY <1>1 DEF Loop!start_loop
  <2>2. ThreadsHaveLoops' BY <1>0, <2>1 DEF LoopInv, LoopTypeOK, ThreadsHaveLoops
  <2>3. RunningIsOpen' BY <1>0, <2>1 DEF LoopInv, LoopTypeOK, RunningIsOpen
  <2>4. OpenAreTended'
    <3> SUFFICES ASSUME NEW l \in (1 .. loops) \ closed PROVE Tended(l)'
        BY <2>1 DEF OpenAreTended
    <3>1. PICK u \in Loop!Threads : thread[u].loop = l /\ thread[u].pc \in {"top", "running"}
      BY DEF LoopInv, OpenAreTended, Tended
    <3>2. thread'[u] = thread[u] BY <1>0, <2>1, <3>1 DEF LoopTypeOK
    <3> QED BY <3>1, <3>2 DEF Tended
  <2> QED BY <1>0, <1>R, <1>S, <2>1, <2>2, <2>3, <2>4 DEF LoopInv
<1>2. ASSUME NEW t \in Loop!Threads, Loop!_start_thread_loop(t) PROVE LoopInv'
  <2>0. thread[t].pc = "top" /\ UNCHANGED <<closed, stopping, session, sessions, open, request, contested>>
    BY <1>2 DEF Loop!_start_thread_loop
  <2>1. CASE thread[t].loop \in closed
    <3>1. /\ loops' = loops + 1 /\ loop' = loops + 1
          /\ thread' = [thread EXCEPT ![t] = [pc |-> "running", loop |-> loops + 1]]
      BY <1>2, <2>1 DEF Loop!_start_thread_loop
    <3>2. ThreadsHaveLoops' BY <1>0, <3>1 DEF LoopInv, LoopTypeOK, ThreadsHaveLoops
    <3>3. RunningIsOpen' BY <1>0, <2>0, <3>1 DEF LoopInv, LoopTypeOK, RunningIsOpen
    <3>4. OpenAreTended'
      <4> SUFFICES ASSUME NEW l \in (1 .. loops + 1) \ closed PROVE Tended(l)'
          BY <2>0, <3>1 DEF OpenAreTended
      <4>1. CASE l = loops + 1
        <5>1. thread'[t] = [pc |-> "running", loop |-> l] BY <1>0, <3>1, <4>1 DEF LoopTypeOK
        <5> QED BY <5>1 DEF Tended
      <4>2. CASE l # loops + 1
        <5>1. l \in (1 .. loops) \ closed BY <1>0, <4>2 DEF LoopTypeOK
        <5>2. PICK u \in Loop!Threads : thread[u].loop = l /\ thread[u].pc \in {"top", "running"}
          BY <5>1 DEF LoopInv, OpenAreTended, Tended
        <5>3. u # t BY <2>1, <5>1, <5>2
        <5>4. thread'[u] = thread[u] BY <1>0, <3>1, <5>3 DEF LoopTypeOK
        <5> QED BY <5>2, <5>4 DEF Tended
      <4> QED BY <4>1, <4>2
    <3> QED BY <1>0, <1>R, <1>S, <2>0, <3>1, <3>2, <3>3, <3>4 DEF LoopInv
  <2>2. CASE thread[t].loop \notin closed
    <3>1. PICK pc \in {"except", "running"} :
             /\ thread' = [thread EXCEPT ![t].pc = pc]
             /\ pc = "except" <=> Loop!runs(thread[t].loop)
             /\ UNCHANGED <<loop, loops>>
      BY <1>2, <2>2 DEF Loop!_start_thread_loop
    <3>2. ThreadsHaveLoops' BY <1>0, <2>0, <3>1 DEF LoopInv, LoopTypeOK, ThreadsHaveLoops
    <3>3. RunningIsOpen' BY <1>0, <2>0, <2>2, <3>1 DEF LoopInv, LoopTypeOK, RunningIsOpen
    <3>4. OpenAreTended'
      <4> SUFFICES ASSUME NEW l \in (1 .. loops) \ closed PROVE Tended(l)'
          BY <2>0, <3>1 DEF OpenAreTended
      <4>1. PICK u \in Loop!Threads : thread[u].loop = l /\ thread[u].pc \in {"top", "running"}
        BY DEF LoopInv, OpenAreTended, Tended
      <4>2. CASE u # t
        <5>1. thread'[u] = thread[u] BY <1>0, <3>1, <4>2 DEF LoopTypeOK
        <5> QED BY <4>1, <5>1 DEF Tended
      <4>3. CASE u = t /\ pc = "except"
        <5>1. PICK w \in Loop!Threads : thread[w] = [pc |-> "running", loop |-> l]
          BY <3>1, <4>1, <4>3 DEF Loop!runs
        <5>2. w # t /\ thread[w].loop = l /\ thread[w].pc = "running" BY <2>0, <5>1
        <5>3. thread'[w] = thread[w] BY <1>0, <3>1, <5>2 DEF LoopTypeOK
        <5> QED BY <5>2, <5>3 DEF Tended
      <4>4. CASE u = t /\ pc = "running"
        <5>1. thread'[t].pc = "running" /\ thread'[t].loop = l
          BY <1>0, <3>1, <4>1, <4>4 DEF LoopTypeOK
        <5> QED BY <5>1 DEF Tended
      <4> QED BY <4>2, <4>3, <4>4
    <3> QED BY <1>0, <1>R, <1>S, <2>0, <3>1, <3>2, <3>3, <3>4 DEF LoopInv
  <2> QED BY <2>1, <2>2
<1>3. ASSUME NEW t \in Loop!Threads, Loop!except(t) PROVE LoopInv'
  <2>0. /\ thread[t].pc = "except"
        /\ UNCHANGED <<loop, loops, stopping, session, sessions, open, request, contested>>
    BY <1>3 DEF Loop!except
  <2>1. PICK pc \in {"dead", "top"} :
             /\ thread' = [thread EXCEPT ![t].pc = pc]
             /\ \/ closed' = closed
                \/ ~Loop!runs(thread[t].loop) /\ closed' = closed \cup {thread[t].loop}
    <3>1. CASE Loop!runs(thread[t].loop) BY <1>3, <3>1 DEF Loop!except
    <3>2. CASE ~Loop!runs(thread[t].loop) BY <1>3, <3>2 DEF Loop!except
    <3> QED BY <3>1, <3>2
  <2>2. ThreadsHaveLoops' BY <1>0, <2>0, <2>1 DEF LoopInv, LoopTypeOK, ThreadsHaveLoops
  <2>3. RunningIsOpen'
    <3> SUFFICES ASSUME NEW u \in Loop!Threads, thread'[u].pc = "running"
                 PROVE  thread'[u].loop \notin closed'
        BY DEF RunningIsOpen
    <3>1. u # t /\ thread'[u] = thread[u] BY <1>0, <2>1 DEF LoopTypeOK
    <3>2. thread[u].loop \notin closed BY <3>1 DEF LoopInv, RunningIsOpen
    <3>3. thread[u] = [pc |-> "running", loop |-> thread[u].loop] BY <1>0, <3>1 DEF LoopTypeOK
    <3>4. closed' = closed \/ thread[u].loop # thread[t].loop BY <2>1, <3>3 DEF Loop!runs
    <3> QED BY <2>1, <3>1, <3>2, <3>4
  <2>4. OpenAreTended'
    <3> SUFFICES ASSUME NEW l \in (1 .. loops) \ closed PROVE Tended(l)'
        BY <2>0, <2>1 DEF OpenAreTended
    <3>1. PICK u \in Loop!Threads : thread[u].loop = l /\ thread[u].pc \in {"top", "running"}
      BY DEF LoopInv, OpenAreTended, Tended
    <3>2. thread'[u] = thread[u] BY <1>0, <2>0, <2>1, <3>1 DEF LoopTypeOK
    <3> QED BY <3>1, <3>2 DEF Tended
  <2> QED BY <1>0, <1>R, <1>S, <2>0, <2>2, <2>3, <2>4 DEF LoopInv
<1>4. ASSUME NEW t \in Loop!Threads, Loop!run_forever_returns(t) PROVE LoopInv'
  <2>1. /\ thread[t].pc = "running"
        /\ thread' = [thread EXCEPT ![t].pc = "top"]
        /\ UNCHANGED <<loop, loops, closed, session, sessions, open, request, contested>>
    BY <1>4 DEF Loop!run_forever_returns
  <2>2. ThreadsHaveLoops' BY <1>0, <2>1 DEF LoopInv, LoopTypeOK, ThreadsHaveLoops
  <2>3. RunningIsOpen' BY <1>0, <2>1 DEF LoopInv, LoopTypeOK, RunningIsOpen
  <2>4. OpenAreTended'
    <3> SUFFICES ASSUME NEW l \in (1 .. loops) \ closed PROVE Tended(l)'
        BY <2>1 DEF OpenAreTended
    <3>1. PICK u \in Loop!Threads : thread[u].loop = l /\ thread[u].pc \in {"top", "running"}
      BY DEF LoopInv, OpenAreTended, Tended
    <3>2. thread'[u].loop = l /\ thread'[u].pc \in {"top", "running"}
      BY <1>0, <2>1, <3>1 DEF LoopTypeOK
    <3> QED BY <3>2 DEF Tended
  <2> QED BY <1>0, <1>R, <1>S, <2>1, <2>2, <2>3, <2>4 DEF LoopInv
<1>5. CASE Loop!release
  BY <1>0, <1>5, <1>T, <1>S, <1>R DEF LoopInv, Loop!release
<1>6. ASSUME NEW r \in Requests, Loop!submit_request(r) \/ Loop!close(r) PROVE LoopInv'
  <2>1. UNCHANGED <<loop, loops, closed, thread, session, open, contested>> /\
        \E pc \in {"submitted", "closing"} : \E s \in Nat : Loop!submit(r, pc, s)
    BY <1>0, <1>6 DEF LoopTypeOK, Loop!submit_request, Loop!close
  <2>2. PICK pc \in {"submitted", "closing"} : \E s \in Nat : Loop!submit(r, pc, s) BY <2>1
  <2>3. RequestsHaveLoops'
    BY <1>0, <2>1, <2>2 DEF LoopInv, LoopTypeOK, RequestsHaveLoops, Loop!submit
  <2>4. \A q \in Requests : \/ request'[q] = request[q]
                            \/ request[q].pc # "making" /\ request'[q].pc # "making"
    BY <1>0, <2>2 DEF LoopTypeOK, Loop!submit
  <2>5. SessionsInv' BY <1>0, <2>1, <2>4, SessionsLeft DEF LoopInv
  <2> QED BY <1>0, <1>T, <2>1, <2>3, <2>5 DEF LoopInv
<1>7. ASSUME NEW r \in Requests, Loop!async_http_request(r) PROVE LoopInv'
  <2>1. UNCHANGED <<loop, loops, closed, thread>> BY <1>7 DEF Loop!async_http_request
  <2>2. RequestsHaveLoops'
    BY <1>0, <1>7 DEF LoopInv, LoopTypeOK, RequestsHaveLoops, Loop!async_http_request, Loop!Making
  <2>3. SessionsInv' BY <1>0, <1>7, SessionsTested DEF LoopInv
  <2> QED BY <1>0, <1>T, <2>1, <2>2, <2>3 DEF LoopInv
<1>10. ASSUME NEW r \in Requests, Loop!get_session(r) PROVE LoopInv'
  <2>1. UNCHANGED <<loop, loops, closed, thread>> BY <1>10 DEF Loop!get_session
  <2>2. RequestsHaveLoops'
    BY <1>0, <1>10 DEF LoopInv, LoopTypeOK, RequestsHaveLoops, Loop!get_session
  <2>3. SessionsInv' BY <1>0, <1>10, SessionsMade DEF LoopInv
  <2> QED BY <1>0, <1>T, <2>1, <2>2, <2>3 DEF LoopInv
<1>8. ASSUME NEW r \in Requests, Loop!answered(r) \/ Loop!session_closed(r) PROVE LoopInv'
  <2>1. UNCHANGED <<loop, loops, closed, thread, session, contested>> /\ open' \in SUBSET open
        /\ request' = [request EXCEPT ![r].pc = "ended"] /\ request[r].pc # "making"
    BY <1>8 DEF Loop!answered, Loop!session_closed
  <2>2. RequestsHaveLoops'
    BY <1>0, <2>1 DEF LoopInv, LoopTypeOK, RequestsHaveLoops
  <2>3. \A q \in Requests : \/ request'[q] = request[q]
                            \/ request[q].pc # "making" /\ request'[q].pc # "making"
    BY <1>0, <2>1 DEF LoopTypeOK
  <2>4. SessionsInv' BY <1>0, <2>1, <2>3, SessionsLeft DEF LoopInv
  <2> QED BY <1>0, <1>T, <2>1, <2>2, <2>4 DEF LoopInv
<1>9. CASE UNCHANGED Loop!vars
  BY <1>0, <1>9, <1>T, <1>S, <1>R DEF LoopInv, Loop!vars
<1> QED BY <1>1, <1>2, <1>3, <1>4, <1>5, <1>6, <1>7, <1>8, <1>9, <1>10 DEF Loop!Next

(* The state after construction satisfies the invariant.                   *)
LEMMA LoopInvHolds == Loop!Init => LoopInv
<1> USE LoopAssumption
<1> SUFFICES ASSUME Loop!Init PROVE LoopInv OBVIOUS
<1>0. 1 \in Loop!Threads BY DEF Loop!Threads
<1>1. LoopTypeOK BY DEF Loop!Init, LoopTypeOK, ThreadPcs, RequestPcs, Loop!none
<1>2. ThreadsHaveLoops BY DEF Loop!Init, ThreadsHaveLoops
<1>3. RunningIsOpen BY DEF Loop!Init, RunningIsOpen
<1>4. OpenAreTended
  <2>1. thread[1] = [pc |-> "top", loop |-> 1] BY <1>0 DEF Loop!Init
  <2>2. Tended(1) BY <1>0, <2>1 DEF Tended
  <2> QED BY <2>2 DEF Loop!Init, OpenAreTended
<1>5. RequestsHaveLoops BY DEF Loop!Init, RequestsHaveLoops, Loop!none
<1>6. Loop!Making = {} BY DEF Loop!Init, Loop!Making, Loop!none
<1>7. SessionsInv
  BY <1>6 DEF SessionsInv, MakersApart, MakersAlone, MadeAreContested, OneLoopAlone,
              Loop!Init, Loop!OneSession
<1> QED BY <1>1, <1>2, <1>3, <1>4, <1>5, <1>7 DEF LoopInv

(* A tended loop runs what was submitted to it.                            *)
LEMMA LoopInvSuffices == LoopInv => Loop!AsyncBaseSound
BY DEF LoopInv, Loop!AsyncBaseSound, Loop!LoopsAreRun, OpenAreTended, Tended, RequestsHaveLoops,
       SessionsInv

-----------------------------------------------------------------------------
(* HttpFeed: requests with their attempts, and the clients they share.     *)

(* How a request can end, what its attempts can get, and the records of    *)
(* the calls.                                                              *)
Results == {"none", "data", "RequestError", "RequestTimeoutError", "RequestFailedError",
            "UnifiedRateLimitError", "UnifiedAuthError", "ServerError", "RuntimeError",
            "AttributeError"}
AllReplies == Feed!Replies \cup {"closed"}
Calls == [pc : {"idle", "wait", "closed", "backoff", "done"}, replies : Seq(AllReplies),
          result : Results]

(* Clients are numbered as they are made.                                  *)
ClientsTyped ==
    /\ made \in Nat /\ async_open \in SUBSET (1 .. made)
    /\ closer \in [pc : {"idle", "read", "close"}, client : Nat]
    /\ async_client \in Nat

(* Every answer so far was one after which another attempt is made.        *)
NoneEnds(replies) == \A m \in 1 .. Len(replies) : ~Feed!Ends(replies[m])

(* What the call ends with after a last answer.                            *)
ResultOf(reply) == IF Feed!terminal(reply) THEN "RequestError" ELSE Feed!last_failure(reply)

(* A call that has ended did so with the answer of its last attempt, which *)
(* was the first to end it or the last allowed.                            *)
DoneRight(r) ==
    LET n == Len(r.replies)
    IN  /\ n \in 1 .. max_retries
        /\ \A m \in 1 .. (n - 1) : ~Feed!Ends(r.replies[m])
        /\ Feed!Ends(r.replies[n]) \/ n = max_retries
        /\ r.result = ResultOf(r.replies[n])

(* A call that is under way has attempts left, and none of its answers     *)
(* ended it.                                                               *)
CallRight(r) ==
    /\ r \in Calls
    /\ r.pc = "idle" => r.replies = << >>
    /\ r.pc \in {"wait", "closed", "backoff"} => Len(r.replies) < max_retries /\ NoneEnds(r.replies)
    /\ r.pc = "done" => IF max_retries > 0 THEN DoneRight(r) ELSE r.replies = << >>

(* The event loop makes one client at a time, and only when it found none  *)
(* that is open: no open client is put aside for a new one.                *)
TasksShareTheLoop ==
    /\ async_call \in [AsyncCallers -> {"none", "make", "return", "await"}]
    /\ \A a, b \in AsyncCallers :
          async_call[a] \in {"make", "return"} /\ async_call[b] \in {"make", "return"} => a = b
    /\ \A a \in AsyncCallers : async_call[a] = "make" => async_client \notin async_open

(* What is known of the async clients.                                     *)
ClientsInv == ClientsTyped /\ TasksShareTheLoop /\ Feed!OthersAreClosed

(* The inductive invariant of HttpFeed.                                    *)
FeedInv ==
    /\ ClientsInv
    /\ call \in [Callers -> Calls]
    /\ \A c \in Callers : CallRight(call[c])

(* The heart of http_request: whatever an attempt gets, the call goes on   *)
(* with attempts left, or ends with that answer.                           *)
LEMMA AttemptEnds ==
    ASSUME NEW r \in Calls, NEW reply \in AllReplies,
           r.pc \in {"wait", "closed"}, CallRight(r)
    PROVE  CallRight(Feed!attempt_ended([r EXCEPT !.replies = Append(@, reply)]))
<1> USE FeedAssumption
<1> DEFINE s == Append(r.replies, reply)
           n == Len(r.replies)
<1>1. /\ s \in Seq(AllReplies) /\ Len(s) = n + 1 /\ s[n + 1] = reply
      /\ \A m \in 1 .. n : s[m] = r.replies[m]
  BY AppendProperties DEF Calls
<1>2. n \in Nat /\ n < max_retries /\ \A m \in 1 .. n : ~Feed!Ends(r.replies[m])
  BY DEF CallRight, Calls, NoneEnds
<1>3. \A m \in 1 .. n : ~Feed!Ends(s[m]) BY <1>1, <1>2
<1>4. [r EXCEPT !.replies = Append(@, reply)] = [pc |-> r.pc, replies |-> s, result |-> r.result]
  BY DEF Calls
<1> DEFINE q == [pc |-> r.pc, replies |-> s, result |-> r.result]
<1>5. q.replies = s /\ q.pc = r.pc /\ q.result = r.result OBVIOUS
<1>6. r.result \in Results BY DEF Calls
<1>7. /\ Feed!last_failure(reply) \in Results
      /\ Feed!_process_response(reply) = "data" => Feed!last_failure(reply) = "data"
  BY DEF AllReplies, Feed!Replies, Feed!last_failure, Feed!handle_timeout_exception,
         Feed!handle_request_exception,
         Feed!_process_response, Results, Feed!terminal
<1>8. PICK p \in Calls : /\ p = Feed!attempt_ended(q)
                         /\ p.replies = s
                         /\ \/ p.pc = "done" /\ p.result = "data" /\ Feed!_process_response(reply) = "data"
                            \/ p.pc = "done" /\ p.result = "RequestError" /\ Feed!terminal(reply)
                            \/ p.pc = "backoff" /\ n + 1 < max_retries /\ ~Feed!Ends(reply)
                            \/ p.pc = "done" /\ p.result = Feed!last_failure(reply) /\ ~(n + 1 < max_retries)
                               /\ ~Feed!Ends(reply)
  <2> HIDE DEF s, n
  <2>1. CASE Feed!_process_response(reply) = "data"
    <3>1. Feed!attempt_ended(q) = [pc |-> "done", replies |-> s, result |-> "data"]
      BY <1>1, <2>1 DEF Feed!attempt_ended
    <3> QED BY <1>1, <2>1, <3>1 DEF Calls, Results
  <2>2. CASE Feed!_process_response(reply) # "data" /\ Feed!terminal(reply)
    <3>1. Feed!attempt_ended(q) = [pc |-> "done", replies |-> s, result |-> "RequestError"]
      BY <1>1, <2>2 DEF Feed!attempt_ended
    <3> QED BY <1>1, <2>2, <3>1 DEF Calls, Results
  <2>3. CASE Feed!_process_response(reply) # "data" /\ ~Feed!terminal(reply) /\ n + 1 < max_retries
    <3>1. Feed!attempt_ended(q) = [pc |-> "backoff", replies |-> s, result |-> r.result]
      BY <1>1, <2>3 DEF Feed!attempt_ended
    <3>2. ~Feed!Ends(reply) BY <2>3 DEF Feed!Ends
    <3> QED BY <1>1, <1>6, <2>3, <3>1, <3>2 DEF Calls
  <2>4. CASE Feed!_process_response(reply) # "data" /\ ~Feed!terminal(reply) /\ ~(n + 1 < max_retries)
    <3>1. Feed!attempt_ended(q) = [pc |-> "done", replies |-> s, result |-> Feed!last_failure(reply)]
      BY <1>1, <2>4 DEF Feed!attempt_ended
    <3>2. ~Feed!Ends(reply) BY <2>4 DEF Feed!Ends
    <3> QED BY <1>1, <1>7, <2>4, <3>1, <3>2 DEF Calls
  <2> QED BY <2>1, <2>2, <2>3, <2>4
<1> SUFFICES CallRight(p) BY <1>4, <1>8 DEF q
<1> HIDE DEF q, s, n
<1>9. CASE p.pc = "backoff"
  <2>1. n + 1 < max_retries /\ ~Feed!Ends(reply) BY <1>8, <1>9
  <2>2. NoneEnds(p.replies)
    <3> SUFFICES ASSUME NEW m \in 1 .. n + 1 PROVE ~Feed!Ends(s[m]) BY <1>1, <1>8 DEF NoneEnds
    <3>1. CASE m = n + 1 BY <1>1, <2>1, <3>1
    <3>2. CASE m # n + 1
      <4>1. m \in 1 .. n BY <1>2, <3>2
      <4> QED BY <1>3, <4>1
    <3> QED BY <3>1, <3>2
  <2>3. p \in Calls /\ p.pc = "backoff" /\ Len(p.replies) < max_retries
    BY <1>1, <1>8, <1>9, <2>1
  <2> QED BY <2>2, <2>3 DEF CallRight
<1>10. CASE p.pc = "done"
  <2>1. p.result = ResultOf(reply)
    BY <1>7, <1>8, <1>10 DEF ResultOf, Feed!Ends, Feed!_process_response, Feed!last_failure,
                  Feed!terminal, Feed!handle_timeout_exception, Feed!handle_request_exception
  <2>2. Feed!Ends(reply) \/ n + 1 = max_retries BY <1>2, <1>8, <1>10 DEF Feed!Ends
  <2>3. n + 1 \in 1 .. max_retries /\ (n + 1) - 1 = n BY <1>2
  <2>4. DoneRight(p) BY <1>1, <1>3, <1>8, <2>1, <2>2, <2>3 DEF DoneRight
  <2>5. max_retries > 0 BY <1>2
  <2>6. p \in Calls BY <1>8
  <2> QED BY <1>10, <2>4, <2>5, <2>6 DEF CallRight
<1> QED BY <1>8, <1>9, <1>10

(* Every step of a call and of a client keeps the invariant.               *)
LEMMA FeedInvKept == FeedInv /\ [Feed!Next]_Feed!vars => FeedInv'
<1> USE FeedAssumption
<1> SUFFICES ASSUME FeedInv, [Feed!Next]_Feed!vars PROVE FeedInv'
    OBVIOUS
<1>C. ASSUME UNCHANGED call
      PROVE  call' \in [Callers -> Calls] /\ \A c \in Callers : CallRight(call[c])'
  BY <1>C DEF FeedInv, CallRight, DoneRight, NoneEnds, Calls
<1>O. ASSUME UNCHANGED <<made, async_open, async_client, closing, closer, orphaned, async_call>>
      PROVE  ClientsInv'
  BY <1>O DEF FeedInv, ClientsInv, ClientsTyped, TasksShareTheLoop, Feed!OthersAreClosed
<1>K. ASSUME UNCHANGED <<made, async_call>>, async_open' \in SUBSET async_open,
             async_client' \in {0, async_client}, Feed!OthersAreClosed',
             closer' \in [pc : {"idle", "read", "close"}, client : Nat]
      PROVE  ClientsInv'
  <2>1. 0 \notin async_open BY DEF FeedInv, ClientsInv, ClientsTyped
  <2> QED BY <1>K, <2>1 DEF FeedInv, ClientsInv, ClientsTyped, TasksShareTheLoop
<1>W. /\ closer \in [pc : {"idle", "read", "close"}, client : Nat]
      /\ async_client \in Nat
  BY DEF FeedInv, ClientsInv, ClientsTyped
<1>S. ASSUME NEW c \in Callers, NEW r, CallRight(r), call' = [call EXCEPT ![c] = r]
      PROVE  call' \in [Callers -> Calls] /\ \A d \in Callers : CallRight(call[d])'
  <2>1. r \in Calls BY <1>S DEF CallRight
  <2>2. call' \in [Callers -> Calls] BY <1>S, <2>1 DEF FeedInv
  <2>3. ASSUME NEW d \in Callers PROVE CallRight(call'[d])
    <3>1. call'[d] = r \/ call'[d] = call[d] BY <1>S DEF FeedInv
    <3> QED BY <1>S, <3>1 DEF FeedInv
  <2>4. ASSUME NEW d \in Callers PROVE CallRight(call[d])'
    BY <2>3 DEF CallRight, DoneRight, NoneEnds, Calls
  <2> QED BY <2>2, <2>4
<1>1. ASSUME NEW c \in Callers, Feed!http_request(c) PROVE FeedInv'
  <2>1. PICK pc \in {"wait", "closed", "done"} :
           /\ pc = "done" <=> ~(max_retries > 0)
           /\ call' = [call EXCEPT ![c] = [pc |-> pc, replies |-> << >>, result |-> "none"]]
    <3> DEFINE pc == IF max_retries > 0 THEN Feed!attempt ELSE "done"
    <3>1. [Feed!idle EXCEPT !.pc = pc] = [pc |-> pc, replies |-> << >>, result |-> "none"]
      BY DEF Feed!idle
    <3>2. call' = [call EXCEPT ![c] = [pc |-> pc, replies |-> << >>, result |-> "none"]]
      BY <1>1, <3>1 DEF Feed!http_request
    <3>3. pc \in {"wait", "closed", "done"} /\ (pc = "done" <=> ~(max_retries > 0)) BY DEF Feed!attempt
    <3> HIDE DEF pc
    <3> QED BY <3>2, <3>3
  <2>2. CallRight([pc |-> pc, replies |-> << >>, result |-> "none"])
    <3> DEFINE r == [pc |-> pc, replies |-> << >>, result |-> "none"]
    <3>1. r \in Calls /\ r.pc = pc /\ r.replies = << >> BY DEF Calls, Results
    <3>2. Len(<< >>) = 0 /\ NoneEnds(<< >>) BY DEF NoneEnds
    <3> HIDE DEF r
    <3>3. CallRight(r) BY <2>1, <3>1, <3>2 DEF CallRight
    <3> QED BY <3>3 DEF r
  <2>3. UNCHANGED <<made, async_open, async_client, closing, closer, orphaned, async_call>>
    BY <1>1 DEF Feed!http_request, Feed!clients
  <2> QED BY <1>O, <1>S, <2>1, <2>2, <2>3 DEF FeedInv
<1>2. ASSUME NEW c \in Callers, Feed!replied(c) PROVE FeedInv'
  <2>1. PICK reply \in AllReplies :
           call' = [call EXCEPT ![c] = Feed!attempt_ended([call[c] EXCEPT !.replies = Append(@, reply)])]
    BY <1>2 DEF Feed!replied, AllReplies
  <2>2. call[c] \in Calls /\ CallRight(call[c]) /\ call[c].pc \in {"wait", "closed"}
    BY <1>2 DEF FeedInv, Feed!replied
  <2>3. CallRight(Feed!attempt_ended([call[c] EXCEPT !.replies = Append(@, reply)]))
    BY <2>2, AttemptEnds
  <2>4. UNCHANGED <<made, async_open, async_client, closing, closer, orphaned, async_call>>
    BY <1>2 DEF Feed!replied, Feed!clients
  <2> DEFINE r == Feed!attempt_ended([call[c] EXCEPT !.replies = Append(@, reply)])
  <2>5. call' = [call EXCEPT ![c] = r] BY <2>1, Zenon DEF FeedInv
  <2>6. CallRight(r) BY <2>3
  <2> HIDE DEF r
  <2> QED BY <1>O, <1>S, <2>4, <2>5, <2>6 DEF FeedInv
<1>3. ASSUME NEW c \in Callers, Feed!_retry_backoff(c) PROVE FeedInv'
  <2>1. call[c] \in Calls /\ CallRight(call[c]) /\ call[c].pc = "backoff"
    BY <1>3 DEF FeedInv, Feed!_retry_backoff
  <2>2. PICK pc \in {"wait", "closed"} : call' = [call EXCEPT ![c].pc = pc]
    BY <1>3 DEF Feed!_retry_backoff, Feed!attempt
  <2>3. CallRight([call[c] EXCEPT !.pc = pc]) BY <2>1 DEF CallRight, Calls
  <2>4. UNCHANGED <<made, async_open, async_client, closing, closer, orphaned, async_call>>
    BY <1>3 DEF Feed!_retry_backoff, Feed!clients
  <2> QED BY <1>O, <1>S, <2>2, <2>3, <2>4 DEF FeedInv
<1>4. ASSUME NEW a \in AsyncCallers, Feed!async_request(a) PROVE FeedInv'
  <2>1. UNCHANGED call /\ UNCHANGED <<made, async_open, async_client, closing, closer, orphaned>>
    BY <1>4 DEF Feed!async_request, Feed!clients
  <2>2. PICK pc \in {"make", "return"} :
           /\ async_call' = [async_call EXCEPT ![a] = pc]
           /\ pc = "make" => async_client \notin async_open
    <3>1. 0 \notin async_open BY DEF FeedInv, ClientsInv, ClientsTyped
    <3> QED BY <1>4, <3>1 DEF Feed!async_request
  <2>3. TasksShareTheLoop'
    BY <1>4, <2>1, <2>2 DEF FeedInv, ClientsInv, TasksShareTheLoop, Feed!async_request, Feed!InLoop
  <2>4. ClientsTyped' /\ Feed!OthersAreClosed'
    BY <2>1 DEF FeedInv, ClientsInv, ClientsTyped, Feed!OthersAreClosed
  <2> QED BY <1>C, <2>1, <2>3, <2>4 DEF FeedInv, ClientsInv
<1>11. ASSUME NEW a \in AsyncCallers, Feed!_get_async_client(a) PROVE FeedInv'
  <2>1. /\ UNCHANGED <<call, closing, closer, orphaned>>
        /\ made' = made + 1 /\ async_client' = made + 1
        /\ async_open' = async_open \cup {made + 1}
        /\ async_call[a] = "make" /\ async_call' = [async_call EXCEPT ![a] = "return"]
    BY <1>11 DEF Feed!_get_async_client
  <2>2. ClientsTyped'
    <3>1. /\ made \in Nat /\ async_open \in SUBSET (1 .. made)
          /\ closer \in [pc : {"idle", "read", "close"}, client : Nat]
      BY DEF FeedInv, ClientsInv, ClientsTyped
    <3>2. made' \in Nat /\ 1 .. made \subseteq 1 .. made' /\ made + 1 \in 1 .. made'
      BY <2>1, <3>1
    <3> QED BY <2>1, <3>1, <3>2 DEF ClientsTyped
  <2>3. TasksShareTheLoop' BY <2>1 DEF FeedInv, ClientsInv, TasksShareTheLoop
  <2>4. async_client \notin async_open BY <2>1 DEF FeedInv, ClientsInv, TasksShareTheLoop
  <2>5. Feed!OthersAreClosed' BY <2>1, <2>4 DEF FeedInv, ClientsInv, Feed!OthersAreClosed
  <2> QED BY <1>C, <2>1, <2>2, <2>3, <2>5 DEF FeedInv, ClientsInv
<1>5. ASSUME NEW a \in AsyncCallers, Feed!async_sent(a) \/ Feed!async_replied(a) PROVE FeedInv'
  <2>1. UNCHANGED call /\ UNCHANGED <<made, async_open, async_client, closing, closer, orphaned>>
    BY <1>5 DEF Feed!async_sent, Feed!async_replied, Feed!clients
  <2>2. PICK pc \in {"none", "await"} : async_call' = [async_call EXCEPT ![a] = pc]
    BY <1>5 DEF Feed!async_sent, Feed!async_replied
  <2>3. TasksShareTheLoop' BY <2>1, <2>2 DEF FeedInv, ClientsInv, TasksShareTheLoop
  <2>4. ClientsTyped' /\ Feed!OthersAreClosed'
    BY <2>1 DEF FeedInv, ClientsInv, ClientsTyped, Feed!OthersAreClosed
  <2> QED BY <1>C, <2>1, <2>3, <2>4 DEF FeedInv, ClientsInv
<1>6. CASE Feed!connect BY <1>C, <1>O, <1>6 DEF FeedInv, Feed!connect
<1>7. CASE Feed!disconnect
  <2>1. /\ async_client' = 0 /\ closing' = closing \cup ({async_client} \cap async_open)
        /\ UNCHANGED <<call, made, async_open, closer, orphaned, async_call>>
    BY <1>7 DEF Feed!disconnect, Feed!_close_async_client
  <2>2. Feed!OthersAreClosed' BY <2>1 DEF FeedInv, ClientsInv, Feed!OthersAreClosed
  <2>3. ClientsInv' BY <1>K, <1>W, <2>1, <2>2
  <2> QED BY <1>C, <2>1, <2>3 DEF FeedInv
<1>8. CASE Feed!aclose
  <2>1. /\ async_open' = async_open \ {async_client}
        /\ UNCHANGED <<call, made, async_client, closing, closer, orphaned, async_call>>
    BY <1>8 DEF Feed!aclose
  <2>2. Feed!OthersAreClosed' BY <2>1 DEF FeedInv, ClientsInv, Feed!OthersAreClosed
  <2>3. ClientsInv' BY <1>K, <1>W, <2>1, <2>2
  <2> QED BY <1>C, <2>1, <2>3 DEF FeedInv
<1>9. CASE Feed!async_closed
  <2>1. PICK x \in closing : closing' = closing \ {x} /\ async_open' = async_open \ {x}
    BY <1>9 DEF Feed!async_closed
  <2>2. UNCHANGED <<call, made, async_client, closer, orphaned, async_call>>
    BY <1>9 DEF Feed!async_closed
  <2>3. Feed!OthersAreClosed' BY <2>1, <2>2 DEF FeedInv, ClientsInv, Feed!OthersAreClosed
  <2>4. ClientsInv' BY <1>K, <1>W, <2>1, <2>2, <2>3
  <2> QED BY <1>C, <2>2, <2>4 DEF FeedInv
<1>12. CASE Feed!close_reads
  <2>1. /\ closer.pc = "idle" /\ closer' = [pc |-> "read", client |-> async_client]
        /\ UNCHANGED <<call, made, async_open, async_client, closing, orphaned, async_call>>
    BY <1>12 DEF Feed!close_reads
  <2>2. Feed!OthersAreClosed' BY <2>1 DEF FeedInv, ClientsInv, Feed!OthersAreClosed
  <2>3. ClientsInv' BY <1>K, <1>W, <2>1, <2>2
  <2> QED BY <1>C, <2>1, <2>3 DEF FeedInv
<1>13. CASE Feed!close_clears
  <2>1. /\ closer.pc = "read" /\ closer' = [closer EXCEPT !.pc = "close"]
        /\ async_client' = 0
        /\ orphaned' = orphaned \cup (({async_client} \cap async_open) \ {closer.client})
        /\ UNCHANGED <<call, made, async_open, closing, async_call>>
    BY <1>13 DEF Feed!close_clears
  <2>2. closer'.pc = "close" /\ closer'.client = closer.client
    BY <2>1 DEF FeedInv, ClientsInv, ClientsTyped
  <2>3. Feed!OthersAreClosed' BY <2>1, <2>2 DEF FeedInv, ClientsInv, Feed!OthersAreClosed
  <2>4. ClientsInv' BY <1>K, <1>W, <2>1, <2>3
  <2> QED BY <1>C, <2>1, <2>4 DEF FeedInv
<1>14. CASE Feed!close_ends
  <2>1. /\ closer.pc = "close" /\ async_open' = async_open \ {closer.client}
        /\ UNCHANGED <<call, made, async_client, closing, orphaned, async_call>>
    BY <1>14 DEF Feed!close_ends
  <2>2. Feed!OthersAreClosed' BY <2>1 DEF FeedInv, ClientsInv, Feed!OthersAreClosed
  <2>3. closer' = [pc |-> "idle", client |-> 0] BY <1>14 DEF Feed!close_ends
  <2>4. ClientsInv' BY <1>K, <2>1, <2>2, <2>3
  <2> QED BY <1>C, <2>1, <2>4 DEF FeedInv
<1>10. CASE UNCHANGED Feed!vars BY <1>C, <1>O, <1>10 DEF FeedInv, Feed!vars, Feed!clients
<1> QED BY <1>1, <1>2, <1>3, <1>4, <1>5, <1>6, <1>7, <1>8, <1>9, <1>10, <1>11, <1>12, <1>13, <1>14
       DEF Feed!Next

(* No call and no client at first.                                         *)
LEMMA FeedInvHolds == Feed!Init => FeedInv
<1> SUFFICES ASSUME Feed!Init PROVE FeedInv OBVIOUS
<1>1. ClientsInv
  BY DEF Feed!Init, ClientsInv, ClientsTyped, TasksShareTheLoop, Feed!OthersAreClosed
<1>2. Feed!idle \in Calls /\ CallRight(Feed!idle) BY DEF Feed!idle, Calls, CallRight, Results
<1>3. call = [c \in Callers |-> Feed!idle] BY DEF Feed!Init
<1> QED BY <1>1, <1>2, <1>3 DEF FeedInv

(* The run's property is the part of the invariant on calls that ended and *)
(* on clients.                                                             *)
LEMMA FeedInvSuffices == FeedInv => Feed!RequestsEndRight
<1> SUFFICES ASSUME FeedInv PROVE Feed!RequestsEndRight OBVIOUS
<1>1. ASSUME NEW c \in Callers
      PROVE  /\ Len(call[c].replies) <= max_retries
             /\ \A m \in 1 .. (Len(call[c].replies) - 1) : ~Feed!Ends(call[c].replies[m])
             /\ call[c].pc = "done" /\ max_retries > 0 =>
                  /\ Feed!Ends(call[c].replies[Len(call[c].replies)]) \/ Len(call[c].replies) = max_retries
                  /\ call[c].result = ResultOf(call[c].replies[Len(call[c].replies)])
  <2>1. CallRight(call[c]) /\ call[c] \in Calls BY DEF FeedInv
  <2>2. Len(call[c].replies) \in Nat BY <2>1 DEF Calls
  <2>3. call[c].replies = << >> => Len(call[c].replies) = 0 OBVIOUS
  <2>4. CASE call[c].pc = "done" /\ max_retries > 0
    BY <2>1, <2>4, FeedAssumption DEF CallRight, DoneRight
  <2>5. CASE call[c].pc \in {"wait", "closed", "backoff"}
    BY <2>1, <2>2, <2>5, FeedAssumption DEF CallRight, NoneEnds
  <2>6. CASE call[c].replies = << >> /\ ~(call[c].pc = "done" /\ max_retries > 0)
    BY <2>2, <2>3, <2>6, FeedAssumption
  <2> QED BY <2>1, <2>4, <2>5, <2>6 DEF CallRight, Calls
<1>2. Feed!OthersAreClosed BY DEF FeedInv, ClientsInv
<1> QED BY <1>1, <1>2 DEF Feed!RequestsEndRight, Feed!RequestsAreTried, ResultOf

-----------------------------------------------------------------------------
(* AdapterLookup: threads that look for the adapter class of a gateway     *)
(* while plugins are loaded, by the remote runtime all at once and by the  *)
(* standalone one one by one.                                              *)

(* Whom a class can belong to, and the records of the threads.             *)
Owners == Modules \cup {UserProgram, Vacant}
LookupPcs == {"idle", "own", "ensure", "lock", "load", "get", "register", "application"}
Jobs == [pc : LookupPcs, type : Types, todo : Seq(Types), plugins : SUBSET Modules]

(* The part of the invariant that gives the variables their types.         *)
LookupTypeOK ==
    /\ ADAPTER_REGISTRY \in [Types -> Owners]
    /\ _adapters \in [Types -> Owners]
    /\ thread \in [Seekers -> Jobs]
    /\ found \in [Types -> SUBSET Owners]
    /\ registered \in SUBSET Types

(* The types a thread's plugin has still to register.                      *)
Todo(k) == {thread[k].todo[n] : n \in DOMAIN thread[k].todo}
(* Some thread is about to register the type.                              *)
Coming(t) == \E k \in Seekers : t \in Todo(k)
(* The type has a class, or is about to have one.                          *)
Supplied(t) == _adapters[t] # Vacant \/ Coming(t)

(* A class found for a type belongs to a plugin that has it or to the      *)
(* application.                                                            *)
OwnersProvide ==
    \A t \in Types :
        /\ _adapters[t] \in Modules => t \in Lookup!TypesOf(_adapters[t])
        /\ _adapters[t] = UserProgram => t \in registered

(* What the registry of the remote runtime says, and what was found so     *)
(* far, is what the registrar says, but for types of the application.      *)
FoundAgree ==
    \A t \in Types \ registered :
        /\ ADAPTER_REGISTRY[t] \in {Vacant, _adapters[t]}
        /\ found[t] \subseteq {_adapters[t]} \ {Vacant}

(* What a thread relies on between two of its steps.                       *)
JobRight(k) ==
    /\ thread[k].pc = "own" => ADAPTER_REGISTRY[thread[k].type] # Vacant
    /\ thread[k].pc = "get" => _plugins_loaded
    /\ thread[k].pc = "load" => _plugin_loader_lock = k /\ ~_plugins_loaded
    /\ thread[k].pc = "application" => thread[k].type \in registered
    /\ thread[k].pc # "register" => thread[k].todo = << >>

(* A plugin that is being registered is the one of the type asked for, and *)
(* each of its types has a class already or is among those to come.        *)
TodoRight(k) ==
    thread[k].todo # << >> =>
        /\ thread[k].type \in DOMAIN module_names
        /\ Todo(k) \subseteq Lookup!TypesOf(module_names[thread[k].type])
        /\ \A t \in Lookup!TypesOf(module_names[thread[k].type]) : _adapters[t] # Vacant \/ t \in Todo(k)

(* If one type of a plugin has its class, all others have one or are about *)
(* to.                                                                     *)
StartedAreSupplied ==
    \A t \in Types : _adapters[t] \in Modules => \A u \in Lookup!TypesOf(_adapters[t]) : Supplied(u)

(* Each type of the plugin has a class, unless the application took one of *)
(* them.                                                                   *)
PluginSupplied(p) == Lookup!TypesOf(p) \cap registered = {} => \A u \in Lookup!TypesOf(p) : Supplied(u)

(* Once the plugins are loaded each has supplied its types; before, the    *)
(* thread that loads still has the others before it.                       *)
LoadedAreSupplied ==
    \A p \in Modules :
        \/ PluginSupplied(p)
        \/ ~_plugins_loaded /\ \A k \in Seekers : thread[k].pc = "load" => p \in thread[k].plugins

(* The inductive invariant of AdapterLookup.                               *)
LookupInv ==
    /\ LookupTypeOK /\ OwnersProvide /\ FoundAgree
    /\ \A k \in Seekers : JobRight(k) /\ TodoRight(k)
    /\ StartedAreSupplied /\ LoadedAreSupplied /\ ~denied

-----------------------------------------------------------------------------
(* What plugins provide are types.                                         *)
LEMMA TypesOfPlugins == \A p \in Modules : Lookup!TypesOf(p) \subseteq Types
BY LookupAssumption DEF Lookup!TypesOf

(* The elements of a sequence are its head and the elements of its tail.   *)
LEMMA TailOfTodo ==
    ASSUME NEW S, NEW s \in Seq(S), s # << >>
    PROVE  /\ Head(s) \in S /\ Tail(s) \in Seq(S)
           /\ Head(s) \in {s[n] : n \in DOMAIN s}
           /\ {s[n] : n \in DOMAIN s} =
                {Head(s)} \cup {Tail(s)[n] : n \in DOMAIN Tail(s)}
<1>1. /\ Head(s) \in S /\ Tail(s) \in Seq(S) /\ Len(Tail(s)) = Len(s) - 1
      /\ \A i \in 1 .. Len(Tail(s)) : Tail(s)[i] = s[i + 1]
  BY HeadTailProperties
<1>2. Len(s) \in Nat /\ Len(s) > 0 /\ DOMAIN s = 1 .. Len(s) /\ DOMAIN Tail(s) = 1 .. Len(Tail(s))
  BY <1>1, EmptySeq, LenProperties
<1>3. Head(s) = s[1] OBVIOUS
<1>4. ASSUME NEW n \in DOMAIN s, n # 1
      PROVE  n - 1 \in DOMAIN Tail(s) /\ Tail(s)[n - 1] = s[n]
  <2>1. n - 1 \in 1 .. Len(Tail(s)) /\ (n - 1) + 1 = n BY <1>1, <1>2, <1>4
  <2> QED BY <1>1, <1>2, <2>1
<1>5. ASSUME NEW n \in DOMAIN Tail(s)
      PROVE  n + 1 \in DOMAIN s /\ Tail(s)[n] = s[n + 1]
  BY <1>1, <1>2, <1>5
<1>6. 1 \in DOMAIN s BY <1>2
<1>7. ASSUME NEW x \in {s[n] : n \in DOMAIN s}
      PROVE  x \in {Head(s)} \cup {Tail(s)[n] : n \in DOMAIN Tail(s)}
  <2>1. PICK n \in DOMAIN s : x = s[n] BY <1>7
  <2>2. CASE n = 1 BY <1>3, <2>1, <2>2
  <2>3. CASE n # 1 BY <1>4, <2>1, <2>3
  <2> QED BY <2>2, <2>3
<1>8. ASSUME NEW x \in {Tail(s)[n] : n \in DOMAIN Tail(s)} PROVE x \in {s[n] : n \in DOMAIN s}
  BY <1>5, <1>8
<1>9. Head(s) \in {s[n] : n \in DOMAIN s} BY <1>3, <1>6
<1> QED BY <1>1, <1>7, <1>8, <1>9

(* The elements of a sequence over S are in S.                             *)
LEMMA ElementsOfSeq == ASSUME NEW S, NEW s \in Seq(S) PROVE {s[n] : n \in DOMAIN s} \subseteq S
OBVIOUS

(* Every step of a thread keeps the types.                                 *)
LEMMA LookupTypeKept == LookupInv /\ [Lookup!Next]_Lookup!vars => LookupTypeOK'
<1> USE LookupAssumption
<1> SUFFICES ASSUME LookupInv, [Lookup!Next]_Lookup!vars PROVE LookupTypeOK'
    OBVIOUS
<1>0. LookupTypeOK BY DEF LookupInv
<1>I. ASSUME NEW type \in Types, NEW pc \in LookupPcs, NEW left \in Seq(Types)
      PROVE  Lookup!job(pc, type, left) \in Jobs
  BY DEF Jobs, Lookup!job
<1>N. << >> \in Seq(Types) OBVIOUS
<1>E. ASSUME NEW k \in Seekers, NEW class \in Owners, Lookup!ends(k, class)
      PROVE  /\ thread' \in [Seekers -> Jobs] /\ found' \in [Types -> SUBSET Owners]
             /\ registered' = registered
  <2>1. Lookup!idle \in Jobs BY <1>I, <1>N DEF Lookup!idle, LookupPcs
  <2> QED BY <1>0, <1>E, <2>1 DEF Lookup!ends, LookupTypeOK
<1>J. ASSUME NEW k \in Seekers, NEW j \in Jobs, thread' = [thread EXCEPT ![k] = j]
      PROVE  thread' \in [Seekers -> Jobs]
  BY <1>0, <1>J DEF LookupTypeOK
<1>K. ASSUME NEW k \in Seekers
      PROVE  /\ thread[k] \in Jobs
             /\ \A pc \in LookupPcs : [thread[k] EXCEPT !.pc = pc] \in Jobs
             /\ \A left \in Seq(Types) : [thread[k] EXCEPT !.todo = left] \in Jobs
             /\ \A ps \in SUBSET Modules : [thread[k] EXCEPT !.plugins = ps] \in Jobs
             /\ \A pc \in LookupPcs, ps \in SUBSET Modules :
                   [thread[k] EXCEPT !.pc = pc, !.plugins = ps] \in Jobs
  <2>1. thread[k] \in Jobs BY <1>0 DEF LookupTypeOK
  <2>2. \A pc \in LookupPcs : [thread[k] EXCEPT !.pc = pc] \in Jobs BY <2>1 DEF Jobs
  <2>3. \A left \in Seq(Types) : [thread[k] EXCEPT !.todo = left] \in Jobs BY <2>1 DEF Jobs
  <2>4. \A ps \in SUBSET Modules : [thread[k] EXCEPT !.plugins = ps] \in Jobs BY <2>1 DEF Jobs
  <2>5. \A pc \in LookupPcs, ps \in SUBSET Modules :
           [thread[k] EXCEPT !.pc = pc, !.plugins = ps] \in Jobs BY <2>1 DEF Jobs
  <2> QED BY <2>1, <2>2, <2>3, <2>4, <2>5
<1>1. ASSUME NEW k \in Seekers, NEW type \in Types, Lookup!get_adapter_class(k, type) PROVE LookupTypeOK'
  <2>1. PICK pc \in LookupPcs : thread' = [thread EXCEPT ![k] = Lookup!job(pc, type, << >>)]
    BY <1>1 DEF Lookup!get_adapter_class, LookupPcs
  <2>2. Lookup!job(pc, type, << >>) \in Jobs BY <1>I, <1>N
  <2>3. UNCHANGED <<Lookup!shared, Lookup!history>> BY <1>1 DEF Lookup!get_adapter_class
  <2> QED BY <1>0, <1>J, <2>1, <2>2, <2>3 DEF LookupTypeOK, Lookup!shared, Lookup!history
<1>2. ASSUME NEW k \in Seekers, NEW type \in Types, Lookup!_resolve_adapter(k, type) PROVE LookupTypeOK'
  <2>1. PICK left \in Seq(Types) : thread' = [thread EXCEPT ![k] = Lookup!job("register", type, left)]
    <3>1. type \in DOMAIN module_names => Provides[module_names[type]] \in Seq(Types) OBVIOUS
    <3> QED BY <1>2, <1>N, <3>1 DEF Lookup!_resolve_adapter
  <2>2. Lookup!job("register", type, left) \in Jobs BY <1>I DEF LookupPcs
  <2>3. UNCHANGED <<Lookup!shared, Lookup!history>> BY <1>2 DEF Lookup!_resolve_adapter
  <2> QED BY <1>0, <1>J, <2>1, <2>2, <2>3 DEF LookupTypeOK, Lookup!shared, Lookup!history
<1>3. ASSUME NEW k \in Seekers, NEW type \in Types, Lookup!application(k, type) PROVE LookupTypeOK'
  <2>1. Lookup!job("application", type, << >>) \in Jobs BY <1>I, <1>N DEF LookupPcs
  <2> QED BY <1>0, <1>3, <1>J, <2>1 DEF LookupTypeOK, Lookup!application, Owners
<1>4. ASSUME NEW k \in Seekers, Lookup!own(k) PROVE LookupTypeOK'
  BY <1>0, <1>4, <1>E DEF LookupTypeOK, Lookup!own, Lookup!shared, Jobs
<1>5. ASSUME NEW k \in Seekers, Lookup!_ensure_plugins_loaded(k) PROVE LookupTypeOK'
  <2>1. thread' \in [Seekers -> Jobs]
    <3>1. \/ \E pc \in {"get", "lock"} : thread' = [thread EXCEPT ![k].pc = pc]
          \/ thread' = [thread EXCEPT ![k].pc = "load", ![k].plugins = Modules]
      BY <1>5 DEF Lookup!_ensure_plugins_loaded, Lookup!Goto
    <3>2. \/ \E pc \in {"get", "lock"} : thread' = [thread EXCEPT ![k] = [thread[k] EXCEPT !.pc = pc]]
          \/ thread' = [thread EXCEPT ![k] = [thread[k] EXCEPT !.pc = "load", !.plugins = Modules]]
      BY <1>0, <3>1, Zenon DEF LookupTypeOK
    <3>3. "get" \in LookupPcs /\ "lock" \in LookupPcs /\ "load" \in LookupPcs BY DEF LookupPcs
    <3> QED BY <1>J, <1>K, <3>2, <3>3
  <2> QED BY <1>0, <1>5, <2>1 DEF LookupTypeOK, Lookup!_ensure_plugins_loaded, Lookup!history
<1>6. ASSUME NEW k \in Seekers, Lookup!load_one(k) PROVE LookupTypeOK'
  <2>1. PICK p \in thread[k].plugins :
          /\ thread' = [thread EXCEPT ![k].plugins = @ \ {p}]
          /\ \/ _adapters' = [t \in Types |-> IF t \in Lookup!TypesOf(p) THEN p ELSE _adapters[t]]
             \/ UNCHANGED _adapters
    BY <1>6 DEF Lookup!load_one
  <2>2. p \in Modules BY <1>0 DEF LookupTypeOK, Jobs
  <2>3. _adapters' \in [Types -> Owners] BY <1>0, <2>1, <2>2 DEF LookupTypeOK, Owners
  <2>4. thread' \in [Seekers -> Jobs]
    <3>1. thread' = [thread EXCEPT ![k] = [thread[k] EXCEPT !.plugins = thread[k].plugins \ {p}]]
      BY <1>0, <2>1, Zenon DEF LookupTypeOK
    <3>2. thread[k].plugins \ {p} \in SUBSET Modules BY <1>K DEF Jobs
    <3> QED BY <1>J, <1>K, <3>1, <3>2
  <2> QED BY <1>0, <1>6, <2>3, <2>4 DEF LookupTypeOK, Lookup!load_one, Lookup!history
<1>7. ASSUME NEW k \in Seekers, Lookup!get_adapter(k) PROVE LookupTypeOK'
  <2>1. _adapters[thread[k].type] \in Owners BY <1>0 DEF LookupTypeOK, Jobs
  <2>2. ADAPTER_REGISTRY' \in [Types -> Owners]
    BY <1>0, <1>7, <2>1 DEF LookupTypeOK, Lookup!get_adapter
  <2> QED BY <1>0, <1>7, <1>E, <2>1, <2>2 DEF LookupTypeOK, Lookup!get_adapter
<1>8. ASSUME NEW k \in Seekers, Lookup!_load_default_plugin(k) PROVE LookupTypeOK'
  <2>1. thread[k] \in Jobs /\ thread[k].todo # << >>
    BY <1>0, <1>8 DEF LookupTypeOK, Lookup!_load_default_plugin
  <2>2. module_names[thread[k].type] \in Owners
    BY <2>1, <1>8 DEF LookupInv, TodoRight, Owners
  <2>3. _adapters' \in [Types -> Owners]
    BY <1>0, <1>8, <2>2 DEF LookupTypeOK, Lookup!_load_default_plugin, Lookup!register_adapter
  <2>4. Tail(thread[k].todo) \in Seq(Types) BY <2>1, TailOfTodo DEF Jobs
  <2>5. thread' \in [Seekers -> Jobs]
    <3>1. thread' = [thread EXCEPT ![k] = [thread[k] EXCEPT !.todo = Tail(thread[k].todo)]]
      BY <1>8, Zenon DEF Lookup!_load_default_plugin
    <3> QED BY <1>J, <1>K, <2>4, <3>1
  <2> QED BY <1>0, <1>8, <2>3, <2>5 DEF LookupTypeOK, Lookup!_load_default_plugin, Lookup!history
<1>9. ASSUME NEW k \in Seekers, Lookup!resolved(k) PROVE LookupTypeOK'
  <2>1. Lookup!idle \in Jobs BY <1>I, <1>N DEF Lookup!idle, LookupPcs
  <2>2. _adapters[thread[k].type] \in Owners BY <1>0 DEF LookupTypeOK, Jobs
  <2> QED BY <1>0, <1>9, <2>1, <2>2 DEF LookupTypeOK, Lookup!resolved, Lookup!shared
<1>10. ASSUME NEW k \in Seekers, Lookup!application_registers(k) PROVE LookupTypeOK'
  <2>1. Lookup!idle \in Jobs BY <1>I, <1>N DEF Lookup!idle, LookupPcs
  <2> QED BY <1>0, <1>10, <2>1 DEF LookupTypeOK, Lookup!application_registers,
  Lookup!register_adapter, Owners, Lookup!history
<1>11. CASE UNCHANGED Lookup!vars BY <1>0, <1>11 DEF LookupTypeOK, Lookup!vars, Lookup!shared,
Lookup!history
<1> QED BY <1>1, <1>2, <1>3, <1>4, <1>5, <1>6, <1>7, <1>8, <1>9, <1>10, <1>11 DEF Lookup!Next


(* What a step of one thread leaves of the others' and of what is known.   *)
(* What no step of thread k does to the others: their states stay, classes *)
(* are added and never replaced, and the lock and the flag change in the   *)
(* hands of their holder.                                                  *)
Frame(k) ==
    /\ \A o \in Seekers \ {k} : thread'[o] = thread[o]
    /\ registered \subseteq registered'
    /\ \A t \in Types : _adapters[t] # Vacant => _adapters'[t] = _adapters[t]
    /\ \A t \in Types : ADAPTER_REGISTRY[t] # Vacant => ADAPTER_REGISTRY'[t] # Vacant
    /\ \/ UNCHANGED <<_plugins_loaded, _plugin_loader_lock>>
       \/ _plugin_loader_lock = NoThread /\ UNCHANGED _plugins_loaded
       \/ thread[k].pc = "load" /\ _plugins_loaded'
    /\ \/ thread[k].todo = << >>
       \/ thread'[k].todo = thread[k].todo
       \/ Lookup!_load_default_plugin(k)

(* Every step of a thread is one in this frame.                            *)
LEMMA ActorsFrame ==
    ASSUME LookupInv, NEW k \in Seekers
    PROVE  /\ \A type \in Types :
                Lookup!get_adapter_class(k, type) \/ Lookup!_resolve_adapter(k,
                type) \/ Lookup!application(k, type)
                    => Frame(k)
           /\ Lookup!own(k) \/ Lookup!_ensure_plugins_loaded(k) \/ Lookup!load_one(k) => Frame(k)
           /\ Lookup!get_adapter(k) \/ Lookup!_load_default_plugin(k) => Frame(k)
           /\ Lookup!resolved(k) \/ Lookup!application_registers(k) => Frame(k)
<1> USE LookupAssumption
<1>0. LookupTypeOK /\ JobRight(k) BY DEF LookupInv
<1>T. ASSUME NEW j, thread' = [thread EXCEPT ![k] = j]
      PROVE  (\A o \in Seekers \ {k} : thread'[o] = thread[o]) /\ thread'[k] = j
  BY <1>0, <1>T DEF LookupTypeOK
<1>N. thread[k].pc # "register" => thread[k].todo = << >> BY <1>0 DEF JobRight
<1>U. UNCHANGED <<_plugins_loaded, _plugin_loader_lock, registered, _adapters, ADAPTER_REGISTRY>>
      /\ (\A o \in Seekers \ {k} : thread'[o] = thread[o])
      /\ (thread[k].todo = << >> \/ thread'[k].todo = thread[k].todo) => Frame(k)
  BY DEF Frame
<1>1. ASSUME NEW type \in Types, Lookup!get_adapter_class(k, type) \/ Lookup!_resolve_adapter(k, type)
      PROVE  Frame(k)
  <2>1. PICK j : thread' = [thread EXCEPT ![k] = j]
    BY <1>1 DEF Lookup!get_adapter_class, Lookup!_resolve_adapter
  <2>2. thread[k].pc = "idle" /\ UNCHANGED <<Lookup!shared, Lookup!history>>
    BY <1>1 DEF Lookup!get_adapter_class, Lookup!_resolve_adapter
  <2> QED BY <1>T, <1>N, <1>U, <2>1, <2>2 DEF Lookup!shared, Lookup!history
<1>2. ASSUME NEW type \in Types, Lookup!application(k, type) PROVE Frame(k)
  <2>1. /\ thread[k].todo = << >>
        /\ \A o \in Seekers \ {k} : thread'[o] = thread[o]
        /\ registered \subseteq registered'
    BY <1>2, <1>T, <1>N DEF Lookup!application
  <2>2. \A t \in Types : ADAPTER_REGISTRY[t] # Vacant => ADAPTER_REGISTRY'[t] # Vacant
    BY <1>0, <1>2 DEF Lookup!application, LookupTypeOK
  <2> QED BY <1>2, <2>1, <2>2 DEF Frame, Lookup!application
<1>3. ASSUME Lookup!own(k) PROVE Frame(k)
  BY <1>3, <1>T, <1>N, <1>U DEF Lookup!own, Lookup!ends, Lookup!shared
<1>4. ASSUME Lookup!_ensure_plugins_loaded(k) PROVE Frame(k)
  <2>1. thread[k].pc # "register" /\ UNCHANGED <<ADAPTER_REGISTRY, _adapters, registered>>
    BY <1>4 DEF Lookup!_ensure_plugins_loaded, Lookup!history
  <2>2. \A o \in Seekers \ {k} : thread'[o] = thread[o]
    BY <1>0, <1>4 DEF Lookup!_ensure_plugins_loaded, Lookup!Goto, LookupTypeOK
  <2>3. \/ UNCHANGED <<_plugins_loaded, _plugin_loader_lock>>
        \/ _plugin_loader_lock = NoThread /\ UNCHANGED _plugins_loaded
        \/ thread[k].pc = "load" /\ _plugins_loaded'
    BY <1>4 DEF Lookup!_ensure_plugins_loaded
  <2> QED BY <1>N, <2>1, <2>2, <2>3 DEF Frame
<1>5. ASSUME Lookup!load_one(k) PROVE Frame(k)
  <2>1. /\ thread[k].pc # "register"
        /\ UNCHANGED <<ADAPTER_REGISTRY, _plugins_loaded, _plugin_loader_lock, registered>>
    BY <1>5 DEF Lookup!load_one, Lookup!history
  <2>2. \A o \in Seekers \ {k} : thread'[o] = thread[o] BY <1>0, <1>5 DEF Lookup!load_one, LookupTypeOK
  <2>3. \A t \in Types : _adapters[t] # Vacant => _adapters'[t] = _adapters[t]
    BY <1>5 DEF Lookup!load_one
  <2> QED BY <1>N, <2>1, <2>2, <2>3 DEF Frame
<1>6. ASSUME Lookup!get_adapter(k) PROVE Frame(k)
  <2>1. \A t \in Types : ADAPTER_REGISTRY[t] # Vacant => ADAPTER_REGISTRY'[t] # Vacant
    BY <1>0, <1>6 DEF Lookup!get_adapter, LookupTypeOK
  <2> QED BY <1>6, <1>T, <1>N, <2>1 DEF Frame, Lookup!get_adapter, Lookup!ends
<1>7. ASSUME Lookup!_load_default_plugin(k) PROVE Frame(k)
  <2>1. \A o \in Seekers \ {k} : thread'[o] = thread[o]
    BY <1>0, <1>7 DEF Lookup!_load_default_plugin, LookupTypeOK
  <2>2. \A t \in Types : _adapters[t] # Vacant => _adapters'[t] = _adapters[t]
    BY <1>0, <1>7 DEF Lookup!_load_default_plugin, Lookup!register_adapter, LookupTypeOK
  <2> QED BY <1>7, <2>1, <2>2 DEF Frame, Lookup!_load_default_plugin, Lookup!history
<1>8. ASSUME Lookup!resolved(k) PROVE Frame(k)
  BY <1>8, <1>T, <1>U DEF Lookup!resolved, Lookup!shared
<1>9. ASSUME Lookup!application_registers(k) PROVE Frame(k)
  <2>1. \A t \in Types : _adapters[t] # Vacant => _adapters'[t] = _adapters[t]
    BY <1>0, <1>9 DEF Lookup!application_registers, Lookup!register_adapter, LookupTypeOK
  <2> QED BY <1>9, <1>T, <1>N, <2>1 DEF Frame, Lookup!application_registers, Lookup!history
<1> QED BY <1>1, <1>2, <1>3, <1>4, <1>5, <1>6, <1>7, <1>8, <1>9

(* _load_default_plugin registers the first of the types to come.          *)
LEMMA TodoAfter ==
    ASSUME LookupTypeOK, NEW k \in Seekers, Lookup!_load_default_plugin(k)
    PROVE  /\ Todo(k) = {Head(thread[k].todo)} \cup Todo(k)'
           /\ Head(thread[k].todo) \in Types
<1>1. thread[k].todo \in Seq(Types) /\ thread[k].todo # << >>
  BY DEF LookupTypeOK, Jobs, Lookup!_load_default_plugin
<1>2. thread'[k].todo = Tail(thread[k].todo) BY DEF LookupTypeOK, Jobs, Lookup!_load_default_plugin
<1> DEFINE s == thread[k].todo
<1>3. /\ Head(s) \in Types
      /\ {s[n] : n \in DOMAIN s} = {Head(s)} \cup {Tail(s)[n] : n \in DOMAIN Tail(s)}
  BY <1>1, TailOfTodo
<1>4. Todo(k)' = {Tail(s)[n] : n \in DOMAIN Tail(s)} BY <1>2 DEF Todo
<1> QED BY <1>3, <1>4 DEF Todo

(* A type that is supplied stays so: its class stays, or the thread that   *)
(* was about to register it has done it.                                   *)
LEMMA SupplyKept ==
    ASSUME LookupInv, NEW k \in Seekers, Frame(k), LookupTypeOK', NEW u \in Types, Supplied(u)
    PROVE  Supplied(u)'
<1> USE LookupAssumption
<1>0. LookupTypeOK BY DEF LookupInv
<1>1. CASE _adapters[u] # Vacant BY <1>1 DEF Frame, Supplied
<1>2. CASE _adapters[u] = Vacant
  <2>1. PICK o \in Seekers : u \in Todo(o) BY <1>2 DEF Supplied, Coming
  <2>2. CASE o # k
    <3>1. u \in Todo(o)' BY <2>1, <2>2 DEF Todo, Frame
    <3> QED BY <3>1 DEF Supplied, Coming
  <2>3. CASE o = k /\ thread'[k].todo = thread[k].todo
    <3>1. u \in Todo(o)' BY <2>1, <2>3 DEF Todo
    <3> QED BY <3>1 DEF Supplied, Coming
  <2>4. CASE o = k /\ Lookup!_load_default_plugin(k)
    <3>1. u = Head(thread[k].todo) \/ u \in Todo(k)' BY <1>0, <2>1, <2>4, TodoAfter
    <3>2. CASE u \in Todo(k)' BY <3>2 DEF Supplied, Coming
    <3>3. CASE u = Head(thread[k].todo)
      <4>1. module_names[thread[k].type] \in Modules
        BY <2>4 DEF LookupInv, TodoRight, Lookup!_load_default_plugin
      <4>2. _adapters'[u] = module_names[thread[k].type]
        BY <1>0, <1>2, <2>4, <3>3 DEF Lookup!_load_default_plugin, Lookup!register_adapter, LookupTypeOK
      <4> QED BY <4>1, <4>2 DEF Supplied
    <3> QED BY <3>1, <3>2, <3>3
  <2>5. CASE o = k /\ thread[k].todo = << >> BY <2>1, <2>5 DEF Todo
  <2> QED BY <2>2, <2>3, <2>4, <2>5 DEF Frame
<1> QED BY <1>1, <1>2

(* What the other threads rely on is not disturbed.                        *)
LEMMA OthersRight ==
    ASSUME LookupInv, NEW k \in Seekers, Frame(k), NEW o \in Seekers \ {k}
    PROVE  JobRight(o)' /\ TodoRight(o)'
<1> USE LookupAssumption
<1>0. LookupTypeOK /\ JobRight(o) /\ TodoRight(o) /\ JobRight(k) BY DEF LookupInv
<1>1. thread'[o] = thread[o] /\ thread[o].type \in Types BY <1>0 DEF Frame, LookupTypeOK, Jobs
<1>2. JobRight(o)' BY <1>0, <1>1 DEF JobRight, Frame
<1>3. ASSUME thread[o].todo # << >> PROVE TodoRight(o)'
  <2>1. thread[o].type \in DOMAIN module_names /\ Lookup!TypesOf(module_names[thread[o].type]) \subseteq Types
    BY <1>0, <1>3, TypesOfPlugins DEF TodoRight
  <2>2. Todo(o)' = Todo(o) BY <1>1 DEF Todo
  <2>3. \A t \in Lookup!TypesOf(module_names[thread[o].type]) : _adapters'[t] # Vacant \/ t \in Todo(o)'
    BY <1>0, <1>3, <2>1, <2>2 DEF TodoRight, Frame
  <2> QED BY <1>0, <1>1, <1>3, <2>2, <2>3 DEF TodoRight, Lookup!TypesOf
<1>4. thread[o].todo = << >> => TodoRight(o)' BY <1>1 DEF TodoRight
<1> QED BY <1>2, <1>3, <1>4


(* A class that appears belongs to the plugin being loaded, to the plugin  *)
(* imported or to the application.                                         *)
LEMMA OwnersKept ==
    ASSUME LookupInv, LookupTypeOK', NEW k \in Seekers, Frame(k),
           NEW t \in Types, _adapters'[t] # _adapters[t]
    PROVE  /\ _adapters[t] = Vacant
           /\ Lookup!load_one(k) => /\ _adapters'[t] \in Modules /\ t \in Lookup!TypesOf(_adapters'[t])
                             /\ \A u \in Lookup!TypesOf(_adapters'[t]) : _adapters'[u] = _adapters'[t]
           /\ Lookup!_load_default_plugin(k) =>
                /\ thread[k].todo # << >> /\ _adapters'[t] = module_names[thread[k].type]
                /\ t = Head(thread[k].todo)
           /\ Lookup!application_registers(k) => _adapters'[t] = UserProgram /\ t \in registered
<1> USE LookupAssumption
<1>0. LookupTypeOK /\ JobRight(k) BY DEF LookupInv
<1>1. _adapters[t] = Vacant BY DEF Frame
<1>2. ASSUME Lookup!load_one(k)
      PROVE  /\ _adapters'[t] \in Modules /\ t \in Lookup!TypesOf(_adapters'[t])
             /\ \A u \in Lookup!TypesOf(_adapters'[t]) : _adapters'[u] = _adapters'[t]
  <2>1. PICK p \in thread[k].plugins :
          _adapters' = [x \in Types |-> IF x \in Lookup!TypesOf(p) THEN p ELSE _adapters[x]]
    BY <1>2 DEF Lookup!load_one
  <2>2. p \in Modules BY <1>0 DEF LookupTypeOK, Jobs
  <2>3. t \in Lookup!TypesOf(p) /\ _adapters'[t] = p BY <2>1
  <2>4. Lookup!TypesOf(p) \subseteq Types BY <2>2, TypesOfPlugins
  <2> QED BY <2>1, <2>2, <2>3, <2>4
<1>3. ASSUME Lookup!_load_default_plugin(k)
      PROVE  /\ thread[k].todo # << >> /\ _adapters'[t] = module_names[thread[k].type]
             /\ t = Head(thread[k].todo)
  BY <1>0, <1>3 DEF Lookup!_load_default_plugin, Lookup!register_adapter, LookupTypeOK
<1>4. ASSUME Lookup!application_registers(k) PROVE _adapters'[t] = UserProgram /\ t \in registered
  BY <1>0, <1>4 DEF Lookup!application_registers, Lookup!register_adapter, LookupTypeOK, JobRight
<1> QED BY <1>1, <1>2, <1>3, <1>4

(* The parts of the invariant on the registrar are kept.                   *)
LEMMA SharedKept ==
    ASSUME LookupInv, LookupTypeOK', NEW k \in Seekers, Frame(k),
           \/ UNCHANGED _adapters \/ Lookup!load_one(k)
           \/ Lookup!_load_default_plugin(k) \/ Lookup!application_registers(k)
    PROVE  OwnersProvide' /\ StartedAreSupplied'
<1> USE LookupAssumption
<1>0. LookupTypeOK /\ OwnersProvide /\ StartedAreSupplied /\ TodoRight(k) BY DEF LookupInv
<1>1. ASSUME NEW t \in Types
      PROVE  /\ _adapters'[t] \in Modules => t \in Lookup!TypesOf(_adapters'[t])
             /\ _adapters'[t] = UserProgram => t \in registered'
             /\ _adapters'[t] \in Modules => \A u \in Lookup!TypesOf(_adapters'[t]) : Supplied(u)'
  <2>1. CASE _adapters'[t] = _adapters[t]
    <3>1. ASSUME _adapters[t] \in Modules, NEW u \in Lookup!TypesOf(_adapters[t]) PROVE Supplied(u)'
      <4>1. Supplied(u) /\ u \in Types BY <1>0, <3>1, TypesOfPlugins DEF StartedAreSupplied
      <4> QED BY <4>1, SupplyKept
    <3> QED BY <1>0, <2>1, <3>1 DEF OwnersProvide, Frame
  <2>2. CASE _adapters'[t] # _adapters[t] /\ Lookup!load_one(k)
    <3>1. /\ _adapters'[t] \in Modules /\ t \in Lookup!TypesOf(_adapters'[t])
          /\ \A u \in Lookup!TypesOf(_adapters'[t]) : _adapters'[u] = _adapters'[t]
      BY <2>2, OwnersKept
    <3> QED BY <3>1 DEF Supplied
  <2>3. CASE _adapters'[t] # _adapters[t] /\ Lookup!_load_default_plugin(k)
    <3>1. /\ thread[k].todo # << >> /\ _adapters'[t] = module_names[thread[k].type]
          /\ t = Head(thread[k].todo)
      BY <2>3, OwnersKept
    <3>2. /\ _adapters'[t] \in Modules /\ Todo(k) \subseteq Lookup!TypesOf(_adapters'[t])
          /\ \A u \in Lookup!TypesOf(_adapters'[t]) : _adapters[u] # Vacant \/ u \in Todo(k)
      BY <1>0, <3>1 DEF TodoRight
    <3>3. t \in Todo(k) BY <1>0, <2>3, <3>1, TodoAfter
    <3>4. ASSUME NEW u \in Lookup!TypesOf(_adapters'[t]) PROVE Supplied(u)'
      <4>1. Supplied(u) /\ u \in Types BY <3>2, <3>4, TypesOfPlugins DEF Supplied, Coming
      <4> QED BY <4>1, SupplyKept
    <3> QED BY <3>2, <3>3, <3>4
  <2>4. CASE _adapters'[t] # _adapters[t] /\ Lookup!application_registers(k)
    <3>1. _adapters'[t] = UserProgram /\ t \in registered BY <2>4, OwnersKept
    <3> QED BY <3>1 DEF Frame
  <2>5. CASE UNCHANGED _adapters BY <2>1, <2>5
  <2> QED BY <2>1, <2>2, <2>3, <2>4, <2>5
<1> QED BY <1>1 DEF OwnersProvide, StartedAreSupplied, Lookup!TypesOf

(* The loading thread leaves no plugin behind without its types.           *)
LEMMA LoadedKept ==
    ASSUME LookupInv, LookupTypeOK', NEW k \in Seekers, Frame(k),
           thread'[k].pc = "load" =>
             \/ thread'[k].plugins = Modules
             \/ thread[k].pc = "load" /\ \A p \in thread[k].plugins \ thread'[k].plugins :
                                           PluginSupplied(p)',
           _plugins_loaded' /\ ~_plugins_loaded => thread[k].plugins = {}
    PROVE  LoadedAreSupplied'
<1> USE LookupAssumption
<1>0. LookupTypeOK /\ LoadedAreSupplied /\ JobRight(k) BY DEF LookupInv
<1> SUFFICES ASSUME NEW p \in Modules, ~PluginSupplied(p)'
             PROVE  ~_plugins_loaded' /\ \A o \in Seekers : thread'[o].pc = "load" => p \in thread'[o].plugins
    BY DEF LoadedAreSupplied
<1>1. ~PluginSupplied(p)
  <2> SUFFICES ASSUME PluginSupplied(p), Lookup!TypesOf(p) \cap registered' = {}, NEW u \in Lookup!TypesOf(p)
               PROVE  Supplied(u)'
      BY DEF PluginSupplied, Lookup!TypesOf
  <2>1. Lookup!TypesOf(p) \cap registered = {} BY DEF Frame
  <2>2. Supplied(u) /\ u \in Types BY <2>1, TypesOfPlugins DEF PluginSupplied
  <2> QED BY <2>2, SupplyKept
<1>2. ~_plugins_loaded /\ \A o \in Seekers : thread[o].pc = "load" => p \in thread[o].plugins
  BY <1>0, <1>1 DEF LoadedAreSupplied
<1>3. ~_plugins_loaded'
  <2>1. CASE thread[k].pc = "load" BY <1>2, <2>1
  <2>2. CASE thread[k].pc # "load" BY <1>2, <2>2 DEF Frame
  <2> QED BY <2>1, <2>2
<1>4. ASSUME NEW o \in Seekers \ {k}, thread'[o].pc = "load" PROVE p \in thread'[o].plugins
  BY <1>2, <1>4 DEF Frame
<1>5. thread'[k].pc = "load" => p \in thread'[k].plugins BY <1>2
<1> QED BY <1>3, <1>4, <1>5


(* Every step of a thread keeps the invariant.                             *)
LEMMA LookupInvKept == LookupInv /\ [Lookup!Next]_Lookup!vars => LookupInv'
<1> USE LookupAssumption
<1> SUFFICES ASSUME LookupInv, [Lookup!Next]_Lookup!vars PROVE LookupInv'
    OBVIOUS
<1>0. LookupTypeOK /\ LookupTypeOK' BY LookupTypeKept DEF LookupInv
<1>A. ASSUME NEW k \in Seekers, Frame(k), JobRight(k)', TodoRight(k)', FoundAgree',
             OwnersProvide', StartedAreSupplied', LoadedAreSupplied', ~denied'
      PROVE  LookupInv'
  <2>1. ASSUME NEW o \in Seekers PROVE JobRight(o)' /\ TodoRight(o)'
    <3>1. CASE o = k BY <1>A, <3>1
    <3>2. CASE o # k BY <1>A, <3>2, OthersRight
    <3> QED BY <3>1, <3>2
  <2> QED BY <1>0, <1>A, <2>1 DEF LookupInv
<1>F. ASSUME NEW k \in Seekers, Frame(k), UNCHANGED <<ADAPTER_REGISTRY, found>> PROVE FoundAgree'
  <2>1. \A t \in Types : found[t] \subseteq Owners BY <1>0 DEF LookupTypeOK
  <2> QED BY <1>0, <1>F, <2>1 DEF LookupInv, FoundAgree, Frame
<1>N. ASSUME NEW k \in Seekers, thread'[k].todo = << >> PROVE TodoRight(k)'
  BY <1>N DEF TodoRight
<1>T. ASSUME NEW k \in Seekers, NEW j, thread' = [thread EXCEPT ![k] = j] PROVE thread'[k] = j
  BY <1>0, <1>T DEF LookupTypeOK
<1>1. ASSUME NEW k \in Seekers, NEW type \in Types, Lookup!get_adapter_class(k, type) PROVE LookupInv'
  <2>1. Frame(k) BY <1>1, ActorsFrame
  <2>2. UNCHANGED <<Lookup!shared, Lookup!history>> BY <1>1 DEF Lookup!get_adapter_class
  <2>3. /\ thread'[k].todo = << >> /\ thread'[k].type = type
        /\ thread'[k].pc \in {"own", "ensure"}
        /\ thread'[k].pc = "own" => ADAPTER_REGISTRY[type] # Vacant
    <3>1. PICK pc \in {"own", "ensure"} :
            /\ thread'[k] = Lookup!job(pc, type, << >>)
            /\ pc = "own" => ADAPTER_REGISTRY[type] # Vacant
      BY <1>1, <1>T DEF Lookup!get_adapter_class
    <3> QED BY <3>1 DEF Lookup!job
  <2>4. JobRight(k)' BY <2>2, <2>3 DEF JobRight, Lookup!shared
  <2>5. OwnersProvide' /\ StartedAreSupplied' BY <1>0, <2>1, <2>2, SharedKept DEF Lookup!shared
  <2>6. LoadedAreSupplied' BY <1>0, <2>1, <2>2, <2>3, LoadedKept DEF Lookup!shared
  <2>7. FoundAgree' /\ ~denied' BY <1>F, <2>1, <2>2 DEF LookupInv, Lookup!shared, Lookup!history
  <2> QED BY <1>A, <1>N, <2>1, <2>3, <2>4, <2>5, <2>6, <2>7
<1>2. ASSUME NEW k \in Seekers, NEW type \in Types, Lookup!_resolve_adapter(k, type) PROVE LookupInv'
  <2>1. Frame(k) BY <1>2, ActorsFrame
  <2>2. UNCHANGED <<Lookup!shared, Lookup!history>> BY <1>2 DEF Lookup!_resolve_adapter
  <2>3. PICK left \in Seq(Types) :
          /\ thread'[k] = Lookup!job("register", type, left)
          /\ left # << >> => type \in DOMAIN module_names /\ left = Provides[module_names[type]]
    <3>1. type \in DOMAIN module_names => Provides[module_names[type]] \in Seq(Types) OBVIOUS
    <3>2. << >> \in Seq(Types) OBVIOUS
    <3> QED BY <1>2, <1>T, <3>1, <3>2 DEF Lookup!_resolve_adapter
  <2>4. thread'[k].pc = "register" /\ thread'[k].type = type /\ thread'[k].todo = left
    BY <2>3 DEF Lookup!job
  <2>5. JobRight(k)' BY <2>4 DEF JobRight
  <2>6. TodoRight(k)'
    <3> SUFFICES ASSUME left # << >> PROVE TodoRight(k)' BY <1>N, <2>4
    <3>1. Todo(k)' = Lookup!TypesOf(module_names[type]) BY <2>3, <2>4 DEF Todo, Lookup!TypesOf
    <3> QED BY <2>3, <2>4, <3>1 DEF TodoRight, Lookup!TypesOf
  <2>7. OwnersProvide' /\ StartedAreSupplied' BY <1>0, <2>1, <2>2, SharedKept DEF Lookup!shared
  <2>8. LoadedAreSupplied' BY <1>0, <2>1, <2>2, <2>4, LoadedKept DEF Lookup!shared
  <2>9. FoundAgree' /\ ~denied' BY <1>F, <2>1, <2>2 DEF LookupInv, Lookup!shared, Lookup!history
  <2> QED BY <1>A, <2>1, <2>5, <2>6, <2>7, <2>8, <2>9
<1>3. ASSUME NEW k \in Seekers, NEW type \in Types, Lookup!application(k, type) PROVE LookupInv'
  <2>1. Frame(k) BY <1>3, ActorsFrame
  <2>2. /\ UNCHANGED <<_adapters, _plugins_loaded, _plugin_loader_lock, found, denied>>
        /\ ADAPTER_REGISTRY' = [ADAPTER_REGISTRY EXCEPT ![type] = UserProgram]
        /\ registered' = registered \cup {type}
    BY <1>3 DEF Lookup!application
  <2>3. thread'[k].todo = << >> /\ thread'[k].type = type /\ thread'[k].pc = "application"
    <3>1. thread'[k] = Lookup!job("application", type, << >>) BY <1>3, <1>T DEF Lookup!application
    <3> QED BY <3>1 DEF Lookup!job
  <2>4. JobRight(k)' BY <2>2, <2>3 DEF JobRight
  <2>5. OwnersProvide' /\ StartedAreSupplied' BY <1>0, <2>1, <2>2, SharedKept
  <2>6. LoadedAreSupplied' BY <1>0, <2>1, <2>2, <2>3, LoadedKept
  <2>7. FoundAgree'
    <3>1. \A t \in Types \ registered' : ADAPTER_REGISTRY'[t] = ADAPTER_REGISTRY[t]
      BY <1>0, <2>2 DEF LookupTypeOK
    <3> QED BY <2>2, <3>1 DEF LookupInv, FoundAgree
  <2>8. ~denied' BY <2>2 DEF LookupInv
  <2> QED BY <1>A, <1>N, <2>1, <2>3, <2>4, <2>5, <2>6, <2>7, <2>8
<1>Idle. Lookup!idle.pc = "idle" /\ Lookup!idle.todo = << >> BY DEF Lookup!idle, Lookup!job
<1>4. ASSUME NEW k \in Seekers, Lookup!own(k) PROVE LookupInv'
  <2>1. Frame(k) BY <1>4, ActorsFrame
  <2>2. UNCHANGED <<Lookup!shared, registered>> BY <1>4 DEF Lookup!own, Lookup!ends
  <2>3. thread'[k] = Lookup!idle BY <1>4, <1>T DEF Lookup!own, Lookup!ends
  <2>4. JobRight(k)' BY <2>3, <1>Idle DEF JobRight
  <2>5. OwnersProvide' /\ StartedAreSupplied' BY <1>0, <2>1, <2>2, SharedKept DEF Lookup!shared
  <2>6. LoadedAreSupplied' BY <1>0, <2>1, <2>2, <2>3, <1>Idle, LoadedKept DEF Lookup!shared
  <2> DEFINE type == thread[k].type
  <2>7. type \in Types /\ ADAPTER_REGISTRY[type] # Vacant
    BY <1>0, <1>4 DEF Lookup!own, LookupInv, JobRight, LookupTypeOK, Jobs
  <2>8. /\ found' = [found EXCEPT ![type] = @ \cup ({ADAPTER_REGISTRY[type]} \ {Vacant})]
        /\ ~denied'
    BY <1>4, <2>7 DEF Lookup!own, Lookup!ends, LookupInv
  <2> HIDE DEF type
  <2>9. FoundAgree' BY <1>0, <2>2, <2>7, <2>8 DEF LookupInv, FoundAgree, LookupTypeOK, Lookup!shared
  <2> QED BY <1>A, <1>N, <1>Idle, <2>1, <2>3, <2>4, <2>5, <2>6, <2>8, <2>9
<1>5. ASSUME NEW k \in Seekers, Lookup!_ensure_plugins_loaded(k) PROVE LookupInv'
  <2>1. Frame(k) BY <1>5, ActorsFrame
  <2>2. UNCHANGED <<ADAPTER_REGISTRY, _adapters, Lookup!history>>
    BY <1>5 DEF Lookup!_ensure_plugins_loaded
  <2>3. \/ /\ thread'[k].pc = "get" /\ _plugins_loaded' /\ thread'[k].todo = thread[k].todo
           /\ _plugins_loaded \/ thread[k].plugins = {}
        \/ thread'[k].pc = "lock" /\ UNCHANGED _plugins_loaded /\ thread'[k].todo = thread[k].todo
        \/ /\ thread'[k].pc = "load" /\ thread'[k].plugins = Modules /\ _plugin_loader_lock' = k
           /\ ~_plugins_loaded /\ UNCHANGED _plugins_loaded /\ thread'[k].todo = thread[k].todo
    BY <1>0, <1>5 DEF Lookup!_ensure_plugins_loaded, Lookup!Goto, LookupTypeOK, Jobs
  <2>4. thread[k].todo = << >> BY <1>5 DEF Lookup!_ensure_plugins_loaded, LookupInv, JobRight
  <2>5. JobRight(k)' BY <2>3, <2>4 DEF JobRight
  <2>6. OwnersProvide' /\ StartedAreSupplied' BY <1>0, <2>1, <2>2, SharedKept
  <2>7. LoadedAreSupplied' BY <1>0, <2>1, <2>3, LoadedKept
  <2>8. FoundAgree' /\ ~denied' BY <1>F, <2>1, <2>2 DEF LookupInv, Lookup!history
  <2> QED BY <1>A, <1>N, <2>1, <2>3, <2>4, <2>5, <2>6, <2>7, <2>8
<1>6. ASSUME NEW k \in Seekers, Lookup!load_one(k) PROVE LookupInv'
  <2>1. Frame(k) BY <1>6, ActorsFrame
  <2>2. UNCHANGED <<ADAPTER_REGISTRY, _plugins_loaded, _plugin_loader_lock, Lookup!history>>
    BY <1>6 DEF Lookup!load_one
  <2>3. PICK p \in thread[k].plugins :
          /\ thread' = [thread EXCEPT ![k].plugins = @ \ {p}]
          /\ IF \A t \in Lookup!TypesOf(p) : _adapters[t] = Vacant
             THEN _adapters' = [t \in Types |-> IF t \in Lookup!TypesOf(p) THEN p ELSE _adapters[t]]
             ELSE UNCHANGED _adapters
    BY <1>6 DEF Lookup!load_one
  <2>4. p \in Modules BY <1>0 DEF LookupTypeOK, Jobs
  <2>5. /\ thread'[k].pc = "load" /\ thread[k].pc = "load" /\ thread'[k].todo = thread[k].todo
        /\ thread'[k].plugins = thread[k].plugins \ {p}
    BY <1>0, <1>6, <2>3 DEF Lookup!load_one, LookupTypeOK, Jobs
  <2>6. JobRight(k) BY DEF LookupInv
  <2>7. JobRight(k)' /\ thread[k].todo = << >> BY <2>2, <2>5, <2>6 DEF JobRight
  <2>8. OwnersProvide' /\ StartedAreSupplied' BY <1>0, <1>6, <2>1, SharedKept
  <2>9. PluginSupplied(p)'
    <3> SUFFICES ASSUME Lookup!TypesOf(p) \cap registered = {}, NEW u \in Lookup!TypesOf(p) PROVE Supplied(u)'
        BY <2>2 DEF PluginSupplied, Lookup!TypesOf, Lookup!history
    <3>0. u \in Types BY <2>4, TypesOfPlugins
    <3>1. CASE \A t \in Lookup!TypesOf(p) : _adapters[t] = Vacant
      BY <2>3, <2>4, <3>0, <3>1 DEF Supplied
    <3>2. ASSUME NEW t \in Lookup!TypesOf(p), _adapters[t] # Vacant PROVE Supplied(u)'
      <4>1. t \in Types /\ t \notin registered BY <2>4, TypesOfPlugins
      <4>2. _adapters[t] \in Modules /\ t \in Lookup!TypesOf(_adapters[t])
        BY <1>0, <3>2, <4>1 DEF LookupInv, OwnersProvide, LookupTypeOK, Owners
      <4>3. _adapters[t] = p BY <2>4, <4>2
      <4>4. Supplied(u) BY <2>4, <4>1, <4>3 DEF LookupInv, StartedAreSupplied
      <4> QED BY <1>0, <2>1, <3>0, <4>4, SupplyKept
    <3> QED BY <3>1, <3>2
  <2>10. LoadedAreSupplied' BY <1>0, <2>1, <2>2, <2>5, <2>9, LoadedKept
  <2>11. FoundAgree' /\ ~denied' BY <1>F, <2>1, <2>2 DEF LookupInv, Lookup!history
  <2> QED BY <1>A, <1>N, <2>1, <2>5, <2>7, <2>8, <2>10, <2>11
<1>7. ASSUME NEW k \in Seekers, Lookup!get_adapter(k) PROVE LookupInv'
  <2>1. Frame(k) BY <1>7, ActorsFrame
  <2>2. UNCHANGED <<_adapters, _plugins_loaded, _plugin_loader_lock, registered>>
    BY <1>7 DEF Lookup!get_adapter, Lookup!ends
  <2>3. thread'[k] = Lookup!idle BY <1>7, <1>T DEF Lookup!get_adapter, Lookup!ends
  <2>4. JobRight(k)' BY <2>3, <1>Idle DEF JobRight
  <2>5. OwnersProvide' /\ StartedAreSupplied' BY <1>0, <2>1, <2>2, SharedKept
  <2>6. LoadedAreSupplied' BY <1>0, <2>1, <2>2, <2>3, <1>Idle, LoadedKept
  <2>7. PICK type \in Types : type = thread[k].type BY <1>0 DEF LookupTypeOK, Jobs
  <2>8. _adapters[type] # Vacant \/ Coming(type)
           \/ ~\E p \in Modules : type \in Lookup!TypesOf(p) /\ Lookup!TypesOf(p) \cap registered = {}
    BY <1>7 DEF Lookup!get_adapter, LookupInv, JobRight, LoadedAreSupplied, PluginSupplied, Supplied
  <2>9. ~denied' BY <1>7, <2>7, <2>8 DEF Lookup!get_adapter, Lookup!ends, Coming, Todo, LookupInv
  <2>10. /\ found' = [found EXCEPT ![type] = @ \cup ({_adapters[type]} \ {Vacant})]
         /\ ADAPTER_REGISTRY' = IF _adapters[type] = Vacant THEN ADAPTER_REGISTRY
                                ELSE [ADAPTER_REGISTRY EXCEPT ![type] = _adapters[type]]
    BY <1>7, <2>7 DEF Lookup!get_adapter, Lookup!ends
  <2>11. FoundAgree'
    BY <1>0, <2>2, <2>10 DEF LookupInv, FoundAgree, LookupTypeOK
  <2> QED BY <1>A, <1>N, <1>Idle, <2>1, <2>3, <2>4, <2>5, <2>6, <2>9, <2>11
<1>8. ASSUME NEW k \in Seekers, Lookup!_load_default_plugin(k) PROVE LookupInv'
  <2>1. Frame(k) BY <1>8, ActorsFrame
  <2>2. UNCHANGED <<ADAPTER_REGISTRY, _plugins_loaded, _plugin_loader_lock, Lookup!history>>
    BY <1>8 DEF Lookup!_load_default_plugin
  <2>3. thread'[k].pc = "register" /\ thread'[k].type = thread[k].type /\ thread[k].todo # << >>
    BY <1>0, <1>8 DEF Lookup!_load_default_plugin, LookupTypeOK, Jobs
  <2>4. JobRight(k)' BY <2>3 DEF JobRight
  <2>5. TodoRight(k)'
    <3> DEFINE p == module_names[thread[k].type]
               h == Head(thread[k].todo)
    <3>1. /\ thread[k].type \in DOMAIN module_names /\ p \in Modules
          /\ Todo(k) \subseteq Lookup!TypesOf(p)
          /\ \A t \in Lookup!TypesOf(p) : _adapters[t] # Vacant \/ t \in Todo(k)
      BY <2>3 DEF LookupInv, TodoRight
    <3>2. Todo(k) = {h} \cup Todo(k)' /\ h \in Types BY <1>0, <1>8, TodoAfter
    <3>3. _adapters'[h] # Vacant
      BY <1>0, <1>8, <3>1, <3>2 DEF Lookup!_load_default_plugin, Lookup!register_adapter, LookupTypeOK
    <3>4. Lookup!TypesOf(p) \subseteq Types BY <3>1, TypesOfPlugins
    <3>5. ASSUME NEW t \in Lookup!TypesOf(p) PROVE _adapters'[t] # Vacant \/ t \in Todo(k)'
      BY <2>1, <3>1, <3>2, <3>3, <3>4 DEF Frame
    <3> QED BY <2>3, <3>1, <3>2, <3>5 DEF TodoRight, Lookup!TypesOf
  <2>6. OwnersProvide' /\ StartedAreSupplied' BY <1>0, <1>8, <2>1, SharedKept
  <2>7. LoadedAreSupplied' BY <1>0, <2>1, <2>2, <2>3, LoadedKept
  <2>8. FoundAgree' /\ ~denied' BY <1>F, <2>1, <2>2 DEF LookupInv, Lookup!history
  <2> QED BY <1>A, <2>1, <2>4, <2>5, <2>6, <2>7, <2>8
<1>9. ASSUME NEW k \in Seekers, Lookup!resolved(k) PROVE LookupInv'
  <2>1. Frame(k) BY <1>9, ActorsFrame
  <2>2. UNCHANGED <<Lookup!shared, denied, registered>> BY <1>9 DEF Lookup!resolved
  <2>3. thread'[k] = Lookup!idle BY <1>9, <1>T DEF Lookup!resolved
  <2>4. JobRight(k)' BY <2>3, <1>Idle DEF JobRight
  <2>5. OwnersProvide' /\ StartedAreSupplied' BY <1>0, <2>1, <2>2, SharedKept DEF Lookup!shared
  <2>6. LoadedAreSupplied' BY <1>0, <2>1, <2>2, <2>3, <1>Idle, LoadedKept DEF Lookup!shared
  <2>7. PICK type \in Types : type = thread[k].type BY <1>0 DEF LookupTypeOK, Jobs
  <2>8. found' = [found EXCEPT ![type] = @ \cup ({_adapters[type]} \ {Vacant})]
    BY <1>9, <2>7 DEF Lookup!resolved
  <2>9. FoundAgree' /\ ~denied'
    BY <1>0, <2>2, <2>8 DEF LookupInv, FoundAgree, LookupTypeOK, Lookup!shared
  <2> QED BY <1>A, <1>N, <1>Idle, <2>1, <2>3, <2>4, <2>5, <2>6, <2>9
<1>10. ASSUME NEW k \in Seekers, Lookup!application_registers(k) PROVE LookupInv'
  <2>1. Frame(k) BY <1>10, ActorsFrame
  <2>2. UNCHANGED <<ADAPTER_REGISTRY, _plugins_loaded, _plugin_loader_lock, Lookup!history>>
    BY <1>10 DEF Lookup!application_registers
  <2>3. thread'[k] = Lookup!idle BY <1>10, <1>T DEF Lookup!application_registers
  <2>4. JobRight(k)' BY <2>3, <1>Idle DEF JobRight
  <2>5. OwnersProvide' /\ StartedAreSupplied' BY <1>0, <1>10, <2>1, SharedKept
  <2>6. LoadedAreSupplied' BY <1>0, <2>1, <2>2, <2>3, <1>Idle, LoadedKept
  <2>7. FoundAgree' /\ ~denied' BY <1>F, <2>1, <2>2 DEF LookupInv, Lookup!history
  <2> QED BY <1>A, <1>N, <1>Idle, <2>1, <2>3, <2>4, <2>5, <2>6, <2>7
<1>11. CASE UNCHANGED Lookup!vars
  <2>1. /\ UNCHANGED <<ADAPTER_REGISTRY, _adapters, _plugins_loaded, _plugin_loader_lock>>
        /\ UNCHANGED <<thread, found, denied, registered>>
    BY <1>11 DEF Lookup!vars, Lookup!shared, Lookup!history
  <2>2. \A k \in Seekers : JobRight(k)' /\ TodoRight(k)'
    <3> SUFFICES ASSUME NEW k \in Seekers PROVE JobRight(k)' /\ TodoRight(k)' OBVIOUS
    <3>1. JobRight(k) /\ TodoRight(k) BY DEF LookupInv
    <3>2. JobRight(k)' BY <2>1, <3>1 DEF JobRight
    <3>3. Todo(k)' = Todo(k) BY <2>1 DEF Todo
    <3>4. TodoRight(k)' BY <2>1, <3>1, <3>3 DEF TodoRight, Lookup!TypesOf
    <3> QED BY <3>2, <3>4
  <2>3. OwnersProvide' /\ FoundAgree' /\ ~denied'
    BY <2>1 DEF LookupInv, OwnersProvide, FoundAgree, Lookup!TypesOf
  <2>4. \A u : Supplied(u)' <=> Supplied(u) BY <2>1 DEF Supplied, Coming, Todo
  <2>5. StartedAreSupplied' BY <2>1, <2>4 DEF LookupInv, StartedAreSupplied, Lookup!TypesOf
  <2>6. LoadedAreSupplied'
    BY <2>1, <2>4 DEF LookupInv, LoadedAreSupplied, PluginSupplied, Lookup!TypesOf
  <2> QED BY <1>0, <2>2, <2>3, <2>5, <2>6 DEF LookupInv
<1> QED BY <1>1, <1>2, <1>3, <1>4, <1>5, <1>6, <1>7, <1>8, <1>9, <1>10, <1>11 DEF Lookup!Next

(* Nothing is registered and no thread looks for anything at first.        *)
LEMMA LookupInvHolds == Lookup!Init => LookupInv
<1> USE LookupAssumption
<1> SUFFICES ASSUME Lookup!Init PROVE LookupInv OBVIOUS
<1>1. Lookup!idle \in Jobs /\ Lookup!idle.pc = "idle" /\ Lookup!idle.todo = << >>
  BY DEF Lookup!idle, Lookup!job, Jobs, LookupPcs
<1>2. LookupTypeOK BY <1>1 DEF Lookup!Init, LookupTypeOK, Owners
<1>3. ~denied /\ ~_plugins_loaded /\ (\A t \in Types : _adapters[t] = Vacant /\ found[t] = {}
        /\ ADAPTER_REGISTRY[t] = Vacant) /\ \A k \in Seekers : thread[k] = Lookup!idle
  BY DEF Lookup!Init
<1>4. OwnersProvide /\ FoundAgree /\ StartedAreSupplied
  BY <1>3 DEF OwnersProvide, FoundAgree, StartedAreSupplied
<1>5. \A k \in Seekers : JobRight(k) /\ TodoRight(k) BY <1>1, <1>3 DEF JobRight, TodoRight
<1>6. LoadedAreSupplied BY <1>1, <1>3 DEF LoadedAreSupplied
<1> QED BY <1>2, <1>3, <1>4, <1>5, <1>6 DEF LookupInv

(* Lookups agree because each finds what the registrar says.               *)
LEMMA LookupInvSuffices == LookupInv => Lookup!LookupsAgree
BY DEF LookupInv, FoundAgree, Lookup!LookupsAgree

-----------------------------------------------------------------------------
(* WebSocketAdapterFactory: a plugin loaded for an exchange does not take  *)
(* the place of a class the application registered.                        *)

(* The inductive invariant: the classes by name, and that what was         *)
(* registered is there.                                                    *)
FactoryInv ==
    /\ DOMAIN _adapters = DOMAIN Factory!Names /\ registered \subseteq DOMAIN Factory!Names
    /\ Factory!RegisteredStay

(* A plugin's class is taken only where there is none.                     *)
LEMMA FactoryInvKept == FactoryInv /\ [Factory!Next]_Factory!vars => FactoryInv'
<1> SUFFICES ASSUME FactoryInv, [Factory!Next]_Factory!vars PROVE FactoryInv'
    OBVIOUS
<1>U. UNCHANGED <<_adapters, registered>> => FactoryInv' BY DEF FactoryInv, Factory!RegisteredStay
<1>1. ASSUME NEW t \in Seekers, Factory!loaded(t) PROVE FactoryInv'
  <2>1. PICK class \in {"none", "BinanceWebSocketAdapter"} :
          _adapters' = IF class # Factory!None
                       THEN [_adapters EXCEPT ![Factory!_base_exchange_key(creating[t].name)] =
                                                 IF @ = Factory!None THEN class ELSE @]
                       ELSE _adapters
    BY <1>1 DEF Factory!loaded, Factory!_load_plugin_adapter, Factory!None
  <2>2. registered' = registered /\ "CustomAdapter" # Factory!None
    BY <1>1 DEF Factory!loaded, Factory!None
  <2>3. DOMAIN _adapters' = DOMAIN _adapters BY <2>1
  <2>4. \A n \in registered : _adapters'[n] = "CustomAdapter"
    BY <2>1, <2>2 DEF FactoryInv, Factory!RegisteredStay
  <2> QED BY <2>2, <2>3, <2>4 DEF FactoryInv, Factory!RegisteredStay
<1>2. ASSUME NEW n \in {"BINANCE", "OKX___SWAP"}, Factory!register_adapter(n) PROVE FactoryInv'
  <2>1. n \in DOMAIN Factory!Names BY DEF Factory!Names
  <2> QED BY <1>2, <2>1 DEF Factory!register_adapter, FactoryInv, Factory!RegisteredStay
<1>3. ASSUME NEW t \in Seekers, Factory!made(t) PROVE FactoryInv' BY <1>3, <1>U DEF Factory!made
<1>4. ASSUME NEW t \in Seekers, NEW n \in DOMAIN Factory!Names, NEW type \in {"SPOT", "SWAP"},
             Factory!create_adapter(t, n, type)
      PROVE  FactoryInv'
  BY <1>4, <1>U DEF Factory!create_adapter
<1>5. CASE UNCHANGED Factory!vars BY <1>5, <1>U DEF Factory!vars
<1> QED BY <1>1, <1>2, <1>3, <1>4, <1>5 DEF Factory!Next

(* Nothing is registered at first.                                         *)
LEMMA FactoryInvHolds == Factory!Init => FactoryInv
BY DEF Factory!Init, FactoryInv, Factory!RegisteredStay

(* The property is a part of the invariant.                                *)
LEMMA FactoryInvSuffices == FactoryInv => Factory!RegisteredStay
BY DEF FactoryInv

-----------------------------------------------------------------------------
(* PluginLoader: the plugins that are loaded, the one that is being        *)
(* committed, and what they have registered.                               *)

(* The part of the invariant that gives the variables their types.         *)
RegistryType ==
    /\ DOMAIN registry.feeds = Exchanges /\ DOMAIN registry.extras = Exchanges
    /\ registry = [feeds |-> registry.feeds, extras |-> registry.extras]
Commits == [on : BOOLEAN, feeds : SUBSET Exchanges, extras : SUBSET Exchanges,
            adapters : SUBSET AdapterTypes]
LoaderTypeOK ==
    /\ loaded \subseteq Loader!Plugins /\ todo \in Seq(Loader!Plugins) /\ touched \subseteq Exchanges
    /\ RegistryType /\ DOMAIN adapters = AdapterTypes
    /\ commit \in Commits

(* A plugin that is loaded owns what it registered, but for feeds the      *)
(* application has changed or a plugin took that does not name them, and   *)
(* for adapters of the application.                                        *)
Outsiders == {Loader!Application, Loader!Nobody}
LoadedOwn ==
    \A p \in loaded :
        /\ \A x \in p.feeds \ touched : registry.feeds[x] = p.entry \/ Loader!TakenUnchecked(x)
        /\ \A t \in p.adapters : adapters[t] \in {p.entry, Loader!Application}

(* The plugin that is being committed owns what it has committed, and what *)
(* it names and has still to commit no plugin owns.                        *)
CommitRight ==
    LET q == Head(todo)
    IN  /\ ~commit.on => commit = Loader!nothing
        /\ commit.on =>
              /\ todo # << >>
              /\ commit.feeds \subseteq q.feeds /\ commit.extras \subseteq q.feeds
              /\ commit.adapters \subseteq q.adapters
              /\ \A x \in commit.feeds \cap q.exchanges : registry.feeds[x] \in Outsiders
              /\ \A x \in (q.feeds \ commit.feeds) \ touched : registry.feeds[x] = q.entry
              /\ \A t \in commit.adapters : adapters[t] \in Outsiders
              /\ \A t \in q.adapters \ commit.adapters : adapters[t] \in {q.entry, Loader!Application}

(* Something is registered in the name of the plugin.                      *)
Owns(p) ==
    \/ \E x \in Exchanges : registry.feeds[x] = p.entry \/ registry.extras[x] = p.entry
    \/ \E t \in AdapterTypes : adapters[t] = p.entry

(* Only plugins that count as loaded, or are being committed, own anything.*)
OwnersAreLoaded ==
    \A p \in Loader!Plugins : Owns(p) => p.name \in Loader!Names \/ Loader!Committing(p)

(* The inductive invariant of PluginLoader.                                *)
LoaderInv == LoaderTypeOK /\ LoadedOwn /\ CommitRight /\ OwnersAreLoaded

(* What registering one feed, or what belongs to it, changes.              *)
LEMMA RegistryChanges ==
    ASSUME RegistryType, NEW x \in Exchanges, NEW taker
    PROVE  /\ registry' = Loader!register_feed(registry, x, taker) =>
                /\ RegistryType' /\ registry'.extras = registry.extras
                /\ \A y \in Exchanges :
                      registry'.feeds[y] = IF y = x THEN taker ELSE registry.feeds[y]
           /\ registry' = Loader!register_extras(registry, x, taker) =>
                /\ RegistryType' /\ registry'.feeds = registry.feeds
                /\ \A y \in Exchanges :
                      registry'.extras[y] = IF y = x THEN taker ELSE registry.extras[y]
<1>1. ASSUME registry' = Loader!register_feed(registry, x, taker)
      PROVE  registry' = [feeds |-> [registry.feeds EXCEPT ![x] = taker], extras |-> registry.extras]
  BY <1>1 DEF RegistryType, Loader!register_feed
<1>2. ASSUME registry' = Loader!register_extras(registry, x, taker)
      PROVE  registry' = [feeds |-> registry.feeds, extras |-> [registry.extras EXCEPT ![x] = taker]]
  BY <1>2 DEF RegistryType, Loader!register_extras
<1> QED BY <1>1, <1>2 DEF RegistryType

(* The first entry point is a plugin, and so are the rest.                 *)
LEMMA FirstPlugin ==
    ASSUME LoaderTypeOK, todo # << >>
    PROVE  Head(todo) \in Loader!Plugins /\ Tail(todo) \in Seq(Loader!Plugins)
BY HeadTailProperties DEF LoaderTypeOK

(* A load ends before it commits anything.                                 *)
LEMMA NothingCommitted ==
    ASSUME LoaderInv, ~commit.on, todo' \in Seq(Loader!Plugins),
           UNCHANGED <<registry, adapters, loaded, commit, touched>>
    PROVE  LoaderInv'
BY DEF LoaderInv, LoaderTypeOK, RegistryType, LoadedOwn, CommitRight, OwnersAreLoaded, Owns,
       Loader!Names, Loader!TakenUnchecked, Loader!Committing

(* The commit of a plugin begins, with its checks passed.                  *)
LEMMA CommitBegins ==
    ASSUME LoaderInv, ~commit.on, todo # << >>, NEW q, q = Head(todo),
           Loader!_check_duplicate_registration(q),
           commit' = [on |-> TRUE, feeds |-> Loader!list_exchanges(Loader!isolated(q)),
                      extras |-> {}, adapters |-> q.adapters],
           UNCHANGED <<registry, adapters, loaded, todo, touched>>
    PROVE  LoaderInv'
<1> USE LoaderAssumption DEF Loader!Nobody
<1>0. LoaderTypeOK /\ LoadedOwn /\ OwnersAreLoaded BY DEF LoaderInv
<1>1. q \in Loader!Plugins BY <1>0, FirstPlugin
<1>2. Loader!list_exchanges(Loader!isolated(q)) = q.feeds
  BY <1>1 DEF Loader!list_exchanges, Loader!has_exchange, Loader!isolated
<1>3. commit' = [on |-> TRUE, feeds |-> q.feeds, extras |-> {}, adapters |-> q.adapters] BY <1>2
<1>4. LoaderTypeOK' BY <1>0, <1>1, <1>3 DEF LoaderTypeOK, RegistryType, Commits
<1>5. LoadedOwn' BY <1>0 DEF LoadedOwn, Loader!TakenUnchecked
<1>6. CommitRight'
  BY <1>1, <1>3 DEF CommitRight, Outsiders, Loader!_check_duplicate_registration, Loader!has_exchange
<1>7. OwnersAreLoaded' BY <1>0 DEF OwnersAreLoaded, Owns, Loader!Names, Loader!Committing
<1> QED BY <1>4, <1>5, <1>6, <1>7 DEF LoaderInv

(* A feed is committed: it was no plugin's, or the plugin does not name it.*)
LEMMA FeedCommitted ==
    ASSUME LoaderInv, Loader!_commit_registry
    PROVE  LoaderInv'
<1> USE LoaderAssumption
<1>0. LoaderTypeOK /\ LoadedOwn /\ CommitRight /\ OwnersAreLoaded BY DEF LoaderInv
<1>1. PICK q, x : /\ q = Head(todo) /\ x \in commit.feeds
                  /\ registry' = Loader!register_feed(registry, x, q.entry)
                  /\ commit' = [commit EXCEPT !.feeds = @ \ {x}, !.extras = {x}]
  BY DEF Loader!_commit_registry
<1>2. UNCHANGED <<adapters, loaded, todo, touched>> BY DEF Loader!_commit_registry
<1>3. commit.on /\ todo # << >> BY <1>0, <1>1 DEF CommitRight, Loader!nothing
<1>4. q \in Loader!Plugins /\ x \in q.feeds /\ x \in Exchanges
  BY <1>0, <1>1, <1>3, FirstPlugin DEF CommitRight
<1>5. /\ RegistryType' /\ registry'.extras = registry.extras
      /\ \A y \in Exchanges : registry'.feeds[y] = IF y = x THEN q.entry ELSE registry.feeds[y]
  BY <1>0, <1>1, <1>4, RegistryChanges DEF LoaderTypeOK
<1>6. /\ commit' \in Commits /\ commit'.on
      /\ commit'.feeds = commit.feeds \ {x} /\ commit'.extras = {x}
      /\ commit'.adapters = commit.adapters
  BY <1>0, <1>1, <1>3, <1>4 DEF LoaderTypeOK, Commits
<1>7. LoaderTypeOK' BY <1>0, <1>2, <1>5, <1>6 DEF LoaderTypeOK
<1>8. CommitRight'
  <2>1. ASSUME NEW y \in commit'.feeds \cap q.exchanges PROVE registry'.feeds[y] \in Outsiders
    BY <1>0, <1>1, <1>3, <1>4, <1>5, <1>6, <2>1 DEF CommitRight
  <2>2. ASSUME NEW y \in (q.feeds \ commit'.feeds) \ touched PROVE registry'.feeds[y] = q.entry
    BY <1>0, <1>1, <1>3, <1>4, <1>5, <1>6, <2>2 DEF CommitRight
  <2> QED BY <1>0, <1>1, <1>2, <1>3, <1>4, <1>6, <2>1, <2>2 DEF CommitRight, Outsiders
<1>9. LoadedOwn'
  <2>1. x \in q.exchanges => registry.feeds[x] \in Outsiders
    BY <1>0, <1>1, <1>3 DEF CommitRight
  <2>2. x \notin q.exchanges => Loader!TakenUnchecked(x)' BY <1>4, <1>5 DEF Loader!TakenUnchecked
  <2>3. \A y \in Exchanges \ {x} : Loader!TakenUnchecked(y) => Loader!TakenUnchecked(y)'
    BY <1>5 DEF Loader!TakenUnchecked
  <2>4. ~(registry.feeds[x] \in Outsiders /\ Loader!TakenUnchecked(x))
    BY DEF Loader!TakenUnchecked, Outsiders
  <2> SUFFICES ASSUME NEW p \in loaded, NEW y \in p.feeds \ touched
               PROVE  registry'.feeds[y] = p.entry \/ Loader!TakenUnchecked(y)'
      BY <1>0, <1>2 DEF LoadedOwn
  <2>5. p \in Loader!Plugins /\ y \in Exchanges BY <1>0 DEF LoaderTypeOK
  <2>6. registry.feeds[y] = p.entry \/ Loader!TakenUnchecked(y) BY <1>0 DEF LoadedOwn
  <2>7. CASE y = x /\ x \in q.exchanges BY <2>1, <2>4, <2>5, <2>6, <2>7 DEF Outsiders
  <2>8. CASE y = x /\ x \notin q.exchanges BY <2>2, <2>8
  <2>9. CASE y # x BY <1>5, <2>3, <2>5, <2>6, <2>9
  <2> QED BY <2>7, <2>8, <2>9
<1>10. OwnersAreLoaded'
  <2> SUFFICES ASSUME NEW p \in Loader!Plugins, Owns(p)'
               PROVE  p.name \in Loader!Names \/ Loader!Committing(p)'
      BY <1>2 DEF OwnersAreLoaded, Loader!Plugins, Loader!Names
  <2>1. Owns(p) \/ p = q BY <1>2, <1>4, <1>5 DEF Owns
  <2>2. p = q => Loader!Committing(p)' BY <1>1, <1>2, <1>6 DEF Loader!Committing
  <2>3. Loader!Committing(p) => p = q BY <1>1 DEF Loader!Committing
  <2> QED BY <1>0, <2>1, <2>2, <2>3 DEF OwnersAreLoaded
<1> QED BY <1>7, <1>8, <1>9, <1>10 DEF LoaderInv

(* What belongs to the feed is committed.                                  *)
LEMMA ExtrasCommitted ==
    ASSUME LoaderInv, Loader!_commit_extras
    PROVE  LoaderInv'
<1> USE LoaderAssumption
<1>0. LoaderTypeOK /\ LoadedOwn /\ CommitRight /\ OwnersAreLoaded BY DEF LoaderInv
<1>1. PICK q, x : /\ q = Head(todo) /\ x \in commit.extras
                  /\ registry' = Loader!register_extras(registry, x, q.entry)
  BY DEF Loader!_commit_extras
<1>2. UNCHANGED <<adapters, loaded, todo, touched>> /\ commit' = [commit EXCEPT !.extras = {}]
  BY DEF Loader!_commit_extras
<1>3. commit.on /\ todo # << >> BY <1>0, <1>1 DEF CommitRight, Loader!nothing
<1>4. q \in Loader!Plugins /\ x \in Exchanges
  BY <1>0, <1>1, <1>3, FirstPlugin DEF CommitRight
<1>5. /\ RegistryType' /\ registry'.feeds = registry.feeds
      /\ \A y \in Exchanges : registry'.extras[y] = IF y = x THEN q.entry ELSE registry.extras[y]
  BY <1>0, <1>1, <1>4, RegistryChanges DEF LoaderTypeOK
<1>6. /\ commit' \in Commits /\ commit'.on
      /\ commit'.feeds = commit.feeds /\ commit'.extras = {} /\ commit'.adapters = commit.adapters
  BY <1>0, <1>2, <1>3 DEF LoaderTypeOK, Commits
<1>7. LoaderTypeOK' BY <1>0, <1>2, <1>5, <1>6 DEF LoaderTypeOK
<1>8. CommitRight' BY <1>0, <1>2, <1>3, <1>5, <1>6 DEF CommitRight
<1>9. LoadedOwn' BY <1>0, <1>2, <1>5 DEF LoadedOwn, Loader!TakenUnchecked
<1>10. OwnersAreLoaded'
  <2> SUFFICES ASSUME NEW p \in Loader!Plugins, Owns(p)'
               PROVE  p.name \in Loader!Names \/ Loader!Committing(p)'
      BY <1>2 DEF OwnersAreLoaded, Loader!Plugins, Loader!Names
  <2>1. Owns(p) \/ p = q BY <1>2, <1>4, <1>5 DEF Owns
  <2>2. p = q => Loader!Committing(p)' BY <1>1, <1>2, <1>6 DEF Loader!Committing
  <2>3. Loader!Committing(p) => p = q BY <1>1 DEF Loader!Committing
  <2> QED BY <1>0, <2>1, <2>2, <2>3 DEF OwnersAreLoaded
<1> QED BY <1>7, <1>8, <1>9, <1>10 DEF LoaderInv

(* A type gets an adapter if it has none.                                  *)
LEMMA AdapterSet ==
    ASSUME DOMAIN adapters = AdapterTypes, NEW t \in AdapterTypes, NEW taker,
           Loader!register_adapter(t, taker)
    PROVE  /\ DOMAIN adapters' = AdapterTypes
           /\ \A u \in AdapterTypes :
                 adapters'[u] = IF u = t /\ adapters[u] = Loader!Nobody THEN taker ELSE adapters[u]
BY DEF Loader!register_adapter

(* An adapter is committed, if the application has not been faster.        *)
LEMMA AdapterCommitted ==
    ASSUME LoaderInv, Loader!_commit_runtime
    PROVE  LoaderInv'
<1> USE LoaderAssumption
<1>0. LoaderTypeOK /\ LoadedOwn /\ CommitRight /\ OwnersAreLoaded BY DEF LoaderInv
<1>1. PICK q, t : /\ q = Head(todo) /\ t \in commit.adapters
                  /\ Loader!register_adapter(t, q.entry)
                  /\ commit' = [commit EXCEPT !.adapters = @ \ {t}]
  BY DEF Loader!_commit_runtime
<1>2. UNCHANGED <<registry, loaded, todo, touched>> BY DEF Loader!_commit_runtime
<1>3. commit.on /\ todo # << >> BY <1>0, <1>1 DEF CommitRight, Loader!nothing
<1>4. q \in Loader!Plugins /\ t \in q.adapters /\ t \in AdapterTypes /\ adapters[t] \in Outsiders
  BY <1>0, <1>1, <1>3, FirstPlugin DEF CommitRight
<1>5. /\ DOMAIN adapters' = AdapterTypes
      /\ \A u \in AdapterTypes :
            adapters'[u] = IF u = t /\ adapters[u] = Loader!Nobody THEN q.entry ELSE adapters[u]
  BY <1>0, <1>1, <1>4, AdapterSet DEF LoaderTypeOK
<1>6. /\ commit' \in Commits /\ commit'.on
      /\ commit'.feeds = commit.feeds /\ commit'.extras = commit.extras
      /\ commit'.adapters = commit.adapters \ {t}
  BY <1>0, <1>1, <1>3 DEF LoaderTypeOK, Commits
<1>7. LoaderTypeOK' BY <1>0, <1>2, <1>5, <1>6 DEF LoaderTypeOK, RegistryType
<1>8. adapters'[t] \in {q.entry, Loader!Application} BY <1>4, <1>5 DEF Outsiders
<1>9. CommitRight'
  <2>1. \A u \in commit'.adapters : adapters'[u] \in Outsiders
    BY <1>0, <1>1, <1>3, <1>4, <1>5, <1>6 DEF CommitRight
  <2>2. \A u \in q.adapters \ commit'.adapters : adapters'[u] \in {q.entry, Loader!Application}
    <3> SUFFICES ASSUME NEW u \in q.adapters \ commit'.adapters
                 PROVE  adapters'[u] \in {q.entry, Loader!Application}
        OBVIOUS
    <3>1. u \in AdapterTypes BY <1>4
    <3>2. CASE u = t BY <1>8, <3>2
    <3>3. CASE u # t
      <4>1. adapters[u] \in {q.entry, Loader!Application} BY <1>0, <1>1, <1>3, <1>6, <3>3 DEF CommitRight
      <4> QED BY <1>5, <3>1, <3>3, <4>1
    <3> QED BY <3>2, <3>3
  <2> QED BY <1>0, <1>1, <1>2, <1>3, <1>4, <1>6, <2>1, <2>2 DEF CommitRight
<1>10. LoadedOwn'
  <2> SUFFICES ASSUME NEW p \in loaded, NEW u \in p.adapters
               PROVE  adapters'[u] \in {p.entry, Loader!Application}
      BY <1>0, <1>2 DEF LoadedOwn, Loader!TakenUnchecked
  <2>1. p \in Loader!Plugins /\ u \in AdapterTypes BY <1>0 DEF LoaderTypeOK
  <2>2. adapters[u] \in {p.entry, Loader!Application} BY <1>0 DEF LoadedOwn
  <2>3. adapters[u] # Loader!Nobody BY <2>1, <2>2 DEF Loader!Application, Loader!Nobody
  <2> QED BY <1>5, <2>1, <2>2, <2>3
<1>11. OwnersAreLoaded'
  <2> SUFFICES ASSUME NEW p \in Loader!Plugins, Owns(p)'
               PROVE  p.name \in Loader!Names \/ Loader!Committing(p)'
      BY <1>2 DEF OwnersAreLoaded, Loader!Plugins, Loader!Names
  <2>1. Owns(p) \/ p = q BY <1>2, <1>4, <1>5 DEF Owns
  <2>2. p = q => Loader!Committing(p)' BY <1>1, <1>2, <1>6 DEF Loader!Committing
  <2>3. Loader!Committing(p) => p = q BY <1>1 DEF Loader!Committing
  <2> QED BY <1>0, <2>1, <2>2, <2>3 DEF OwnersAreLoaded
<1> QED BY <1>7, <1>9, <1>10, <1>11 DEF LoaderInv

(* All is committed: the plugin counts as loaded.                          *)
LEMMA CommitEnds ==
    ASSUME LoaderInv, Loader!committed
    PROVE  LoaderInv'
<1>0. LoaderTypeOK /\ LoadedOwn /\ CommitRight /\ OwnersAreLoaded BY DEF LoaderInv
<1>1. PICK q : q = Head(todo) OBVIOUS
<1>2. /\ UNCHANGED <<registry, adapters, touched>> /\ todo' = Tail(todo)
      /\ commit' = Loader!nothing
      /\ loaded' = IF q.name \in Loader!Names THEN loaded ELSE loaded \cup {q}
  BY <1>1 DEF Loader!committed
<1>3. commit.on /\ commit.feeds = {} /\ commit.adapters = {}
  BY DEF Loader!committed, Loader!nothing
<1>4. q \in Loader!Plugins /\ todo' \in Seq(Loader!Plugins)
  BY <1>0, <1>1, <1>2, <1>3, FirstPlugin DEF CommitRight
<1>5. commit' \in Commits /\ ~commit'.on BY <1>2 DEF Loader!nothing, Commits
<1>6. LoaderTypeOK' BY <1>0, <1>2, <1>4, <1>5 DEF LoaderTypeOK, RegistryType
<1>7. LoadedOwn'
  <2>1. /\ \A x \in q.feeds \ touched : registry.feeds[x] = q.entry
        /\ \A t \in q.adapters : adapters[t] \in {q.entry, Loader!Application}
    BY <1>0, <1>1, <1>3 DEF CommitRight
  <2> QED BY <1>0, <1>2, <2>1 DEF LoadedOwn, Loader!TakenUnchecked
<1>8. CommitRight' BY <1>2, <1>5 DEF CommitRight
<1>9. OwnersAreLoaded'
  <2>1. Loader!Names \cup {q.name} \subseteq Loader!Names' BY <1>2 DEF Loader!Names
  <2>2. \A p \in Loader!Plugins : Owns(p)' => Owns(p) BY <1>2 DEF Owns
  <2> QED BY <1>0, <1>1, <2>1, <2>2 DEF OwnersAreLoaded, Loader!Committing, Loader!Plugins
<1> QED BY <1>6, <1>7, <1>8, <1>9 DEF LoaderInv

(* What the application does to the registry is its own, and it takes no   *)
(* adapter from anybody.                                                   *)
LEMMA ApplicationKeeps ==
    ASSUME LoaderInv, Loader!application
    PROVE  LoaderInv'
<1> USE LoaderAssumption
<1>0. LoaderTypeOK /\ LoadedOwn /\ CommitRight /\ OwnersAreLoaded BY DEF LoaderInv
<1>1. UNCHANGED <<loaded, todo, commit>> BY DEF Loader!application
<1>2. /\ RegistryType' /\ touched \subseteq touched' /\ touched' \subseteq Exchanges
      /\ DOMAIN adapters' = AdapterTypes
      /\ \A x \in Exchanges :
            /\ registry'.feeds[x] \in {registry.feeds[x]} \cup Outsiders
            /\ registry'.extras[x] \in {registry.extras[x]} \cup Outsiders
            /\ x \notin touched' => registry'.feeds[x] = registry.feeds[x]
      /\ \A t \in AdapterTypes :
            \/ adapters'[t] = adapters[t]
            \/ adapters[t] = Loader!Nobody /\ adapters'[t] = Loader!Application
  <2>1. RegistryType /\ DOMAIN adapters = AdapterTypes /\ touched \subseteq Exchanges
    BY <1>0 DEF LoaderTypeOK
  <2>2. CASE \E x \in Exchanges : \E taker \in Outsiders :
               /\ registry' = Loader!register_feed(registry, x, taker)
               /\ touched' = touched \cup {x} /\ UNCHANGED adapters
    <3>1. PICK x \in Exchanges, taker \in Outsiders :
            /\ registry' = Loader!register_feed(registry, x, taker)
            /\ touched' = touched \cup {x} /\ UNCHANGED adapters
      BY <2>2
    <3>2. /\ RegistryType' /\ registry'.extras = registry.extras
          /\ \A y \in Exchanges :
                registry'.feeds[y] = IF y = x THEN taker ELSE registry.feeds[y]
      BY <2>1, <3>1, RegistryChanges
    <3> QED BY <2>1, <3>1, <3>2
  <2>3. CASE \E x \in Exchanges :
               /\ registry' = Loader!register_extras(registry, x, Loader!Application)
               /\ UNCHANGED <<touched, adapters>>
    <3>1. PICK x \in Exchanges :
            /\ registry' = Loader!register_extras(registry, x, Loader!Application)
            /\ UNCHANGED <<touched, adapters>>
      BY <2>3
    <3>2. /\ RegistryType' /\ registry'.feeds = registry.feeds
          /\ \A y \in Exchanges :
                registry'.extras[y] = IF y = x THEN Loader!Application ELSE registry.extras[y]
      BY <2>1, <3>1, RegistryChanges
    <3> QED BY <2>1, <3>1, <3>2 DEF Outsiders
  <2>4. CASE registry' = Loader!create_isolated /\ touched' = Exchanges /\ UNCHANGED adapters
    BY <2>1, <2>4 DEF Loader!create_isolated, RegistryType, Outsiders
  <2>5. CASE /\ \E t \in AdapterTypes : Loader!register_adapter(t, Loader!Application)
             /\ UNCHANGED <<registry, touched>>
    BY <2>1, <2>5, AdapterSet DEF RegistryType
  <2> QED BY <2>2, <2>3, <2>4, <2>5 DEF Loader!application, Loader!register_feed, Outsiders,
             Loader!unregister_feed, Loader!clear
<1>3. LoaderTypeOK' BY <1>0, <1>1, <1>2 DEF LoaderTypeOK
<1>4. LoadedOwn'
  <2> SUFFICES ASSUME NEW p \in loaded
               PROVE  /\ \A x \in p.feeds \ touched' :
                            registry'.feeds[x] = p.entry \/ Loader!TakenUnchecked(x)'
                      /\ \A t \in p.adapters : adapters'[t] \in {p.entry, Loader!Application}
      BY <1>1 DEF LoadedOwn
  <2>1. p \in Loader!Plugins BY <1>0 DEF LoaderTypeOK
  <2>2. ASSUME NEW x \in p.feeds \ touched'
        PROVE  registry'.feeds[x] = p.entry \/ Loader!TakenUnchecked(x)'
    <3>1. x \in Exchanges /\ x \in p.feeds \ touched BY <1>2, <2>1
    <3>2. registry'.feeds[x] = registry.feeds[x] BY <1>2, <2>2, <3>1
    <3>3. registry.feeds[x] = p.entry \/ Loader!TakenUnchecked(x) BY <1>0, <3>1 DEF LoadedOwn
    <3> QED BY <3>2, <3>3 DEF Loader!TakenUnchecked
  <2>3. ASSUME NEW t \in p.adapters PROVE adapters'[t] \in {p.entry, Loader!Application}
    <3>1. t \in AdapterTypes /\ adapters[t] \in {p.entry, Loader!Application}
      BY <1>0, <2>1 DEF LoadedOwn
    <3> QED BY <1>2, <3>1
  <2> QED BY <2>2, <2>3
<1>5. CommitRight'
  <2> SUFFICES ASSUME commit.on, NEW q, q = Head(todo)
               PROVE  /\ \A x \in commit.feeds \cap q.exchanges : registry'.feeds[x] \in Outsiders
                      /\ \A x \in (q.feeds \ commit.feeds) \ touched' : registry'.feeds[x] = q.entry
                      /\ \A t \in commit.adapters : adapters'[t] \in Outsiders
                      /\ \A t \in q.adapters \ commit.adapters :
                            adapters'[t] \in {q.entry, Loader!Application}
      BY <1>0, <1>1 DEF CommitRight
  <2>1. q \in Loader!Plugins BY <1>0, FirstPlugin DEF CommitRight
  <2>2. /\ commit.feeds \subseteq Exchanges /\ commit.adapters \subseteq AdapterTypes
    BY <1>0 DEF LoaderTypeOK, Commits
  <2>3. \A x \in commit.feeds \cap q.exchanges : registry'.feeds[x] \in Outsiders
    BY <1>0, <1>2, <2>2 DEF CommitRight
  <2>4. \A x \in (q.feeds \ commit.feeds) \ touched' : registry'.feeds[x] = q.entry
    BY <1>0, <1>2, <2>1 DEF CommitRight
  <2>5. \A t \in commit.adapters : adapters'[t] \in Outsiders
    <3> SUFFICES ASSUME NEW t \in commit.adapters PROVE adapters'[t] \in Outsiders OBVIOUS
    <3>1. t \in AdapterTypes /\ adapters[t] \in Outsiders BY <1>0, <2>2 DEF CommitRight
    <3> QED BY <1>2, <3>1 DEF Outsiders
  <2>6. \A t \in q.adapters \ commit.adapters : adapters'[t] \in {q.entry, Loader!Application}
    <3> SUFFICES ASSUME NEW t \in q.adapters \ commit.adapters
                 PROVE  adapters'[t] \in {q.entry, Loader!Application}
        OBVIOUS
    <3>1. t \in AdapterTypes /\ adapters[t] \in {q.entry, Loader!Application}
      BY <1>0, <2>1 DEF CommitRight
    <3> QED BY <1>2, <3>1
  <2> QED BY <2>3, <2>4, <2>5, <2>6
<1>6. OwnersAreLoaded'
  <2> SUFFICES ASSUME NEW p \in Loader!Plugins, Owns(p)'
               PROVE  p.name \in Loader!Names \/ Loader!Committing(p)
      BY <1>1 DEF OwnersAreLoaded, Loader!Plugins, Loader!Names, Loader!Committing
  <2>1. p.entry \notin Outsiders BY DEF Outsiders
  <2>2. Owns(p)
    <3>1. CASE \E x \in Exchanges : registry'.feeds[x] = p.entry \/ registry'.extras[x] = p.entry
      BY <1>2, <2>1, <3>1 DEF Owns
    <3>2. CASE \E t \in AdapterTypes : adapters'[t] = p.entry
      BY <1>2, <2>1, <3>2 DEF Owns, Outsiders
    <3> QED BY <3>1, <3>2 DEF Owns
  <2> QED BY <1>0, <2>2 DEF OwnersAreLoaded
<1> QED BY <1>3, <1>4, <1>5, <1>6 DEF LoaderInv

(* Every step of a load, and everything the application does meanwhile,    *)
(* keeps the invariant: what fails before the commit has left nothing.     *)
LEMMA LoaderInvKept == LoaderInv /\ [Loader!Next]_Loader!vars => LoaderInv'
<1> USE LoaderAssumption
<1> SUFFICES ASSUME LoaderInv, [Loader!Next]_Loader!vars PROVE LoaderInv'
    OBVIOUS
<1>0. LoaderTypeOK /\ CommitRight BY DEF LoaderInv
<1>1. CASE Loader!load_all
  <2>1. todo' \in Seq(Loader!Plugins) /\ UNCHANGED <<registry, adapters, loaded, commit, touched>>
    BY <1>1 DEF Loader!load_all, Loader!_discover_entry_points
  <2>2. ~commit.on BY <1>0, <1>1 DEF Loader!load_all, CommitRight
  <2> QED BY <2>1, <2>2, NothingCommitted
<1>2. CASE Loader!_load_one
  <2>1. /\ todo # << >> /\ ~commit.on /\ UNCHANGED <<registry, adapters, loaded, touched>>
        /\ Tail(todo) \in Seq(Loader!Plugins) /\ << >> \in Seq(Loader!Plugins)
    BY <1>0, <1>2, FirstPlugin DEF Loader!_load_one
  <2>2. PICK q : q = Head(todo) OBVIOUS
  <2>3. \/ todo' \in {Tail(todo), << >>} /\ UNCHANGED commit
        \/ /\ Loader!_check_duplicate_registration(q) /\ UNCHANGED todo
           /\ commit' = [on |-> TRUE, feeds |-> Loader!list_exchanges(Loader!isolated(q)),
                         extras |-> {}, adapters |-> q.adapters]
    <3>1. CASE q.entry \in failed \cup Loader!Names BY <1>2, <2>2, <3>1 DEF Loader!_load_one
    <3>2. CASE q.entry \notin failed \cup Loader!Names /\ q.import \in {"optional", "error"}
      BY <1>2, <2>2, <3>2 DEF Loader!_load_one
    <3>3. CASE /\ q.entry \notin failed \cup Loader!Names /\ q.import \notin {"optional", "error"}
               /\ q.import = "ok" /\ ~isolates
      BY <1>2, <2>2, <3>3 DEF Loader!_load_one
    <3>4. CASE /\ q.entry \notin failed \cup Loader!Names /\ q.import \notin {"optional", "error"}
               /\ ~(q.import = "ok" /\ ~isolates) /\ q.register \in {"optional", "error"}
      BY <1>2, <2>2, <3>4 DEF Loader!_load_one
    <3>5. CASE /\ q.entry \notin failed \cup Loader!Names /\ q.import \notin {"optional", "error"}
               /\ ~(q.import = "ok" /\ ~isolates) /\ q.register \notin {"optional", "error"}
               /\ q.register = "version" \/ ~Loader!_check_duplicate_registration(q)
      BY <1>2, <2>2, <3>5 DEF Loader!_load_one
    <3>6. CASE /\ q.entry \notin failed \cup Loader!Names /\ q.import \notin {"optional", "error"}
               /\ ~(q.import = "ok" /\ ~isolates) /\ q.register \notin {"optional", "error"}
               /\ ~(q.register = "version" \/ ~Loader!_check_duplicate_registration(q))
      BY <1>2, <2>2, <3>6 DEF Loader!_load_one
    <3> QED BY <3>1, <3>2, <3>3, <3>4, <3>5, <3>6
  <2> QED BY <2>1, <2>2, <2>3, NothingCommitted, CommitBegins
<1>3. CASE UNCHANGED Loader!vars
  BY <1>3 DEF Loader!vars, LoaderInv, LoaderTypeOK, RegistryType, LoadedOwn, CommitRight,
         OwnersAreLoaded, Owns, Loader!Names, Loader!TakenUnchecked, Loader!Committing
<1> QED BY <1>1, <1>2, <1>3, FeedCommitted, ExtrasCommitted, AdapterCommitted, CommitEnds,
           ApplicationKeeps DEF Loader!Next

(* Nothing is registered at first.                                         *)
LEMMA LoaderInvHolds == Loader!Init => LoaderInv
<1> SUFFICES ASSUME Loader!Init PROVE LoaderInv OBVIOUS
<1>1. LoaderTypeOK
  BY DEF Loader!Init, LoaderTypeOK, RegistryType, Loader!create_isolated, Loader!nothing, Commits
<1>2. LoadedOwn /\ CommitRight BY DEF Loader!Init, LoadedOwn, CommitRight, Loader!nothing
<1>3. OwnersAreLoaded
  BY LoaderAssumption DEF Loader!Init, OwnersAreLoaded, Owns, Loader!create_isolated
<1> QED BY <1>1, <1>2, <1>3 DEF LoaderInv

(* The property speaks of the plugins that are loaded and of those that    *)
(* are not.                                                                *)
LEMMA LoaderInvSuffices == LoaderInv => Loader!PluginsSound
BY DEF LoaderInv, LoadedOwn, OwnersAreLoaded, Owns, Loader!PluginsSound

-----------------------------------------------------------------------------
(* CacheService: one value, in Redis and in a dictionary of each process.  *)

(* What a write can have left, and the records of the tasks.               *)
Outcomes == [process : Processes \cup {"none"}, value : Services!Values]
TaskStates == [pc : {"idle", "redis", "local", "ask", "fallback", "got"}, value : Services!Values,
               clean : BOOLEAN, expects : Outcomes]

(* The part of the invariant that gives the variables their types.         *)
ServiceTypeOK ==
    /\ redis \in Services!Values /\ _local_cache \in [Processes -> Services!Values]
    /\ task \in [Tasks -> TaskStates]
    /\ values \in Nat /\ settled \in Outcomes

(* While a write counts as settled nobody writes, the process that made it *)
(* has its value, and Redis has it, as JSON gives it back, or nothing.      *)
SettledIsThere ==
    settled # Services!Unsettled =>
        /\ settled.process \in Processes
        /\ \A t \in Tasks : ~Services!Writing(t)
        /\ redis \in {Services!json(settled.value), Services!Nothing}
        /\ _local_cache[settled.process] = settled.value

(* A write that has met no other is the only one, and what it gave to      *)
(* Redis is there or lost.                                                 *)
CleanIsAlone ==
    \A t \in Tasks : Services!Writing(t) /\ task[t].clean =>
        /\ \A u \in Tasks \ {t} : ~Services!Writing(u)
        /\ task[t].pc = "local" => redis \in {Services!json(task[t].value), Services!Nothing}

(* A get that expects the value of a write finds it settled until it       *)
(* answers.                                                                *)
ExpectedIsSettled ==
    \A t \in Tasks : task[t].expects # Services!Unsettled =>
        /\ task[t].expects = settled /\ settled.process = ProcessOf[t]
        /\ task[t].pc = "got" => task[t].value \in {settled.value, Services!json(settled.value)}

(* The inductive invariant of CacheService.                                *)
ServiceInv == ServiceTypeOK /\ SettledIsThere /\ CleanIsAlone /\ ExpectedIsSettled

(* JSON keeps which value it is, and a plain one as it is.                 *)
LEMMA JsonKeeps ==
    /\ Services!Nothing \in Services!Values
    /\ \A v \in Services!Values :
          /\ Services!json(v) \in Services!Values /\ Services!json(v).number = v.number
          /\ v.kind = "plain" => Services!json(v) = v
BY DEF Services!Nothing, Services!Values, Services!Kinds, Services!json

(* A task's record with one or two fields changed.                         *)
LEMMA TaskMoves ==
    ASSUME NEW r \in TaskStates, NEW pc \in {"local", "fallback"}
    PROVE  \E s \in TaskStates : /\ s = [r EXCEPT !.pc = pc]
                                 /\ s.pc = pc /\ s.value = r.value
                                 /\ s.clean = r.clean /\ s.expects = r.expects
<1>1. /\ [r EXCEPT !.pc = pc] \in TaskStates
      /\ [r EXCEPT !.pc = pc].pc = pc /\ [r EXCEPT !.pc = pc].value = r.value
      /\ [r EXCEPT !.pc = pc].clean = r.clean
      /\ [r EXCEPT !.pc = pc].expects = r.expects
  BY DEF TaskStates
<1> QED BY <1>1, Zenon

(* A task has got an answer.                                               *)
LEMMA TaskReads ==
    ASSUME NEW r \in TaskStates, NEW pc \in {"fallback", "got"}, NEW value \in Services!Values
    PROVE  \E s \in TaskStates : /\ s = [r EXCEPT !.pc = pc, !.value = value]
                                 /\ s.pc = pc /\ s.value = value /\ s.expects = r.expects
<1>1. /\ [r EXCEPT !.pc = pc, !.value = value] \in TaskStates
      /\ [r EXCEPT !.pc = pc, !.value = value].pc = pc /\ [r EXCEPT !.pc = pc, !.value = value].value = value
      /\ [r EXCEPT !.pc = pc, !.value = value].expects = r.expects
  BY DEF TaskStates
<1> QED BY <1>1, Zenon

(* A write that Redis has refused is no longer clean.                      *)
LEMMA TaskFails ==
    ASSUME NEW r \in TaskStates
    PROVE  \E s \in TaskStates : /\ s = [r EXCEPT !.pc = "local", !.clean = FALSE]
                                 /\ s.pc = "local" /\ s.value = r.value
                                 /\ s.clean = FALSE /\ s.expects = r.expects
<1>1. /\ [r EXCEPT !.pc = "local", !.clean = FALSE] \in TaskStates
      /\ [r EXCEPT !.pc = "local", !.clean = FALSE].pc = "local"
      /\ [r EXCEPT !.pc = "local", !.clean = FALSE].value = r.value
      /\ [r EXCEPT !.pc = "local", !.clean = FALSE].clean = FALSE
      /\ [r EXCEPT !.pc = "local", !.clean = FALSE].expects = r.expects
  BY DEF TaskStates
<1> QED BY <1>1, Zenon

(* A get begins.                                                           *)
LEMMA Asking ==
    ASSUME NEW e \in Outcomes
    PROVE  /\ [Services!idle EXCEPT !.pc = "ask", !.expects = e] \in TaskStates
           /\ [Services!idle EXCEPT !.pc = "ask", !.expects = e].pc = "ask"
           /\ [Services!idle EXCEPT !.pc = "ask", !.expects = e].expects = e
<1>1. Services!idle \in TaskStates BY DEF Services!idle, TaskStates, Outcomes, Services!Unsettled,
         Services!Nothing, Services!Values, Services!Kinds
<1> QED BY <1>1 DEF TaskStates

(* Every step of a task, every failure of Redis and the loss of the key    *)
(* keep the invariant.                                                     *)
LEMMA ServiceInvKept == ServiceInv /\ [Services!Next]_Services!vars => ServiceInv'
<1> USE CacheAssumption
<1> SUFFICES ASSUME ServiceInv, [Services!Next]_Services!vars PROVE ServiceInv'
    OBVIOUS
<1>0. ServiceTypeOK /\ SettledIsThere /\ CleanIsAlone /\ ExpectedIsSettled BY DEF ServiceInv
<1>T. ASSUME NEW t \in Tasks, NEW s \in TaskStates, task' = [task EXCEPT ![t] = s]
      PROVE  /\ task' \in [Tasks -> TaskStates] /\ task'[t] = s
             /\ \A u \in Tasks \ {t} : task'[u] = task[u]
  BY <1>0, <1>T DEF ServiceTypeOK
<1>R. \A t \in Tasks : /\ task[t] \in TaskStates
                       /\ task[t] = [pc |-> task[t].pc, value |-> task[t].value,
                                     clean |-> task[t].clean, expects |-> task[t].expects]
  BY <1>0 DEF ServiceTypeOK, TaskStates
<1>Q. \A t \in Tasks : task[t] \in TaskStates BY <1>0 DEF ServiceTypeOK
<1>I. Services!idle \in TaskStates /\ Services!Unsettled \in Outcomes
  BY DEF Services!idle, TaskStates, Outcomes, Services!Unsettled, Services!Nothing, Services!Values, Services!Kinds
<1>1. ASSUME NEW t \in Tasks, NEW value \in Services!Values, Services!begin(t, value), values' \in Nat PROVE ServiceInv'
  <2>1. /\ settled' = Services!Unsettled /\ UNCHANGED <<redis, _local_cache>>
        /\ task' \in [Tasks -> TaskStates]
        /\ task'[t] = [pc |-> "redis", value |-> value, expects |-> Services!Unsettled,
                       clean |-> \A v \in Tasks \ {t} : ~Services!Writing(v)]
        /\ \A u \in Tasks \ {t} : /\ task'[u].clean = FALSE /\ task'[u].expects = Services!Unsettled
                                  /\ task'[u].pc = task[u].pc
    <3>1. /\ settled' = Services!Unsettled /\ UNCHANGED <<redis, _local_cache>>
          /\ task' = [u \in Tasks |->
               IF u = t THEN [pc |-> "redis", value |-> value, expects |-> Services!Unsettled,
                              clean |-> \A v \in Tasks \ {t} : ~Services!Writing(v)]
               ELSE [task[u] EXCEPT !.clean = FALSE, !.expects = Services!Unsettled]]
      BY <1>1 DEF Services!begin
    <3>2. \A b \in BOOLEAN : [pc |-> "redis", value |-> value, expects |-> Services!Unsettled, clean |-> b] \in TaskStates
      BY <1>I DEF TaskStates
    <3>3. ASSUME NEW u \in Tasks
          PROVE  /\ [task[u] EXCEPT !.clean = FALSE, !.expects = Services!Unsettled] \in TaskStates
                 /\ [task[u] EXCEPT !.clean = FALSE, !.expects = Services!Unsettled].clean = FALSE
                 /\ [task[u] EXCEPT !.clean = FALSE, !.expects = Services!Unsettled].expects = Services!Unsettled
                 /\ [task[u] EXCEPT !.clean = FALSE, !.expects = Services!Unsettled].pc = task[u].pc
      BY <1>R, <1>I DEF TaskStates
    <3>4. PICK b \in BOOLEAN : b = \A v \in Tasks \ {t} : ~Services!Writing(v) OBVIOUS
    <3>5. task' = [u \in Tasks |->
               IF u = t THEN [pc |-> "redis", value |-> value, expects |-> Services!Unsettled, clean |-> b]
               ELSE [task[u] EXCEPT !.clean = FALSE, !.expects = Services!Unsettled]]
      BY <3>1, <3>4
    <3>6. /\ task' \in [Tasks -> TaskStates]
          /\ task'[t] = [pc |-> "redis", value |-> value, expects |-> Services!Unsettled, clean |-> b]
          /\ \A u \in Tasks \ {t} : task'[u] = [task[u] EXCEPT !.clean = FALSE, !.expects = Services!Unsettled]
      BY <3>2, <3>3, <3>5
    <3>7. \A u \in Tasks \ {t} : /\ task'[u].clean = FALSE /\ task'[u].expects = Services!Unsettled
                                  /\ task'[u].pc = task[u].pc
      BY <3>3, <3>6
    <3> QED BY <3>1, <3>4, <3>6, <3>7
  <2>2. ServiceTypeOK' BY <1>0, <1>1, <1>I, <2>1 DEF ServiceTypeOK
  <2>3. SettledIsThere' /\ ExpectedIsSettled'
    BY <2>1 DEF SettledIsThere, ExpectedIsSettled
  <2>4. CleanIsAlone'
    <3>1. ASSUME NEW u \in Tasks, task'[u].clean PROVE u = t BY <2>1, <3>1
    <3>2. ASSUME task'[t].clean, NEW u \in Tasks \ {t} PROVE ~Services!Writing(u)'
      <4>1. ~Services!Writing(u) BY <2>1, <3>2
      <4> QED BY <2>1, <4>1 DEF Services!Writing
    <3>3. task'[t].pc = "redis" BY <2>1
    <3> QED BY <3>1, <3>2, <3>3 DEF CleanIsAlone
  <2> QED BY <2>2, <2>3, <2>4 DEF ServiceInv
<1>2. ASSUME NEW t \in Tasks, Services!set(t) PROVE ServiceInv'
  <2>1. PICK sort \in Services!Kinds : Services!begin(t, [number |-> values', kind |-> sort])
    BY <1>2 DEF Services!set
  <2>2. values' \in Nat BY <1>0, <1>2 DEF Services!set, ServiceTypeOK
  <2>3. [number |-> values', kind |-> sort] \in Services!Values BY <2>2 DEF Services!Values
  <2> QED BY <1>1, <2>1, <2>2, <2>3
<1>3. ASSUME NEW t \in Tasks, Services!delete(t) PROVE ServiceInv'
  <2>1. values' \in Nat /\ Services!Nothing \in Services!Values
    BY <1>0, <1>3, JsonKeeps DEF Services!delete, ServiceTypeOK
  <2> QED BY <1>1, <1>3, <2>1 DEF Services!delete
<1>4. ASSUME NEW t \in Tasks, Services!redis_write(t) PROVE ServiceInv'
  <2>1. PICK s \in TaskStates :
          /\ task' = [task EXCEPT ![t] = s]
          /\ s.pc = "local" /\ s.value = task[t].value /\ s.expects = task[t].expects
          /\ redis' \in {redis, Services!json(task[t].value)}
          /\ s.clean => task[t].clean /\ redis' = Services!json(task[t].value)
    <3>1. CASE /\ redis' = Services!json(task[t].value) /\ task' = [task EXCEPT ![t].pc = "local"]
      <4>1. task' = [task EXCEPT ![t] = [task[t] EXCEPT !.pc = "local"]] BY <3>1, Zenon
      <4>2. PICK s \in TaskStates :
              /\ s = [task[t] EXCEPT !.pc = "local"] /\ s.pc = "local"
              /\ s.value = task[t].value /\ s.clean = task[t].clean /\ s.expects = task[t].expects
        BY <1>Q, TaskMoves
      <4> QED BY <3>1, <4>1, <4>2
    <3>2. CASE /\ task' = [task EXCEPT ![t].pc = "local", ![t].clean = FALSE]
               /\ redis' \in {redis, Services!json(task[t].value)}
      <4>1. task' = [task EXCEPT ![t] = [task[t] EXCEPT !.pc = "local", !.clean = FALSE]]
        BY <1>0, <3>2, Zenon DEF ServiceTypeOK
      <4>2. PICK s \in TaskStates :
              /\ s = [task[t] EXCEPT !.pc = "local", !.clean = FALSE] /\ s.pc = "local"
              /\ s.value = task[t].value /\ s.clean = FALSE /\ s.expects = task[t].expects
        BY <1>Q, TaskFails
      <4> QED BY <3>2, <4>1, <4>2
    <3> QED BY <1>4, <3>1, <3>2 DEF Services!redis_write
  <2>2. task[t].pc = "redis" /\ UNCHANGED <<_local_cache, values, settled>>
    BY <1>4 DEF Services!redis_write
  <2>4. /\ task' \in [Tasks -> TaskStates] /\ task'[t] = s
        /\ \A u \in Tasks \ {t} : task'[u] = task[u]
    BY <1>T, <2>1
  <2>5. Services!Writing(t) /\ settled = Services!Unsettled
    BY <1>0, <2>2 DEF Services!Writing, SettledIsThere
  <2>6. ServiceTypeOK'
    <3>1. task[t].value \in Services!Values BY <1>R DEF TaskStates
    <3>2. redis' \in Services!Values BY <1>0, <2>1, <3>1, JsonKeeps DEF ServiceTypeOK
    <3>3. values' \in Nat BY <1>0, <1>4 DEF Services!redis_write, ServiceTypeOK
    <3> QED BY <1>0, <2>2, <2>4, <3>2, <3>3 DEF ServiceTypeOK
  <2>7. SettledIsThere' BY <2>2, <2>5 DEF SettledIsThere
  <2>8. CleanIsAlone'
    <3>1. ASSUME NEW u \in Tasks \ {t}, Services!Writing(u)', task'[u].clean PROVE FALSE
      <4>1. Services!Writing(u) /\ task[u].clean BY <2>4, <3>1 DEF Services!Writing
      <4> QED BY <1>0, <2>5, <4>1 DEF CleanIsAlone
    <3>2. ASSUME s.clean
          PROVE  /\ \A u \in Tasks \ {t} : ~Services!Writing(u)'
                 /\ redis' \in {Services!json(task'[t].value), Services!Nothing}
      <4>1. task[t].clean /\ redis' = Services!json(task[t].value) BY <2>1, <3>2
      <4>2. \A u \in Tasks \ {t} : ~Services!Writing(u) BY <1>0, <2>5, <4>1 DEF CleanIsAlone
      <4> QED BY <2>1, <2>4, <4>1, <4>2 DEF Services!Writing
    <3>3. task'[t].clean = s.clean BY <2>4
    <3> QED BY <3>1, <3>2, <3>3 DEF CleanIsAlone
  <2>9. ExpectedIsSettled' BY <1>0, <2>1, <2>2, <2>4, <2>5 DEF ExpectedIsSettled
  <2> QED BY <2>6, <2>7, <2>8, <2>9 DEF ServiceInv
<1>5. ASSUME NEW t \in Tasks, Services!written(t) PROVE ServiceInv'
  <2>1. /\ task[t].pc = "local" /\ UNCHANGED <<redis, values>> /\ Services!Writing(t)
        /\ \/ /\ _local_cache' = [_local_cache EXCEPT ![ProcessOf[t]] = task[t].value]
              /\ settled' = IF task[t].clean
                            THEN [process |-> ProcessOf[t], value |-> task[t].value] ELSE Services!Unsettled
           \/ UNCHANGED <<_local_cache, settled>>
        /\ task' = [task EXCEPT ![t] = Services!idle]
    BY <1>5 DEF Services!written, Services!local_write, Services!Writing
  <2>2. /\ task' \in [Tasks -> TaskStates] /\ task'[t] = Services!idle
        /\ \A u \in Tasks \ {t} : task'[u] = task[u]
    BY <1>I, <1>T, <2>1
  <2>3. settled = Services!Unsettled BY <1>0, <2>1 DEF SettledIsThere
  <2>4. \A u \in Tasks : task[u].expects = Services!Unsettled
    BY <1>0, <2>3 DEF ExpectedIsSettled
  <2>5. ProcessOf[t] \in Processes /\ task[t].value \in Services!Values BY <1>R DEF TaskStates
  <2>6. ServiceTypeOK'
    <3>1. settled' \in Outcomes BY <1>I, <2>1, <2>3, <2>5 DEF Outcomes
    <3>2. _local_cache' \in [Processes -> Services!Values] BY <1>0, <2>1, <2>5 DEF ServiceTypeOK
    <3> QED BY <1>0, <2>1, <2>2, <3>1, <3>2 DEF ServiceTypeOK
  <2>7. ~Services!Writing(t)' BY <2>2 DEF Services!Writing, Services!idle
  <2>8. SettledIsThere'
    <3>1. CASE /\ task[t].clean /\ settled' # Services!Unsettled
      <4>1. /\ \A u \in Tasks \ {t} : ~Services!Writing(u)
            /\ redis \in {Services!json(task[t].value), Services!Nothing}
        BY <1>0, <2>1, <3>1 DEF CleanIsAlone
      <4>2. \A u \in Tasks : ~Services!Writing(u)' BY <2>2, <2>7, <4>1 DEF Services!Writing
      <4>3. _local_cache'[ProcessOf[t]] = task[t].value
        BY <1>0, <2>1, <2>3, <2>5, <3>1 DEF ServiceTypeOK
      <4>4. settled' = [process |-> ProcessOf[t], value |-> task[t].value] BY <2>1, <2>3, <3>1
      <4> QED BY <2>1, <2>5, <4>1, <4>2, <4>3, <4>4 DEF SettledIsThere
    <3>2. CASE ~(task[t].clean /\ settled' # Services!Unsettled)
      BY <2>1, <2>3, <3>2 DEF SettledIsThere
    <3> QED BY <3>1, <3>2
  <2>9. CleanIsAlone'
    <3> SUFFICES ASSUME NEW u \in Tasks, Services!Writing(u)', task'[u].clean
                 PROVE  /\ \A v \in Tasks \ {u} : ~Services!Writing(v)'
                        /\ task'[u].pc = "local" => redis' \in {Services!json(task'[u].value), Services!Nothing}
        BY DEF CleanIsAlone
    <3>1. u # t /\ task'[u] = task[u] /\ Services!Writing(u) BY <2>2, <2>7 DEF Services!Writing
    <3> QED BY <1>0, <2>1, <3>1 DEF CleanIsAlone
  <2>10. ExpectedIsSettled' BY <2>2, <2>4 DEF ExpectedIsSettled, Services!idle
  <2> QED BY <2>6, <2>8, <2>9, <2>10 DEF ServiceInv
<1>6. ASSUME NEW t \in Tasks, NEW s \in TaskStates, task' = [task EXCEPT ![t] = s],
             UNCHANGED <<redis, _local_cache, values, settled>>,
             ~Services!Writing(t), s.pc \notin {"redis", "local"},
             s.expects # Services!Unsettled =>
                /\ s.expects = settled /\ settled.process = ProcessOf[t]
                /\ s.pc = "got" => s.value \in {settled.value, Services!json(settled.value)}
      PROVE  ServiceInv'
  <2>1. /\ task' \in [Tasks -> TaskStates] /\ task'[t] = s
        /\ \A u \in Tasks \ {t} : task'[u] = task[u]
    BY <1>T, <1>6
  <2>2. \A u \in Tasks : Services!Writing(u)' <=> Services!Writing(u) BY <1>6, <2>1 DEF Services!Writing
  <2>3. ServiceTypeOK' BY <1>0, <1>6, <2>1 DEF ServiceTypeOK
  <2>4. SettledIsThere' BY <1>0, <1>6, <2>2 DEF SettledIsThere
  <2>5. CleanIsAlone'
    <3> SUFFICES ASSUME NEW u \in Tasks, Services!Writing(u)', task'[u].clean
                 PROVE  /\ \A v \in Tasks \ {u} : ~Services!Writing(v)'
                        /\ task'[u].pc = "local" => redis' \in {Services!json(task'[u].value), Services!Nothing}
        BY DEF CleanIsAlone
    <3>1. u # t /\ task'[u] = task[u] /\ Services!Writing(u) BY <1>6, <2>1, <2>2
    <3> QED BY <1>0, <1>6, <2>2, <3>1 DEF CleanIsAlone
  <2>6. ExpectedIsSettled' BY <1>0, <1>6, <2>1 DEF ExpectedIsSettled
  <2> QED BY <2>3, <2>4, <2>5, <2>6 DEF ServiceInv
<1>7. ASSUME NEW t \in Tasks, Services!get(t) PROVE ServiceInv'
  <2>1. PICK e \in Outcomes : /\ task' = [task EXCEPT ![t] = [Services!idle EXCEPT !.pc = "ask", !.expects = e]]
                              /\ e # Services!Unsettled => e = settled /\ settled.process = ProcessOf[t]
    BY <1>0, <1>7, <1>I DEF Services!get, ServiceTypeOK
  <2>2. ~Services!Writing(t) /\ UNCHANGED <<redis, _local_cache, values, settled>>
    BY <1>7 DEF Services!get, Services!Writing
  <2>3. PICK s \in TaskStates : /\ s = [Services!idle EXCEPT !.pc = "ask", !.expects = e]
                               /\ s.pc = "ask" /\ s.expects = e
    BY Asking
  <2>4. task' = [task EXCEPT ![t] = s] BY <2>1, <2>3
  <2> QED BY <1>6, <2>1, <2>2, <2>3, <2>4
<1>8. ASSUME NEW t \in Tasks, Services!redis_read(t) PROVE ServiceInv'
  <2>1. PICK s \in TaskStates :
          /\ task' = [task EXCEPT ![t] = s]
          /\ s.pc \in {"got", "fallback"} /\ s.expects = task[t].expects
          /\ s.pc = "got" => s.value = redis /\ redis # Services!Nothing
    <3>1. redis \in Services!Values BY <1>0 DEF ServiceTypeOK
    <3>2. CASE redis # Services!Nothing /\ task' = [task EXCEPT ![t].pc = "got", ![t].value = redis]
      <4>1. task' = [task EXCEPT ![t] = [task[t] EXCEPT !.pc = "got", !.value = redis]]
        BY <1>0, <3>2, Zenon DEF ServiceTypeOK
      <4>2. PICK s \in TaskStates :
              /\ s = [task[t] EXCEPT !.pc = "got", !.value = redis]
              /\ s.pc = "got" /\ s.value = redis /\ s.expects = task[t].expects
        <5>1. task[t] \in TaskStates /\ redis \in Services!Values /\ "got" \in {"fallback", "got"} BY <1>Q, <3>1
        <5> QED BY <5>1, TaskReads
      <4> QED BY <3>2, <4>1, <4>2
    <3>3. CASE task' = [task EXCEPT ![t].pc = "fallback", ![t].value = redis]
      <4>1. task' = [task EXCEPT ![t] = [task[t] EXCEPT !.pc = "fallback", !.value = redis]]
        BY <1>0, <3>3, Zenon DEF ServiceTypeOK
      <4>2. PICK s \in TaskStates :
              /\ s = [task[t] EXCEPT !.pc = "fallback", !.value = redis]
              /\ s.pc = "fallback" /\ s.value = redis /\ s.expects = task[t].expects
        <5>1. task[t] \in TaskStates /\ redis \in Services!Values /\ "fallback" \in {"fallback", "got"}
          BY <1>Q, <3>1
        <5> QED BY <5>1, TaskReads
      <4> QED BY <4>1, <4>2
    <3>4. CASE task' = [task EXCEPT ![t].pc = "fallback"]
      <4>1. task' = [task EXCEPT ![t] = [task[t] EXCEPT !.pc = "fallback"]] BY <3>4, Zenon
      <4>2. PICK s \in TaskStates :
              /\ s = [task[t] EXCEPT !.pc = "fallback"]
              /\ s.pc = "fallback" /\ s.expects = task[t].expects
        BY <1>Q, TaskMoves
      <4> QED BY <4>1, <4>2
    <3> QED BY <1>8, <3>2, <3>3, <3>4 DEF Services!redis_read
  <2>3. task[t].pc = "ask" /\ ~Services!Writing(t) /\ UNCHANGED <<redis, _local_cache, values, settled>>
    BY <1>8 DEF Services!redis_read, Services!Writing
  <2>4. task[t].expects # Services!Unsettled =>
           /\ task[t].expects = settled /\ settled.process = ProcessOf[t]
           /\ settled # Services!Unsettled
    BY <1>0 DEF ExpectedIsSettled
  <2>5. task[t].expects # Services!Unsettled /\ s.pc = "got" =>
           s.value \in {settled.value, Services!json(settled.value)}
    BY <1>0, <2>1, <2>4 DEF SettledIsThere
  <2> QED BY <1>6, <2>1, <2>3, <2>4, <2>5
<1>9. ASSUME NEW t \in Tasks, Services!local_read(t) PROVE ServiceInv'
  <2>1. PICK v \in Services!Values : v = _local_cache[ProcessOf[t]] BY <1>0 DEF ServiceTypeOK
  <2>2. task' = [task EXCEPT ![t] = [task[t] EXCEPT !.pc = "got", !.value = v]]
    BY <1>0, <1>9, <2>1, Zenon DEF Services!local_read, ServiceTypeOK
  <2>4. ~Services!Writing(t) /\ UNCHANGED <<redis, _local_cache, values, settled>>
    BY <1>9 DEF Services!local_read, Services!Writing
  <2>5. task[t].expects # Services!Unsettled =>
           /\ task[t].expects = settled /\ settled.process = ProcessOf[t]
           /\ v \in {settled.value, Services!json(settled.value)}
    BY <1>0, <2>1 DEF ExpectedIsSettled, SettledIsThere
  <2>6. PICK s \in TaskStates :
          /\ s = [task[t] EXCEPT !.pc = "got", !.value = v]
          /\ s.pc = "got" /\ s.value = v /\ s.expects = task[t].expects
    <3>1. task[t] \in TaskStates /\ v \in Services!Values /\ "got" \in {"fallback", "got"} BY <1>Q
    <3> QED BY <3>1, TaskReads
  <2> QED BY <1>6, <2>2, <2>4, <2>5, <2>6
<1>10. CASE Services!redis_loses
  <2>1. redis' = Services!Nothing /\ UNCHANGED <<_local_cache, task, values, settled>>
    BY <1>10 DEF Services!redis_loses
  <2>2. ServiceTypeOK' BY <1>0, <2>1, JsonKeeps DEF ServiceTypeOK
  <2>3. SettledIsThere' BY <1>0, <2>1 DEF SettledIsThere, Services!Writing
  <2>4. CleanIsAlone' BY <1>0, <2>1 DEF CleanIsAlone, Services!Writing
  <2>5. ExpectedIsSettled' BY <1>0, <2>1 DEF ExpectedIsSettled
  <2> QED BY <2>2, <2>3, <2>4, <2>5 DEF ServiceInv
<1>11. CASE UNCHANGED Services!vars
  BY <1>0, <1>11 DEF Services!vars, ServiceInv, ServiceTypeOK, SettledIsThere, CleanIsAlone,
         ExpectedIsSettled, Services!Writing
<1> QED BY <1>2, <1>3, <1>4, <1>5, <1>7, <1>8, <1>9, <1>10, <1>11 DEF Services!Next

(* Nothing was written at first.                                           *)
LEMMA ServiceInvHolds == Services!Init => ServiceInv
<1> SUFFICES ASSUME Services!Init PROVE ServiceInv OBVIOUS
<1>1. ServiceTypeOK
  BY DEF Services!Init, ServiceTypeOK, Services!idle, TaskStates, Outcomes, Services!Unsettled,
         Services!Nothing, Services!Values, Services!Kinds
<1>2. SettledIsThere BY DEF Services!Init, SettledIsThere
<1>3. \A t \in Tasks : task[t].pc = "idle" /\ task[t].expects = Services!Unsettled
  BY DEF Services!Init, Services!idle
<1>4. CleanIsAlone /\ ExpectedIsSettled BY <1>3 DEF CleanIsAlone, ExpectedIsSettled, Services!Writing
<1> QED BY <1>1, <1>2, <1>4 DEF ServiceInv

(* A get that expects a value answers with it.                             *)
LEMMA ServiceInvSuffices == ServiceInv => Services!OwnWritesAreRead
<1> SUFFICES ASSUME ServiceInv, NEW t \in Tasks, task[t].pc = "got",
                    task[t].expects # Services!Unsettled
             PROVE  /\ task[t].value.number = task[t].expects.value.number
                    /\ task[t].expects.value.kind = "plain" =>
                          task[t].value = task[t].expects.value
  BY DEF Services!OwnWritesAreRead
<1>1. /\ task[t].expects = settled
      /\ task[t].value \in {settled.value, Services!json(settled.value)}
  BY DEF ServiceInv, ExpectedIsSettled
<1>2. settled.value \in Services!Values BY DEF ServiceInv, ServiceTypeOK, Outcomes
<1> QED BY <1>1, <1>2, JsonKeeps

-----------------------------------------------------------------------------
(* AutoInitMixin: getters of several threads that parse the data of a      *)
(* container on the first use.                                             *)

(* The steps of a getter.                                                  *)
GetterPcs == {"idle", "ensure", "set", "init_data", "get"}

(* The part of the invariant that gives the variables their types.         *)
GettersTypeOK ==
    /\ _initialized \in BOOLEAN /\ parsed \in BOOLEAN
    /\ thread \in [Readers -> GetterPcs] /\ DOMAIN overlapped = Readers

(* The flag is set before the data is parsed only while some thread        *)
(* parses.                                                                 *)
FlagIsMeant == _initialized /\ ~parsed => \E o \in Readers : thread[o] = "init_data"

(* Who is in a getter while another thread parses is excused.              *)
OverlapsAreKnown ==
    \A t, o \in Readers : t # o /\ thread[o] = "init_data" /\ thread[t] # "idle" => overlapped[t]

(* Who is about to read finds the data parsed, or is excused.              *)
GettersMayRead == \A t \in Readers : thread[t] = "get" => parsed \/ overlapped[t]

(* The inductive invariant of AutoInitMixin.                               *)
GettersInv == GettersTypeOK /\ FlagIsMeant /\ OverlapsAreKnown /\ GettersMayRead /\ read

(* Every step of a getter keeps the invariant, and so does init_data when  *)
(* it raises.                                                              *)
LEMMA GettersInvKept == GettersInv /\ [Getters!Next]_Getters!vars => GettersInv'
<1> SUFFICES ASSUME GettersInv, [Getters!Next]_Getters!vars PROVE GettersInv'
    OBVIOUS
<1> USE DEF GettersInv
<1>G. ASSUME NEW t \in Readers, NEW pc \in GetterPcs, Getters!Goto(t, pc)
      PROVE  /\ thread' \in [Readers -> GetterPcs] /\ thread'[t] = pc
             /\ \A o \in Readers \ {t} : thread'[o] = thread[o]
  BY <1>G DEF Getters!Goto, GettersTypeOK
<1>1. ASSUME NEW t \in Readers, Getters!__getattribute__(t) PROVE GettersInv'
  <2>1. PICK pc \in {"get", "ensure"} : Getters!Goto(t, pc) /\ (pc = "get" <=> _initialized)
    BY <1>1 DEF Getters!__getattribute__
  <2>2. /\ thread' \in [Readers -> GetterPcs] /\ thread'[t] = pc
        /\ \A o \in Readers \ {t} : thread'[o] = thread[o]
    BY <1>G, <2>1 DEF GetterPcs
  <2>3. /\ thread[t] = "idle" /\ UNCHANGED <<_initialized, parsed, read>>
        /\ DOMAIN overlapped' = Readers
        /\ \A o \in Readers \ {t} : overlapped'[o] = overlapped[o]
        /\ overlapped'[t] <=> \E o \in Readers : thread[o] = "init_data"
    BY <1>1, Zenon DEF Getters!__getattribute__, GettersTypeOK
  <2>4. GettersTypeOK' BY <2>2, <2>3 DEF GettersTypeOK
  <2>5. FlagIsMeant' BY <2>2, <2>3 DEF FlagIsMeant
  <2>6. OverlapsAreKnown' BY <2>1, <2>2, <2>3 DEF OverlapsAreKnown
  <2>7. GettersMayRead' BY <2>1, <2>2, <2>3 DEF GettersMayRead, FlagIsMeant
  <2> QED BY <2>3, <2>4, <2>5, <2>6, <2>7
<1>2. ASSUME NEW t \in Readers, Getters!_ensure_init(t) PROVE GettersInv'
  <2>1. PICK pc \in {"get", "set"} : Getters!Goto(t, pc) /\ (pc = "get" <=> _initialized)
    BY <1>2 DEF Getters!_ensure_init
  <2>2. /\ thread' \in [Readers -> GetterPcs] /\ thread'[t] = pc
        /\ \A o \in Readers \ {t} : thread'[o] = thread[o]
    BY <1>G, <2>1 DEF GetterPcs
  <2>3. thread[t] = "ensure" /\ UNCHANGED <<_initialized, parsed, overlapped, read>>
    BY <1>2 DEF Getters!_ensure_init
  <2>4. GettersTypeOK' BY <2>2, <2>3 DEF GettersTypeOK
  <2>5. FlagIsMeant' BY <2>2, <2>3 DEF FlagIsMeant
  <2>6. OverlapsAreKnown' BY <2>1, <2>2, <2>3 DEF OverlapsAreKnown
  <2>7. GettersMayRead' BY <2>1, <2>2, <2>3 DEF GettersMayRead, FlagIsMeant, OverlapsAreKnown
  <2> QED BY <2>3, <2>4, <2>5, <2>6, <2>7
<1>3. ASSUME NEW t \in Readers, Getters!begin(t) PROVE GettersInv'
  <2>1. Getters!Goto(t, "init_data") BY <1>3 DEF Getters!begin
  <2>2. /\ thread' \in [Readers -> GetterPcs] /\ thread'[t] = "init_data"
        /\ \A o \in Readers \ {t} : thread'[o] = thread[o]
    BY <1>G, <2>1 DEF GetterPcs
  <2>3. /\ thread[t] = "set" /\ UNCHANGED <<parsed, read>> /\ _initialized'
        /\ DOMAIN overlapped' = Readers
        /\ \A o \in Readers : overlapped[o] => overlapped'[o]
        /\ \A o \in Readers \ {t} : thread[o] # "idle" => overlapped'[o]
        /\ (\E o \in Readers : thread[o] = "init_data") => overlapped'[t]
    BY <1>3, Zenon DEF Getters!begin
  <2>4. GettersTypeOK' BY <1>3, <2>2, <2>3 DEF GettersTypeOK, Getters!begin
  <2>5. FlagIsMeant' BY <2>2 DEF FlagIsMeant
  <2>6. OverlapsAreKnown'
    <3> SUFFICES ASSUME NEW u \in Readers, NEW o \in Readers, u # o, thread'[o] = "init_data",
                        thread'[u] # "idle"
                 PROVE  overlapped'[u]
        BY DEF OverlapsAreKnown
    <3>1. CASE u = t BY <2>2, <2>3, <3>1
    <3>2. CASE u # t BY <2>2, <2>3, <3>2
    <3> QED BY <3>1, <3>2
  <2>7. GettersMayRead' BY <2>2, <2>3 DEF GettersMayRead
  <2> QED BY <2>3, <2>4, <2>5, <2>6, <2>7
<1>4. ASSUME NEW t \in Readers, Getters!init_data(t) PROVE GettersInv'
  <2>1. Getters!Goto(t, "get") BY <1>4 DEF Getters!init_data
  <2>2. /\ thread' \in [Readers -> GetterPcs] /\ thread'[t] = "get"
        /\ \A o \in Readers \ {t} : thread'[o] = thread[o]
    BY <1>G, <2>1 DEF GetterPcs
  <2>3. thread[t] = "init_data" /\ parsed' = TRUE /\ UNCHANGED <<_initialized, overlapped, read>>
    BY <1>4 DEF Getters!init_data
  <2>4. GettersTypeOK' BY <2>2, <2>3 DEF GettersTypeOK
  <2>5. FlagIsMeant' /\ GettersMayRead' BY <2>3 DEF FlagIsMeant, GettersMayRead
  <2>6. OverlapsAreKnown' BY <2>2, <2>3 DEF OverlapsAreKnown
  <2> QED BY <2>3, <2>4, <2>5, <2>6
<1>5. ASSUME NEW t \in Readers, Getters!init_data_raises(t) PROVE GettersInv'
  <2>1. Getters!Goto(t, "idle") BY <1>5 DEF Getters!init_data_raises
  <2>2. /\ thread' \in [Readers -> GetterPcs] /\ thread'[t] = "idle"
        /\ \A o \in Readers \ {t} : thread'[o] = thread[o]
    BY <1>G, <2>1 DEF GetterPcs
  <2>3. _initialized' = FALSE /\ UNCHANGED <<parsed, overlapped, read>>
    BY <1>5 DEF Getters!init_data_raises
  <2>4. GettersTypeOK' BY <2>2, <2>3 DEF GettersTypeOK
  <2>5. FlagIsMeant' BY <2>3 DEF FlagIsMeant
  <2>6. OverlapsAreKnown' BY <2>2, <2>3 DEF OverlapsAreKnown
  <2>7. GettersMayRead' BY <2>2, <2>3 DEF GettersMayRead
  <2> QED BY <2>3, <2>4, <2>5, <2>6, <2>7
<1>6. ASSUME NEW t \in Readers, Getters!get(t) PROVE GettersInv'
  <2>1. Getters!Goto(t, "idle") BY <1>6 DEF Getters!get
  <2>2. /\ thread' \in [Readers -> GetterPcs] /\ thread'[t] = "idle"
        /\ \A o \in Readers \ {t} : thread'[o] = thread[o]
    BY <1>G, <2>1 DEF GetterPcs
  <2>3. thread[t] = "get" /\ UNCHANGED <<_initialized, parsed, overlapped>>
    BY <1>6 DEF Getters!get
  <2>4. read' BY <1>6 DEF Getters!get, GettersMayRead
  <2>5. GettersTypeOK' BY <2>2, <2>3 DEF GettersTypeOK
  <2>6. FlagIsMeant' BY <2>2, <2>3 DEF FlagIsMeant
  <2>7. OverlapsAreKnown' BY <2>2, <2>3 DEF OverlapsAreKnown
  <2>8. GettersMayRead' BY <2>2, <2>3 DEF GettersMayRead
  <2> QED BY <2>4, <2>5, <2>6, <2>7, <2>8
<1>7. CASE UNCHANGED Getters!vars
  BY <1>7 DEF Getters!vars, GettersTypeOK, FlagIsMeant, OverlapsAreKnown, GettersMayRead
<1> QED BY <1>1, <1>2, <1>3, <1>4, <1>5, <1>6, <1>7 DEF Getters!Next

(* The data is not parsed and no getter is called at first.                *)
LEMMA GettersInvHolds == Getters!Init => GettersInv
BY DEF Getters!Init, GettersInv, GettersTypeOK, FlagIsMeant, OverlapsAreKnown, GettersMayRead, GetterPcs

(* The property is a part of the invariant.                                *)
LEMMA GettersInvSuffices == GettersInv => Getters!DataIsRead
BY DEF GettersInv, Getters!DataIsRead

-----------------------------------------------------------------------------
(* WebSocketAdapters: the names of topics on the way to the venue and      *)
(* back.                                                                   *)

(* What the venue is told to send for a topic and a symbol.                *)
ChannelOf(topic, symbol) ==
    IF kind = "OKX" THEN Adapters!format_subscription_message(topic, symbol)
    ELSE Adapters!generic_message(topic, symbol)

(* What the venue sends was asked for.                                     *)
StreamsWereAsked ==
    \A channel \in streams : \E topic \in DOMAIN Limits, symbol \in Symbols :
        <<topic, symbol>> \in asked /\ channel = ChannelOf(topic, symbol)

(* The last message given to the client names what it asked for.           *)
LastWasAsked ==
    received = << >> \/ \E m : received = <<m>> /\ <<m.topic, m.symbol>> \in asked

(* The inductive invariant of the exchange adapters.                       *)
AdaptersInv == StreamsWereAsked /\ LastWasAsked

(* The topic is found again from its channel, because no two topics have   *)
(* one channel and no topic is called like the channel of another.         *)
LEMMA ChannelsInvert ==
    ASSUME NEW topic \in DOMAIN Limits
    PROVE  Adapters!_convert_okx_channel_to_generic(Adapters!_get_okx_channel(topic)) = topic
<1> USE AdaptersAssumption
<1>1. /\ DOMAIN Adapters!Channels = {"ticker", "depth", "kline"}
      /\ Adapters!Channels["ticker"] = "tickers" /\ Adapters!Channels["depth"] = "books"
      /\ Adapters!Channels["kline"] = "candle"
  BY DEF Adapters!Channels
<1> HIDE DEF Adapters!Channels
<1>2. CASE topic \in DOMAIN Adapters!Channels
  <2>1. Adapters!_get_okx_channel(topic) = Adapters!Channels[topic]
    BY <1>2 DEF Adapters!_get_okx_channel
  <2>2. \A t \in DOMAIN Adapters!Channels : Adapters!Channels[t] = Adapters!Channels[topic] => t = topic
    BY <1>1, <1>2
  <2>3. (CHOOSE t \in DOMAIN Adapters!Channels : Adapters!Channels[t] = Adapters!Channels[topic]) = topic
    BY <1>2, <2>2
  <2> QED BY <1>2, <2>1, <2>3 DEF Adapters!_convert_okx_channel_to_generic
<1>3. CASE topic \notin DOMAIN Adapters!Channels
  <2>1. Adapters!_get_okx_channel(topic) = topic BY <1>3 DEF Adapters!_get_okx_channel
  <2>2. \A t \in DOMAIN Adapters!Channels : Adapters!Channels[t] # topic BY <1>1
  <2> QED BY <2>1, <2>2 DEF Adapters!_convert_okx_channel_to_generic
<1> QED BY <1>2, <1>3

(* Every subscription and every message keeps the invariant.               *)
LEMMA AdaptersInvKept == AdaptersInv /\ [Adapters!Next]_Adapters!vars => AdaptersInv'
<1> SUFFICES ASSUME AdaptersInv, [Adapters!Next]_Adapters!vars PROVE AdaptersInv'
    OBVIOUS
<1> USE DEF AdaptersInv
<1>0. kind' = kind BY DEF Adapters!Next, Adapters!subscribe, Adapters!unsubscribe,
Adapters!message, Adapters!vars
<1>C. \A t, s : ChannelOf(t, s)' = ChannelOf(t, s)
  BY <1>0 DEF ChannelOf, Adapters!format_subscription_message, Adapters!generic_message,
         Adapters!_get_okx_channel, Adapters!Channels
<1>1. ASSUME NEW t \in DOMAIN Limits, NEW s \in Symbols, Adapters!subscribe(t, s) PROVE AdaptersInv'
  <2>1. /\ streams' = streams \cup {ChannelOf(t, s)} /\ asked' = asked \cup {<<t, s>>}
        /\ received' = received
    BY <1>1 DEF Adapters!subscribe, ChannelOf
  <2>2. StreamsWereAsked'
    <3> SUFFICES ASSUME NEW c \in streams'
                 PROVE  \E topic \in DOMAIN Limits, symbol \in Symbols :
                            <<topic, symbol>> \in asked' /\ c = ChannelOf(topic, symbol)
        BY <1>C DEF StreamsWereAsked
    <3>1. CASE c = ChannelOf(t, s) BY <2>1, <3>1
    <3>2. CASE c \in streams BY <2>1, <3>2 DEF StreamsWereAsked
    <3> QED BY <2>1, <3>1, <3>2
  <2>3. LastWasAsked' BY <2>1 DEF LastWasAsked
  <2> QED BY <2>2, <2>3
<1>2. ASSUME NEW t \in DOMAIN Limits, NEW s \in Symbols, Adapters!unsubscribe(t, s) PROVE AdaptersInv'
  <2>1. streams' \subseteq streams /\ asked' = asked /\ received' = received
    BY <1>2 DEF Adapters!unsubscribe
  <2>2. StreamsWereAsked' BY <1>C, <2>1 DEF StreamsWereAsked
  <2> QED BY <2>1, <2>2 DEF LastWasAsked
<1>3. ASSUME NEW c \in streams, Adapters!message(c) PROVE AdaptersInv'
  <2>1. UNCHANGED <<asked, streams>> BY <1>3 DEF Adapters!message
  <2>2. StreamsWereAsked' BY <1>C, <2>1 DEF StreamsWereAsked
  <2>3. PICK topic \in DOMAIN Limits, symbol \in Symbols :
          <<topic, symbol>> \in asked /\ c = ChannelOf(topic, symbol)
    BY DEF StreamsWereAsked
  <2>4. PICK data : received' = <<IF kind = "OKX" THEN Adapters!normalize_message(c, data)
                                  ELSE Adapters!generic_normalize_message(c, data)>>
    BY <1>3 DEF Adapters!message
  <2>5. \E m : received' = <<m>> /\ m.topic = topic /\ m.symbol = symbol
    <3>1. CASE kind = "OKX"
      <4>1. c = [topic |-> Adapters!_get_okx_channel(topic), symbol |-> symbol]
        BY <2>3, <3>1 DEF ChannelOf, Adapters!format_subscription_message
      <4>2. c.topic = Adapters!_get_okx_channel(topic) /\ c.symbol = symbol BY <4>1
      <4>3. Adapters!extract_topic_symbol(c) = <<topic, symbol>>
        BY <4>2, ChannelsInvert DEF Adapters!extract_topic_symbol
      <4>4. received' = <<Adapters!normalize_message(c, data)>> BY <2>4, <3>1
      <4>5. Adapters!normalize_message(c, data).topic = topic /\ Adapters!normalize_message(c, data).symbol = symbol
        BY <4>3 DEF Adapters!normalize_message
      <4> QED BY <4>4, <4>5
    <3>2. CASE kind # "OKX"
      <4>1. c = [topic |-> topic, symbol |-> symbol]
        BY <2>3, <3>2 DEF ChannelOf, Adapters!generic_message
      <4>2. received' = <<Adapters!generic_normalize_message(c, data)>> BY <2>4, <3>2
      <4>3. /\ Adapters!generic_normalize_message(c, data).topic = topic
            /\ Adapters!generic_normalize_message(c, data).symbol = symbol
        BY <4>1 DEF Adapters!generic_normalize_message
      <4> QED BY <4>2, <4>3
    <3> QED BY <3>1, <3>2
  <2>6. LastWasAsked' BY <2>1, <2>3, <2>5 DEF LastWasAsked
  <2> QED BY <2>2, <2>6
<1>4. CASE UNCHANGED Adapters!vars
  <2>1. UNCHANGED <<asked, streams, received>> BY <1>4 DEF Adapters!vars
  <2> QED BY <1>C, <2>1 DEF StreamsWereAsked, LastWasAsked
<1> QED BY <1>1, <1>2, <1>3, <1>4 DEF Adapters!Next

(* Nothing is subscribed to at first.                                      *)
LEMMA AdaptersInvHolds == Adapters!Init => AdaptersInv
BY DEF Adapters!Init, AdaptersInv, StreamsWereAsked, LastWasAsked

(* The property speaks of the one message kept.                            *)
LEMMA AdaptersInvSuffices == AdaptersInv => Adapters!RoutedBack
<1> SUFFICES ASSUME AdaptersInv, NEW i \in DOMAIN received
             PROVE  <<received[i].topic, received[i].symbol>> \in asked
    BY DEF Adapters!RoutedBack
<1>1. received # << >> BY SMT
<1>2. PICK m : received = <<m>> /\ <<m.topic, m.symbol>> \in asked
  BY <1>1 DEF AdaptersInv, LastWasAsked
<1>3. received[i] = m BY <1>2, SMT
<1> QED BY <1>2, <1>3

-----------------------------------------------------------------------------
(* AsyncTools: the workers of a group, their semaphore, and the owner that *)
(* waits for them or cancels them.                                         *)

WorkerPcs == {"absent", "new", "semaphore", "queue", "done"}
OwnerPcs == {"idle", "wait_all", "wait_all(timeout)", "timed out", "cancel_all"}

(* The part of the invariant that gives the variables their types.         *)
ToolsTypeOK ==
    /\ permits \in Nat
    /\ worker \in [Workers -> [pc : WorkerPcs, cancelled : BOOLEAN, timed_out : BOOLEAN]]
    /\ owner \in [pc : OwnerPcs, tasks : SUBSET Workers]

(* The owner waits for tasks of the group only, which have been created.   *)
AwaitedExist == \A w \in owner.tasks : worker[w].pc # "absent"

(* The workers that hold a permit.                                         *)
Holding == {w \in Workers : worker[w].pc = "queue"}

(* The inductive invariant of AsyncTools.                                  *)
ToolsInv == ToolsTypeOK /\ AwaitedExist /\ Tools!GroupsSound

(* The size of a set is the same in the instance as here.                  *)
LEMMA SameSizes == \A S : Tools!Cardinality(S) = Cardinality(S)
BY DEF Tools!Cardinality, Cardinality

(* A worker that takes a permit, gives one back, or does neither.          *)
LEMMA PermitsMove ==
    ASSUME ToolsInv, NEW w \in Workers, NEW pc \in WorkerPcs,
           NEW r \in [pc : WorkerPcs, cancelled : BOOLEAN, timed_out : BOOLEAN],
           worker' = [worker EXCEPT ![w] = r], r.pc = pc,
           permits' = IF worker[w].pc = "queue" /\ pc # "queue" THEN permits + 1
                      ELSE IF worker[w].pc # "queue" /\ pc = "queue" THEN permits - 1
                      ELSE permits,
           worker[w].pc # "queue" /\ pc = "queue" => permits > 0
    PROVE  /\ permits' \in Nat
           /\ permits' + Cardinality(Holding') = max_concurrent
<1>1. /\ permits \in Nat /\ permits + Cardinality(Holding) = max_concurrent
      /\ worker \in [Workers -> [pc : WorkerPcs, cancelled : BOOLEAN, timed_out : BOOLEAN]]
  BY SameSizes DEF ToolsInv, ToolsTypeOK, Tools!GroupsSound, Tools!PermitsKept, Holding
<1>2. IsFiniteSet(Holding) /\ Cardinality(Holding) \in Nat
  BY ToolsAssumption, FS_Subset, FS_CardinalityType DEF Holding
<1>3. worker'[w].pc = pc /\ \A o \in Workers \ {w} : worker'[o] = worker[o] BY <1>1
<1>4. CASE worker[w].pc = "queue" /\ pc # "queue"
  <2>1. Holding' = Holding \ {w} /\ w \in Holding BY <1>3, <1>4 DEF Holding
  <2>2. Cardinality(Holding') = Cardinality(Holding) - 1 BY <1>2, <2>1, FS_RemoveElement
  <2> QED BY <1>1, <1>2, <1>4, <2>2
<1>5. CASE worker[w].pc # "queue" /\ pc = "queue"
  <2>1. Holding' = Holding \cup {w} /\ w \notin Holding BY <1>3, <1>5 DEF Holding
  <2>2. Cardinality(Holding') = Cardinality(Holding) + 1 BY <1>2, <2>1, FS_AddElement
  <2> QED BY <1>1, <1>2, <1>5, <2>2
<1>6. CASE worker[w].pc = "queue" <=> pc = "queue"
  <2>1. Holding' = Holding BY <1>3, <1>6 DEF Holding
  <2>2. permits' = permits BY <1>6
  <2> QED BY <1>1, <2>1, <2>2
<1> QED BY <1>4, <1>5, <1>6

(* A worker's step from one state to the next: it stays cancelled unless   *)
(* it ends, and is in the group until it does.                             *)
LEMMA WorkerMoves ==
    ASSUME ToolsInv, NEW w \in Workers,
           NEW r \in [pc : WorkerPcs, cancelled : BOOLEAN, timed_out : BOOLEAN],
           worker' = [worker EXCEPT ![w] = r],
           permits' = IF worker[w].pc = "queue" /\ r.pc # "queue" THEN permits + 1
                      ELSE IF worker[w].pc # "queue" /\ r.pc = "queue" THEN permits - 1
                      ELSE permits,
           worker[w].pc # "queue" /\ r.pc = "queue" => permits > 0,
           r.pc # "absent", worker[w].cancelled => r.cancelled \/ r.pc = "done",
           worker[w].pc = "done" => r.pc = "done",
           _tasks' = IF r.pc = "done" THEN _tasks \ {w} ELSE _tasks \cup {w},
           UNCHANGED owner
    PROVE  ToolsInv'
<1>1. /\ worker \in [Workers -> [pc : WorkerPcs, cancelled : BOOLEAN, timed_out : BOOLEAN]]
      /\ owner \in [pc : OwnerPcs, tasks : SUBSET Workers]
  BY DEF ToolsInv, ToolsTypeOK
<1>2. worker'[w] = r /\ \A o \in Workers \ {w} : worker'[o] = worker[o] BY <1>1
<1>3. permits' \in Nat /\ permits' + Cardinality(Holding') = max_concurrent BY PermitsMove
<1>4. ToolsTypeOK' BY <1>1, <1>3 DEF ToolsTypeOK
<1>5. AwaitedExist' BY <1>1, <1>2 DEF ToolsInv, AwaitedExist
<1>6. Tools!CancelledGroupsEnd'
  BY <1>1, <1>2 DEF ToolsInv, AwaitedExist, Tools!GroupsSound, Tools!CancelledGroupsEnd
<1>7. _tasks' = {o \in Workers : worker'[o].pc \in Tools!Running}
  <2>1. _tasks = {o \in Workers : worker[o].pc \in Tools!Running}
    BY DEF ToolsInv, Tools!GroupsSound, Tools!PermitsKept
  <2>2. r.pc = "done" <=> r.pc \notin Tools!Running BY DEF Tools!Running, WorkerPcs
  <2> QED BY <1>2, <2>1, <2>2
<1>8. Tools!PermitsKept' BY <1>3, <1>7, SameSizes DEF Tools!PermitsKept, Holding
<1> QED BY <1>4, <1>5, <1>6, <1>8 DEF ToolsInv, Tools!GroupsSound

(* A call of the owner that cancels some tasks or none, and then waits.    *)
LEMMA OwnerMoves ==
    ASSUME ToolsInv, NEW tasks \in SUBSET Workers, Tools!cancel(tasks),
           owner' \in [pc : OwnerPcs, tasks : SUBSET Workers],
           \A w \in owner'.tasks : worker[w].pc # "absent",
           owner'.pc \in {"timed out", "cancel_all"} => owner'.tasks \subseteq tasks,
           UNCHANGED <<_tasks, permits>>
    PROVE  ToolsInv'
<1>1. worker \in [Workers -> [pc : WorkerPcs, cancelled : BOOLEAN, timed_out : BOOLEAN]]
  BY DEF ToolsInv, ToolsTypeOK
<1>2. worker' \in [Workers -> [pc : WorkerPcs, cancelled : BOOLEAN, timed_out : BOOLEAN]]
  BY <1>1 DEF Tools!cancel
<1>3. \A w \in Workers :
         /\ worker'[w].pc = worker[w].pc
         /\ w \in tasks /\ worker[w].pc \in Tools!Running => worker'[w].cancelled
  BY <1>1 DEF Tools!cancel
<1>4. ToolsTypeOK' BY <1>2 DEF ToolsInv, ToolsTypeOK
<1>5. AwaitedExist' BY <1>3, <1>4 DEF AwaitedExist, ToolsTypeOK
<1>6. Tools!CancelledGroupsEnd'
  <2> SUFFICES ASSUME owner'.pc \in {"timed out", "cancel_all"}, NEW w \in owner'.tasks
               PROVE  worker'[w].cancelled \/ worker'[w].pc = "done"
      BY DEF Tools!CancelledGroupsEnd
  <2>1. w \in tasks /\ w \in Workers /\ worker[w].pc # "absent" OBVIOUS
  <2>2. worker[w].pc \in Tools!Running \cup {"done"} BY <1>1, <2>1 DEF WorkerPcs, Tools!Running
  <2> QED BY <1>3, <2>1, <2>2
<1>7. Tools!PermitsKept'
  BY <1>3 DEF ToolsInv, Tools!GroupsSound, Tools!PermitsKept
<1> QED BY <1>4, <1>5, <1>6, <1>7 DEF ToolsInv, Tools!GroupsSound

(* A worker that ends in whatever way.                                     *)
LEMMA ReleaseKeeps ==
    ASSUME ToolsInv, NEW w \in Workers, worker[w].pc \in Tools!Running, Tools!release(w)
    PROVE  ToolsInv'
<1> DEFINE r == [worker[w] EXCEPT !.pc = "done"]
<1>1. worker[w] \in [pc : WorkerPcs, cancelled : BOOLEAN, timed_out : BOOLEAN]
  BY DEF ToolsInv, ToolsTypeOK
<1>2. r \in [pc : WorkerPcs, cancelled : BOOLEAN, timed_out : BOOLEAN] /\ r.pc = "done"
  BY <1>1 DEF WorkerPcs
<1>3. worker' = [worker EXCEPT ![w] = r] BY DEF Tools!release
<1> HIDE DEF r
<1> QED BY <1>2, <1>3, WorkerMoves DEF Tools!release, Tools!Running

(* Every step of a worker and of the owner keeps the invariant; the        *)
(* context managers leave the group alone.                                 *)
LEMMA ToolsInvKept == ToolsInv /\ [Tools!Next]_Tools!vars => ToolsInv'
<1> SUFFICES ASSUME ToolsInv, [Tools!Next]_Tools!vars PROVE ToolsInv'
    OBVIOUS
<1> DEFINE States == [pc : WorkerPcs, cancelled : BOOLEAN, timed_out : BOOLEAN]
<1>0. /\ ToolsTypeOK /\ AwaitedExist /\ Tools!CancelledGroupsEnd
      /\ _tasks = {w \in Workers : worker[w].pc \in Tools!Running}
      /\ worker \in [Workers -> States]
      /\ owner \in [pc : OwnerPcs, tasks : SUBSET Workers]
  BY DEF ToolsInv, ToolsTypeOK, Tools!GroupsSound, Tools!PermitsKept
<1>1. ASSUME NEW w \in Workers, Tools!create_task(w) PROVE ToolsInv'
  <2> DEFINE r == [worker[w] EXCEPT !.pc = "new"]
  <2>1. /\ r \in States /\ r.pc = "new" /\ r.cancelled = worker[w].cancelled
        /\ worker' = [worker EXCEPT ![w] = r]
    BY <1>0, <1>1 DEF Tools!create_task, WorkerPcs
  <2> HIDE DEF r
  <2> QED BY <1>1, <2>1, WorkerMoves DEF Tools!create_task
<1>2. ASSUME NEW w \in Workers, Tools!__aenter__(w) PROVE ToolsInv'
  <2> DEFINE r == [worker[w] EXCEPT !.pc = "semaphore"]
  <2>1. /\ r \in States /\ r.pc = "semaphore" /\ r.cancelled = worker[w].cancelled
        /\ worker' = [worker EXCEPT ![w] = r] /\ worker[w].pc = "new" /\ w \in _tasks
    BY <1>0, <1>2 DEF Tools!__aenter__, Tools!at, WorkerPcs, Tools!Running
  <2>2. _tasks' = _tasks \cup {w} BY <1>2, <2>1 DEF Tools!__aenter__
  <2> HIDE DEF r
  <2> QED BY <1>2, <2>1, <2>2, WorkerMoves DEF Tools!__aenter__
<1>3. ASSUME NEW w \in Workers, Tools!acquire(w) PROVE ToolsInv'
  <2> DEFINE r == [worker[w] EXCEPT !.pc = "queue"]
  <2>1. /\ r \in States /\ r.pc = "queue" /\ r.cancelled = worker[w].cancelled
        /\ worker' = [worker EXCEPT ![w] = r] /\ worker[w].pc = "semaphore" /\ w \in _tasks
    BY <1>0, <1>3 DEF Tools!acquire, Tools!at, WorkerPcs, Tools!Running
  <2>2. _tasks' = _tasks \cup {w} BY <1>3, <2>1 DEF Tools!acquire
  <2> HIDE DEF r
  <2> QED BY <1>3, <2>1, <2>2, WorkerMoves DEF Tools!acquire
<1>4. ASSUME NEW w \in Workers,
             Tools!put(w) \/ Tools!get(w) \/ Tools!timeout_error(w) \/ Tools!__aexit__(w)
      PROVE  ToolsInv'
  <2>1. Tools!release(w) /\ worker[w].pc \in Tools!Running
    BY <1>4 DEF Tools!put, Tools!get, Tools!timeout_error, Tools!__aexit__, Tools!at, Tools!Running
  <2> QED BY <2>1, ReleaseKeeps
<1>5. ASSUME NEW w \in Workers, Tools!_cancel_task(w) PROVE ToolsInv'
  <2> DEFINE r == [worker[w] EXCEPT !.cancelled = TRUE, !.timed_out = TRUE]
  <2>1. /\ r \in States /\ r.pc = worker[w].pc /\ r.cancelled
        /\ worker' = [worker EXCEPT ![w] = r]
        /\ worker[w].pc \in {"semaphore", "queue"} /\ w \in _tasks
    BY <1>0, <1>5 DEF Tools!_cancel_task, WorkerPcs, Tools!Running
  <2>2. _tasks' = _tasks \cup {w} BY <1>5, <2>1 DEF Tools!_cancel_task
  <2> HIDE DEF r
  <2> QED BY <1>5, <2>1, <2>2, WorkerMoves DEF Tools!_cancel_task
<1>N. UNCHANGED worker => Tools!cancel({})
  <2>1. worker = [w \in Workers |-> worker[w]] BY <1>0
  <2> QED BY <2>1 DEF Tools!cancel
<1>T. _tasks \subseteq Workers /\ \A w \in _tasks : worker[w].pc # "absent"
  BY <1>0 DEF Tools!Running
<1>6. ASSUME Tools!wait_all PROVE ToolsInv'
  <2>1. PICK pc \in {"wait_all", "wait_all(timeout)"} : owner' = [pc |-> pc, tasks |-> _tasks]
    BY <1>6 DEF Tools!wait_all
  <2>2. /\ owner'.pc = pc /\ owner'.tasks = _tasks
        /\ owner' \in [pc : OwnerPcs, tasks : SUBSET Workers]
    BY <1>T, <2>1 DEF OwnerPcs
  <2> QED BY <1>6, <1>N, <1>T, <2>2, OwnerMoves DEF Tools!wait_all
<1>7. ASSUME Tools!wait_for PROVE ToolsInv'
  <2>1. /\ owner'.pc = "timed out" /\ owner'.tasks = owner.tasks /\ owner.tasks \in SUBSET Workers
        /\ owner' \in [pc : OwnerPcs, tasks : SUBSET Workers]
    BY <1>0, <1>7 DEF Tools!wait_for, OwnerPcs
  <2> QED BY <1>0, <1>7, <2>1, OwnerMoves DEF Tools!wait_for, AwaitedExist
<1>8. ASSUME Tools!except_TimeoutError \/ Tools!cancel_all PROVE ToolsInv'
  <2>1. /\ owner' = [pc |-> "cancel_all", tasks |-> _tasks]
        /\ Tools!cancel(_tasks) /\ UNCHANGED <<_tasks, permits>>
    BY <1>8 DEF Tools!except_TimeoutError, Tools!cancel_all
  <2>2. /\ owner'.pc = "cancel_all" /\ owner'.tasks = _tasks
        /\ owner' \in [pc : OwnerPcs, tasks : SUBSET Workers]
    BY <1>T, <2>1 DEF OwnerPcs
  <2> QED BY <1>T, <2>1, <2>2, OwnerMoves
<1>9. ASSUME Tools!returned PROVE ToolsInv'
  <2>1. /\ owner'.pc = "idle" /\ owner'.tasks = {}
        /\ owner' \in [pc : OwnerPcs, tasks : SUBSET Workers]
    BY <1>9 DEF Tools!returned, OwnerPcs
  <2> QED BY <1>9, <1>N, <2>1, OwnerMoves DEF Tools!returned
<1>10. ASSUME UNCHANGED Tools!group PROVE ToolsInv'
  BY <1>10 DEF Tools!group, ToolsInv, ToolsTypeOK, AwaitedExist, Tools!GroupsSound,
     Tools!CancelledGroupsEnd, Tools!PermitsKept
<1>11. ASSUME (\E n \in 1 .. MaxAttempts : Tools!retry(n)) \/ Tools!circuit_breaker PROVE ToolsInv'
  BY <1>10, <1>11 DEF Tools!retry, Tools!circuit_breaker
<1>12. CASE UNCHANGED Tools!vars BY <1>10, <1>12 DEF Tools!vars
<1>13. CASE Tools!GroupStep
  BY <1>1, <1>2, <1>3, <1>4, <1>5, <1>6, <1>7, <1>8, <1>9, <1>13 DEF Tools!GroupStep
<1> QED BY <1>11, <1>12, <1>13 DEF Tools!Next

(* Nobody works and nobody waits at first.                                 *)
LEMMA ToolsInvHolds == Tools!Init => ToolsInv
<1> SUFFICES ASSUME Tools!Init PROVE ToolsInv
    OBVIOUS
<1>1. worker = [w \in Workers |-> [pc |-> "absent", cancelled |-> FALSE, timed_out |-> FALSE]]
  BY DEF Tools!Init
<1>2. \A w \in Workers : worker[w].pc = "absent" BY <1>1
<1>3. owner = [pc |-> "idle", tasks |-> {}] /\ permits = max_concurrent /\ _tasks = {}
  BY DEF Tools!Init
<1>4. ToolsTypeOK BY <1>1, <1>3, ToolsAssumption DEF ToolsTypeOK, WorkerPcs, OwnerPcs
<1>5. {w \in Workers : worker[w].pc = "queue"} = {} BY <1>2
<1>6. permits + Cardinality(Holding) = max_concurrent
  <2>1. Cardinality(Holding) = 0 BY <1>5, FS_EmptySet DEF Holding
  <2> QED BY <1>3, <2>1, ToolsAssumption
<1>7. _tasks = {w \in Workers : worker[w].pc \in Tools!Running} BY <1>2, <1>3 DEF Tools!Running
<1>8. Tools!PermitsKept BY <1>6, <1>7, SameSizes DEF Tools!PermitsKept, Holding
<1>9. AwaitedExist /\ Tools!CancelledGroupsEnd BY <1>3 DEF AwaitedExist, Tools!CancelledGroupsEnd
<1> QED BY <1>4, <1>8, <1>9 DEF ToolsInv, Tools!GroupsSound

-----------------------------------------------------------------------------
(* Filters of sequences. ConnectionPool and EventBus define what is left   *)
(* of a sequence by recursion over its prefixes. What follows of it is     *)
(* shown by induction over the prefixes, with a set for the predicate.     *)

(* A set of numbers that is not empty has a least one.                     *)
LEMMA LeastNumber ==
    ASSUME NEW T \in SUBSET Nat, T # {}
    PROVE  \E x \in T : \A y \in T : x <= y
<1> DEFINE R == OpToRel(<, Nat)
<1>1. IsWellFoundedOn(R, Nat) BY NatLessThanWellFounded, Zenon
<1>2. R = {ss \in Nat \X Nat : ss[1] < ss[2]} BY Zenon DEF OpToRel
<1> HIDE DEF R
<1>3. PICK x \in T : \A y \in T : ~(<<y, x>> \in R) BY <1>1, WFMin, Zenon
<1>4. \A y \in T : ~(y < x) BY <1>2, <1>3
<1> QED BY <1>4

(* Induction up to a bound.                                                *)
LEMMA Climb ==
    ASSUME NEW T, NEW m \in Nat, 0 \in T, \A n \in 0 .. m - 1 : n \in T => n + 1 \in T
    PROVE  \A n \in 0 .. m : n \in T
<1> DEFINE Rest == {n \in 0 .. m : n \notin T}
<1> SUFFICES ASSUME Rest # {} PROVE FALSE OBVIOUS
<1>1. Rest \in SUBSET Nat OBVIOUS
<1>2. PICK x \in Rest : \A y \in Rest : x <= y
  <2> HIDE DEF Rest
  <2> QED BY <1>1, LeastNumber
<1>3. x \in 1 .. m BY <1>2
<1>4. x - 1 \in 0 .. m - 1 /\ x - 1 \in T BY <1>2, <1>3
<1>5. (x - 1) + 1 = x BY <1>3
<1> QED BY <1>2, <1>4, <1>5

(* One step of the recursion.                                              *)
Left(s, S, f, n) ==
    IF n = 0 THEN << >>
    ELSE IF s[n] \in S THEN f[n - 1] ELSE Append(f[n - 1], s[n])

(* The recursion has a solution.                                           *)
LEMMA LeftExists ==
    ASSUME NEW s, NEW S, NEW m \in Nat
    PROVE  \E f : f = [n \in 0 .. m |-> Left(s, S, f, n)]
<1> DEFINE T == {k \in 0 .. m : \E f : f = [n \in 0 .. k |-> Left(s, S, f, n)]}
<1>1. 0 \in T
  <2> DEFINE g == [n \in 0 .. 0 |-> << >>]
  <2>1. g = [n \in 0 .. 0 |-> Left(s, S, g, n)] BY DEF Left
  <2> QED BY <2>1
<1>2. ASSUME NEW k \in 0 .. m - 1, k \in T PROVE k + 1 \in T
  <2>1. PICK f : f = [n \in 0 .. k |-> Left(s, S, f, n)] BY <1>2
  <2> DEFINE g == [n \in 0 .. k + 1 |-> IF n = k + 1 THEN Left(s, S, f, n) ELSE f[n]]
  <2>2. ASSUME NEW n \in 0 .. k + 1 PROVE g[n] = Left(s, S, g, n)
    <3>1. n # 0 => g[n - 1] = f[n - 1] OBVIOUS
    <3>2. Left(s, S, g, n) = Left(s, S, f, n) BY <3>1 DEF Left
    <3>3. n # k + 1 => n \in 0 .. k /\ f[n] = Left(s, S, f, n)
      <4> SUFFICES ASSUME n # k + 1 PROVE n \in 0 .. k /\ f[n] = Left(s, S, f, n) OBVIOUS
      <4>1. n \in 0 .. k OBVIOUS
      <4> QED BY <4>1, <2>1
    <3> QED BY <3>2, <3>3
  <2>3. g = [n \in 0 .. k + 1 |-> Left(s, S, g, n)] BY <2>2
  <2> HIDE DEF g
  <2> QED BY <2>3
<1>3. m \in T
  <2> HIDE DEF T
  <2> QED BY <1>1, <1>2, Climb
<1> QED BY <1>3

(* What is left, as the last value of that solution.                       *)
LEMMA WithoutIsLeft ==
    ASSUME NEW A, NEW s \in Seq(A), NEW S
    PROVE  \E f : /\ \A n \in 0 .. Len(s) : f[n] = Left(s, S, f, n)
                  /\ Connections!Without(s, S) = f[Len(s)]
<1> DEFINE P(f) == f = [n \in 0 .. Len(s) |-> Left(s, S, f, n)]
           f == CHOOSE f : P(f)
<1>1. P(f)
  <2>1. Len(s) \in Nat OBVIOUS
  <2>2. \E g : P(g) BY <2>1, LeftExists
  <2> HIDE DEF P
  <2> QED BY <2>2
<1>2. Connections!Without(s, S) = f[Len(s)] BY DEF Connections!Without, Left
<1> HIDE DEF f
<1>3. \A n \in 0 .. Len(s) : f[n] = Left(s, S, f, n) BY <1>1
<1> QED BY <1>2, <1>3

(* What is in a sequence, and that nothing is in it twice.                 *)
Members(s) == {s[i] : i \in 1 .. Len(s)}
Distinct(s) == \A i, j \in 1 .. Len(s) : s[i] = s[j] => i = j

(* A sequence with one more at its end.                                    *)
LEMMA AppendAdds ==
    ASSUME NEW A, NEW s \in Seq(A), NEW x \in A
    PROVE  /\ Append(s, x) \in Seq(A) /\ Len(Append(s, x)) = Len(s) + 1 /\ Len(s) \in Nat
           /\ \A i \in 1 .. Len(s) : Append(s, x)[i] = s[i]
           /\ Append(s, x)[Len(s) + 1] = x
           /\ Members(Append(s, x)) = Members(s) \cup {x}
           /\ Distinct(s) /\ x \notin Members(s) => Distinct(Append(s, x))
<1> DEFINE t == Append(s, x)
<1>1. /\ t \in Seq(A) /\ Len(t) = Len(s) + 1 /\ Len(s) \in Nat
      /\ \A i \in 1 .. Len(s) : t[i] = s[i]
      /\ t[Len(s) + 1] = x
  OBVIOUS
<1> HIDE DEF t
<1>2. 1 .. Len(t) = (1 .. Len(s)) \cup {Len(s) + 1} BY <1>1
<1>3. Members(t) = Members(s) \cup {x} BY <1>1, <1>2 DEF Members
<1>4. ASSUME Distinct(s), x \notin Members(s) PROVE Distinct(t)
  <2>1. \A i \in 1 .. Len(s) : s[i] # x BY <1>4 DEF Members
  <2>2. \A i, j \in 1 .. Len(s) : s[i] = s[j] => i = j BY <1>4 DEF Distinct
  <2> QED BY <1>1, <1>2, <2>1, <2>2 DEF Distinct
<1> QED BY <1>1, <1>3, <1>4 DEF t

(* A sequence without its head.                                            *)
LEMMA TailLeaves ==
    ASSUME NEW A, NEW s \in Seq(A), s # << >>, Distinct(s)
    PROVE  /\ Head(s) \in A /\ Tail(s) \in Seq(A)
           /\ Members(s) = Members(Tail(s)) \cup {Head(s)}
           /\ Head(s) \notin Members(Tail(s))
           /\ Distinct(Tail(s))
<1> DEFINE t == Tail(s)
           h == Head(s)
<1>1. /\ h \in A /\ h = s[1] /\ t \in Seq(A) /\ Len(t) = Len(s) - 1
      /\ Len(s) \in Nat /\ 1 \in 1 .. Len(s)
      /\ \A i \in 1 .. Len(s) - 1 : t[i] = s[i + 1]
  OBVIOUS
<1> HIDE DEF t, h
<1>2. \A i \in 1 .. Len(t) : i + 1 \in 1 .. Len(s) /\ i + 1 # 1 /\ t[i] = s[i + 1] BY <1>1
<1>3. Members(s) = Members(t) \cup {h}
  <2>1. ASSUME NEW k \in 1 .. Len(s) PROVE s[k] \in Members(t) \cup {h}
    <3>1. CASE k = 1 BY <1>1, <3>1
    <3>2. CASE k # 1
      <4>1. k - 1 \in 1 .. Len(t) /\ (k - 1) + 1 = k BY <1>1, <3>2
      <4>2. t[k - 1] = s[k] BY <1>2, <4>1
      <4> QED BY <4>1, <4>2 DEF Members
    <3> QED BY <3>1, <3>2
  <2>2. Members(s) \subseteq Members(t) \cup {h} BY <2>1 DEF Members
  <2>3. Members(t) \subseteq Members(s) BY <1>2 DEF Members
  <2>4. h \in Members(s) BY <1>1 DEF Members
  <2> QED BY <2>2, <2>3, <2>4
<1>4. h \notin Members(t)
  <2> SUFFICES ASSUME NEW i \in 1 .. Len(t), t[i] = h PROVE FALSE BY DEF Members
  <2> QED BY <1>1, <1>2 DEF Distinct
<1>5. Distinct(t)
  <2> SUFFICES ASSUME NEW i \in 1 .. Len(t), NEW j \in 1 .. Len(t), t[i] = t[j] PROVE i = j
    BY DEF Distinct
  <2>1. i + 1 = j + 1 BY <1>2 DEF Distinct
  <2> QED BY <1>1, <2>1
<1> QED BY <1>1, <1>3, <1>4, <1>5 DEF t, h

(* It is a sequence of the members that were to stay, and has each as      *)
(* often.                                                                  *)
LEMMA WithoutKeeps ==
    ASSUME NEW A, NEW s \in Seq(A), NEW S
    PROVE  /\ Connections!Without(s, S) \in Seq(A)
           /\ Len(Connections!Without(s, S)) <= Len(s)
           /\ Members(Connections!Without(s, S)) = Members(s) \ S
           /\ Distinct(s) => Distinct(Connections!Without(s, S))
<1>1. PICK f : /\ \A n \in 0 .. Len(s) : f[n] = Left(s, S, f, n)
               /\ Connections!Without(s, S) = f[Len(s)]
  BY WithoutIsLeft
<1>2. Len(s) \in Nat /\ \A n \in 1 .. Len(s) : s[n] \in A OBVIOUS
<1> DEFINE Q(n) == /\ f[n] \in Seq(A) /\ Len(f[n]) <= n
                   /\ Members(f[n]) = {s[i] : i \in 1 .. n} \ S
                   /\ Distinct(s) => Distinct(f[n])
           T == {n \in 0 .. Len(s) : Q(n)}
<1>3. 0 \in T
  <2>1. f[0] = << >> BY <1>1, <1>2 DEF Left
  <2>2. Members(<< >>) = {} /\ Distinct(<< >>) BY DEF Members, Distinct
  <2>3. {s[i] : i \in 1 .. 0} = {} OBVIOUS
  <2>4. << >> \in Seq(A) /\ Len(<< >>) = 0 OBVIOUS
  <2>5. Q(0) BY <2>1, <2>2, <2>3, <2>4
  <2> QED BY <1>2, <2>5
<1>4. ASSUME NEW n \in 0 .. Len(s) - 1, n \in T PROVE n + 1 \in T
  <2>1. Q(n) BY <1>4
  <2>2. n + 1 \in 1 .. Len(s) /\ n \in Nat /\ s[n + 1] \in A BY <1>2
  <2>3. f[n + 1] = IF s[n + 1] \in S THEN f[n] ELSE Append(f[n], s[n + 1])
    <3>1. f[n + 1] = Left(s, S, f, n + 1) BY <1>1, <1>2, <2>2
    <3>2. (n + 1) - 1 = n /\ n + 1 # 0 BY <2>2
    <3> QED BY <3>1, <3>2 DEF Left
  <2>4. {s[i] : i \in 1 .. n + 1} = {s[i] : i \in 1 .. n} \cup {s[n + 1]} BY <2>2
  <2>5. CASE s[n + 1] \in S
    <3>1. f[n + 1] = f[n] BY <2>3, <2>5
    <3>2. {s[i] : i \in 1 .. n + 1} \ S = {s[i] : i \in 1 .. n} \ S BY <2>4, <2>5
    <3>3. Q(n + 1) BY <2>1, <2>2, <3>1, <3>2
    <3> QED BY <2>2, <3>3
  <2>6. CASE s[n + 1] \notin S
    <3>1. f[n + 1] = Append(f[n], s[n + 1]) BY <2>3, <2>6
    <3>2. f[n] \in Seq(A) /\ Len(f[n]) \in Nat BY <2>1
    <3>3. /\ f[n + 1] \in Seq(A) /\ Len(f[n + 1]) = Len(f[n]) + 1
          /\ Members(f[n + 1]) = Members(f[n]) \cup {s[n + 1]}
          /\ Distinct(f[n]) /\ s[n + 1] \notin Members(f[n]) => Distinct(f[n + 1])
      BY <2>2, <3>1, <3>2, AppendAdds
    <3>4. Members(f[n + 1]) = {s[i] : i \in 1 .. n + 1} \ S BY <2>1, <2>4, <2>6, <3>3
    <3>5. ASSUME Distinct(s) PROVE Distinct(f[n + 1])
      <4>1. s[n + 1] \notin {s[i] : i \in 1 .. n}
        <5> SUFFICES ASSUME NEW i \in 1 .. n, s[i] = s[n + 1] PROVE FALSE OBVIOUS
        <5>1. i \in 1 .. Len(s) /\ i # n + 1 BY <1>2, <2>2
        <5> QED BY <2>2, <3>5, <5>1 DEF Distinct
      <4>2. s[n + 1] \notin Members(f[n]) BY <2>1, <4>1
      <4>3. Distinct(f[n]) BY <2>1, <3>5
      <4> QED BY <3>3, <4>2, <4>3
    <3>6. Len(f[n + 1]) <= n + 1 BY <2>1, <2>2, <3>2, <3>3
    <3>7. Q(n + 1) BY <3>3, <3>4, <3>5, <3>6
    <3> QED BY <2>2, <3>7
  <2> QED BY <2>5, <2>6
<1>5. Len(s) \in T
  <2> HIDE DEF T
  <2>1. \A n \in 0 .. Len(s) - 1 : n \in T => n + 1 \in T BY <1>4
  <2>2. Len(s) \in Nat BY <1>2
  <2>3. \A n \in 0 .. Len(s) : n \in T BY <1>3, <2>1, <2>2, Climb
  <2> QED BY <2>2, <2>3
<1>6. Q(Len(s)) BY <1>5
<1> QED BY <1>1, <1>6 DEF Members

(* Appending comes after what is left so far, or to nothing.               *)
LEMMA WithoutAppend ==
    ASSUME NEW A, NEW s \in Seq(A), NEW S, NEW x \in A
    PROVE  Connections!Without(Append(s, x), S) =
               IF x \in S THEN Connections!Without(s, S)
               ELSE Append(Connections!Without(s, S), x)
<1> DEFINE t == Append(s, x)
<1>1. /\ t \in Seq(A) /\ Len(s) \in Nat /\ Len(t) = Len(s) + 1 /\ t[Len(s) + 1] = x
      /\ \A n \in 1 .. Len(s) : t[n] = s[n]
  OBVIOUS
<1> HIDE DEF t
<1>2. PICK f : /\ \A n \in 0 .. Len(s) : f[n] = Left(s, S, f, n)
               /\ Connections!Without(s, S) = f[Len(s)]
  BY WithoutIsLeft
<1>3. PICK g : /\ \A n \in 0 .. Len(t) : g[n] = Left(t, S, g, n)
               /\ Connections!Without(t, S) = g[Len(t)]
  BY <1>1, WithoutIsLeft
<1> DEFINE T == {n \in 0 .. Len(s) : g[n] = f[n]}
<1>4. 0 \in T
  <2>1. g[0] = << >> /\ f[0] = << >> BY <1>1, <1>2, <1>3 DEF Left
  <2> QED BY <1>1, <2>1
<1>5. ASSUME NEW n \in 0 .. Len(s) - 1, n \in T PROVE n + 1 \in T
  <2>1. n + 1 \in 1 .. Len(s) /\ n + 1 \in 0 .. Len(t) /\ n + 1 \in 0 .. Len(s) BY <1>1
  <2>2. g[n + 1] = Left(t, S, g, n + 1) /\ f[n + 1] = Left(s, S, f, n + 1)
    BY <1>2, <1>3, <2>1
  <2>3. t[n + 1] = s[n + 1] /\ (n + 1) - 1 = n BY <1>1, <2>1
  <2>4. g[n] = f[n] BY <1>5
  <2>5. g[n + 1] = f[n + 1] BY <2>2, <2>3, <2>4 DEF Left
  <2> QED BY <2>1, <2>5
<1>6. Len(s) \in T
  <2> HIDE DEF T
  <2>1. Len(s) \in Nat BY <1>1
  <2>2. \A n \in 0 .. Len(s) - 1 : n \in T => n + 1 \in T BY <1>5
  <2>3. \A n \in 0 .. Len(s) : n \in T BY <2>1, <1>4, <2>2, Climb
  <2> QED BY <2>1, <2>3
<1>7. g[Len(s)] = f[Len(s)] BY <1>6
<1>8. g[Len(t)] = Left(t, S, g, Len(s) + 1) BY <1>1, <1>3
<1>9. Left(t, S, g, Len(s) + 1) = IF x \in S THEN g[Len(s)] ELSE Append(g[Len(s)], x)
  <2>1. (Len(s) + 1) - 1 = Len(s) /\ Len(s) + 1 # 0 BY <1>1
  <2>2. t[Len(s) + 1] = x BY <1>1
  <2> QED BY <2>1, <2>2, Zenon DEF Left
<1> QED BY <1>2, <1>3, <1>7, <1>8, <1>9 DEF t

-----------------------------------------------------------------------------
(* ConnectionPool: the connections, and the clients that wait for one.     *)

(* The part of the invariant that gives the connections their types.       *)
ConnectionsTypeOK ==
    /\ made \in Nat /\ pool \in Seq(Nat)
    /\ Members(pool) \subseteq 1 .. made /\ in_use \subseteq 1 .. made
    /\ closed \subseteq 1 .. made /\ dropped \subseteq 1 .. made
    /\ holds \in [Clients -> SUBSET (1 .. made)]

(* A connection is in one place and with one client.                       *)
OneHolder ==
    /\ Distinct(pool) /\ in_use \cap Members(pool) = {}
    /\ \A c \in Clients : holds[c] \cap Members(pool) = {}
    /\ \A c, d \in Clients : c # d => holds[c] \cap holds[d] = {}

(* What is neither closed nor dropped is in the pool or in use, and what   *)
(* is one of both is not, unless it stayed as a close() raised.            *)
AllAccounted ==
    /\ (1 .. made) \ (closed \cup dropped) \subseteq Members(pool) \cup in_use
    /\ (closed \cup dropped) \cap (Members(pool) \cup in_use) \subseteq stale

(* Those that acquire made are no more than max_size.                      *)
AskedFit == Cardinality((Members(pool) \cup in_use) \ unasked) <= max_size

ConnectionsInv == ConnectionsTypeOK /\ OneHolder /\ AllAccounted /\ AskedFit

(* A pool that loses its head, with the connection after it.               *)
LEMMA PoolLoses ==
    ASSUME NEW A, NEW s \in Seq(A), NEW n \in 0 .. Len(s) - 1, Distinct(s)
    PROVE  LET rest == SubSeq(s, n + 2, Len(s))
               head == SubSeq(s, 1, n)
           IN  /\ rest \in Seq(A) /\ Distinct(rest)
               /\ s[n + 1] \in A
               /\ Members(s) = Members(rest) \cup Members(head) \cup {s[n + 1]}
               /\ Members(rest) \cap Members(head) = {}
               /\ s[n + 1] \notin Members(rest) /\ s[n + 1] \notin Members(head)
               /\ Len(rest) = Len(s) - n - 1
<1> DEFINE rest == SubSeq(s, n + 2, Len(s))
           head == SubSeq(s, 1, n)
<1>1. Len(s) \in Nat /\ n \in Nat /\ n < Len(s) /\ \A i \in 1 .. Len(s) : s[i] \in A OBVIOUS
<1>2. /\ rest \in Seq(A) /\ Len(rest) = Len(s) - n - 1
      /\ \A i \in 1 .. Len(s) - n - 1 : rest[i] = s[n + 1 + i]
  <2>1. \A i \in n + 2 .. Len(s) : s[i] \in A BY <1>1
  <2>2. n + 2 \in Int /\ Len(s) \in Int BY <1>1
  <2>3. /\ rest \in Seq(A)
        /\ Len(rest) = IF n + 2 <= Len(s) THEN Len(s) - (n + 2) + 1 ELSE 0
        /\ \A i \in 1 .. Len(s) - (n + 2) + 1 : rest[i] = s[(n + 2) + i - 1]
    BY <2>1, <2>2, SubSeqProperties
  <2>4. Len(s) - (n + 2) + 1 = Len(s) - n - 1 BY <1>1
  <2>5. Len(rest) = Len(s) - n - 1 BY <1>1, <2>3
  <2>6. \A i \in 1 .. Len(s) - n - 1 : (n + 2) + i - 1 = n + 1 + i BY <1>1
  <2> QED BY <2>3, <2>4, <2>5, <2>6
<1>3. /\ Len(head) = n /\ \A i \in 1 .. n : head[i] = s[i] BY <1>1
<1> HIDE DEF rest, head
<1>4. Members(rest) = {s[i] : i \in n + 2 .. Len(s)}
  <2>1. ASSUME NEW i \in n + 2 .. Len(s)
        PROVE  s[i] = rest[i - n - 1] /\ i - n - 1 \in 1 .. Len(rest)
    <3>1. i - n - 1 \in 1 .. Len(s) - n - 1 /\ n + 1 + (i - n - 1) = i BY <1>1
    <3> QED BY <1>2, <3>1
  <2>2. ASSUME NEW i \in 1 .. Len(rest)
        PROVE  rest[i] = s[n + 1 + i] /\ n + 1 + i \in n + 2 .. Len(s)
    BY <1>1, <1>2
  <2>3. Members(rest) \subseteq {s[i] : i \in n + 2 .. Len(s)} BY <2>2 DEF Members
  <2>4. {s[i] : i \in n + 2 .. Len(s)} \subseteq Members(rest)
    <3> SUFFICES ASSUME NEW i \in n + 2 .. Len(s) PROVE s[i] \in Members(rest) OBVIOUS
    <3> QED BY <2>1 DEF Members
  <2> QED BY <2>3, <2>4
<1>5. Members(head) = {s[i] : i \in 1 .. n} BY <1>3 DEF Members
<1>6. 1 .. Len(s) = (1 .. n) \cup {n + 1} \cup (n + 2 .. Len(s)) BY <1>1
<1>7. Members(s) = Members(rest) \cup Members(head) \cup {s[n + 1]}
  BY <1>4, <1>5, <1>6 DEF Members
<1>8. ASSUME NEW i \in n + 2 .. Len(s), NEW j \in 1 .. n + 1 PROVE s[i] # s[j]
  BY <1>1 DEF Distinct
<1>9. ASSUME NEW i \in 1 .. n PROVE s[i] # s[n + 1]
  <2>1. i \in 1 .. Len(s) /\ n + 1 \in 1 .. Len(s) /\ i # n + 1 BY <1>1
  <2> QED BY <2>1 DEF Distinct
<1>10. Members(rest) \cap Members(head) = {}
  <2>1. \A j \in 1 .. n : j \in 1 .. n + 1 BY <1>1
  <2> QED BY <1>4, <1>5, <1>8, <2>1
<1>11. s[n + 1] \notin Members(rest) /\ s[n + 1] \notin Members(head)
  <2>1. n + 1 \in 1 .. n + 1 BY <1>1
  <2> QED BY <1>4, <1>5, <1>8, <1>9, <2>1
<1>12. Distinct(rest)
  <2> SUFFICES ASSUME NEW i \in 1 .. Len(rest), NEW j \in 1 .. Len(rest), rest[i] = rest[j]
               PROVE  i = j
    BY DEF Distinct
  <2>1. rest[i] = s[n + 1 + i] /\ rest[j] = s[n + 1 + j] BY <1>2
  <2>2. n + 1 + i \in 1 .. Len(s) /\ n + 1 + j \in 1 .. Len(s) BY <1>1, <1>2
  <2>3. n + 1 + i = n + 1 + j BY <2>1, <2>2 DEF Distinct
  <2> QED BY <1>1, <2>3
<1>13. s[n + 1] \in A BY <1>1
<1> QED BY <1>2, <1>7, <1>10, <1>11, <1>12, <1>13 DEF rest, head

(* What the operators of the module Functions say of a sequence.           *)
LEMMA RangeIsMembers ==
    ASSUME NEW A, NEW s \in Seq(A)
    PROVE  /\ Connections!Range(s) = Members(s)
           /\ Connections!IsInjective(s) <=> Distinct(s)
<1>1. DOMAIN s = 1 .. Len(s) OBVIOUS
<1> QED BY <1>1 DEF Connections!Range, Connections!IsInjective, Members, Distinct

(* The pool is filled with connections that are new.                       *)
LEMMA FillAdds ==
    ASSUME made \in Nat, NEW kept \in Seq(Nat), Distinct(kept), Members(kept) \subseteq 1 .. made,
           NEW n \in Nat
    PROVE  LET p == kept \o [i \in 1 .. n |-> made + i]
           IN  /\ p \in Seq(Nat) /\ Distinct(p)
               /\ Members(p) = Members(kept) \cup (made + 1 .. made + n)
<1> DEFINE new == [i \in 1 .. n |-> made + i]
           p == kept \o new
<1>1. new \in Seq(Nat) /\ Len(new) = n /\ \A i \in 1 .. n : new[i] = made + i OBVIOUS
<1> HIDE DEF new
<1>2. Len(kept) \in Nat /\ \A i \in 1 .. Len(kept) : kept[i] \in 1 .. made BY DEF Members
<1>3. /\ p \in Seq(Nat) /\ Len(p) = Len(kept) + n
      /\ \A i \in 1 .. Len(kept) : p[i] = kept[i]
      /\ \A i \in Len(kept) + 1 .. Len(kept) + n : p[i] = made + (i - Len(kept))
  <2>1. /\ p \in Seq(Nat) /\ Len(p) = Len(kept) + Len(new)
        /\ \A i \in 1 .. Len(kept) + Len(new) :
             p[i] = IF i <= Len(kept) THEN kept[i] ELSE new[i - Len(kept)]
    BY <1>1, ConcatProperties
  <2>2. \A i \in Len(kept) + 1 .. Len(kept) + n : i - Len(kept) \in 1 .. n BY <1>2
  <2> QED BY <1>1, <1>2, <2>1, <2>2
<1> HIDE DEF p
<1>4. 1 .. Len(p) = (1 .. Len(kept)) \cup (Len(kept) + 1 .. Len(kept) + n) BY <1>2, <1>3
<1>5. Members(p) = Members(kept) \cup (made + 1 .. made + n)
  <2>1. {p[i] : i \in Len(kept) + 1 .. Len(kept) + n} = made + 1 .. made + n
    <3>1. ASSUME NEW k \in made + 1 .. made + n
          PROVE  \E i \in Len(kept) + 1 .. Len(kept) + n : p[i] = k
      <4> DEFINE i == Len(kept) + (k - made)
      <4>1. i \in Len(kept) + 1 .. Len(kept) + n /\ made + (i - Len(kept)) = k BY <1>2
      <4> HIDE DEF i
      <4>2. p[i] = k BY <1>3, <4>1
      <4> QED BY <4>1, <4>2
    <3>2. ASSUME NEW i \in Len(kept) + 1 .. Len(kept) + n PROVE p[i] \in made + 1 .. made + n
      BY <1>2, <1>3
    <3> QED BY <3>1, <3>2
  <2>2. {p[i] : i \in 1 .. Len(kept)} = Members(kept) BY <1>3 DEF Members
  <2>3. Members(p) = {p[i] : i \in 1 .. Len(kept)}
                     \cup {p[i] : i \in Len(kept) + 1 .. Len(kept) + n}
    BY <1>4 DEF Members
  <2> QED BY <2>1, <2>2, <2>3
<1>6. Distinct(p)
  <2> SUFFICES ASSUME NEW i \in 1 .. Len(p), NEW j \in 1 .. Len(p), p[i] = p[j]
               PROVE  i = j
    BY DEF Distinct
  <2>1. CASE i <= Len(kept) /\ j <= Len(kept)
    <3>1. i \in 1 .. Len(kept) /\ j \in 1 .. Len(kept) BY <1>2, <1>3, <2>1
    <3> QED BY <1>3, <3>1 DEF Distinct
  <2>2. CASE i <= Len(kept) /\ j > Len(kept)
    <3>1. i \in 1 .. Len(kept) /\ j \in Len(kept) + 1 .. Len(kept) + n BY <1>2, <1>3, <2>2
    <3>2. p[i] \in 1 .. made /\ p[j] = made + (j - Len(kept)) BY <1>2, <1>3, <3>1
    <3> QED BY <1>2, <3>1, <3>2
  <2>3. CASE i > Len(kept) /\ j <= Len(kept)
    <3>1. j \in 1 .. Len(kept) /\ i \in Len(kept) + 1 .. Len(kept) + n BY <1>2, <1>3, <2>3
    <3>2. p[j] \in 1 .. made /\ p[i] = made + (i - Len(kept)) BY <1>2, <1>3, <3>1
    <3> QED BY <1>2, <3>1, <3>2
  <2>4. CASE i > Len(kept) /\ j > Len(kept)
    <3>1. /\ i \in Len(kept) + 1 .. Len(kept) + n /\ j \in Len(kept) + 1 .. Len(kept) + n
          /\ p[i] = made + (i - Len(kept)) /\ p[j] = made + (j - Len(kept))
      BY <1>2, <1>3, <2>4
    <3>2. made + (i - Len(kept)) = made + (j - Len(kept)) BY <3>1
    <3>3. i \in Int /\ j \in Int /\ Len(kept) \in Int /\ made \in Int BY <1>2, <3>1
    <3> QED BY <3>2, <3>3
  <2>5. i \in Nat /\ j \in Nat BY <1>2, <1>3
  <2> QED BY <1>2, <2>1, <2>2, <2>3, <2>4, <2>5
<1> QED BY <1>3, <1>5, <1>6 DEF p, new

(* What is in a set that fits max_size fits it too.                        *)
LEMMA SmallerFits ==
    ASSUME NEW S, NEW T, IsFiniteSet(S), T \subseteq S, Cardinality(S) <= max_size
    PROVE  Cardinality(T) <= max_size
<1>1. Cardinality(T) <= Cardinality(S) /\ Cardinality(S) \in Nat /\ Cardinality(T) \in Nat
  BY FS_Subset, FS_CardinalityType
<1> QED BY <1>1, PoolAssumption

(* A size in that module is a size here.                                   *)
LEMMA PoolSizes == \A S : Connections!Cardinality(S) = Cardinality(S)
BY DEF Connections!Cardinality, Cardinality

(* What is in the pool or in use is finite.                                *)
LEMMA FewAreOpen ==
    ASSUME ConnectionsTypeOK
    PROVE  /\ IsFiniteSet(Members(pool) \cup in_use)
           /\ IsFiniteSet((Members(pool) \cup in_use) \ unasked)
<1>1. IsFiniteSet(1 .. made) BY FS_Interval DEF ConnectionsTypeOK
<1>2. /\ Members(pool) \cup in_use \subseteq 1 .. made
      /\ (Members(pool) \cup in_use) \ unasked \subseteq 1 .. made
  BY DEF ConnectionsTypeOK
<1> QED BY <1>1, <1>2, FS_Subset

(* A client takes the first connection that is not refused.                *)
LEMMA TakenKeeps ==
    ASSUME ConnectionsInv, NEW c, NEW n \in 0 .. Len(pool) - 1,
           pool' = SubSeq(pool, n + 2, Len(pool)),
           Connections!CloseRefused(n),
           \/ /\ in_use' = in_use \cup {pool[n + 1]} /\ dropped' = dropped
              /\ holds' = [holds EXCEPT ![c] = @ \cup {pool[n + 1]}]
           \/ /\ in_use' = in_use /\ holds' = holds
              /\ dropped' = dropped \cup {pool[n + 1]},
           UNCHANGED <<made, stale, unasked>>
    PROVE  ConnectionsInv'
<1> USE DEF ConnectionsInv, ConnectionsTypeOK
<1> DEFINE rest == SubSeq(pool, n + 2, Len(pool))
           head == SubSeq(pool, 1, n)
           it == pool[n + 1]
<1>1. pool \in Seq(Nat) /\ Distinct(pool) BY DEF OneHolder
<1>2. /\ rest \in Seq(Nat) /\ Distinct(rest) /\ it \in Nat
      /\ Members(pool) = Members(rest) \cup Members(head) \cup {it}
      /\ Members(rest) \cap Members(head) = {}
      /\ it \notin Members(rest) /\ it \notin Members(head)
  BY <1>1, PoolLoses
<1>3. closed' = closed \cup Members(head)
  <2>0. Len(pool) \in Nat /\ \A i \in 1 .. Len(pool) : pool[i] \in Nat BY <1>1
  <2>1. \A i \in 1 .. n : pool[i] \in Nat
    <3>1. \A i \in 1 .. n : i \in 1 .. Len(pool) BY <2>0
    <3> QED BY <2>0, <3>1
  <2>2. head \in Seq(Nat) BY <2>1, SubSeqProperties
  <2> QED BY <2>2, RangeIsMembers DEF Connections!CloseRefused
<1>4. pool' = rest /\ Members(pool)' = Members(rest)
  BY DEF Members
<1> HIDE DEF rest, head, it
<1>5. it \in Members(pool) /\ it \in 1 .. made /\ it \notin in_use BY <1>2 DEF OneHolder
<1>6. CASE /\ in_use' = in_use \cup {it} /\ dropped' = dropped
           /\ holds' = [holds EXCEPT ![c] = @ \cup {it}]
  <2>1. ConnectionsTypeOK' BY <1>2, <1>3, <1>4, <1>5, <1>6
  <2>2. OneHolder'
    <3>1. \A d \in Clients : holds'[d] = IF d = c THEN holds[d] \cup {it} ELSE holds[d]
      BY <1>6
    <3>2. \A d \in Clients : it \notin holds[d] BY <1>5 DEF OneHolder
    <3>3. Distinct(pool)' BY <1>2, <1>4 DEF Distinct
    <3>4. ASSUME NEW d \in Clients PROVE holds'[d] \cap Members(rest) = {}
      <4>1. holds[d] \cap Members(rest) = {} BY <1>2 DEF OneHolder
      <4> QED BY <1>2, <3>1, <4>1
    <3>5. \A d, e \in Clients : d # e => holds'[d] \cap holds'[e] = {} BY <3>1, <3>2 DEF OneHolder
    <3>6. in_use' \cap Members(rest) = {} BY <1>2, <1>6 DEF OneHolder
    <3> QED BY <1>4, <3>3, <3>4, <3>5, <3>6 DEF OneHolder
  <2>3. AllAccounted' BY <1>2, <1>3, <1>4, <1>5, <1>6 DEF AllAccounted, OneHolder
  <2>4. AskedFit'
    <3>1. (Members(pool)' \cup in_use') \ unasked \subseteq (Members(pool) \cup in_use) \ unasked
      BY <1>2, <1>4, <1>6
    <3> QED BY <3>1, FewAreOpen, SmallerFits DEF AskedFit
  <2> QED BY <2>1, <2>2, <2>3, <2>4
<1>7. CASE in_use' = in_use /\ holds' = holds /\ dropped' = dropped \cup {it}
  <2>1. ConnectionsTypeOK' BY <1>2, <1>3, <1>4, <1>5, <1>7
  <2>2. OneHolder'
    <3>1. Distinct(pool)' BY <1>2, <1>4 DEF Distinct
    <3> QED BY <1>2, <1>4, <1>7, <3>1 DEF OneHolder
  <2>3. AllAccounted' BY <1>2, <1>3, <1>4, <1>5, <1>7 DEF AllAccounted, OneHolder
  <2>4. AskedFit'
    <3>1. (Members(pool)' \cup in_use') \ unasked \subseteq (Members(pool) \cup in_use) \ unasked
      BY <1>2, <1>4, <1>7
    <3> QED BY <3>1, FewAreOpen, SmallerFits DEF AskedFit
  <2> QED BY <2>1, <2>2, <2>3, <2>4
<1> QED BY <1>6, <1>7 DEF it

(* All of the pool is refused: nothing is made, or what there is room for. *)
LEMMA EmptiedKeeps ==
    ASSUME ConnectionsInv, NEW c \in Clients, Connections!NoneAccepted,
           \/ UNCHANGED <<in_use, holds, made>>
           \/ /\ Connections!HasCapacity /\ made' = made + 1
              /\ in_use' = in_use \cup {made + 1}
              /\ holds' = [holds EXCEPT ![c] = @ \cup {made + 1}],
           UNCHANGED <<dropped, stale, unasked>>
    PROVE  ConnectionsInv'
<1> USE DEF ConnectionsInv, ConnectionsTypeOK
<1>1. pool \in Seq(Nat) /\ pool' = << >>
  BY DEF Connections!NoneAccepted
<1>2. closed' = closed \cup Members(pool)
  <2>1. SubSeq(pool, 1, Len(pool)) = pool BY <1>1
  <2> QED BY <1>1, <2>1, RangeIsMembers DEF Connections!NoneAccepted, Connections!CloseRefused
<1>3. pool' \in Seq(Nat) /\ Members(pool)' = {} /\ Distinct(pool)'
  BY <1>1 DEF Members, Distinct
<1>4. CASE UNCHANGED <<in_use, holds, made>>
  <2>1. ConnectionsTypeOK'
    <3>1. closed' \subseteq 1 .. made /\ dropped' \subseteq 1 .. made BY <1>2
    <3> QED BY <1>3, <1>4, <3>1
  <2>2. OneHolder' BY <1>3, <1>4 DEF OneHolder
  <2>3. AllAccounted' BY <1>2, <1>3, <1>4 DEF AllAccounted, OneHolder
  <2>4. AskedFit'
    <3>1. (Members(pool)' \cup in_use') \ unasked \subseteq (Members(pool) \cup in_use) \ unasked
      BY <1>3, <1>4
    <3> QED BY <3>1, FewAreOpen, SmallerFits DEF AskedFit
  <2> QED BY <2>1, <2>2, <2>3, <2>4
<1>5. CASE /\ Connections!HasCapacity /\ made' = made + 1
           /\ in_use' = in_use \cup {made + 1}
           /\ holds' = [holds EXCEPT ![c] = @ \cup {made + 1}]
  <2>1. made + 1 \notin 1 .. made /\ 1 .. made' = (1 .. made) \cup {made + 1}
    BY <1>5
  <2>2. ConnectionsTypeOK'
    <3>1. closed' \subseteq 1 .. made /\ dropped' \subseteq 1 .. made BY <1>2
    <3>2. made' \in Nat /\ 1 .. made \subseteq 1 .. made' /\ made + 1 \in 1 .. made' BY <1>5
    <3>3. holds' \in [Clients -> SUBSET (1 .. made')] BY <1>5, <3>2
    <3> QED BY <1>3, <1>5, <3>1, <3>2, <3>3
  <2>3. OneHolder'
    <3>1. \A d \in Clients : holds'[d] = IF d = c THEN holds[d] \cup {made + 1} ELSE holds[d]
      BY <1>5
    <3>2. \A d \in Clients : made + 1 \notin holds[d] BY <2>1
    <3>3. \A d, e \in Clients : d # e => holds'[d] \cap holds'[e] = {} BY <3>1, <3>2 DEF OneHolder
    <3> QED BY <1>3, <3>3 DEF OneHolder
  <2>4. AllAccounted'
    <3>1. made + 1 \notin closed' /\ made + 1 \notin dropped /\ dropped' = dropped
      BY <1>2, <2>1
    <3>2. /\ (1 .. made) \ (closed' \cup dropped') \subseteq in_use
          /\ (closed' \cup dropped') \cap in_use \subseteq stale
      BY <1>2, <3>1 DEF AllAccounted, OneHolder
    <3> QED BY <1>3, <1>5, <2>1, <3>1, <3>2 DEF AllAccounted
  <2>5. AskedFit'
    <3>1. Cardinality(in_use) < max_size BY <1>5, PoolSizes DEF Connections!HasCapacity
    <3>2. IsFiniteSet(in_use)
      <4>1. in_use \subseteq Members(pool) \cup in_use OBVIOUS
      <4> QED BY <4>1, FewAreOpen, FS_Subset
    <3>3. IsFiniteSet(in_use') /\ Cardinality(in_use') <= max_size
      <4>1. /\ IsFiniteSet(in_use') /\ Cardinality(in_use') = Cardinality(in_use) + 1
        <5>1. made + 1 \notin in_use BY <2>1
        <5> QED BY <1>5, <3>2, <5>1, FS_AddElement
      <4>2. Cardinality(in_use) \in Nat BY <3>2, FS_CardinalityType
      <4> QED BY <3>1, <4>1, <4>2, PoolAssumption
    <3>4. (Members(pool)' \cup in_use') \ unasked' \subseteq in_use' BY <1>3
    <3> QED BY <3>3, <3>4, SmallerFits DEF AskedFit
  <2> QED BY <2>2, <2>3, <2>4, <2>5
<1> QED BY <1>4, <1>5

(* A client lets a connection go: into the pool, closed or dropped.        *)
LEMMA ReleasedKeeps ==
    ASSUME ConnectionsInv, NEW c \in Clients, NEW conn \in 1 .. made,
           Connections!MayRelease(c, conn), Connections!LetsGo(c, conn),
           \/ conn \notin in_use /\ UNCHANGED <<pool, in_use, closed, dropped>>
           \/ /\ conn \in in_use /\ in_use' = in_use \ {conn}
              /\ \/ pool' = Append(pool, conn) /\ UNCHANGED <<closed, dropped>>
                 \/ closed' = closed \cup {conn} /\ UNCHANGED <<pool, dropped>>
                 \/ dropped' = dropped \cup {conn} /\ UNCHANGED <<pool, closed>>,
           UNCHANGED <<made, stale, unasked>>
    PROVE  ConnectionsInv'
<1> USE DEF ConnectionsInv, ConnectionsTypeOK
<1>1. \A d \in Clients : /\ holds'[d] \subseteq holds[d]
                         /\ conn \notin holds'[d]
  BY DEF Connections!MayRelease, Connections!LetsGo
<1>2. holds' \in [Clients -> SUBSET (1 .. made)] BY DEF Connections!LetsGo
<1>3. \A d, e \in Clients : d # e => holds'[d] \cap holds'[e] = {} BY <1>1 DEF OneHolder
<1>4. pool \in Seq(Nat) /\ Len(pool) \in Nat OBVIOUS
<1>5. CASE pool' = pool /\ in_use' \subseteq in_use
  <2>1. Members(pool)' = Members(pool) /\ Distinct(pool)' BY <1>5 DEF Members, Distinct, OneHolder
  <2>2. ConnectionsTypeOK' BY <1>2, <1>5, <2>1
  <2>3. OneHolder'
    <3>1. \A d \in Clients : holds'[d] \cap Members(pool) = {} BY <1>1 DEF OneHolder
    <3> QED BY <1>3, <1>5, <2>1, <3>1 DEF OneHolder
  <2>4. AllAccounted' BY <1>5, <2>1 DEF AllAccounted, OneHolder
  <2>5. AskedFit'
    <3>1. (Members(pool)' \cup in_use') \ unasked' \subseteq (Members(pool) \cup in_use) \ unasked
      BY <1>5, <2>1
    <3> QED BY <3>1, FewAreOpen, SmallerFits DEF AskedFit
  <2> QED BY <2>2, <2>3, <2>4, <2>5
<1>6. CASE /\ conn \in in_use /\ in_use' = in_use \ {conn}
           /\ pool' = Append(pool, conn) /\ UNCHANGED <<closed, dropped>>
  <2>1. /\ conn \in Nat /\ conn \notin Members(pool) /\ Distinct(pool)
    BY <1>6 DEF OneHolder
  <2>2. pool' \in Seq(Nat) /\ Members(pool') = Members(pool) \cup {conn} /\ Distinct(pool')
    BY <1>4, <1>6, <2>1, AppendAdds
  <2>3. Members(pool)' = Members(pool) \cup {conn} /\ Distinct(pool)'
    BY <2>2 DEF Members, Distinct
  <2>4. ConnectionsTypeOK' BY <1>2, <1>6, <2>2, <2>3
  <2>5. OneHolder'
    <3>1. \A d \in Clients : holds'[d] \cap (Members(pool) \cup {conn}) = {}
      BY <1>1 DEF OneHolder
    <3>2. in_use' \cap (Members(pool) \cup {conn}) = {} BY <1>6 DEF OneHolder
    <3> QED BY <1>3, <2>3, <3>1, <3>2 DEF OneHolder
  <2>6. Members(pool)' \cup in_use' = Members(pool) \cup in_use BY <1>6, <2>3
  <2>7. AllAccounted' BY <1>6, <2>6 DEF AllAccounted
  <2>8. AskedFit' BY <2>6 DEF AskedFit
  <2> QED BY <2>4, <2>5, <2>7, <2>8
<1> QED BY <1>5, <1>6

(* What is kept of the pool, and new connections.                          *)
LEMMA FilledKeeps ==
    ASSUME ConnectionsInv, NEW kept \in Seq(Nat), NEW gone, Distinct(kept),
           Members(kept) = Members(pool) \ gone, gone \subseteq Members(pool),
           closed' = closed \cup gone,
           NEW n \in Nat, Connections!Fill(kept, n),
           UNCHANGED <<in_use, holds, dropped, stale>>
    PROVE  ConnectionsInv'
<1> USE DEF ConnectionsInv, ConnectionsTypeOK
<1> DEFINE new == made + 1 .. made + n
<1>1. /\ made' = made + n /\ pool' = kept \o [i \in 1 .. n |-> made + i]
      /\ unasked' = unasked \cup new
  BY DEF Connections!Fill
<1>2. Members(kept) \subseteq 1 .. made OBVIOUS
<1>3. /\ pool' \in Seq(Nat) /\ Distinct(pool') /\ Members(pool') = Members(kept) \cup new
  BY <1>1, <1>2, FillAdds
<1>4. /\ made' \in Nat /\ 1 .. made' = (1 .. made) \cup new /\ new \cap (1 .. made) = {}
  BY <1>1
<1> HIDE DEF new
<1>5. Members(pool)' = Members(pool') /\ Distinct(pool)' BY <1>3 DEF Members, Distinct
<1>6. ConnectionsTypeOK'
  <2>1. Members(pool') \subseteq 1 .. made' BY <1>2, <1>3, <1>4
  <2>2. /\ in_use' \subseteq 1 .. made' /\ closed' \subseteq 1 .. made'
        /\ dropped' \subseteq 1 .. made'
    BY <1>4
  <2>3. holds' \in [Clients -> SUBSET (1 .. made')] BY <1>4
  <2> QED BY <1>3, <1>4, <1>5, <2>1, <2>2, <2>3
<1>7. OneHolder'
  <2>1. in_use \cap Members(pool') = {} BY <1>3, <1>4 DEF OneHolder
  <2>2. ASSUME NEW d \in Clients PROVE holds[d] \cap Members(pool') = {}
    <3>1. holds[d] \subseteq 1 .. made /\ holds[d] \cap Members(pool) = {} BY DEF OneHolder
    <3> QED BY <1>3, <1>4, <3>1
  <2> QED BY <1>5, <2>1, <2>2 DEF OneHolder
<1>8. AllAccounted'
  <2>1. new \cap closed' = {} /\ new \cap dropped = {} BY <1>4
  <2>2. /\ (1 .. made) \ (closed' \cup dropped) \subseteq Members(kept) \cup in_use
        /\ (closed' \cup dropped) \cap (Members(kept) \cup in_use) \subseteq stale
    BY DEF AllAccounted, OneHolder
  <2> QED BY <1>3, <1>4, <1>5, <2>1, <2>2 DEF AllAccounted
<1>9. AskedFit'
  <2>1. (Members(pool)' \cup in_use') \ unasked' \subseteq (Members(pool) \cup in_use) \ unasked
    BY <1>1, <1>3, <1>5
  <2> QED BY <2>1, FewAreOpen, SmallerFits DEF AskedFit
<1> QED BY <1>6, <1>7, <1>8, <1>9

(* What the cleanup keeps.                                                 *)
LEMMA KeptRemains ==
    ASSUME ConnectionsInv, NEW idle
    PROVE  /\ Connections!Kept(idle) \in Seq(Nat) /\ Distinct(Connections!Kept(idle))
           /\ Members(Connections!Kept(idle)) = Members(pool) \ idle
           /\ Connections!Missing(Connections!Kept(idle)) \in Nat
<1>1. pool \in Seq(Nat) /\ Distinct(pool) BY DEF ConnectionsInv, ConnectionsTypeOK, OneHolder
<1>2. /\ Connections!Kept(idle) \in Seq(Nat) /\ Distinct(Connections!Kept(idle))
      /\ Members(Connections!Kept(idle)) = Members(pool) \ idle
  BY <1>1, WithoutKeeps DEF Connections!Kept
<1> HIDE DEF Connections!Kept
<1>3. Len(Connections!Kept(idle)) \in Nat BY <1>2
<1>4. Connections!Missing(Connections!Kept(idle)) \in Nat
  BY <1>3, PoolAssumption DEF Connections!Missing
<1> QED BY <1>2, <1>4

(* Every step keeps each connection in its place.                          *)
LEMMA ConnectionsKept == ConnectionsInv /\ [Connections!Next]_Connections!vars => ConnectionsInv'
<1> SUFFICES ASSUME ConnectionsInv, [Connections!Next]_Connections!vars PROVE ConnectionsInv'
    OBVIOUS
<1>t. pool \in Seq(Nat) /\ Connections!Range(pool) = Members(pool) /\ Len(pool) \in Nat
  BY RangeIsMembers DEF ConnectionsInv, ConnectionsTypeOK
<1>u. ASSUME UNCHANGED <<pool, in_use, holds, made, closed, dropped, stale, unasked>>
      PROVE  ConnectionsInv'
  <2>1. Members(pool)' = Members(pool) /\ (Distinct(pool)' <=> Distinct(pool))
    BY <1>u DEF Members, Distinct
  <2> QED BY <1>u, <2>1 DEF ConnectionsInv, ConnectionsTypeOK, OneHolder, AllAccounted, AskedFit
<1>f. ASSUME NEW n \in Nat, Connections!Fill(pool, n),
             UNCHANGED <<in_use, holds, closed, dropped, stale>>
      PROVE  ConnectionsInv'
  <2> DEFINE gone == {}
  <2>1. /\ closed' = closed \cup gone /\ Members(pool) = Members(pool) \ gone
        /\ gone \subseteq Members(pool)
    BY <1>f
  <2>2. pool \in Seq(Nat) /\ Distinct(pool) BY DEF ConnectionsInv, ConnectionsTypeOK, OneHolder
  <2>3. UNCHANGED <<in_use, holds, dropped, stale>> BY <1>f
  <2> HIDE DEF gone
  <2> QED BY <1>f, <2>1, <2>2, <2>3, FilledKeeps
<1>g. ASSUME NEW idle \in SUBSET Connections!Range(pool), closed' = closed \cup idle,
             NEW n \in Nat, Connections!Fill(Connections!Kept(idle), n),
             UNCHANGED <<in_use, holds, dropped, stale>>
      PROVE  ConnectionsInv'
  <2> DEFINE kept == Connections!Kept(idle)
  <2>1. /\ kept \in Seq(Nat) /\ Distinct(kept) /\ Members(kept) = Members(pool) \ idle
        /\ idle \subseteq Members(pool)
    BY <1>t, KeptRemains
  <2>2. Connections!Fill(kept, n) BY <1>g
  <2> HIDE DEF kept
  <2> QED BY <1>g, <2>1, <2>2, FilledKeeps
<1>1. CASE Connections!start
  BY <1>1, <1>f, PoolAssumption DEF Connections!start
<1>2. CASE Connections!start_raises
  <2>1. PICK n \in 0 .. min_size - 1 : Connections!Fill(pool, n)
    BY <1>2 DEF Connections!start_raises
  <2>2. n \in Nat BY <2>1, PoolAssumption
  <2> QED BY <1>2, <1>f, <2>1, <2>2 DEF Connections!start_raises
<1>3. CASE Connections!stop
  BY <1>3, <1>u DEF Connections!stop
<1>4. CASE Connections!stop_closes
  <2> USE DEF ConnectionsInv, ConnectionsTypeOK
  <2>1. /\ closed' = closed \cup Members(pool) \cup in_use /\ in_use' = {}
        /\ UNCHANGED <<holds, made, dropped, stale, unasked>>
        /\ pool' \in Seq(Nat) /\ Members(pool)' = {} /\ Distinct(pool)'
    BY <1>4, <1>t DEF Connections!stop_closes, Members, Distinct
  <2>2. ConnectionsTypeOK' BY <2>1
  <2>3. OneHolder' BY <2>1 DEF OneHolder
  <2>4. AllAccounted' BY <2>1 DEF AllAccounted
  <2>5. AskedFit'
    <3>1. (Members(pool)' \cup in_use') \ unasked' \subseteq (Members(pool) \cup in_use) \ unasked
      BY <2>1
    <3> QED BY <3>1, FewAreOpen, SmallerFits DEF AskedFit
  <2> QED BY <2>2, <2>3, <2>4, <2>5
<1>5. ASSUME NEW i, Connections!_cleanup_idle_connections(i) PROVE ConnectionsInv'
  <2>1. PICK idle \in SUBSET Connections!Range(pool) :
             /\ closed' = closed \cup idle
             /\ Connections!Fill(Connections!Kept(idle),
                                 Connections!Missing(Connections!Kept(idle)))
    BY <1>5 DEF Connections!_cleanup_idle_connections
  <2>2. UNCHANGED <<in_use, holds, dropped, stale>>
    BY <1>5 DEF Connections!_cleanup_idle_connections
  <2> QED BY <1>g, <2>1, <2>2, KeptRemains
<1>6. ASSUME NEW i, Connections!_cleanup_raises(i) PROVE ConnectionsInv'
  <2>1. PICK idle \in SUBSET Connections!Range(pool) :
             /\ closed' = closed \cup idle
             /\ \E n \in 0 .. Connections!Missing(Connections!Kept(idle)) - 1 :
                   Connections!Fill(Connections!Kept(idle), n)
    BY <1>6 DEF Connections!_cleanup_raises
  <2>2. PICK n \in 0 .. Connections!Missing(Connections!Kept(idle)) - 1 :
                   Connections!Fill(Connections!Kept(idle), n)
    BY <2>1
  <2>3. n \in Nat BY <2>2, KeptRemains
  <2>4. UNCHANGED <<in_use, holds, dropped, stale>>
    BY <1>6 DEF Connections!_cleanup_raises
  <2> QED BY <1>g, <2>1, <2>2, <2>3, <2>4
<1>7. ASSUME NEW i, Connections!_cleanup_loop(i) PROVE ConnectionsInv'
  BY <1>7, <1>u DEF Connections!_cleanup_loop
<1>8. ASSUME NEW c \in Clients,
             \/ Connections!acquire_pooled(c) \/ Connections!acquire_raises(c)
      PROVE  ConnectionsInv'
  <2>0. Connections!Refused \subseteq 0 .. Len(pool) BY <1>t DEF Connections!Refused
  <2>1. CASE Connections!acquire_pooled(c)
    <3>1. PICK n \in Connections!Refused :
             /\ n < Len(pool)
             /\ pool' = SubSeq(pool, n + 2, Len(pool))
             /\ Connections!CloseRefused(n)
             /\ in_use' = in_use \cup {pool[n + 1]}
             /\ holds' = [holds EXCEPT ![c] = @ \cup {pool[n + 1]}]
      BY <2>1 DEF Connections!acquire_pooled
    <3>2. n \in 0 .. Len(pool) - 1 BY <1>t, <2>0, <3>1
    <3>3. UNCHANGED <<made, dropped, stale, unasked>> BY <2>1 DEF Connections!acquire_pooled
    <3> QED BY <3>1, <3>2, <3>3, TakenKeeps
  <2>2. CASE Connections!acquire_raises(c)
    <3>1. PICK n \in Connections!Refused :
             /\ n < Len(pool)
             /\ pool' = SubSeq(pool, n + 2, Len(pool))
             /\ Connections!CloseRefused(n)
             /\ dropped' = dropped \cup {pool[n + 1]}
      BY <2>2 DEF Connections!acquire_raises
    <3>2. n \in 0 .. Len(pool) - 1 BY <1>t, <2>0, <3>1
    <3>3. UNCHANGED <<made, in_use, holds, stale, unasked>> BY <2>2 DEF Connections!acquire_raises
    <3> QED BY <3>1, <3>2, <3>3, TakenKeeps
  <2> QED BY <1>8, <2>1, <2>2
<1>9. ASSUME NEW c \in Clients,
             \/ Connections!acquire_new(c) \/ Connections!acquire_factory_raises(c)
             \/ Connections!acquire_exhausted(c) \/ Connections!acquire_waits(c)
      PROVE  ConnectionsInv'
  <2>1. /\ Connections!NoneAccepted
        /\ \/ UNCHANGED <<in_use, holds, made>>
           \/ /\ Connections!HasCapacity /\ made' = made + 1
              /\ in_use' = in_use \cup {made + 1}
              /\ holds' = [holds EXCEPT ![c] = @ \cup {made + 1}]
        /\ UNCHANGED <<dropped, stale, unasked>>
    BY <1>9 DEF Connections!acquire_new, Connections!acquire_factory_raises,
                Connections!acquire_exhausted, Connections!acquire_waits
  <2> QED BY <2>1, EmptiedKeeps
<1>10. ASSUME NEW c \in Clients, Connections!wait_times_out(c) PROVE ConnectionsInv'
  BY <1>10, <1>u DEF Connections!wait_times_out
<1>11. ASSUME NEW c \in Clients, NEW conn \in Connections!Made,
              \/ Connections!release_healthy(c, conn) \/ Connections!release_unknown(c, conn)
              \/ Connections!release_unhealthy(c, conn) \/ Connections!release_raises(c, conn)
       PROVE  ConnectionsInv'
  <2>1. /\ Connections!MayRelease(c, conn) /\ Connections!LetsGo(c, conn)
        /\ \/ conn \notin in_use /\ UNCHANGED <<pool, in_use, closed, dropped>>
           \/ /\ conn \in in_use /\ in_use' = in_use \ {conn}
              /\ \/ pool' = Append(pool, conn) /\ UNCHANGED <<closed, dropped>>
                 \/ closed' = closed \cup {conn} /\ UNCHANGED <<pool, dropped>>
                 \/ dropped' = dropped \cup {conn} /\ UNCHANGED <<pool, closed>>
        /\ UNCHANGED <<made, stale, unasked>>
    BY <1>11 DEF Connections!release_healthy, Connections!release_unknown,
                 Connections!release_unhealthy, Connections!release_raises
  <2>2. conn \in 1 .. made BY DEF Connections!Made
  <2> QED BY <2>1, <2>2, ReleasedKeeps
<1>12. CASE Connections!stop_raises
  <2>0. /\ Connections!stop_raises
        /\ UNCHANGED <<in_use, holds, made, unasked>>
    BY <1>12 DEF Connections!stop_raises
  <2>1. ASSUME NEW n \in DOMAIN pool, UNCHANGED stale,
               closed' = closed \cup Connections!Range(SubSeq(pool, 1, n - 1)),
               dropped' = dropped \cup {pool[n]},
               pool' = SubSeq(pool, n + 1, Len(pool))
        PROVE  ConnectionsInv'
    <3> DEFINE m == n - 1
    <3>1. m \in 0 .. Len(pool) - 1 /\ m + 1 = n /\ m + 2 = n + 1 BY <1>t
    <3>2. /\ pool' = SubSeq(pool, m + 2, Len(pool))
          /\ Connections!CloseRefused(m)
          /\ dropped' = dropped \cup {pool[m + 1]}
      BY <2>1, <3>1 DEF Connections!CloseRefused
    <3> HIDE DEF m
    <3> QED BY <2>0, <2>1, <3>1, <3>2, TakenKeeps
  <2>2. ASSUME NEW shut \in SUBSET in_use, NEW conn \in in_use, pool' = << >>,
               stale' = stale \cup shut \cup {conn},
               closed' = closed \cup Connections!Range(pool) \cup shut, UNCHANGED dropped
        PROVE  ConnectionsInv'
    <3> USE DEF ConnectionsInv, ConnectionsTypeOK
    <3>1. /\ closed' = closed \cup Members(pool) \cup shut
          /\ pool' \in Seq(Nat) /\ Members(pool)' = {} /\ Distinct(pool)'
      BY <1>t, <2>2 DEF Members, Distinct
    <3>2. ConnectionsTypeOK' BY <2>0, <2>2, <3>1
    <3>3. OneHolder' BY <2>0, <3>1 DEF OneHolder
    <3>4. AllAccounted' BY <2>0, <2>2, <3>1 DEF AllAccounted, OneHolder
    <3>5. AskedFit'
      <4>1. (Members(pool)' \cup in_use') \ unasked'
                \subseteq (Members(pool) \cup in_use) \ unasked
        BY <2>0, <3>1
      <4> QED BY <4>1, FewAreOpen, SmallerFits DEF AskedFit
    <3> QED BY <3>2, <3>3, <3>4, <3>5
  <2> QED BY <2>0, <2>1, <2>2 DEF Connections!stop_raises
<1>13. ASSUME NEW i, Connections!_cleanup_close_raises(i) PROVE ConnectionsInv'
  <2> USE DEF ConnectionsInv, ConnectionsTypeOK
  <2>0. UNCHANGED <<pool, in_use, holds, made, dropped, unasked>>
    BY <1>13 DEF Connections!_cleanup_close_raises
  <2>1. PICK n \in DOMAIN pool :
            \E idle \in SUBSET Connections!Range(SubSeq(pool, 1, n - 1)) :
                closed' = closed \cup idle /\ stale' = stale \cup idle \cup {pool[n]}
    BY <1>13 DEF Connections!_cleanup_close_raises
  <2>2. PICK idle \in SUBSET Connections!Range(SubSeq(pool, 1, n - 1)) :
                closed' = closed \cup idle /\ stale' = stale \cup idle \cup {pool[n]}
    BY <2>1
  <2>3. idle \subseteq Members(pool)
    <3> DEFINE head == SubSeq(pool, 1, n - 1)
    <3>1. head \in Seq(Nat) /\ Members(head) \subseteq Members(pool)
      <4>1. n \in 1 .. Len(pool) /\ \A i1 \in 1 .. Len(pool) : pool[i1] \in Nat BY <1>t
      <4>2. \A i1 \in 1 .. n - 1 : pool[i1] \in Nat BY <4>1
      <4>3. /\ head \in Seq(Nat) /\ Len(head) = n - 1
            /\ \A i1 \in 1 .. n - 1 : head[i1] = pool[i1]
        BY <4>1, <4>2
      <4> QED BY <4>1, <4>3 DEF Members
    <3> HIDE DEF head
    <3>2. Connections!Range(head) = Members(head) BY <3>1, RangeIsMembers
    <3> QED BY <2>2, <3>1, <3>2 DEF head
  <2>4. Members(pool)' = Members(pool) /\ (Distinct(pool)' <=> Distinct(pool))
    BY <2>0 DEF Members, Distinct
  <2>5. ConnectionsTypeOK' BY <2>0, <2>2, <2>3, <2>4
  <2>6. OneHolder' BY <2>0, <2>4 DEF OneHolder
  <2>7. AllAccounted' BY <2>0, <2>2, <2>3, <2>4 DEF AllAccounted
  <2>8. AskedFit' BY <2>0, <2>4 DEF AskedFit
  <2> QED BY <2>5, <2>6, <2>7, <2>8
<1>14. CASE UNCHANGED Connections!vars BY <1>14, <1>u DEF Connections!vars
<1> QED BY <1>1, <1>2, <1>3, <1>4, <1>5, <1>6, <1>7, <1>8, <1>9, <1>10, <1>11, <1>12, <1>13,
           <1>14
        DEF Connections!Next

(* The part of the invariant that gives the clients their types.           *)
WaitersTypeOK ==
    /\ client \in [Clients -> {"idle", "asleep", "woken"}]
    /\ waiters \in Seq(Clients) /\ overslept \in BOOLEAN

(* Whoever sleeps is in the queue once, and whoever is not waiting is not. *)
InQueue ==
    /\ Distinct(waiters)
    /\ \A c \in Clients : /\ client[c] = "asleep" => c \in Members(waiters)
                          /\ client[c] = "idle" => c \notin Members(waiters)

(* The clients that woke by a notification and have not looked yet.        *)
Notified == {c \in Clients : client[c] = "woken" /\ c \notin Members(waiters)}

(* While a client sleeps there are as many of those as idle connections.   *)
NotifiedSuffice ==
    (~overslept /\ \E c \in Clients : client[c] = "asleep") => Len(pool) <= Cardinality(Notified)

WaitersInv == WaitersTypeOK /\ InQueue /\ NotifiedSuffice

(* There are finitely many clients.                                        *)
LEMMA NotifiedFinite == IsFiniteSet(Notified) /\ Cardinality(Notified) \in Nat
<1>1. Notified \subseteq Clients BY DEF Notified
<1>2. IsFiniteSet(Notified) BY <1>1, PoolAssumption, FS_Subset
<1> QED BY <1>2, FS_CardinalityType

(* A client has looked and goes, with a connection or because there is     *)
(* none.                                                                   *)
LEMMA LookedKeeps ==
    ASSUME WaitersInv, pool \in Seq(Nat), NEW c \in Clients,
           Connections!Looks(c), Connections!Returns(c),
           pool' \in Seq(Nat), Len(pool') < Len(pool) \/ Len(pool') = 0, overslept' = overslept
    PROVE  WaitersInv'
<1> USE DEF WaitersInv, WaitersTypeOK
<1>1. /\ client' = [client EXCEPT ![c] = "idle"]
      /\ \A d \in Clients : client'[d] = IF d = c THEN "idle" ELSE client[d]
  BY DEF Connections!Returns
<1>2. /\ waiters' \in Seq(Clients) /\ Distinct(waiters')
      /\ Members(waiters') = Members(waiters) \ {c}
  <2>1. waiters \in Seq(Clients) /\ Distinct(waiters) BY DEF InQueue
  <2>2. waiters' = Connections!Without(waiters, {c})
    BY DEF Connections!Returns, Connections!LeavesQueue
  <2> QED BY <2>1, <2>2, WithoutKeeps
<1>3. Members(waiters)' = Members(waiters') /\ Distinct(waiters)' BY <1>2 DEF Members, Distinct
<1>4. WaitersTypeOK' BY <1>1, <1>2
<1>5. InQueue' BY <1>1, <1>2, <1>3 DEF InQueue
<1>6. NotifiedSuffice'
  <2> SUFFICES ASSUME ~overslept', NEW d \in Clients, client'[d] = "asleep"
               PROVE  Len(pool') <= Cardinality(Notified')
    BY DEF NotifiedSuffice
  <2>1. client[d] = "asleep" BY <1>1
  <2>2. Len(pool) <= Cardinality(Notified) BY <2>1 DEF NotifiedSuffice
  <2>3. Notified' = Notified \ {c} BY <1>1, <1>2, <1>3 DEF Notified
  <2>4. Cardinality(Notified) - 1 <= Cardinality(Notified') /\ Cardinality(Notified') \in Nat
    <3>1. c \in Notified => Cardinality(Notified \ {c}) = Cardinality(Notified) - 1
      BY NotifiedFinite, FS_RemoveElement
    <3>2. c \notin Notified => Notified \ {c} = Notified OBVIOUS
    <3>3. IsFiniteSet(Notified \ {c}) BY NotifiedFinite, FS_Subset
    <3>4. Cardinality(Notified \ {c}) \in Nat BY <3>3, FS_CardinalityType
    <3> HIDE DEF WaitersInv
    <3>5. Cardinality(Notified') = Cardinality(Notified \ {c}) BY <2>3
    <3>6. Cardinality(Notified) \in Nat BY NotifiedFinite
    <3>7. CASE c \in Notified BY <3>1, <3>4, <3>5, <3>6, <3>7
    <3>8. CASE c \notin Notified
      <4>1. Notified \ {c} = Notified BY <3>8
      <4>2. Cardinality(Notified') = Cardinality(Notified) BY <3>5, <4>1, Zenon
      <4> QED BY <3>6, <4>2
    <3> QED BY <3>7, <3>8
  <2>5. Len(pool) \in Nat /\ Len(pool') \in Nat OBVIOUS
  <2> HIDE DEF WaitersInv
  <2> QED BY <2>2, <2>4, <2>5, NotifiedFinite
<1> QED BY <1>4, <1>5, <1>6

(* A client has looked and waits.                                          *)
LEMMA WaitsKeeps ==
    ASSUME WaitersInv, NEW c \in Clients, Connections!acquire_waits(c)
    PROVE  WaitersInv'
<1> USE DEF WaitersInv, WaitersTypeOK
<1>1. /\ client' = [client EXCEPT ![c] = "asleep"]
      /\ \A d \in Clients : client'[d] = IF d = c THEN "asleep" ELSE client[d]
  BY DEF Connections!acquire_waits
<1> DEFINE others == Connections!Without(waiters, {c})
<1>2. /\ others \in Seq(Clients) /\ Distinct(others)
      /\ Members(others) = Members(waiters) \ {c}
  <2>1. waiters \in Seq(Clients) /\ Distinct(waiters) BY DEF InQueue
  <2> QED BY <2>1, WithoutKeeps
<1>3. waiters' = Append(others, c) BY DEF Connections!acquire_waits
<1> HIDE DEF others
<1>4. /\ waiters' \in Seq(Clients) /\ Members(waiters') = Members(others) \cup {c}
      /\ Distinct(waiters')
  BY <1>2, <1>3, AppendAdds
<1>5. Members(waiters)' = Members(others) \cup {c} /\ Distinct(waiters)'
  BY <1>4 DEF Members, Distinct
<1>6. WaitersTypeOK' BY <1>1, <1>4 DEF Connections!acquire_waits
<1>7. InQueue' BY <1>1, <1>2, <1>5 DEF InQueue
<1>8. NotifiedSuffice'
  <2>1. Len(pool') = 0 BY DEF Connections!acquire_waits, Connections!NoneAccepted
  <2>2. Cardinality(Notified') \in Nat
    <3>1. Notified' \subseteq Clients BY DEF Notified
    <3> QED BY <3>1, PoolAssumption, FS_Subset, FS_CardinalityType
  <2> QED BY <2>1, <2>2 DEF NotifiedSuffice
<1> QED BY <1>6, <1>7, <1>8

(* A wait times out.                                                       *)
LEMMA TimesOutKeeps ==
    ASSUME WaitersInv, NEW c \in Clients, Connections!wait_times_out(c)
    PROVE  WaitersInv'
<1> USE DEF WaitersInv, WaitersTypeOK
<1>1. /\ client[c] = "asleep" /\ client' = [client EXCEPT ![c] = "woken"]
      /\ \A d \in Clients : client'[d] = IF d = c THEN "woken" ELSE client[d]
      /\ UNCHANGED <<waiters, pool, overslept>>
  BY DEF Connections!wait_times_out
<1>2. Members(waiters)' = Members(waiters) /\ (Distinct(waiters)' <=> Distinct(waiters))
  BY <1>1 DEF Members, Distinct
<1>3. WaitersTypeOK' BY <1>1
<1>4. InQueue' BY <1>1, <1>2 DEF InQueue
<1>5. Notified' = Notified BY <1>1, <1>2 DEF Notified, InQueue
<1>6. NotifiedSuffice' BY <1>1, <1>5 DEF NotifiedSuffice
<1> QED BY <1>3, <1>4, <1>6

(* A connection comes back and the head of the queue is notified.          *)
LEMMA NotifyKeeps ==
    ASSUME WaitersInv, pool \in Seq(Nat), pool' \in Seq(Nat), Len(pool') = Len(pool) + 1,
           Connections!notify, overslept' = overslept
    PROVE  WaitersInv'
<1> USE DEF WaitersInv, WaitersTypeOK
<1>0. waiters \in Seq(Clients) /\ Len(waiters) \in Nat /\ Distinct(waiters) BY DEF InQueue
<1>1. CASE waiters = << >>
  <2>1. Members(waiters) = {} BY <1>1 DEF Members
  <2>2. waiters' = waiters /\ client' = client
    <3>1. client' = [c \in Clients |-> client[c]]
      BY <1>1 DEF Connections!notify, Connections!Wake
    <3> QED BY <1>1, <3>1 DEF Connections!notify
  <2>3. \A c \in Clients : client[c] # "asleep" BY <2>1 DEF InQueue
  <2>4. Members(waiters)' = Members(waiters) /\ (Distinct(waiters)' <=> Distinct(waiters))
    BY <2>2 DEF Members, Distinct
  <2>5. InQueue' BY <2>2, <2>4 DEF InQueue
  <2>6. NotifiedSuffice' BY <2>2, <2>3 DEF NotifiedSuffice
  <2> QED BY <2>2, <2>5, <2>6
<1>2. CASE waiters # << >>
  <2> DEFINE h == Head(waiters)
  <2>1. /\ h \in Clients /\ h = waiters[1] /\ waiters' = Tail(waiters)
        /\ client' = [c \in Clients |-> IF c = h /\ client[c] = "asleep" THEN "woken" ELSE client[c]]
    BY <1>0, <1>2 DEF Connections!notify, Connections!Wake
  <2> HIDE DEF h
  <2>2. /\ waiters' \in Seq(Clients) /\ Distinct(waiters')
        /\ Members(waiters) = Members(waiters') \cup {h} /\ h \notin Members(waiters')
    BY <1>0, <1>2, <2>1, TailLeaves DEF h
  <2>3. Members(waiters)' = Members(waiters') /\ Distinct(waiters)' BY <2>2 DEF Members, Distinct
  <2>4. WaitersTypeOK' BY <2>1, <2>2
  <2>5. \A c \in Clients : client'[c] = IF c = h /\ client[c] = "asleep" THEN "woken" ELSE client[c]
    BY <2>1
  <2>6. client[h] # "idle" BY <2>1, <2>2 DEF InQueue
  <2>7. InQueue' BY <2>2, <2>3, <2>5, <2>6 DEF InQueue
  <2>8. Notified' = Notified \cup {h} /\ h \notin Notified
    <3>1. client'[h] = "woken" BY <2>1, <2>5, <2>6
    <3> QED BY <2>1, <2>2, <2>3, <2>5, <3>1 DEF Notified
  <2>9. NotifiedSuffice'
    <3> SUFFICES ASSUME ~overslept', NEW d \in Clients, client'[d] = "asleep"
                 PROVE  Len(pool') <= Cardinality(Notified')
      BY DEF NotifiedSuffice
    <3>1. client[d] = "asleep" BY <2>5
    <3>2. Len(pool) <= Cardinality(Notified) BY <3>1 DEF NotifiedSuffice
    <3>3. Cardinality(Notified') = Cardinality(Notified) + 1
      BY <2>8, NotifiedFinite, FS_AddElement
    <3>4. Len(pool) \in Nat OBVIOUS
    <3> HIDE DEF WaitersInv
    <3> QED BY <3>2, <3>3, <3>4, NotifiedFinite
  <2> QED BY <2>4, <2>7, <2>9
<1> QED BY <1>1, <1>2

(* All are notified.                                                       *)
LEMMA NotifyAllKeeps ==
    ASSUME WaitersInv, Connections!notify_all, overslept' = overslept
    PROVE  WaitersInv'
<1> USE DEF WaitersInv, WaitersTypeOK
<1>1. Connections!Range(waiters) = Members(waiters) BY RangeIsMembers
<1>2. /\ waiters' = << >>
      /\ client' = [c \in Clients |-> IF c \in Members(waiters) /\ client[c] = "asleep"
                                      THEN "woken" ELSE client[c]]
  BY <1>1 DEF Connections!notify_all, Connections!Wake
<1>3. waiters' \in Seq(Clients) /\ Members(waiters)' = {} /\ Distinct(waiters)'
  BY <1>2 DEF Members, Distinct
<1>4. \A c \in Clients : client'[c] # "asleep" BY <1>2 DEF InQueue
<1>5. WaitersTypeOK' BY <1>2, <1>3
<1>6. InQueue' BY <1>3, <1>4 DEF InQueue
<1>7. NotifiedSuffice' BY <1>4 DEF NotifiedSuffice
<1> QED BY <1>5, <1>6, <1>7

(* Nobody is notified: the pool gets no larger, or that is remembered.     *)
LEMMA SilentKeeps ==
    ASSUME WaitersInv, pool \in Seq(Nat), UNCHANGED <<waiters, client>>,
           \/ Connections!FillsSilently
           \/ pool' \in Seq(Nat) /\ Len(pool') <= Len(pool) /\ overslept' = overslept
    PROVE  WaitersInv'
<1> USE DEF WaitersInv, WaitersTypeOK
<1>1. Members(waiters)' = Members(waiters) /\ (Distinct(waiters)' <=> Distinct(waiters))
  BY DEF Members, Distinct
<1>2. WaitersTypeOK' BY DEF Connections!FillsSilently
<1>3. InQueue' BY <1>1 DEF InQueue
<1>4. Notified' = Notified BY <1>1 DEF Notified
<1>5. CASE Connections!FillsSilently
  <2>1. overslept' \/ ~\E c \in Clients : client'[c] = "asleep" BY <1>5 DEF Connections!FillsSilently
  <2>2. NotifiedSuffice' BY <2>1 DEF NotifiedSuffice
  <2> QED BY <1>2, <1>3, <2>2
<1>6. CASE pool' \in Seq(Nat) /\ Len(pool') <= Len(pool) /\ overslept' = overslept
  <2>1. Len(pool) \in Nat /\ Len(pool') \in Nat /\ Cardinality(Notified) \in Nat
    BY <1>6, NotifiedFinite
  <2>2. NotifiedSuffice' BY <1>4, <1>6, <2>1 DEF NotifiedSuffice
  <2> QED BY <1>2, <1>3, <2>2
<1> QED BY <1>5, <1>6

(* The inductive invariant of ConnectionPool.                              *)
PoolInv == ConnectionsInv /\ WaitersInv

(* Every step of a client, the cleanup thread or the owner keeps it.       *)
LEMMA PoolInvKept == PoolInv /\ [Connections!Next]_Connections!vars => PoolInv'
<1> SUFFICES ASSUME PoolInv, [Connections!Next]_Connections!vars PROVE PoolInv'
    OBVIOUS
<1>a. ConnectionsInv /\ WaitersInv /\ ConnectionsInv' BY ConnectionsKept DEF PoolInv
<1>b. /\ pool \in Seq(Nat) /\ pool' \in Seq(Nat)
      /\ Len(pool) \in Nat /\ Len(pool') \in Nat
      /\ Distinct(pool)
  BY <1>a DEF ConnectionsInv, ConnectionsTypeOK, OneHolder
<1>c. SUFFICES WaitersInv' BY <1>a DEF PoolInv
<1>1. CASE Connections!start \/ Connections!start_raises
  BY <1>1, <1>a, <1>b, SilentKeeps DEF Connections!start, Connections!start_raises
<1>2. CASE Connections!stop
  <2>1. UNCHANGED <<pool, waiters, client, overslept>> BY <1>2 DEF Connections!stop
  <2> QED BY <1>a, <1>b, <2>1, SilentKeeps
<1>3. CASE Connections!stop_closes
  <2>1. UNCHANGED <<waiters, client, overslept>> /\ Len(pool') = 0
    BY <1>3 DEF Connections!stop_closes
  <2> QED BY <1>a, <1>b, <2>1, SilentKeeps
<1>4. ASSUME NEW i, Connections!_cleanup_idle_connections(i) PROVE WaitersInv'
  BY <1>4, <1>a, NotifyAllKeeps DEF Connections!_cleanup_idle_connections
<1>5. ASSUME NEW i, Connections!_cleanup_raises(i) PROVE WaitersInv'
  BY <1>5, <1>a, <1>b, SilentKeeps DEF Connections!_cleanup_raises
<1>6. ASSUME NEW i, Connections!_cleanup_loop(i) PROVE WaitersInv'
  <2>1. UNCHANGED <<pool, waiters, client, overslept>> BY <1>6 DEF Connections!_cleanup_loop
  <2> QED BY <1>a, <1>b, <2>1, SilentKeeps
<1>7. ASSUME NEW c \in Clients,
             \/ Connections!acquire_pooled(c) \/ Connections!acquire_raises(c)
      PROVE  WaitersInv'
  <2>1. PICK n \in Connections!Refused :
             n < Len(pool) /\ pool' = SubSeq(pool, n + 2, Len(pool))
    BY <1>7 DEF Connections!acquire_pooled, Connections!acquire_raises
  <2>2. n \in 0 .. Len(pool) - 1 BY <1>b, <2>1 DEF Connections!Refused
  <2>3. Len(pool') = Len(pool) - n - 1 BY <1>b, <2>1, <2>2, PoolLoses
  <2>4. Len(pool') < Len(pool) BY <1>b, <2>2, <2>3
  <2>5. Connections!Looks(c) /\ Connections!Returns(c) /\ overslept' = overslept
    BY <1>7 DEF Connections!acquire_pooled, Connections!acquire_raises
  <2> QED BY <1>a, <1>b, <2>4, <2>5, LookedKeeps
<1>8. ASSUME NEW c \in Clients,
             \/ Connections!acquire_new(c) \/ Connections!acquire_factory_raises(c)
             \/ Connections!acquire_exhausted(c)
      PROVE  WaitersInv'
  <2>1. /\ Connections!Looks(c) /\ Connections!Returns(c) /\ overslept' = overslept
        /\ Connections!NoneAccepted
    BY <1>8 DEF Connections!acquire_new, Connections!acquire_factory_raises,
                Connections!acquire_exhausted
  <2>2. Len(pool') = 0 BY <2>1 DEF Connections!NoneAccepted
  <2> QED BY <1>a, <1>b, <2>1, <2>2, LookedKeeps
<1>9. ASSUME NEW c \in Clients, Connections!acquire_waits(c) PROVE WaitersInv'
  BY <1>9, <1>a, WaitsKeeps
<1>10. ASSUME NEW c \in Clients, Connections!wait_times_out(c) PROVE WaitersInv'
  BY <1>10, <1>a, TimesOutKeeps
<1>11. ASSUME NEW c \in Clients, NEW conn \in Connections!Made,
              \/ Connections!release_unknown(c, conn) \/ Connections!release_unhealthy(c, conn)
              \/ Connections!release_raises(c, conn)
       PROVE  WaitersInv'
  <2>1. UNCHANGED <<pool, waiters, client, overslept>>
    BY <1>11 DEF Connections!release_unknown, Connections!release_unhealthy,
                 Connections!release_raises
  <2> QED BY <1>a, <1>b, <2>1, SilentKeeps
<1>12. ASSUME NEW c \in Clients, NEW conn \in Connections!Made,
              Connections!release_healthy(c, conn)
       PROVE  WaitersInv'
  <2>1. pool' = Append(pool, conn) /\ Connections!notify /\ overslept' = overslept
    BY <1>12 DEF Connections!release_healthy
  <2>2. Len(pool') = Len(pool) + 1 BY <1>b, <2>1
  <2> QED BY <1>a, <1>b, <2>1, <2>2, NotifyKeeps
<1>13. CASE Connections!stop_raises
  <2>1. UNCHANGED <<waiters, client, overslept>> BY <1>13 DEF Connections!stop_raises
  <2>2. Len(pool') <= Len(pool)
    <3>1. ASSUME NEW n \in DOMAIN pool, pool' = SubSeq(pool, n + 1, Len(pool))
          PROVE  Len(pool') <= Len(pool)
      <4> DEFINE m == n - 1
      <4>1. m \in 0 .. Len(pool) - 1 /\ m + 2 = n + 1 /\ m \in Nat BY <1>b
      <4>2. pool' = SubSeq(pool, m + 2, Len(pool)) BY <3>1, <4>1
      <4> HIDE DEF m
      <4>3. Len(pool') = Len(pool) - m - 1 BY <1>b, <4>1, <4>2, PoolLoses
      <4> QED BY <1>b, <4>1, <4>3
    <3>2. ASSUME pool' = << >> PROVE Len(pool') <= Len(pool) BY <1>b, <3>2
    <3> QED BY <1>13, <3>1, <3>2 DEF Connections!stop_raises
  <2> QED BY <1>a, <1>b, <2>1, <2>2, SilentKeeps
<1>14. ASSUME NEW i, Connections!_cleanup_close_raises(i) PROVE WaitersInv'
  <2>1. UNCHANGED <<pool, waiters, client, overslept>>
    BY <1>14 DEF Connections!_cleanup_close_raises
  <2> QED BY <1>a, <1>b, <2>1, SilentKeeps
<1>15. CASE UNCHANGED Connections!vars
  <2>1. UNCHANGED <<pool, waiters, client, overslept>> BY <1>15 DEF Connections!vars
  <2> QED BY <1>a, <1>b, <2>1, SilentKeeps
<1> QED BY <1>1, <1>2, <1>3, <1>4, <1>5, <1>6, <1>7, <1>8, <1>9, <1>10, <1>11, <1>12, <1>13,
           <1>14, <1>15
        DEF Connections!Next

(* It holds at first.                                                      *)
LEMMA PoolInvHolds == Connections!Init => PoolInv
<1> SUFFICES ASSUME Connections!Init PROVE PoolInv
    OBVIOUS
<1> USE DEF Connections!Init
<1>1. /\ Members(pool) = {} /\ Distinct(pool) /\ Members(waiters) = {} /\ Distinct(waiters)
      /\ pool \in Seq(Nat) /\ waiters \in Seq(Clients)
  BY DEF Members, Distinct
<1>2. ConnectionsTypeOK BY <1>1 DEF ConnectionsTypeOK
<1>3. OneHolder /\ AllAccounted BY <1>1 DEF OneHolder, AllAccounted
<1>4. AskedFit
  <2>1. (Members(pool) \cup in_use) \ unasked = {} BY <1>1
  <2> QED BY <2>1, FS_EmptySet, PoolAssumption DEF AskedFit
<1>5. WaitersInv
  <2>1. \A c \in Clients : client[c] = "idle" OBVIOUS
  <2> QED BY <1>1, <2>1 DEF WaitersInv, WaitersTypeOK, InQueue, NotifiedSuffice
<1> QED BY <1>2, <1>3, <1>4, <1>5 DEF PoolInv, ConnectionsInv

(* It implies what the run checks.                                         *)
LEMMA PoolInvSuffices ==
    PoolInv => /\ Connections!Exclusive /\ Connections!NoneLost
               /\ Connections!AcquireRespectsMaxSize /\ Connections!NoLostWakeup
<1> SUFFICES ASSUME PoolInv
             PROVE  /\ Connections!Exclusive /\ Connections!NoneLost
                    /\ Connections!AcquireRespectsMaxSize /\ Connections!NoLostWakeup
    OBVIOUS
<1> USE DEF PoolInv, ConnectionsInv, WaitersInv
<1>1. /\ pool \in Seq(Nat) /\ Connections!Range(pool) = Members(pool)
      /\ Connections!IsInjective(pool)
  BY RangeIsMembers DEF ConnectionsTypeOK, OneHolder
<1>2. Connections!Exclusive BY <1>1 DEF Connections!Exclusive, OneHolder
<1>3. Connections!NoneLost BY <1>1 DEF Connections!NoneLost, Connections!Made, AllAccounted
<1>4. Connections!AcquireRespectsMaxSize
  BY <1>1, PoolSizes DEF Connections!AcquireRespectsMaxSize, AskedFit
<1>5. Connections!NoLostWakeup
  <2> DEFINE awake == {c \in Clients : client[c] = "woken"}
  <2>1. awake \subseteq Clients /\ Notified \subseteq awake BY DEF Notified
  <2>2. IsFiniteSet(awake) BY <2>1, PoolAssumption, FS_Subset
  <2>3. /\ Cardinality(Notified) <= Cardinality(awake)
        /\ Cardinality(Notified) \in Nat /\ Cardinality(awake) \in Nat
    BY <2>1, <2>2, FS_Subset, FS_CardinalityType
  <2>4. Len(pool) \in Nat BY <1>1
  <2> HIDE DEF awake
  <2>5. Len(pool) <= Cardinality(Notified) => Len(pool) <= Cardinality(awake) BY <2>3, <2>4
  <2> QED BY <2>5, PoolSizes DEF Connections!NoLostWakeup, NotifiedSuffice, awake
<1> QED BY <1>2, <1>3, <1>4, <1>5

-----------------------------------------------------------------------------
(* EventBus: calls of emit that run at the same time and write one list of *)
(* errors.                                                                 *)

(* The states of a call of emit.                                           *)
EmitStates == [pc : {"idle", "reset", "call"}, number : Nat, todo : Seq(Handlers),
               called : Seq(Handlers), raised : Seq(BOOLEAN), errors : Seq(Handlers)]

(* The part of the invariant that gives the variables their types.         *)
BusTypeOK ==
    /\ emits \in Nat /\ latest \in 0 .. emits
    /\ handlers \in Seq(Handlers) /\ Distinct(handlers)
    /\ _last_errors \in Seq(Nat \X Handlers)
    /\ emit \in [Emitters -> EmitStates]

(* Calls of emit have numbers of their own; whose number is the latest has *)
(* emptied the list.                                                       *)
NumbersApart ==
    /\ \A e \in Emitters : /\ emit[e].number <= emits
                           /\ emit[e].pc = "reset" => emit[e].number # latest
    /\ \A d, e \in Emitters : d # e /\ emit[d].number = emit[e].number => emit[d].number = 0

(* The positions of the calls that raised.                                 *)
Raising(r) == {n \in 1 .. Len(r.raised) : r.raised[n]}

(* What a call of emit has done and will do.                               *)
EmitRight(r, mode) ==
    /\ r.pc = "idle" => r.number = 0
    /\ r.pc # "idle" => r.number # 0
    /\ r.pc = "reset" => r.errors = << >>
    /\ Distinct(r.called) /\ Distinct(r.todo) /\ Members(r.called) \cap Members(r.todo) = {}
    /\ Len(r.raised) = Len(r.called)
    /\ Len(r.errors) = Cardinality(Raising(r))
    /\ mode = "raise" =>
         \A n \in Raising(r) : n = Len(r.called) /\ r.todo = << >>

(* The errors of others, and what is in a list but for them.               *)
OfOthers(number) == (Nat \ {number}) \X Handlers

(* Of the emit that emptied the list last, the list has every error.       *)
Reported(r, list, number) ==
    number # 0 /\ r.number = number =>
        Connections!Without(list, OfOthers(number)) =
            [n \in 1 .. Len(r.errors) |-> <<number, r.errors[n]>>]

(* The inductive invariant of EventBus.                                    *)
BusInv ==
    /\ BusTypeOK /\ NumbersApart
    /\ \A e \in Emitters : EmitRight(emit[e], error_mode)
    /\ \A e \in Emitters : Reported(emit[e], _last_errors, latest)

(* The filter of this module is that of the other.                         *)
LEMMA SameFilters == \A s, S : Bus!Without(s, S) = Connections!Without(s, S)
BY DEF Bus!Without, Connections!Without

(* A size in that module is a size here.                                   *)
LEMMA BusSizes == \A S : Bus!Cardinality(S) = Cardinality(S)
BY DEF Bus!Cardinality, Cardinality

(* Nothing is left of nothing.                                             *)
LEMMA NothingLeft == \A S : Connections!Without(<< >>, S) = << >>
<1> TAKE S
<1>1. << >> \in Seq({}) /\ Len(<< >>) = 0 OBVIOUS
<1>2. Connections!Without(<< >>, S) \in Seq({}) /\ Len(Connections!Without(<< >>, S)) <= 0
  BY <1>1, WithoutKeeps
<1> QED BY <1>2

(* One more call that returned or raised.                                  *)
LEMMA RaisingGrows ==
    ASSUME NEW r \in EmitStates, NEW q \in EmitStates, NEW b \in BOOLEAN,
           q.raised = Append(r.raised, b)
    PROVE  /\ IsFiniteSet(Raising(r)) /\ Cardinality(Raising(r)) \in Nat
           /\ Len(r.raised) \in Nat /\ Len(q.raised) = Len(r.raised) + 1
           /\ b => /\ Raising(q) = Raising(r) \cup {Len(r.raised) + 1}
                   /\ Cardinality(Raising(q)) = Cardinality(Raising(r)) + 1
           /\ ~b => Raising(q) = Raising(r)
<1>1. /\ r.raised \in Seq(BOOLEAN) /\ Len(r.raised) \in Nat
      /\ Len(q.raised) = Len(r.raised) + 1
      /\ \A n \in 1 .. Len(r.raised) : q.raised[n] = r.raised[n]
      /\ q.raised[Len(r.raised) + 1] = b
  BY AppendAdds DEF EmitStates
<1>2. IsFiniteSet(Raising(r)) /\ Cardinality(Raising(r)) \in Nat
  <2>1. Raising(r) \subseteq 1 .. Len(r.raised) BY DEF Raising
  <2>2. IsFiniteSet(1 .. Len(r.raised)) BY <1>1, FS_Interval
  <2> QED BY <2>1, <2>2, FS_Subset, FS_CardinalityType
<1>3. 1 .. Len(q.raised) = (1 .. Len(r.raised)) \cup {Len(r.raised) + 1}
      /\ Len(r.raised) + 1 \notin 1 .. Len(r.raised)
  BY <1>1
<1>4. ASSUME b PROVE Raising(q) = Raising(r) \cup {Len(r.raised) + 1}
  BY <1>1, <1>3, <1>4 DEF Raising
<1>5. ASSUME b PROVE Cardinality(Raising(q)) = Cardinality(Raising(r)) + 1
  <2>1. Len(r.raised) + 1 \notin Raising(r) BY <1>3 DEF Raising
  <2>2. Raising(q) = Raising(r) \cup {Len(r.raised) + 1} BY <1>4, <1>5
  <2> QED BY <1>2, <2>1, <2>2, FS_AddElement
<1>6. ASSUME ~b PROVE Raising(q) = Raising(r)
  BY <1>1, <1>3, <1>6 DEF Raising
<1> QED BY <1>1, <1>2, <1>4, <1>5, <1>6

(* One call of emit moves; the list and the latest number stay.            *)
LEMMA EmitMoves ==
    ASSUME BusInv, NEW e \in Emitters, NEW r \in EmitStates,
           emit' = [emit EXCEPT ![e] = r], r.number = emit[e].number \/ r.number = 0,
           r.pc # "reset", EmitRight(r, error_mode), Reported(r, _last_errors, latest),
           UNCHANGED <<error_mode, handlers, _last_errors, emits, latest>>
    PROVE  BusInv'
<1> USE DEF BusInv, BusTypeOK
<1>1. \A d \in Emitters : emit'[d] = IF d = e THEN r ELSE emit[d] OBVIOUS
<1>2. Distinct(handlers)' BY DEF Distinct
<1>3. BusTypeOK' BY <1>1, <1>2
<1>4. \A d \in Emitters : emit[d].number \in Nat BY DEF EmitStates
<1>5. NumbersApart' BY <1>1, <1>4 DEF NumbersApart
<1>6. \A d \in Emitters : /\ EmitRight(emit'[d], error_mode)
                          /\ Reported(emit'[d], _last_errors, latest)
  BY <1>1
<1> QED BY <1>3, <1>5, <1>6

(* A handler is called.                                                    *)
LEMMA CallKeeps ==
    ASSUME BusInv, NEW e \in Emitters, Bus!call(e)
    PROVE  BusInv'
<1> USE DEF BusInv, BusTypeOK
<1> DEFINE r == emit[e]
           h == Head(r.todo)
           after == [r EXCEPT !.called = Append(@, h), !.todo = Tail(@)]
           well == [after EXCEPT !.raised = Append(@, FALSE)]
           failing == [after EXCEPT !.raised = Append(@, TRUE), !.errors = Append(@, h),
                                    !.todo = IF error_mode = "raise" THEN << >> ELSE @]
<1>1. /\ r.pc = "call" /\ r.todo # << >>
      /\ \/ emit' = [emit EXCEPT ![e] = well] /\ _last_errors' = _last_errors
         \/ /\ emit' = [emit EXCEPT ![e] = failing]
            /\ _last_errors' = Append(_last_errors, <<r.number, h>>)
      /\ UNCHANGED <<error_mode, handlers, emits, latest>>
  BY DEF Bus!call
<1>2. /\ r \in EmitStates /\ EmitRight(r, error_mode) /\ Reported(r, _last_errors, latest)
  OBVIOUS
<1> HIDE DEF r
<1>3. /\ h \in Handlers /\ Tail(r.todo) \in Seq(Handlers)
      /\ Members(r.todo) = Members(Tail(r.todo)) \cup {h}
      /\ h \notin Members(Tail(r.todo)) /\ Distinct(Tail(r.todo))
  BY <1>1, <1>2, TailLeaves DEF EmitStates, EmitRight
<1> HIDE DEF h
<1>4. /\ Append(r.called, h) \in Seq(Handlers)
      /\ Members(Append(r.called, h)) = Members(r.called) \cup {h}
      /\ Distinct(Append(r.called, h))
      /\ Len(Append(r.called, h)) = Len(r.called) + 1 /\ Len(r.called) \in Nat
  <2>1. r.called \in Seq(Handlers) /\ Distinct(r.called) /\ h \notin Members(r.called)
    BY <1>2, <1>3 DEF EmitStates, EmitRight
  <2> QED BY <1>3, <2>1, AppendAdds
<1>5. /\ Members(Append(r.called, h)) \cap Members(Tail(r.todo)) = {}
      /\ Members(Append(r.called, h)) \cap Members(<< >>) = {} /\ Distinct(<< >>)
  <2>1. Members(r.called) \cap Members(r.todo) = {} BY <1>2 DEF EmitRight
  <2>2. Members(<< >>) = {} /\ Distinct(<< >>) BY DEF Members, Distinct
  <2> QED BY <1>3, <1>4, <2>1, <2>2
<1>6. error_mode = "raise" => Raising(r) = {}
  BY <1>1, <1>2 DEF EmitRight
<1>7. CASE emit' = [emit EXCEPT ![e] = well] /\ _last_errors' = _last_errors
  <2>1. /\ well \in EmitStates /\ well.pc = "call" /\ well.number = r.number
        /\ well.called = Append(r.called, h) /\ well.todo = Tail(r.todo)
        /\ well.raised = Append(r.raised, FALSE) /\ well.errors = r.errors
    <3>1. Append(r.raised, FALSE) \in Seq(BOOLEAN) BY <1>2, AppendAdds DEF EmitStates
    <3> QED BY <1>1, <1>2, <1>3, <1>4, <3>1 DEF EmitStates
  <2> HIDE DEF well
  <2>2. Raising(well) = Raising(r) /\ Len(well.raised) = Len(r.raised) + 1
    BY <1>2, <2>1, RaisingGrows
  <2>3. EmitRight(well, error_mode)
    <3>1. /\ well.pc # "idle" /\ well.pc # "reset" /\ well.number # 0
      BY <1>1, <1>2, <2>1 DEF EmitRight
    <3>2. /\ Distinct(well.called) /\ Distinct(well.todo)
          /\ Members(well.called) \cap Members(well.todo) = {}
      BY <1>3, <1>4, <1>5, <2>1
    <3>3. Len(well.raised) = Len(well.called) BY <1>2, <1>4, <2>1, <2>2 DEF EmitRight
    <3>4. Len(well.errors) = Cardinality(Raising(well)) BY <1>2, <2>1, <2>2 DEF EmitRight
    <3> QED BY <1>6, <2>2, <3>1, <3>2, <3>3, <3>4 DEF EmitRight
  <2>4. Reported(well, _last_errors, latest) BY <1>2, <2>1 DEF Reported
  <2>5. well.number = emit[e].number BY <2>1 DEF r
  <2> QED BY <1>1, <1>7, <2>1, <2>3, <2>4, <2>5, EmitMoves
<1>8. CASE /\ emit' = [emit EXCEPT ![e] = failing]
           /\ _last_errors' = Append(_last_errors, <<r.number, h>>)
  <2>1. /\ failing \in EmitStates /\ failing.pc = "call" /\ failing.number = r.number
        /\ failing.called = Append(r.called, h)
        /\ failing.todo = (IF error_mode = "raise" THEN << >> ELSE Tail(r.todo))
        /\ failing.raised = Append(r.raised, TRUE) /\ failing.errors = Append(r.errors, h)
    <3>1. Append(r.raised, TRUE) \in Seq(BOOLEAN) BY <1>2, AppendAdds DEF EmitStates
    <3>2. Append(r.errors, h) \in Seq(Handlers) BY <1>2, <1>3, AppendAdds DEF EmitStates
    <3>3. << >> \in Seq(Handlers) OBVIOUS
    <3> QED BY <1>1, <1>2, <1>3, <1>4, <3>1, <3>2, <3>3 DEF EmitStates
  <2> HIDE DEF failing
  <2>2. /\ Raising(failing) = Raising(r) \cup {Len(r.raised) + 1}
        /\ Cardinality(Raising(failing)) = Cardinality(Raising(r)) + 1
        /\ Len(failing.raised) = Len(r.raised) + 1
        /\ Cardinality(Raising(r)) \in Nat
    BY <1>2, <2>1, RaisingGrows
  <2>3. /\ Len(failing.errors) = Len(r.errors) + 1 /\ Len(r.errors) \in Nat
        /\ \A i \in 1 .. Len(r.errors) : failing.errors[i] = r.errors[i]
        /\ failing.errors[Len(r.errors) + 1] = h
    BY <1>2, <1>3, <2>1, AppendAdds DEF EmitStates
  <2>4. EmitRight(failing, error_mode)
    <3>1. /\ failing.pc # "idle" /\ failing.pc # "reset" /\ failing.number # 0
      BY <1>1, <1>2, <2>1 DEF EmitRight
    <3>2. /\ Distinct(failing.called) /\ Distinct(failing.todo)
          /\ Members(failing.called) \cap Members(failing.todo) = {}
      BY <1>3, <1>4, <1>5, <2>1
    <3>3. Len(failing.raised) = Len(failing.called) BY <1>2, <1>4, <2>1, <2>2 DEF EmitRight
    <3>4. Len(failing.errors) = Cardinality(Raising(failing)) BY <1>2, <2>2, <2>3 DEF EmitRight
    <3>5. error_mode = "raise" =>
            \A n \in Raising(failing) : n = Len(failing.called) /\ failing.todo = << >>
      BY <1>2, <1>4, <1>6, <2>1, <2>2 DEF EmitRight
    <3> QED BY <3>1, <3>2, <3>3, <3>4, <3>5 DEF EmitRight
  <2>5. \A d \in Emitters : emit'[d] = IF d = e THEN failing ELSE emit[d] BY <1>8
  <2>6. _last_errors' \in Seq(Nat \X Handlers) /\ <<r.number, h>> \in Nat \X Handlers
    BY <1>2, <1>3, <1>8, AppendAdds DEF EmitStates
  <2>7. Connections!Without(_last_errors', OfOthers(latest)) =
            IF <<r.number, h>> \in OfOthers(latest)
            THEN Connections!Without(_last_errors, OfOthers(latest))
            ELSE Append(Connections!Without(_last_errors, OfOthers(latest)), <<r.number, h>>)
    BY <1>8, <2>6, WithoutAppend
  <2>8. ASSUME NEW d \in Emitters PROVE Reported(emit'[d], _last_errors', latest)
    <3> SUFFICES ASSUME latest # 0, emit'[d].number = latest
                 PROVE  Connections!Without(_last_errors', OfOthers(latest)) =
                          [n \in 1 .. Len(emit'[d].errors) |-> <<latest, emit'[d].errors[n]>>]
      BY DEF Reported
    <3>1. CASE d = e
      <4>1. r.number = latest /\ emit'[d] = failing BY <2>1, <2>5, <3>1
      <4>2. <<r.number, h>> \notin OfOthers(latest) BY <4>1 DEF OfOthers
      <4> DEFINE old == [n \in 1 .. Len(r.errors) |-> <<latest, r.errors[n]>>]
                 new == [n \in 1 .. Len(failing.errors) |-> <<latest, failing.errors[n]>>]
      <4>3. Connections!Without(_last_errors, OfOthers(latest)) = old
        BY <1>2, <4>1 DEF Reported
      <4>4. Append(old, <<latest, h>>) = new
        <5>1. old \in Seq(Nat \X Handlers)
          <6>1. \A n \in 1 .. Len(r.errors) : <<latest, r.errors[n]>> \in Nat \X Handlers
            <7>1. latest \in Nat OBVIOUS
            <7>2. r.errors \in Seq(Handlers) BY <1>2 DEF EmitStates
            <7>3. \A n \in 1 .. Len(r.errors) : r.errors[n] \in Handlers BY <7>2
            <7> QED BY <7>1, <7>3
          <6> QED BY <2>3, <6>1
        <5>2. Len(old) = Len(r.errors) BY <2>3
        <5>3. Append(old, <<latest, h>>) =
                [n \in 1 .. Len(r.errors) + 1 |->
                   IF n = Len(r.errors) + 1 THEN <<latest, h>> ELSE old[n]]
          BY <2>3, <5>1, <5>2
        <5>4. \A n \in 1 .. Len(r.errors) + 1 : n # Len(r.errors) + 1 => n \in 1 .. Len(r.errors)
          BY <2>3
        <5> QED BY <2>3, <5>3, <5>4
      <4> QED BY <2>7, <4>1, <4>2, <4>3, <4>4
    <3>2. CASE d # e
      <4>1. emit'[d] = emit[d] BY <2>5, <3>2
      <4>2. emit[e].number # latest BY <3>2, <4>1 DEF NumbersApart
      <4>3. <<r.number, h>> \in OfOthers(latest) BY <2>6, <4>2 DEF OfOthers, r
      <4>4. Reported(emit[d], _last_errors, latest) OBVIOUS
      <4> QED BY <2>7, <4>1, <4>3, <4>4 DEF Reported
    <3> QED BY <3>1, <3>2
  <2>9. BusTypeOK'
    <3>1. Distinct(handlers)' BY <1>1 DEF Distinct
    <3> QED BY <1>1, <1>8, <2>1, <2>6, <3>1
  <2>10. NumbersApart'
    <3>1. \A d \in Emitters : emit'[d].number = emit[d].number BY <2>1, <2>5 DEF r
    <3>2. \A d \in Emitters : emit'[d].pc = "reset" => emit[d].pc = "reset" BY <2>1, <2>5
    <3> QED BY <1>1, <3>1, <3>2 DEF NumbersApart
  <2>11. \A d \in Emitters : EmitRight(emit'[d], error_mode') BY <1>1, <2>4, <2>5
  <2>12. \A d \in Emitters : Reported(emit'[d], _last_errors', latest') BY <1>1, <2>8
  <2> QED BY <2>9, <2>10, <2>11, <2>12
<1> QED BY <1>1, <1>7, <1>8

(* Every step of a call of emit, and of those that add and remove handlers *)
(* or clear, keeps the invariant.                                          *)
LEMMA BusInvKept == BusInv /\ [Bus!Next]_Bus!vars => BusInv'
<1> SUFFICES ASSUME BusInv, [Bus!Next]_Bus!vars PROVE BusInv'
    OBVIOUS
<1> USE DEF BusInv, BusTypeOK
<1>h. ASSUME handlers' \in Seq(Handlers), Distinct(handlers'),
             UNCHANGED <<error_mode, emit, emits>>,
             \/ UNCHANGED <<_last_errors, latest>>
             \/ _last_errors' = << >> /\ latest' = 0
      PROVE  BusInv'
  <2>1. Distinct(handlers)' BY <1>h DEF Distinct
  <2>2. latest' \in 0 .. emits /\ _last_errors' \in Seq(Nat \X Handlers)
    <3>1. 0 \in 0 .. emits /\ << >> \in Seq(Nat \X Handlers) OBVIOUS
    <3>2. CASE UNCHANGED <<_last_errors, latest>> BY <3>2
    <3>3. CASE _last_errors' = << >> /\ latest' = 0 BY <3>1, <3>3
    <3> QED BY <1>h, <3>2, <3>3
  <2>3. BusTypeOK' BY <1>h, <2>1, <2>2
  <2>4. NumbersApart'
    <3>1. \A e \in Emitters : emit[e].pc = "reset" => emit[e].number # 0 BY DEF EmitRight, EmitStates
    <3> QED BY <1>h, <3>1 DEF NumbersApart
  <2>5. \A e \in Emitters : EmitRight(emit[e], error_mode)' BY <1>h
  <2>6. \A e \in Emitters : Reported(emit'[e], _last_errors', latest') BY <1>h DEF Reported
  <2> QED BY <1>h, <2>3, <2>4, <2>5, <2>6
<1>1. ASSUME NEW h \in Handlers, Bus!on(h) PROVE BusInv'
  <2>1. /\ h \notin Members(handlers) /\ handlers' = Append(handlers, h)
        /\ UNCHANGED <<error_mode, _last_errors, emit, emits, latest>>
    BY <1>1 DEF Bus!on, Bus!Range, Members
  <2>2. handlers' \in Seq(Handlers) /\ Distinct(handlers') BY <2>1, AppendAdds
  <2> QED BY <1>h, <2>1, <2>2
<1>2. ASSUME NEW h \in Handlers, Bus!off(h) PROVE BusInv'
  <2>1. /\ handlers' = Connections!Without(handlers, {h})
        /\ UNCHANGED <<error_mode, _last_errors, emit, emits, latest>>
    BY <1>2, SameFilters DEF Bus!off
  <2>2. handlers' \in Seq(Handlers) /\ Distinct(handlers') BY <2>1, WithoutKeeps
  <2> QED BY <1>h, <2>1, <2>2
<1>3. CASE Bus!off_all \/ Bus!clear_errors \/ Bus!clear
  <2>1. << >> \in Seq(Handlers) /\ Distinct(<< >>) BY DEF Distinct
  <2> QED BY <1>3, <1>h, <2>1 DEF Bus!off_all, Bus!clear_errors, Bus!clear
<1>4. ASSUME NEW e \in Emitters, Bus!emit_called(e) PROVE BusInv'
  <2> DEFINE r == [Bus!none EXCEPT !.pc = "reset", !.number = emits + 1, !.todo = handlers]
  <2>1. /\ emits' = emits + 1 /\ emit' = [emit EXCEPT ![e] = r]
        /\ UNCHANGED <<error_mode, handlers, _last_errors, latest>>
    BY <1>4 DEF Bus!emit_called
  <2>2. /\ r.pc = "reset" /\ r.number = emits + 1 /\ r.todo = handlers
        /\ r.called = << >> /\ r.raised = << >> /\ r.errors = << >> /\ r \in EmitStates
    <3>1. emits + 1 \in Nat /\ handlers \in Seq(Handlers) OBVIOUS
    <3>2. Bus!none \in EmitStates BY DEF Bus!none, EmitStates
    <3>3. r \in EmitStates BY <3>1, <3>2 DEF EmitStates
    <3> QED BY <3>1, <3>3 DEF Bus!none
  <2> HIDE DEF r
  <2>3. \A d \in Emitters : emit'[d] = IF d = e THEN r ELSE emit[d] BY <2>1
  <2>4. EmitRight(r, error_mode)
    <3>1. Raising(r) = {} BY <2>2 DEF Raising
    <3>2. Cardinality(Raising(r)) = 0 BY <3>1, FS_EmptySet
    <3>3. Members(<< >>) = {} /\ Distinct(<< >>) BY DEF Members, Distinct
    <3>4. Members(r.called) \cap Members(r.todo) = {} BY <2>2, <3>3
    <3>5. Len(r.raised) = Len(r.called) /\ Len(r.errors) = 0 BY <2>2
    <3>6. r.number # 0 BY <2>2
    <3> QED BY <2>2, <3>1, <3>2, <3>3, <3>4, <3>5, <3>6 DEF EmitRight
  <2>5. BusTypeOK'
    <3>1. Distinct(handlers)' BY <2>1 DEF Distinct
    <3> QED BY <2>1, <2>2, <3>1
  <2>6. NumbersApart'
    <3>1. \A d \in Emitters : emit[d].number \in Nat /\ emit[d].number <= emits
      BY DEF NumbersApart, EmitStates
    <3>2. \A d \in Emitters : emit[d].number # emits + 1 /\ emit[d].number <= emits + 1 BY <3>1
    <3>3. latest # emits + 1 OBVIOUS
    <3> QED BY <2>1, <2>2, <2>3, <3>2, <3>3 DEF NumbersApart
  <2>7. \A d \in Emitters : EmitRight(emit'[d], error_mode') BY <2>1, <2>3, <2>4
  <2>8. \A d \in Emitters : Reported(emit'[d], _last_errors', latest')
    <3>1. latest # emits + 1 OBVIOUS
    <3> QED BY <2>1, <2>2, <2>3, <3>1 DEF Reported
  <2> QED BY <2>5, <2>6, <2>7, <2>8
<1>5. ASSUME NEW e \in Emitters, Bus!reset(e) PROVE BusInv'
  <2> DEFINE r == [emit[e] EXCEPT !.pc = "call"]
  <2>1. /\ _last_errors' = << >> /\ latest' = emit[e].number /\ emit' = [emit EXCEPT ![e] = r]
        /\ emit[e].pc = "reset" /\ UNCHANGED <<error_mode, handlers, emits>>
    BY <1>5 DEF Bus!reset
  <2>2. /\ emit[e] \in EmitStates /\ EmitRight(emit[e], error_mode)
        /\ emit[e].number # 0 /\ emit[e].errors = << >>
    BY <2>1 DEF EmitRight
  <2>3. /\ r \in EmitStates /\ r.pc = "call" /\ r.number = emit[e].number
        /\ r.todo = emit[e].todo /\ r.called = emit[e].called /\ r.raised = emit[e].raised
        /\ r.errors = emit[e].errors
    BY <2>2 DEF EmitStates
  <2> HIDE DEF r
  <2>4. \A d \in Emitters : emit'[d] = IF d = e THEN r ELSE emit[d] BY <2>1
  <2>5. EmitRight(r, error_mode)
    <3>1. Raising(r) = Raising(emit[e]) BY <2>3 DEF Raising
    <3> QED BY <2>2, <2>3, <3>1 DEF EmitRight
  <2>6. BusTypeOK'
    <3>1. Distinct(handlers)' BY <2>1 DEF Distinct
    <3>2. emit[e].number \in Nat /\ emit[e].number <= emits BY <2>2 DEF NumbersApart, EmitStates
    <3>3. latest' \in 0 .. emits' /\ _last_errors' \in Seq(Nat \X Handlers) BY <2>1, <3>2
    <3> QED BY <2>1, <2>3, <3>1, <3>3
  <2>7. NumbersApart' BY <2>1, <2>2, <2>3, <2>4 DEF NumbersApart
  <2>8. \A d \in Emitters : EmitRight(emit'[d], error_mode') BY <2>1, <2>4, <2>5
  <2>9. \A d \in Emitters : Reported(emit'[d], _last_errors', latest')
    <3> SUFFICES ASSUME NEW d \in Emitters, emit'[d].number = latest'
                 PROVE  Reported(emit'[d], _last_errors', latest')
      BY DEF Reported
    <3>1. d = e BY <2>1, <2>2, <2>4 DEF NumbersApart
    <3>2. emit'[d].errors = << >> BY <2>2, <2>3, <2>4, <3>1
    <3>3. [n \in 1 .. Len(emit'[d].errors) |-> <<latest', emit'[d].errors[n]>>] = << >> BY <3>2
    <3> QED BY <2>1, <3>3, NothingLeft DEF Reported
  <2> QED BY <2>6, <2>7, <2>8, <2>9
<1>6. ASSUME NEW e \in Emitters, Bus!call(e) PROVE BusInv'
  BY <1>6, CallKeeps
<1>7. ASSUME NEW e \in Emitters, Bus!returned(e) PROVE BusInv'
  <2> DEFINE r == Bus!none
  <2>1. /\ emit' = [emit EXCEPT ![e] = r]
        /\ UNCHANGED <<error_mode, handlers, _last_errors, emits, latest>>
    BY <1>7 DEF Bus!returned
  <2>2. /\ r.pc = "idle" /\ r.number = 0 /\ r.todo = << >>
        /\ r.called = << >> /\ r.raised = << >> /\ r.errors = << >> /\ r \in EmitStates
    BY DEF Bus!none, EmitStates
  <2> HIDE DEF r
  <2>3. EmitRight(r, error_mode)
    <3>1. Raising(r) = {} BY <2>2 DEF Raising
    <3>2. Cardinality(Raising(r)) = 0 BY <3>1, FS_EmptySet
    <3>3. Members(<< >>) = {} /\ Distinct(<< >>) BY DEF Members, Distinct
    <3>4. Len(r.raised) = Len(r.called) /\ Len(r.errors) = 0 BY <2>2
    <3> QED BY <2>2, <3>1, <3>2, <3>3, <3>4 DEF EmitRight
  <2>4. Reported(r, _last_errors, latest) BY <2>2 DEF Reported
  <2> QED BY <2>1, <2>2, <2>3, <2>4, EmitMoves
<1>8. CASE UNCHANGED Bus!vars
  <2>1. UNCHANGED <<error_mode, handlers, _last_errors, emit, emits, latest>> BY <1>8 DEF Bus!vars
  <2> QED BY <1>h, <2>1
<1> QED BY <1>1, <1>2, <1>3, <1>4, <1>5, <1>6, <1>7, <1>8 DEF Bus!Next

(* It holds at first.                                                      *)
LEMMA BusInvHolds == Bus!Init => BusInv
<1> SUFFICES ASSUME Bus!Init PROVE BusInv
    OBVIOUS
<1> USE DEF Bus!Init
<1> DEFINE r == Bus!none
<1>1. /\ r.pc = "idle" /\ r.number = 0 /\ r.todo = << >>
      /\ r.called = << >> /\ r.raised = << >> /\ r.errors = << >> /\ r \in EmitStates
  BY DEF Bus!none, EmitStates
<1>2. \A e \in Emitters : emit[e] = r OBVIOUS
<1> HIDE DEF r
<1>3. EmitRight(r, error_mode)
  <2>1. Raising(r) = {} BY <1>1 DEF Raising
  <2>2. Cardinality(Raising(r)) = 0 BY <2>1, FS_EmptySet
  <2>3. Members(<< >>) = {} /\ Distinct(<< >>) BY DEF Members, Distinct
  <2>4. Len(r.raised) = Len(r.called) /\ Len(r.errors) = 0 BY <1>1
  <2> QED BY <1>1, <2>1, <2>2, <2>3, <2>4 DEF EmitRight
<1>4. BusTypeOK
  <2>1. emit \in [Emitters -> EmitStates] BY <1>1 DEF r
  <2>2. Distinct(handlers) BY DEF Distinct
  <2> QED BY <2>1, <2>2 DEF BusTypeOK
<1>5. NumbersApart BY <1>1, <1>2 DEF NumbersApart
<1>6. \A e \in Emitters : Reported(emit[e], _last_errors, latest) BY DEF Reported
<1> QED BY <1>2, <1>3, <1>4, <1>5, <1>6 DEF BusInv

(* It implies what the run checks.                                         *)
LEMMA BusInvSuffices == BusInv => Bus!EmitsAreReported
<1> SUFFICES ASSUME BusInv PROVE Bus!EmitsAreReported
    OBVIOUS
<1> SUFFICES ASSUME NEW e \in Emitters
             PROVE  LET r == emit[e] IN
                    /\ Bus!IsInjective(r.called)
                    /\ Len(r.errors) = Bus!Cardinality({n \in DOMAIN r.raised : r.raised[n]})
                    /\ error_mode = "raise" =>
                         \A n \in DOMAIN r.raised : r.raised[n] => n = Len(r.called)
                    /\ latest # 0 /\ r.number = latest =>
                         Bus!Without(_last_errors, (Nat \ {latest}) \X Handlers)
                           = [n \in DOMAIN r.errors |-> <<latest, r.errors[n]>>]
  BY DEF Bus!EmitsAreReported
<1> DEFINE r == emit[e]
<1>1. /\ r \in EmitStates /\ EmitRight(r, error_mode) /\ Reported(r, _last_errors, latest)
  BY DEF BusInv, BusTypeOK
<1> HIDE DEF r
<1>2. /\ DOMAIN r.called = 1 .. Len(r.called) /\ DOMAIN r.raised = 1 .. Len(r.raised)
      /\ DOMAIN r.errors = 1 .. Len(r.errors)
  BY <1>1 DEF EmitStates
<1>3. Bus!IsInjective(r.called) BY <1>1, <1>2 DEF Bus!IsInjective, EmitRight, Distinct
<1>4. {n \in DOMAIN r.raised : r.raised[n]} = Raising(r) BY <1>2 DEF Raising
<1>5. Len(r.errors) = Bus!Cardinality({n \in DOMAIN r.raised : r.raised[n]})
  BY <1>1, <1>4, BusSizes DEF EmitRight
<1>6. error_mode = "raise" => \A n \in DOMAIN r.raised : r.raised[n] => n = Len(r.called)
  BY <1>1, <1>2 DEF EmitRight, Raising
<1>7. latest # 0 /\ r.number = latest =>
        Bus!Without(_last_errors, (Nat \ {latest}) \X Handlers)
          = [n \in DOMAIN r.errors |-> <<latest, r.errors[n]>>]
  BY <1>1, <1>2, SameFilters DEF Reported, OfOthers
<1> QED BY <1>3, <1>5, <1>6, <1>7 DEF r

-----------------------------------------------------------------------------
(* A behaviour of MCComponents is one of the component it starts with: its *)
(* first state is one of the component's, and every step is the            *)
(* component's or leaves its variables alone.                              *)
LEMMA FirstIsTheComponents ==
    ASSUME Init
    PROVE
        /\ component = "async base" => Loop!Init
        /\ component = "http feed" => Feed!Init
        /\ component = "adapter lookup" => Lookup!Init
        /\ component = "adapter factory" => Factory!Init
        /\ component = "plugin loader" => Loader!Init
        /\ component = "cache service" => Services!Init
        /\ component = "getters" => Getters!Init
        /\ component = "adapters" => Adapters!Init
        /\ component = "async tools" => Tools!Init
        /\ component = "connection pool" => Connections!Init
        /\ component = "event bus" => Bus!Init
BY DEF Init

(* See above. *)
LEMMA StepsAreTheComponents ==
    ASSUME [Next]_vars
    PROVE
        /\ component' = component
        /\ component = "async base" => [Loop!Next]_Loop!vars
        /\ component = "http feed" => [Feed!Next]_Feed!vars
        /\ component = "adapter lookup" => [Lookup!Next]_Lookup!vars
        /\ component = "adapter factory" => [Factory!Next]_Factory!vars
        /\ component = "plugin loader" => [Loader!Next]_Loader!vars
        /\ component = "cache service" => [Services!Next]_Services!vars
        /\ component = "getters" => [Getters!Next]_Getters!vars
        /\ component = "adapters" => [Adapters!Next]_Adapters!vars
        /\ component = "async tools" => [Tools!Next]_Tools!vars
        /\ component = "connection pool" => [Connections!Next]_Connections!vars
        /\ component = "event bus" => [Bus!Next]_Bus!vars
<1>1. CASE UNCHANGED vars
  <2>1. /\ UNCHANGED <<component, thread, closed, stopping, made>>
        /\ UNCHANGED <<loopVars, feedVars, classVars, factoryVars, lookupVars, getterVars>>
        /\ UNCHANGED <<loaderVars, serviceVars, poolVars, busVars, toolVars, adapterVars>>
    BY <1>1 DEF vars, named
  <2>2. UNCHANGED Loop!vars BY <2>1 DEF Loop!vars, loopVars
  <2>3. UNCHANGED Feed!vars BY <2>1 DEF Feed!vars, Feed!clients, feedVars
  <2>4. UNCHANGED Lookup!vars BY <2>1 DEF Lookup!vars, Lookup!shared, Lookup!history, classVars,
  lookupVars
  <2>5. UNCHANGED Factory!vars BY <2>1 DEF Factory!vars, classVars, factoryVars
  <2>6. UNCHANGED Loader!vars BY <2>1 DEF Loader!vars, loaderVars
  <2>7. UNCHANGED Services!vars BY <2>1 DEF Services!vars, serviceVars
  <2>8. UNCHANGED Getters!vars BY <2>1 DEF Getters!vars, getterVars
  <2>9. UNCHANGED Adapters!vars BY <2>1 DEF Adapters!vars, adapterVars
  <2>10. UNCHANGED Tools!vars BY <2>1 DEF Tools!vars, Tools!group, Tools!contexts, toolVars
  <2>11. UNCHANGED Connections!vars BY <2>1 DEF Connections!vars, poolVars
  <2>12. UNCHANGED Bus!vars BY <2>1 DEF Bus!vars, busVars
  <2> QED BY <2>1, <2>2, <2>3, <2>4, <2>5, <2>6, <2>7, <2>8, <2>9, <2>10, <2>11, <2>12
<1>2. CASE Next
  <2>1. component' = component BY <1>2 DEF Next, Untouched
  <2>2. component = "async base" => Loop!Next BY <1>2 DEF Next
  <2>3. component = "http feed" => Feed!Next BY <1>2 DEF Next
  <2>4. component = "adapter lookup" => Lookup!Next BY <1>2 DEF Next
  <2>5. component = "adapter factory" => Factory!Next BY <1>2 DEF Next
  <2>6. component = "plugin loader" => Loader!Next BY <1>2 DEF Next
  <2>7. component = "cache service" => Services!Next BY <1>2 DEF Next
  <2>8. component = "getters" => Getters!Next BY <1>2 DEF Next
  <2>9. component = "adapters" => Adapters!Next BY <1>2 DEF Next
  <2>10. component = "async tools" => Tools!Next BY <1>2 DEF Next
  <2>11. component = "connection pool" => Connections!Next BY <1>2 DEF Next
  <2>12. component = "event bus" => Bus!Next BY <1>2 DEF Next
  <2> QED BY <2>1, <2>2, <2>3, <2>4, <2>5, <2>6, <2>7, <2>8, <2>9, <2>10, <2>11, <2>12
<1> QED BY <1>1, <1>2

(* For any number of threads and any requests, loops and sessions: what    *)
(* was submitted to a loop has a thread that runs the loop, though threads *)
(* end and are started at any time; while there is one event loop one      *)
(* session is open at most, and later only those two loops made at the     *)
(* same time stay open beside the feed's (AsyncBase.submit, start_loop,    *)
(* _start_thread_loop, async_http_request).                                *)
THEOREM LoopsAreTended == Spec => []AsyncBaseSound
<1> DEFINE Inv ==
        /\ component = "async base" => LoopInv
<1>1. Init => Inv BY FirstIsTheComponents, LoopInvHolds
<1>2. Inv /\ [Next]_vars => Inv'
  <2> SUFFICES ASSUME Inv, [Next]_vars PROVE Inv' OBVIOUS
  <2>1. CASE component = "async base"
    <3>1. component' = "async base" /\ LoopInv /\ [Loop!Next]_Loop!vars
      BY <2>1, StepsAreTheComponents
    <3>2. LoopInv' BY <3>1, LoopInvKept
    <3> QED BY <3>1, <3>2
  <2>2. CASE component # "async base" BY <2>2, StepsAreTheComponents
  <2> QED BY <2>1, <2>2
<1>3. Inv => AsyncBaseSound BY LoopInvSuffices DEF AsyncBaseSound
<1> QED BY <1>1, <1>2, <1>3, PTL DEF Spec

(* For any callers and any number of attempts allowed: a request makes no  *)
(* more attempts than it may, ends with the answer of the last, and a      *)
(* client that was replaced or given up is closed or being closed, unless  *)
(* it was made between the read and the clear of a disconnect outside of   *)
(* the event loop (Feed.http_request, HttpClient).                         *)
THEOREM RequestsEnd == Spec => []RequestsEndRight
<1> DEFINE Inv ==
        /\ component = "http feed" => FeedInv
<1>1. Init => Inv BY FirstIsTheComponents, FeedInvHolds
<1>2. Inv /\ [Next]_vars => Inv'
  <2> SUFFICES ASSUME Inv, [Next]_vars PROVE Inv' OBVIOUS
  <2>1. CASE component = "http feed"
    <3>1. component' = "http feed" /\ FeedInv /\ [Feed!Next]_Feed!vars
      BY <2>1, StepsAreTheComponents
    <3>2. FeedInv' BY <3>1, FeedInvKept
    <3> QED BY <3>1, <3>2
  <2>2. CASE component # "http feed" BY <2>2, StepsAreTheComponents
  <2> QED BY <2>1, <2>2
<1>3. Inv => RequestsEndRight BY FeedInvSuffices DEF RequestsEndRight
<1> QED BY <1>1, <1>2, <1>3, PTL DEF Spec

(* For any threads, plugins and types: threads that look for an adapter    *)
(* class while plugins are loaded, in either runtime and beside            *)
(* registrations of the application, are never denied one that is to be    *)
(* had, and all find the same; and a websocket adapter class that was      *)
(* registered is not replaced (get_adapter_class, _resolve_adapter,        *)
(* WebSocketAdapterFactory.create_adapter).                                *)
THEOREM LookupsAndFactoryAgree == Spec => []AdaptersAgree
<1> DEFINE Inv ==
        /\ component = "adapter lookup" => LookupInv
        /\ component = "adapter factory" => FactoryInv
<1>1. Init => Inv BY FirstIsTheComponents, LookupInvHolds, FactoryInvHolds
<1>2. Inv /\ [Next]_vars => Inv'
  <2> SUFFICES ASSUME Inv, [Next]_vars PROVE Inv' OBVIOUS
  <2>1. CASE component = "adapter lookup"
    <3>1. component' = "adapter lookup" /\ LookupInv /\ [Lookup!Next]_Lookup!vars
      BY <2>1, StepsAreTheComponents
    <3>2. LookupInv' BY <3>1, LookupInvKept
    <3> QED BY <3>1, <3>2
  <2>2. CASE component = "adapter factory"
    <3>1. component' = "adapter factory" /\ FactoryInv /\ [Factory!Next]_Factory!vars
      BY <2>2, StepsAreTheComponents
    <3>2. FactoryInv' BY <3>1, FactoryInvKept
    <3> QED BY <3>1, <3>2
  <2>3. CASE component # "adapter lookup" /\ component # "adapter factory"
    BY <2>3, StepsAreTheComponents
  <2> QED BY <2>1, <2>2, <2>3
<1>3. Inv => AdaptersAgree BY LookupInvSuffices, FactoryInvSuffices DEF AdaptersAgree
<1> QED BY <1>1, <1>2, <1>3, PTL DEF Spec

(* For any list of entry points, of which any may be broken or unreadable, *)
(* and an application that registers at any time: a plugin that fails      *)
(* leaves nothing, and what a loaded one registered stays its own, unless  *)
(* the application takes it or a plugin registers more than it declares    *)
(* (PluginLoader.load_all, _load_one).                                     *)
THEOREM PluginsAreSound == Spec => []PluginsSound
<1> DEFINE Inv ==
        /\ component = "plugin loader" => LoaderInv
<1>1. Init => Inv BY FirstIsTheComponents, LoaderInvHolds
<1>2. Inv /\ [Next]_vars => Inv'
  <2> SUFFICES ASSUME Inv, [Next]_vars PROVE Inv' OBVIOUS
  <2>1. CASE component = "plugin loader"
    <3>1. component' = "plugin loader" /\ LoaderInv /\ [Loader!Next]_Loader!vars
      BY <2>1, StepsAreTheComponents
    <3>2. LoaderInv' BY <3>1, LoaderInvKept
    <3> QED BY <3>1, <3>2
  <2>2. CASE component # "plugin loader" BY <2>2, StepsAreTheComponents
  <2> QED BY <2>1, <2>2
<1>3. Inv => PluginsSound BY LoaderInvSuffices DEF PluginsSound
<1> QED BY <1>1, <1>2, <1>3, PTL DEF Spec

(* For any tasks in any processes, with failures of Redis and losses of    *)
(* the key at any time: who wrote a value alone and undisturbed reads it   *)
(* in its process, as it was if JSON can say it, else as it was or as JSON *)
(* gives it back; and for any threads, with init_data failing: who reads   *)
(* parsed data finds it parsed, unless another thread was parsing          *)
(* (CacheService.get, set, AutoInitMixin._ensure_init).                    *)
THEOREM OwnWritesAndDataRead == Spec => []ReadsAreRight
<1> DEFINE Inv ==
        /\ component = "cache service" => ServiceInv
        /\ component = "getters" => GettersInv
<1>1. Init => Inv BY FirstIsTheComponents, ServiceInvHolds, GettersInvHolds
<1>2. Inv /\ [Next]_vars => Inv'
  <2> SUFFICES ASSUME Inv, [Next]_vars PROVE Inv' OBVIOUS
  <2>1. CASE component = "cache service"
    <3>1. component' = "cache service" /\ ServiceInv /\ [Services!Next]_Services!vars
      BY <2>1, StepsAreTheComponents
    <3>2. ServiceInv' BY <3>1, ServiceInvKept
    <3> QED BY <3>1, <3>2
  <2>2. CASE component = "getters"
    <3>1. component' = "getters" /\ GettersInv /\ [Getters!Next]_Getters!vars
      BY <2>2, StepsAreTheComponents
    <3>2. GettersInv' BY <3>1, GettersInvKept
    <3> QED BY <3>1, <3>2
  <2>3. CASE component # "cache service" /\ component # "getters" BY <2>3, StepsAreTheComponents
  <2> QED BY <2>1, <2>2, <2>3
<1>3. Inv => ReadsAreRight BY ServiceInvSuffices, GettersInvSuffices DEF ReadsAreRight
<1> QED BY <1>1, <1>2, <1>3, PTL DEF Spec

(* For any symbols and any topics that are not called like a channel of    *)
(* OKX: what the venue sends comes back under the topic and the symbol     *)
(* subscribed to (format_subscription_message, extract_topic_symbol).      *)
THEOREM MessagesRoutedBack == Spec => []RoutedBack
<1> DEFINE Inv ==
        /\ component = "adapters" => AdaptersInv
<1>1. Init => Inv BY FirstIsTheComponents, AdaptersInvHolds
<1>2. Inv /\ [Next]_vars => Inv'
  <2> SUFFICES ASSUME Inv, [Next]_vars PROVE Inv' OBVIOUS
  <2>1. CASE component = "adapters"
    <3>1. component' = "adapters" /\ AdaptersInv /\ [Adapters!Next]_Adapters!vars
      BY <2>1, StepsAreTheComponents
    <3>2. AdaptersInv' BY <3>1, AdaptersInvKept
    <3> QED BY <3>1, <3>2
  <2>2. CASE component # "adapters" BY <2>2, StepsAreTheComponents
  <2> QED BY <2>1, <2>2
<1>3. Inv => RoutedBack BY AdaptersInvSuffices DEF RoutedBack
<1> QED BY <1>1, <1>2, <1>3, PTL DEF Spec

(* For any finite number of workers and permits, workers that fail, time   *)
(* out or are cancelled at any await: an owner that has cancelled a group  *)
(* waits for cancelled or ended tasks only, and no permit is lost or given *)
(* twice (AsyncTaskGroup.wait_all, cancel_all, AsyncSemaphore).            *)
THEOREM GroupsAreSound == Spec => []GroupsSound
<1> DEFINE Inv ==
        /\ component = "async tools" => ToolsInv
<1>1. Init => Inv BY FirstIsTheComponents, ToolsInvHolds
<1>2. Inv /\ [Next]_vars => Inv'
  <2> SUFFICES ASSUME Inv, [Next]_vars PROVE Inv' OBVIOUS
  <2>1. CASE component = "async tools"
    <3>1. component' = "async tools" /\ ToolsInv /\ [Tools!Next]_Tools!vars
      BY <2>1, StepsAreTheComponents
    <3>2. ToolsInv' BY <3>1, ToolsInvKept
    <3> QED BY <3>1, <3>2
  <2>2. CASE component # "async tools" BY <2>2, StepsAreTheComponents
  <2> QED BY <2>1, <2>2
<1>3. Inv => GroupsSound BY DEF ToolsInv, GroupsSound
<1> QED BY <1>1, <1>2, <1>3, PTL DEF Spec

(* For any finite number of clients, any sizes and any number of restarts: *)
(* a connection is with one client or in the pool, none is lost but those  *)
(* whose health check or close() raised, acquire makes no more than        *)
(* max_size, and no client sleeps beside an idle connection that nobody is *)
(* about to take, unless it slept when the pool was filled without a       *)
(* notification (ConnectionPool.acquire, release, start, stop,             *)
(* _cleanup_idle_connections).                                             *)
THEOREM PoolKeepsConnections == Spec => []ConnectionsAreKept
<1> DEFINE Inv ==
        /\ component = "connection pool" => PoolInv
<1>1. Init => Inv BY FirstIsTheComponents, PoolInvHolds
<1>2. Inv /\ [Next]_vars => Inv'
  <2> SUFFICES ASSUME Inv, [Next]_vars PROVE Inv' OBVIOUS
  <2>1. CASE component = "connection pool"
    <3>1. component' = "connection pool" /\ PoolInv /\ [Connections!Next]_Connections!vars
      BY <2>1, StepsAreTheComponents
    <3>2. PoolInv' BY <3>1, PoolInvKept
    <3> QED BY <3>1, <3>2
  <2>2. CASE component # "connection pool" BY <2>2, StepsAreTheComponents
  <2> QED BY <2>1, <2>2
<1>3. Inv => ConnectionsAreKept BY PoolInvSuffices DEF ConnectionsAreKept
<1> QED BY <1>1, <1>2, <1>3, PTL DEF Spec

(* For any handlers, of which any may raise, and any threads that emit,    *)
(* add, remove and clear at the same time: an emit calls no handler twice  *)
(* and counts its errors right, and _last_errors has every error of the    *)
(* emit that emptied it last, in order (EventBus.emit, on, off, clear).    *)
THEOREM BusReportsErrors == Spec => []EmitsAreReported
<1> DEFINE Inv ==
        /\ component = "event bus" => BusInv
<1>1. Init => Inv BY FirstIsTheComponents, BusInvHolds
<1>2. Inv /\ [Next]_vars => Inv'
  <2> SUFFICES ASSUME Inv, [Next]_vars PROVE Inv' OBVIOUS
  <2>1. CASE component = "event bus"
    <3>1. component' = "event bus" /\ BusInv /\ [Bus!Next]_Bus!vars
      BY <2>1, StepsAreTheComponents
    <3>2. BusInv' BY <3>1, BusInvKept
    <3> QED BY <3>1, <3>2
  <2>2. CASE component # "event bus" BY <2>2, StepsAreTheComponents
  <2> QED BY <2>1, <2>2
<1>3. Inv => EmitsAreReported BY BusInvSuffices DEF EmitsAreReported
<1> QED BY <1>1, <1>2, <1>3, PTL DEF Spec
=============================================================================
