------------------------- MODULE GatewayThreadsProofs --------------------------
(***************************************************************************)
(* The two parts of a gateway that have threads of their own, for any      *)
(* values of the constants.                                                *)
(*                                                                         *)
(* The tick writer: ticks keep their order, none is doubled and a stop     *)
(* drains the buffers, with three threads that flush, also at the same     *)
(* time, and a file system that fails at any step.                         *)
(*                                                                         *)
(* The standalone runtime: acknowledgements are true, a runtime that does  *)
(* not run holds nothing, and, if no pump outlasts its join, events are    *)
(* published in order.                                                     *)
(***************************************************************************)
EXTENDS MCGatewayThreads, SequenceTheorems, TLAPS

Labels == {"idle", "check", "sleep", "join", "next", "read", "truncate", "commit", "requeue"}
Holding == {"read", "truncate", "commit", "requeue"}

Flushing == [sym : Symbols \cup {Nothing.sym}, rows : Seq(Nat), existing : Seq(Nat)]

TypeInv ==
    /\ buffers \in [Symbols -> Seq(Nat)]
    /\ disk \in [Symbols -> [rows : Seq(Nat), valid : BOOLEAN]]
    /\ pc \in [Threads -> Labels]
    /\ todo \in [Threads -> SUBSET Symbols]
    /\ flushing \in [Threads -> Flushing]
    /\ written \in [Symbols -> Nat]
    /\ due \in [Symbols -> Nat]
    /\ raced \subseteq Symbols
    /\ \A t \in Threads : pc[t] \in Holding => flushing[t].sym \in Symbols

-----------------------------------------------------------------------------
Distinct(q) == \A i, j \in 1 .. Len(q) : i # j => q[i] # q[j]
Apart(p, q) == \A i \in 1 .. Len(p), j \in 1 .. Len(q) : p[i] # q[j]
UpTo(q, n) == \A i \in 1 .. Len(q) : q[i] <= n

(* The file, the buffer and the hands of the threads have no tick in       *)
(* common; and what a thread has read from the file is neither in the      *)
(* buffer nor in any hands, so that the thread may write it back.          *)
HandsApart(s, t) ==
    /\ Distinct(flushing[t].rows) /\ UpTo(flushing[t].rows, written[s])
    /\ Apart(disk[s].rows, flushing[t].rows) /\ Apart(buffers[s], flushing[t].rows)
    /\ Distinct(flushing[t].existing) /\ UpTo(flushing[t].existing, written[s])
    /\ Apart(flushing[t].existing, buffers[s])

RowsOnce(s) ==
    /\ Distinct(disk[s].rows) /\ UpTo(disk[s].rows, written[s])
    /\ Distinct(buffers[s]) /\ UpTo(buffers[s], written[s])
    /\ Apart(disk[s].rows, buffers[s])
    /\ \A t \in Busy(s) : HandsApart(s, t)
    /\ \A t, u \in Busy(s) :
         /\ t # u => Apart(flushing[t].rows, flushing[u].rows)
         /\ Apart(flushing[t].existing, flushing[u].rows)

(* Without a race one thread at most flushes a symbol, and what it has     *)
(* read is what the file still holds.                                      *)
InOrder(s) ==
    /\ \A t, u \in Busy(s) : t = u
    /\ disk[s].rows \o HeldRows(s) \o buffers[s] = Numbers(written[s])
    /\ \A t \in Busy(s) : pc[t] \in {"truncate", "commit"} => flushing[t].existing = disk[s].rows

(* From the final flush of stop on, nothing comes back into a buffer, and  *)
(* a buffer that stop has been through holds newer ticks only.             *)
Drained(s) ==
    due[s] # 0 =>
        /\ due[s] <= written[s]
        /\ pc["flusher"] = "idle" /\ \A t \in Threads : pc[t] # "requeue"
        /\ \/ pc["stopper"] = "join"
           \/ pc["stopper"] # "idle" /\ s \in todo["stopper"]
           \/ Len(buffers[s]) + due[s] <= written[s]

IInv ==
    /\ TypeInv
    /\ \A s \in Symbols : RowsOnce(s) /\ Drained(s)
    /\ \A s \in Symbols \ raced : InOrder(s)

-----------------------------------------------------------------------------
(* Sequences of ticks put together.                                        *)
LEMMA JoinedDistinct ==
    ASSUME NEW p \in Seq(Nat), NEW q \in Seq(Nat), Distinct(p), Distinct(q), Apart(p, q)
    PROVE  Distinct(p \o q)
  <1>1. /\ Len(p) \in Nat /\ Len(q) \in Nat /\ Len(p \o q) = Len(p) + Len(q)
        /\ \A i \in 1 .. Len(p) + Len(q) :
             (p \o q)[i] = IF i <= Len(p) THEN p[i] ELSE q[i - Len(p)]
    BY ConcatProperties, LenProperties
  <1> SUFFICES ASSUME NEW i \in 1 .. Len(p) + Len(q), NEW j \in 1 .. Len(p) + Len(q), i # j
               PROVE  (p \o q)[i] # (p \o q)[j]
    BY <1>1 DEF Distinct
  <1>2. CASE i <= Len(p) /\ j <= Len(p)
    BY <1>1, <1>2 DEF Distinct
  <1>3. CASE i <= Len(p) /\ ~(j <= Len(p))
    <2>1. i \in 1 .. Len(p) /\ j - Len(p) \in 1 .. Len(q)
      BY <1>1, <1>3
    <2> QED BY <1>1, <1>3, <2>1 DEF Apart
  <1>4. CASE ~(i <= Len(p)) /\ j <= Len(p)
    <2>1. j \in 1 .. Len(p) /\ i - Len(p) \in 1 .. Len(q)
      BY <1>1, <1>4
    <2> QED BY <1>1, <1>4, <2>1 DEF Apart
  <1>5. CASE ~(i <= Len(p)) /\ ~(j <= Len(p))
    <2>1. i - Len(p) \in 1 .. Len(q) /\ j - Len(p) \in 1 .. Len(q) /\ i - Len(p) # j - Len(p)
      BY <1>1, <1>5
    <2> QED BY <1>1, <1>5, <2>1 DEF Distinct
  <1> QED BY <1>2, <1>3, <1>4, <1>5

LEMMA JoinedUpTo ==
    ASSUME NEW p \in Seq(Nat), NEW q \in Seq(Nat), NEW n, UpTo(p, n), UpTo(q, n)
    PROVE  UpTo(p \o q, n)
  <1>1. /\ Len(p) \in Nat /\ Len(q) \in Nat /\ Len(p \o q) = Len(p) + Len(q)
        /\ \A i \in 1 .. Len(p) + Len(q) :
             (p \o q)[i] = IF i <= Len(p) THEN p[i] ELSE q[i - Len(p)]
    BY ConcatProperties, LenProperties
  <1> QED BY <1>1 DEF UpTo

LEMMA ApartBothWays ==
    ASSUME NEW p, NEW q, Apart(p, q)
    PROVE  Apart(q, p)
  BY DEF Apart

LEMMA JoinedApart ==
    ASSUME NEW p \in Seq(Nat), NEW q \in Seq(Nat), NEW r, Apart(p, r), Apart(q, r)
    PROVE  Apart(p \o q, r) /\ Apart(r, p \o q)
  <1>1. /\ Len(p) \in Nat /\ Len(q) \in Nat /\ Len(p \o q) = Len(p) + Len(q)
        /\ \A i \in 1 .. Len(p) + Len(q) :
             (p \o q)[i] = IF i <= Len(p) THEN p[i] ELSE q[i - Len(p)]
    BY ConcatProperties, LenProperties
  <1>2. Apart(p \o q, r)
    <2> SUFFICES ASSUME NEW i \in 1 .. Len(p) + Len(q), NEW j \in 1 .. Len(r)
                 PROVE  (p \o q)[i] # r[j]
      BY <1>1 DEF Apart
    <2>1. CASE i <= Len(p)
      BY <1>1, <2>1 DEF Apart
    <2>2. CASE ~(i <= Len(p))
      <3>1. i - Len(p) \in 1 .. Len(q)
        BY <1>1, <2>2
      <3> QED BY <1>1, <2>2, <3>1 DEF Apart
    <2> QED BY <2>1, <2>2
  <1> QED BY <1>2, ApartBothWays

LEMMA NothingIsApart ==
    ASSUME NEW p, NEW n
    PROVE  /\ Distinct(<< >>) /\ UpTo(<< >>, n)
           /\ Apart(<< >>, p) /\ Apart(p, << >>)
  BY DEF Distinct, UpTo, Apart

(* The next tick is not among those before it. *)
LEMMA NextTick ==
    ASSUME NEW p \in Seq(Nat), NEW n \in Nat, Distinct(p), UpTo(p, n)
    PROVE  /\ Distinct(Append(p, n + 1)) /\ UpTo(Append(p, n + 1), n + 1)
           /\ \A r \in Seq(Nat) : Apart(r, p) /\ UpTo(r, n) => Apart(r, Append(p, n + 1))
  <1>1. /\ Len(p) \in Nat /\ Len(Append(p, n + 1)) = Len(p) + 1
        /\ \A i \in 1 .. Len(p) : Append(p, n + 1)[i] = p[i]
        /\ Append(p, n + 1)[Len(p) + 1] = n + 1
        /\ \A i \in 1 .. Len(p) : p[i] \in Nat /\ p[i] <= n
    BY AppendProperties, LenProperties, ElementOfSeq DEF UpTo
  <1>2. \A i \in 1 .. Len(p) + 1 : i \in 1 .. Len(p) \/ i = Len(p) + 1
    BY <1>1
  <1>3. Distinct(Append(p, n + 1))
    BY <1>1, <1>2 DEF Distinct
  <1>4. UpTo(Append(p, n + 1), n + 1)
    BY <1>1, <1>2 DEF UpTo
  <1>5. ASSUME NEW r \in Seq(Nat), Apart(r, p), UpTo(r, n)
        PROVE  Apart(r, Append(p, n + 1))
    <2>1. \A i \in 1 .. Len(r) : r[i] \in Nat /\ r[i] <= n
      BY <1>5, ElementOfSeq DEF UpTo
    <2> QED BY <1>1, <1>2, <1>5, <2>1 DEF Apart
  <1> QED BY <1>3, <1>4, <1>5

LEMMA UpToNext ==
    ASSUME NEW p \in Seq(Nat), NEW n \in Nat, UpTo(p, n)
    PROVE  UpTo(p, n + 1)
  <1>1. \A i \in 1 .. Len(p) : p[i] \in Nat
    BY ElementOfSeq
  <1> QED BY <1>1 DEF UpTo

LEMMA NumbersGrow ==
    ASSUME NEW n \in Nat
    PROVE  /\ Numbers(n) \in Seq(Nat) /\ Len(Numbers(n)) = n
           /\ Numbers(n + 1) = Append(Numbers(n), n + 1)
  <1>1. /\ Numbers(n) \in Seq(Nat) /\ Len(Numbers(n)) = n
        /\ Numbers(n + 1) \in Seq(Nat) /\ Len(Numbers(n + 1)) = n + 1
    BY DEF Numbers
  <1>2. \A i \in 1 .. n + 1 : Numbers(n + 1)[i] = Append(Numbers(n), n + 1)[i]
    <2>1. \A i \in 1 .. n : Append(Numbers(n), n + 1)[i] = i
      BY <1>1, AppendProperties DEF Numbers
    <2>2. Append(Numbers(n), n + 1)[n + 1] = n + 1
      BY <1>1, AppendProperties
    <2> QED BY <2>1, <2>2 DEF Numbers
  <1>3. Append(Numbers(n), n + 1) \in Seq(Nat) /\ Len(Append(Numbers(n), n + 1)) = n + 1
    BY <1>1, AppendProperties
  <1>4. Numbers(n + 1) = Append(Numbers(n), n + 1)
    BY <1>1, <1>2, <1>3, SeqEqual
  <1> QED BY <1>1, <1>4

LEMMA Regrouped ==
    ASSUME NEW a \in Seq(Nat), NEW b \in Seq(Nat), NEW c \in Seq(Nat)
    PROVE  (a \o b) \o c = a \o (b \o c)
  <1> DEFINE left == (a \o b) \o c
             right == a \o (b \o c)
  <1>1. /\ left \in Seq(Nat) /\ right \in Seq(Nat)
        /\ Len(a) \in Nat /\ Len(b) \in Nat /\ Len(c) \in Nat
        /\ Len(left) = Len(a) + Len(b) + Len(c) /\ Len(right) = Len(a) + Len(b) + Len(c)
    BY ConcatProperties, LenProperties
  <1>2. \A i \in 1 .. Len(left) : left[i] = right[i]
    BY <1>1, ConcatProperties
  <1>3. left = right
    BY <1>1, <1>2, SeqEqual
  <1> QED BY <1>3

LEMMA AppendBehind ==
    ASSUME NEW p \in Seq(Nat), NEW q \in Seq(Nat), NEW r \in Seq(Nat), NEW e \in Nat
    PROVE  p \o q \o Append(r, e) = Append(p \o q \o r, e)
  <1> DEFINE front == p \o q
             one == <<e>>
  <1>1. front \in Seq(Nat) /\ front \o r \in Seq(Nat) /\ one \in Seq(Nat)
    BY ConcatProperties
  <1>2. Append(r, e) = r \o one /\ Append(front \o r, e) = (front \o r) \o one
    BY <1>1, AppendIsConcat
  <1> HIDE DEF front, one
  <1>3. (front \o r) \o one = front \o (r \o one)
    BY SMTT(60), <1>1, Regrouped
  <1>4. front \o Append(r, e) = Append(front \o r, e)
    BY <1>2, <1>3
  <1> QED BY <1>4 DEF front

-----------------------------------------------------------------------------
(* Which threads flush a symbol, and what they hold.                       *)
LEMMA BusyMeans ==
    ASSUME NEW s
    PROVE  /\ Busy(s) = {t \in Threads : pc[t] \in Holding /\ flushing[t].sym = s}
           /\ Busy(s)' = {t \in Threads : pc'[t] \in Holding /\ flushing'[t].sym = s}
  BY DEF Busy, Holding

LEMMA BusyStays ==
    ASSUME TypeInv, NEW t \in Threads, NEW l \in Labels, pc' = [pc EXCEPT ![t] = l],
           flushing' = flushing, pc[t] \in Holding <=> l \in Holding, NEW s
    PROVE  Busy(s)' = Busy(s)
  <1>1. \A u \in Threads : pc'[u] \in Holding <=> pc[u] \in Holding
    BY DEF TypeInv
  <1> QED BY <1>1, BusyMeans

LEMMA BusyLeaves ==
    ASSUME TypeInv, NEW t \in Threads, NEW l \in Labels, pc' = [pc EXCEPT ![t] = l],
           flushing' = flushing, l \notin Holding, NEW s
    PROVE  Busy(s)' = Busy(s) \ {t}
  <1>1. \A u \in Threads : pc'[u] \in Holding <=> pc[u] \in Holding /\ u # t
    BY DEF TypeInv
  <1> QED BY <1>1, BusyMeans

LEMMA HeldByNone ==
    ASSUME NEW s
    PROVE  /\ Busy(s) = {} => HeldRows(s) = << >>
           /\ Busy(s)' = {} => HeldRows(s)' = << >>
  <1>1. << >> \o << >> \o << >> = << >>
    BY EmptySeq, ConcatEmptySeq
  <1>2. Busy(s) = {} => HeldRows(s) = << >> \o << >> \o << >>
    BY DEF HeldRows, InHand
  <1>3. Busy(s)' = {} => HeldRows(s)' = << >> \o << >> \o << >>
    BY DEF HeldRows, InHand
  <1> QED BY <1>1, <1>2, <1>3

LEMMA OneOfThree ==
    ASSUME NEW q \in Seq(Nat)
    PROVE  /\ q \o << >> \o << >> = q
           /\ << >> \o q \o << >> = q
           /\ << >> \o << >> \o q = q
  BY EmptySeq, ConcatEmptySeq

LEMMA HeldByOne ==
    ASSUME NEW s, NEW t \in Threads
    PROVE  /\ Busy(s) = {t} /\ flushing[t].rows \in Seq(Nat) =>
                 HeldRows(s) = flushing[t].rows
           /\ Busy(s)' = {t} /\ flushing'[t].rows \in Seq(Nat) =>
                 HeldRows(s)' = flushing'[t].rows
  <1>1. ASSUME Busy(s) = {t}, flushing[t].rows \in Seq(Nat)
        PROVE  HeldRows(s) = flushing[t].rows
    <2>1. CASE t = "writer"
      <3>1. HeldRows(s) = flushing[t].rows \o << >> \o << >>
        BY <1>1, <2>1 DEF HeldRows, InHand
      <3> QED BY <1>1, <3>1, OneOfThree
    <2>2. CASE t = "flusher"
      <3>1. HeldRows(s) = << >> \o flushing[t].rows \o << >>
        BY <1>1, <2>2 DEF HeldRows, InHand
      <3> QED BY <1>1, <3>1, OneOfThree
    <2>3. CASE t = "stopper"
      <3>1. HeldRows(s) = << >> \o << >> \o flushing[t].rows
        BY <1>1, <2>3 DEF HeldRows, InHand
      <3> QED BY <1>1, <3>1, OneOfThree
    <2> QED BY <2>1, <2>2, <2>3 DEF Threads
  <1>2. ASSUME Busy(s)' = {t}, flushing'[t].rows \in Seq(Nat)
        PROVE  HeldRows(s)' = flushing'[t].rows
    <2>1. CASE t = "writer"
      <3>1. HeldRows(s)' = flushing'[t].rows \o << >> \o << >>
        BY <1>2, <2>1 DEF HeldRows, InHand
      <3> QED BY <1>2, <3>1, OneOfThree
    <2>2. CASE t = "flusher"
      <3>1. HeldRows(s)' = << >> \o flushing'[t].rows \o << >>
        BY <1>2, <2>2 DEF HeldRows, InHand
      <3> QED BY <1>2, <3>1, OneOfThree
    <2>3. CASE t = "stopper"
      <3>1. HeldRows(s)' = << >> \o << >> \o flushing'[t].rows
        BY <1>2, <2>3 DEF HeldRows, InHand
      <3> QED BY <1>2, <3>1, OneOfThree
    <2> QED BY <2>1, <2>2, <2>3 DEF Threads
  <1> QED BY <1>1, <1>2

LEMMA HeldIsSeq ==
    ASSUME TypeInv, NEW s
    PROVE  HeldRows(s) \in Seq(Nat) /\ \A t \in Threads : InHand(t, s) \in Seq(Nat)
  <1>1. \A t \in Threads : InHand(t, s) \in Seq(Nat)
    BY EmptySeq DEF InHand, TypeInv, Flushing
  <1>2. \A p, q \in Seq(Nat) : p \o q \in Seq(Nat)
    BY ConcatProperties
  <1> QED BY <1>1, <1>2 DEF HeldRows, Threads

(* A step that changes nothing of a symbol but where threads are. *)
LEMMA Untouched ==
    ASSUME TypeInv, NEW s \in Symbols, RowsOnce(s),
           disk'[s].rows = disk[s].rows, buffers'[s] = buffers[s], written'[s] = written[s],
           Busy(s)' = Busy(s), \A t \in Busy(s) : flushing'[t] = flushing[t]
    PROVE  /\ RowsOnce(s)'
           /\ InOrder(s) /\ (\A t \in Busy(s) : pc'[t] \in {"truncate", "commit"} =>
                                pc[t] \in {"truncate", "commit"}) => InOrder(s)'
  <1>1. RowsOnce(s)'
    BY DEF RowsOnce, HandsApart
  <1>2. ASSUME InOrder(s), \A t \in Busy(s) : pc'[t] \in {"truncate", "commit"} =>
                                pc[t] \in {"truncate", "commit"}
        PROVE  InOrder(s)'
    <2>1. \A t : InHand(t, s)' = InHand(t, s)
      BY DEF InHand
    <2>2. HeldRows(s)' = HeldRows(s)
      BY <2>1 DEF HeldRows
    <2> QED BY <1>2, <2>2 DEF InOrder, Numbers
  <1> QED BY <1>1, <1>2

(* A thread goes to another step of its own, and nothing else happens.     *)
LEMMA OnlyMoves ==
    ASSUME IInv, NEW t \in Threads, NEW l \in Labels, pc' = [pc EXCEPT ![t] = l],
           pc[t] \in Holding <=> l \in Holding,
           l \in {"truncate", "commit"} => pc[t] \in {"truncate", "commit"},
           \A s \in Symbols : disk'[s].rows = disk[s].rows,
           UNCHANGED <<buffers, flushing, written, raced>>
    PROVE  /\ \A s \in Symbols : RowsOnce(s)'
           /\ \A s \in Symbols \ raced' : InOrder(s)'
           /\ pc' \in [Threads -> Labels]
           /\ \A u \in Threads : pc'[u] \in Holding => flushing'[u].sym \in Symbols
  <1>1. \A s : Busy(s)' = Busy(s)
    BY BusyStays DEF IInv
  <1>2. /\ pc' \in [Threads -> Labels]
        /\ \A u \in Threads : pc'[u] = IF u = t THEN l ELSE pc[u]
    BY DEF IInv, TypeInv
  <1>3. \A u \in Threads : pc'[u] \in {"truncate", "commit"} => pc[u] \in {"truncate", "commit"}
    BY <1>2
  <1>4. ASSUME NEW s \in Symbols
        PROVE  RowsOnce(s)' /\ (s \notin raced => InOrder(s)')
    <2>1. Busy(s) \subseteq Threads
      BY DEF Busy
    <2>2. TypeInv /\ RowsOnce(s) /\ (s \notin raced => InOrder(s))
      BY DEF IInv
    <2> QED BY <1>1, <1>3, <2>1, <2>2, Untouched
  <1>5. \A u \in Threads : pc'[u] \in Holding => flushing'[u].sym \in Symbols
    BY <1>2 DEF IInv, TypeInv
  <1> QED BY <1>2, <1>4, <1>5

-----------------------------------------------------------------------------
LEMMA StartKeeps == ASSUME IInv, start PROVE IInv'
  <1>1. /\ "flusher" \in Threads /\ "check" \in Labels /\ pc' = [pc EXCEPT !["flusher"] = "check"]
        /\ pc["flusher"] \notin Holding /\ "check" \notin Holding
        /\ UNCHANGED <<disk, buffers, flushing, written, raced, todo>> /\ due' = NotDue
    BY DEF start, Goto, Threads, Labels, Holding
  <1>2. /\ \A s \in Symbols : RowsOnce(s)'
        /\ \A s \in Symbols \ raced' : InOrder(s)'
        /\ pc' \in [Threads -> Labels]
        /\ \A u \in Threads : pc'[u] \in Holding => flushing'[u].sym \in Symbols
    BY <1>1, OnlyMoves
  <1>3. due' \in [Symbols -> Nat] /\ \A s \in Symbols : due'[s] = 0
    BY <1>1 DEF NotDue
  <1>4. TypeInv'
    BY <1>1, <1>2, <1>3 DEF IInv, TypeInv
  <1>5. \A s \in Symbols : Drained(s)'
    BY <1>3 DEF Drained
  <1> QED BY <1>2, <1>4, <1>5 DEF IInv

LEMMA FlushLoopKeeps == ASSUME IInv, _flush_loop PROVE IInv'
  <1>1. PICK l \in {"sleep", "idle", "check"} : pc' = [pc EXCEPT !["flusher"] = l]
    BY DEF _flush_loop, Goto
  <1>2. /\ "flusher" \in Threads /\ l \in Labels
        /\ pc["flusher"] \in {"check", "sleep"} /\ pc["flusher"] \notin Holding /\ l \notin Holding
        /\ UNCHANGED <<disk, buffers, flushing, written, raced, todo, due>>
    BY <1>1 DEF _flush_loop, Threads, Labels, Holding
  <1>3. /\ \A s \in Symbols : RowsOnce(s)'
        /\ \A s \in Symbols \ raced' : InOrder(s)'
        /\ pc' \in [Threads -> Labels]
        /\ \A u \in Threads : pc'[u] \in Holding => flushing'[u].sym \in Symbols
    BY <1>1, <1>2, OnlyMoves DEF Holding
  <1>4. TypeInv'
    BY <1>2, <1>3 DEF IInv, TypeInv
  <1>5. \A s \in Symbols : Drained(s)'
    BY <1>2 DEF IInv, Drained
  <1> QED BY <1>3, <1>4, <1>5 DEF IInv

LEMMA IntervalKeeps == ASSUME IInv, interval_passed PROVE IInv'
  <1>1. /\ "flusher" \in Threads /\ "next" \in Labels /\ pc' = [pc EXCEPT !["flusher"] = "next"]
        /\ pc["flusher"] = "sleep" /\ pc["flusher"] \notin Holding /\ "next" \notin Holding
        /\ UNCHANGED <<disk, buffers, flushing, written, raced, due>>
        /\ todo' = [todo EXCEPT !["flusher"] = Keys]
    BY DEF interval_passed, Goto, Threads, Labels, Holding
  <1>2. /\ \A s \in Symbols : RowsOnce(s)'
        /\ \A s \in Symbols \ raced' : InOrder(s)'
        /\ pc' \in [Threads -> Labels]
        /\ \A u \in Threads : pc'[u] \in Holding => flushing'[u].sym \in Symbols
    BY <1>1, OnlyMoves DEF Holding
  <1>3. todo' \in [Threads -> SUBSET Symbols]
    BY <1>1 DEF IInv, TypeInv, Keys
  <1>4. TypeInv'
    BY <1>1, <1>2, <1>3 DEF IInv, TypeInv
  <1>5. \A s \in Symbols : Drained(s)'
    BY <1>1 DEF IInv, Drained
  <1> QED BY <1>2, <1>4, <1>5 DEF IInv

LEMMA StopKeeps == ASSUME IInv, stop PROVE IInv'
  <1>1. CASE pc["stopper"] = "idle" /\ pc' = [pc EXCEPT !["stopper"] = "join"] /\ UNCHANGED <<todo, due>>
    <2>1. /\ "stopper" \in Threads /\ "join" \in Labels
          /\ pc["stopper"] \notin Holding /\ "join" \notin Holding
          /\ UNCHANGED <<disk, buffers, flushing, written, raced>>
      BY <1>1 DEF stop, Threads, Labels, Holding
    <2>2. /\ \A s \in Symbols : RowsOnce(s)'
          /\ \A s \in Symbols \ raced' : InOrder(s)'
          /\ pc' \in [Threads -> Labels]
          /\ \A u \in Threads : pc'[u] \in Holding => flushing'[u].sym \in Symbols
      BY <1>1, <2>1, OnlyMoves DEF Holding
    <2>3. TypeInv'
      BY <1>1, <2>1, <2>2 DEF IInv, TypeInv
    <2>4. \A u \in Threads : pc'[u] = IF u = "stopper" THEN "join" ELSE pc[u]
      BY <1>1 DEF IInv, TypeInv
    <2>5. \A s \in Symbols : Drained(s)'
      BY <1>1, <2>1, <2>4 DEF IInv, Drained, Threads
    <2> QED BY <2>2, <2>3, <2>5 DEF IInv
  <1>2. CASE /\ pc["stopper"] = "join" /\ pc' = [pc EXCEPT !["stopper"] = "next"]
             /\ todo' = [todo EXCEPT !["stopper"] = Keys]
             /\ due' = IF pc["flusher"] = "idle" /\ NonePending THEN written ELSE NotDue
    <2>1. /\ "stopper" \in Threads /\ "next" \in Labels
          /\ pc["stopper"] \notin Holding /\ "next" \notin Holding
          /\ UNCHANGED <<disk, buffers, flushing, written, raced>>
      BY <1>2 DEF stop, Threads, Labels, Holding
    <2>2. /\ \A s \in Symbols : RowsOnce(s)'
          /\ \A s \in Symbols \ raced' : InOrder(s)'
          /\ pc' \in [Threads -> Labels]
          /\ \A u \in Threads : pc'[u] \in Holding => flushing'[u].sym \in Symbols
      BY <1>2, <2>1, OnlyMoves DEF Holding
    <2>3. /\ todo' \in [Threads -> SUBSET Symbols] /\ todo'["stopper"] = Keys
      BY <1>2, <2>1 DEF IInv, TypeInv, Keys
    <2>4. due' \in [Symbols -> Nat]
      BY <1>2 DEF IInv, TypeInv, NotDue
    <2>5. TypeInv'
      BY <2>1, <2>2, <2>3, <2>4 DEF IInv, TypeInv
    <2>6. \A u \in Threads : pc'[u] = IF u = "stopper" THEN "next" ELSE pc[u]
      BY <1>2 DEF IInv, TypeInv
    <2>7. ASSUME NEW s \in Symbols PROVE Drained(s)'
      <3> SUFFICES ASSUME due'[s] # 0
                   PROVE  /\ due'[s] <= written'[s]
                          /\ pc'["flusher"] = "idle" /\ \A t \in Threads : pc'[t] # "requeue"
                          /\ \/ pc'["stopper"] # "idle" /\ s \in todo'["stopper"]
                             \/ Len(buffers'[s]) + due'[s] <= written'[s]
        BY DEF Drained
      <3>1. pc["flusher"] = "idle" /\ NonePending /\ due'[s] = written[s] /\ written[s] \in Nat
        BY <1>2 DEF NotDue, IInv, TypeInv
      <3>2. s \notin Keys => Len(buffers[s]) = 0
        BY EmptySeq DEF Keys
      <3> QED BY <2>1, <2>3, <2>6, <3>1, <3>2 DEF NonePending, Threads
    <2> QED BY <2>2, <2>5, <2>7 DEF IInv
  <1> QED BY <1>1, <1>2 DEF stop, Goto, FinalFlush

LEMMA FlushDoneKeeps == ASSUME IInv, NEW t \in Threads, flush_done(t) PROVE IInv'
  <1>1. /\ pc[t] = "next" /\ todo[t] = {} /\ pc' = [pc EXCEPT ![t] = AfterFlush(t)]
        /\ AfterFlush(t) \in {"check", "idle"} /\ AfterFlush(t) \in Labels
        /\ pc[t] \notin Holding /\ AfterFlush(t) \notin Holding
        /\ UNCHANGED <<disk, buffers, flushing, written, raced, todo, due>>
    BY DEF flush_done, Goto, Labels, Holding, AfterFlush
  <1>2. /\ \A s \in Symbols : RowsOnce(s)'
        /\ \A s \in Symbols \ raced' : InOrder(s)'
        /\ pc' \in [Threads -> Labels]
        /\ \A u \in Threads : pc'[u] \in Holding => flushing'[u].sym \in Symbols
    BY <1>1, OnlyMoves DEF Holding
  <1>3. TypeInv'
    BY <1>1, <1>2 DEF IInv, TypeInv
  <1>4. \A u \in Threads : pc'[u] = IF u = t THEN AfterFlush(t) ELSE pc[u]
    BY <1>1 DEF IInv, TypeInv
  <1>5. \A s \in Symbols : Drained(s)'
    BY <1>1, <1>4 DEF IInv, Drained, Threads
  <1> QED BY <1>2, <1>3, <1>5 DEF IInv

LEMMA TruncateKeeps == ASSUME IInv, NEW t \in Threads, truncate(t) PROVE IInv'
  <1>1. /\ pc[t] = "truncate" /\ pc' = [pc EXCEPT ![t] = "commit"]
        /\ pc[t] \in Holding /\ "commit" \in Holding /\ "commit" \in Labels
        /\ disk' = [disk EXCEPT ![flushing[t].sym].valid = FALSE]
        /\ UNCHANGED <<buffers, flushing, written, raced, todo, due>>
    BY DEF truncate, Goto, Labels, Holding
  <1>2. /\ disk' \in [Symbols -> [rows : Seq(Nat), valid : BOOLEAN]]
        /\ \A s \in Symbols : disk'[s].rows = disk[s].rows
    BY <1>1 DEF IInv, TypeInv
  <1>3. /\ \A s \in Symbols : RowsOnce(s)'
        /\ \A s \in Symbols \ raced' : InOrder(s)'
        /\ pc' \in [Threads -> Labels]
        /\ \A u \in Threads : pc'[u] \in Holding => flushing'[u].sym \in Symbols
    BY <1>1, <1>2, OnlyMoves
  <1>4. TypeInv'
    BY <1>1, <1>2, <1>3 DEF IInv, TypeInv
  <1>5. \A u \in Threads : pc'[u] = IF u = t THEN "commit" ELSE pc[u]
    BY <1>1 DEF IInv, TypeInv
  <1>6. \A s \in Symbols : Drained(s)'
    BY <1>1, <1>5 DEF IInv, Drained, Threads
  <1> QED BY <1>3, <1>4, <1>6 DEF IInv

LEMMA FlushRaisesKeeps == ASSUME IInv, NEW t \in Threads, flush_raises(t) PROVE IInv'
  <1>1. /\ pc[t] \in {"read", "truncate", "commit"} /\ pc' = [pc EXCEPT ![t] = "requeue"]
        /\ pc[t] \in Holding /\ "requeue" \in Holding /\ "requeue" \in Labels
        /\ UNCHANGED <<disk, buffers, flushing, written, raced, todo>> /\ due' = NotDue
    BY DEF flush_raises, Goto, Labels, Holding
  <1>2. /\ \A s \in Symbols : RowsOnce(s)'
        /\ \A s \in Symbols \ raced' : InOrder(s)'
        /\ pc' \in [Threads -> Labels]
        /\ \A u \in Threads : pc'[u] \in Holding => flushing'[u].sym \in Symbols
    BY <1>1, OnlyMoves
  <1>3. due' \in [Symbols -> Nat] /\ \A s \in Symbols : due'[s] = 0
    BY <1>1 DEF NotDue
  <1>4. TypeInv'
    BY <1>1, <1>2, <1>3 DEF IInv, TypeInv
  <1>5. \A s \in Symbols : Drained(s)'
    BY <1>3 DEF Drained
  <1> QED BY <1>2, <1>4, <1>5 DEF IInv

-----------------------------------------------------------------------------
LEMMA ReadKeeps == ASSUME IInv, NEW t \in Threads, read_existing(t) PROVE IInv'
  <1>0. PICK s0 \in Symbols : s0 = flushing[t].sym
    BY DEF read_existing, IInv, TypeInv, Holding
  <1>1. /\ pc[t] = "read" /\ pc' = [pc EXCEPT ![t] = "truncate"]
        /\ flushing' = [flushing EXCEPT ![t].existing = disk[s0].rows]
        /\ UNCHANGED <<disk, buffers, written, raced, todo, due>>
    BY <1>0 DEF read_existing, Goto
  <1>2. /\ s0 \in Symbols /\ disk[s0].rows \in Seq(Nat) /\ t \in Busy(s0)
    BY <1>0, <1>1, BusyMeans DEF IInv, TypeInv, Holding
  <1>3. /\ flushing' \in [Threads -> Flushing]
        /\ \A u \in Threads : u # t => flushing'[u] = flushing[u]
        /\ flushing'[t].sym = s0 /\ flushing'[t].rows = flushing[t].rows
        /\ flushing'[t].existing = disk[s0].rows
    BY <1>0, <1>1, <1>2 DEF IInv, TypeInv, Flushing
  <1>4. /\ pc' \in [Threads -> Labels]
        /\ \A u \in Threads : pc'[u] = IF u = t THEN "truncate" ELSE pc[u]
    BY <1>1 DEF IInv, TypeInv, Labels
  <1>5. \A u \in Threads : pc'[u] \in Holding <=> pc[u] \in Holding
    BY <1>1, <1>4 DEF Holding
  <1>6. \A u \in Threads : flushing'[u].sym = flushing[u].sym /\ flushing'[u].rows = flushing[u].rows
    BY <1>0, <1>3
  <1>7. ASSUME NEW s
        PROVE  Busy(s)' = Busy(s) /\ Busy(s) \subseteq Threads
    <2>1. \A u \in Threads : (pc'[u] \in Holding /\ flushing'[u].sym = s)
                                <=> (pc[u] \in Holding /\ flushing[u].sym = s)
      BY <1>5, <1>6
    <2> QED BY <2>1, BusyMeans
  <1>8. TypeInv'
    BY <1>1, <1>3, <1>4, <1>5, <1>6 DEF IInv, TypeInv
  <1>9. ASSUME NEW s \in Symbols, s # s0
        PROVE  RowsOnce(s)' /\ (s \notin raced => InOrder(s)')
    <2>1. t \notin Busy(s)
      BY <1>0, <1>9, BusyMeans
    <2>2. \A u \in Busy(s) : flushing'[u] = flushing[u] /\ pc'[u] = pc[u]
      BY <1>3, <1>4, <1>7, <2>1
    <2>3. TypeInv /\ RowsOnce(s) /\ (s \notin raced => InOrder(s))
      BY DEF IInv
    <2> QED BY <1>1, <1>7, <2>2, <2>3, Untouched
  <1>10. RowsOnce(s0)'
    <2>1. RowsOnce(s0)
      BY <1>2 DEF IInv
    <2>2. ASSUME NEW u \in Busy(s0)
          PROVE  HandsApart(s0, u)'
      BY <1>1, <1>3, <1>6, <1>7, <2>1 DEF RowsOnce, HandsApart
    <2>3. ASSUME NEW u \in Busy(s0), NEW v \in Busy(s0)
          PROVE  /\ u # v => Apart(flushing'[u].rows, flushing'[v].rows)
                 /\ Apart(flushing'[u].existing, flushing'[v].rows)
      BY <1>3, <1>6, <1>7, <2>1 DEF RowsOnce, HandsApart
    <2> QED BY <1>1, <1>7, <2>1, <2>2, <2>3 DEF RowsOnce
  <1>11. s0 \notin raced => InOrder(s0)'
    <2>1. HeldRows(s0)' = HeldRows(s0)
      <3>1. \A u \in Threads : InHand(u, s0)' = InHand(u, s0)
        BY <1>6, <1>7 DEF InHand
      <3> QED BY <3>1 DEF HeldRows, Threads
    <2> SUFFICES ASSUME s0 \notin raced PROVE InOrder(s0)'
      OBVIOUS
    <2>2. InOrder(s0)
      BY <1>2 DEF IInv
    <2>3. Busy(s0)' = Busy(s0) /\ \A u \in Busy(s0) : u = t
      BY <1>2, <1>7, <2>2 DEF InOrder
    <2>4. \A u \in Busy(s0)' : flushing'[u].existing = disk'[s0].rows
      BY <1>1, <1>3, <2>3
    <2>5. \A u, v \in Busy(s0)' : u = v
      BY <2>3
    <2>6. disk'[s0].rows \o HeldRows(s0)' \o buffers'[s0] = Numbers(written'[s0])
      BY <1>1, <2>1, <2>2 DEF InOrder, Numbers
    <2> QED BY <2>4, <2>5, <2>6 DEF InOrder, Numbers
  <1>12. \A s \in Symbols : Drained(s)'
    BY <1>1, <1>4 DEF IInv, Drained, Threads
  <1> QED BY <1>1, <1>8, <1>9, <1>10, <1>11, <1>12 DEF IInv

(* The thread has let go of the rows of a symbol. *)
LEMMA CommitKeeps == ASSUME IInv, NEW t \in Threads, commit(t) PROVE IInv'
  <1>a. PICK s0 \in Symbols : s0 = flushing[t].sym
    BY DEF commit, IInv, TypeInv, Holding
  <1>b. PICK rows \in Seq(Nat) : rows = flushing[t].rows
    BY DEF IInv, TypeInv, Flushing
  <1>c. PICK existing \in Seq(Nat) : existing = flushing[t].existing
    BY DEF IInv, TypeInv, Flushing
  <1>1. /\ pc[t] = "commit" /\ pc' = [pc EXCEPT ![t] = "next"]
        /\ disk' = [disk EXCEPT ![s0] = [rows |-> existing \o rows, valid |-> TRUE]]
        /\ UNCHANGED <<buffers, flushing, written, raced, todo, due>>
    BY <1>a, <1>b, <1>c DEF commit, Goto, TableToWrite
  <1>2. /\ s0 \in Symbols /\ rows \in Seq(Nat) /\ existing \in Seq(Nat) /\ t \in Busy(s0)
    BY <1>a, <1>1, BusyMeans DEF IInv, TypeInv, Holding, Flushing
  <1>3. existing \o rows \in Seq(Nat)
    BY <1>2, ConcatProperties
  <1>4. /\ disk' \in [Symbols -> [rows : Seq(Nat), valid : BOOLEAN]]
        /\ disk'[s0].rows = existing \o rows
        /\ \A s \in Symbols : s # s0 => disk'[s] = disk[s]
    BY <1>1, <1>2, <1>3 DEF IInv, TypeInv
  <1>5. /\ pc' \in [Threads -> Labels]
        /\ \A u \in Threads : pc'[u] = IF u = t THEN "next" ELSE pc[u]
    BY <1>1 DEF IInv, TypeInv, Labels
  <1>6. ASSUME NEW s
        PROVE  Busy(s)' = Busy(s) \ {t} /\ Busy(s) \subseteq Threads
    <2>1. TypeInv /\ "next" \in Labels /\ "next" \notin Holding /\ flushing' = flushing
      BY <1>1 DEF IInv, Labels, Holding
    <2>2. Busy(s)' = Busy(s) \ {t}
      BY <1>1, <2>1, BusyLeaves
    <2> QED BY <2>2 DEF Busy
  <1>7. TypeInv'
    BY <1>1, <1>4, <1>5 DEF IInv, TypeInv, Holding
  <1>8. ASSUME NEW s \in Symbols, s # s0
        PROVE  RowsOnce(s)' /\ (s \notin raced => InOrder(s)')
    <2>1. t \notin Busy(s)
      BY <1>a, <1>8, BusyMeans
    <2>0. Busy(s)' = Busy(s) \ {t} /\ Busy(s) \subseteq Threads
      BY <1>6
    <2>2. /\ Busy(s)' = Busy(s) /\ \A u \in Busy(s) : flushing'[u] = flushing[u] /\ pc'[u] = pc[u]
      BY <1>1, <1>5, <2>0, <2>1
    <2>3. TypeInv /\ RowsOnce(s) /\ (s \notin raced => InOrder(s))
      BY DEF IInv
    <2> QED BY <1>1, <1>4, <1>8, <2>2, <2>3, Untouched
  <1>9. RowsOnce(s0)'
    <2>1. RowsOnce(s0)
      BY <1>2 DEF IInv
    <2>2. /\ Distinct(existing) /\ Distinct(rows) /\ Apart(existing, rows)
          /\ UpTo(existing, written[s0]) /\ UpTo(rows, written[s0])
          /\ Apart(existing, buffers[s0]) /\ Apart(rows, buffers[s0])
      BY <1>b, <1>c, <1>2, <2>1, ApartBothWays DEF RowsOnce, HandsApart
    <2>3. \A u \in Busy(s0)' : Apart(existing, flushing[u].rows) /\ Apart(rows, flushing[u].rows)
      BY <1>b, <1>c, <1>2, <1>6, <2>1 DEF RowsOnce
    <2>4. /\ Distinct(existing \o rows) /\ UpTo(existing \o rows, written[s0])
          /\ Apart(existing \o rows, buffers[s0])
          /\ \A u \in Busy(s0)' : Apart(existing \o rows, flushing[u].rows)
      BY <1>2, <2>2, <2>3, JoinedDistinct, JoinedUpTo, JoinedApart
    <2> DEFINE table == existing \o rows
    <2>5. disk'[s0].rows = table
      BY <1>4
    <2>6. /\ Distinct(table) /\ UpTo(table, written[s0]) /\ Apart(table, buffers[s0])
          /\ \A u \in Busy(s0)' : Apart(table, flushing[u].rows)
      BY <2>4
    <2> HIDE DEF table
    <2>7. \A u \in Busy(s0)' : HandsApart(s0, u)'
      BY <1>1, <1>6, <2>1, <2>5, <2>6 DEF RowsOnce, HandsApart
    <2> QED BY <1>1, <1>6, <2>1, <2>5, <2>6, <2>7 DEF RowsOnce
  <1>10. ASSUME s0 \notin raced
         PROVE  InOrder(s0)'
    <2>1. InOrder(s0)
      BY <1>2, <1>10 DEF IInv
    <2>2. Busy(s0) = {t} /\ Busy(s0)' = {} /\ existing = disk[s0].rows
      BY <1>c, <1>1, <1>2, <1>6, <2>1 DEF InOrder
    <2>3. HeldRows(s0) = rows /\ HeldRows(s0)' = << >>
      BY <1>b, <1>2, <2>2, HeldByOne, HeldByNone
    <2>4. (existing \o rows) \o << >> = existing \o rows
      BY <1>3, ConcatEmptySeq
    <2>5. disk'[s0].rows \o HeldRows(s0)' \o buffers'[s0] = Numbers(written'[s0])
      BY <1>1, <1>4, <2>1, <2>2, <2>3, <2>4 DEF InOrder, Numbers
    <2> QED BY <2>2, <2>5 DEF InOrder, Numbers
  <1>11. \A s \in Symbols : Drained(s)'
    BY <1>1, <1>5 DEF IInv, Drained, Threads
  <1> QED BY <1>1, <1>7, <1>8, <1>9, <1>10, <1>11 DEF IInv

LEMMA RequeueKeeps == ASSUME IInv, NEW t \in Threads, requeue(t) PROVE IInv'
  <1>a. PICK s0 \in Symbols : s0 = flushing[t].sym
    BY DEF requeue, IInv, TypeInv, Holding
  <1>b. PICK rows \in Seq(Nat) : rows = flushing[t].rows
    BY DEF IInv, TypeInv, Flushing
  <1>1. /\ pc[t] = "requeue" /\ pc' = [pc EXCEPT ![t] = "next"]
        /\ buffers' = [buffers EXCEPT ![s0] = rows \o buffers[s0]]
        /\ UNCHANGED <<disk, flushing, written, raced, todo, due>>
    BY <1>a, <1>b DEF requeue, Goto, PutBack
  <1>2. /\ s0 \in Symbols /\ rows \in Seq(Nat) /\ buffers[s0] \in Seq(Nat) /\ t \in Busy(s0)
    BY <1>a, <1>1, BusyMeans DEF IInv, TypeInv, Holding, Flushing
  <1>3. rows \o buffers[s0] \in Seq(Nat)
    BY <1>2, ConcatProperties
  <1>4. /\ buffers' \in [Symbols -> Seq(Nat)]
        /\ buffers'[s0] = rows \o buffers[s0]
        /\ \A s \in Symbols : s # s0 => buffers'[s] = buffers[s]
    BY <1>1, <1>2, <1>3 DEF IInv, TypeInv
  <1>5. /\ pc' \in [Threads -> Labels]
        /\ \A u \in Threads : pc'[u] = IF u = t THEN "next" ELSE pc[u]
    BY <1>1 DEF IInv, TypeInv, Labels
  <1>6. ASSUME NEW s
        PROVE  Busy(s)' = Busy(s) \ {t} /\ Busy(s) \subseteq Threads
    <2>1. TypeInv /\ "next" \in Labels /\ "next" \notin Holding /\ flushing' = flushing
      BY <1>1 DEF IInv, Labels, Holding
    <2>2. Busy(s)' = Busy(s) \ {t}
      BY <1>1, <2>1, BusyLeaves
    <2> QED BY <2>2 DEF Busy
  <1>7. TypeInv'
    BY <1>1, <1>4, <1>5 DEF IInv, TypeInv, Holding
  <1>8. ASSUME NEW s \in Symbols, s # s0
        PROVE  RowsOnce(s)' /\ (s \notin raced => InOrder(s)')
    <2>1. t \notin Busy(s)
      BY <1>a, <1>8, BusyMeans
    <2>0. Busy(s)' = Busy(s) \ {t} /\ Busy(s) \subseteq Threads
      BY <1>6
    <2>2. /\ Busy(s)' = Busy(s) /\ \A u \in Busy(s) : flushing'[u] = flushing[u] /\ pc'[u] = pc[u]
      BY <1>1, <1>5, <2>0, <2>1
    <2>3. TypeInv /\ RowsOnce(s) /\ (s \notin raced => InOrder(s))
      BY DEF IInv
    <2> QED BY <1>1, <1>4, <1>8, <2>2, <2>3, Untouched
  <1>9. RowsOnce(s0)'
    <2>1. RowsOnce(s0)
      BY <1>2 DEF IInv
    <2> DEFINE buffer == buffers[s0]
    <2>2. /\ Distinct(rows) /\ Distinct(buffer) /\ Apart(rows, buffer)
          /\ UpTo(rows, written[s0]) /\ UpTo(buffer, written[s0])
          /\ Apart(rows, disk[s0].rows) /\ Apart(buffer, disk[s0].rows)
      BY <1>b, <1>2, <2>1, ApartBothWays DEF RowsOnce, HandsApart
    <2>3. \A u \in Busy(s0)' : /\ Apart(rows, flushing[u].rows) /\ Apart(buffer, flushing[u].rows)
                                /\ Apart(rows, flushing[u].existing) /\ Apart(buffer, flushing[u].existing)
      BY <1>b, <1>2, <1>6, <2>1, ApartBothWays DEF RowsOnce, HandsApart
    <2>4. buffer \in Seq(Nat) /\ rows \in Seq(Nat) /\ buffers'[s0] = rows \o buffer
      BY <1>2, <1>4
    <2> HIDE DEF buffer
    <2> DEFINE back == rows \o buffer
    <2>5. /\ Distinct(back) /\ UpTo(back, written[s0])
          /\ Apart(disk[s0].rows, back)
          /\ \A u \in Busy(s0)' : Apart(back, flushing[u].rows) /\ Apart(flushing[u].existing, back)
      BY <2>2, <2>3, <2>4, JoinedDistinct, JoinedUpTo, JoinedApart
    <2>6. buffers'[s0] = back
      BY <2>4
    <2> HIDE DEF back
    <2>7. \A u \in Busy(s0)' : HandsApart(s0, u)'
      BY <1>1, <1>6, <2>1, <2>5, <2>6 DEF RowsOnce, HandsApart
    <2> QED BY <1>1, <1>6, <2>1, <2>5, <2>6, <2>7 DEF RowsOnce
  <1>10. ASSUME s0 \notin raced
         PROVE  InOrder(s0)'
    <2>1. InOrder(s0)
      BY <1>2, <1>10 DEF IInv
    <2>2. Busy(s0) = {t} /\ Busy(s0)' = {}
      BY <1>2, <1>6, <2>1 DEF InOrder
    <2>3. HeldRows(s0) = rows /\ HeldRows(s0)' = << >>
      BY <1>b, <1>2, <2>2, HeldByOne, HeldByNone
    <2> DEFINE file == disk[s0].rows
               buffer == buffers[s0]
    <2>4. file \in Seq(Nat) /\ buffer \in Seq(Nat) /\ rows \in Seq(Nat)
      BY <1>2 DEF IInv, TypeInv
    <2>5. /\ disk'[s0].rows = file /\ buffers'[s0] = rows \o buffer /\ written' = written
          /\ file \o rows \o buffer = Numbers(written[s0])
      BY <1>1, <1>4, <2>1, <2>3 DEF InOrder
    <2> HIDE DEF file, buffer
    <2>6. file \o << >> = file
      BY <2>4, ConcatEmptySeq
    <2>7. (file \o rows) \o buffer = file \o (rows \o buffer)
      BY SMTT(60), <2>4, Regrouped
    <2>8. disk'[s0].rows \o HeldRows(s0)' \o buffers'[s0] = Numbers(written'[s0])
      BY <2>3, <2>5, <2>6, <2>7
    <2> QED BY <2>2, <2>8 DEF InOrder, Numbers
  <1>11. \A s \in Symbols : Drained(s)'
    BY <1>1 DEF IInv, Drained, Threads
  <1> QED BY <1>1, <1>7, <1>8, <1>9, <1>10, <1>11 DEF IInv

-----------------------------------------------------------------------------
LEMMA WriteKeeps == ASSUME IInv, NEW s0 \in Symbols, write(s0) PROVE IInv'
  <1>a. PICK n \in Nat : n = written[s0]
    BY DEF IInv, TypeInv
  <1>b. PICK buffer \in Seq(Nat) : buffer = buffers[s0]
    BY DEF IInv, TypeInv
  <1>1. /\ pc["writer"] = "idle" /\ pc' = [pc EXCEPT !["writer"] = "next"]
        /\ written' = [written EXCEPT ![s0] = n + 1]
        /\ buffers' = [buffers EXCEPT ![s0] = Append(buffer, n + 1)]
        /\ \/ todo' = [todo EXCEPT !["writer"] = {s0}]
           \/ todo' = [todo EXCEPT !["writer"] = {}]
        /\ UNCHANGED <<disk, flushing, raced, due>>
    BY <1>a, <1>b DEF write, Goto
  <1>2. "writer" \in Threads /\ "next" \in Labels /\ "next" \notin Holding /\ "idle" \notin Holding
    BY DEF Threads, Labels, Holding
  <1>3. Append(buffer, n + 1) \in Seq(Nat) /\ Len(Append(buffer, n + 1)) = Len(buffer) + 1
    BY AppendProperties
  <1>4. /\ buffers' \in [Symbols -> Seq(Nat)] /\ buffers'[s0] = Append(buffer, n + 1)
        /\ \A s \in Symbols : s # s0 => buffers'[s] = buffers[s]
    BY <1>1, <1>3 DEF IInv, TypeInv
  <1>5. /\ written' \in [Symbols -> Nat] /\ written'[s0] = n + 1
        /\ \A s \in Symbols : s # s0 => written'[s] = written[s]
    BY <1>1 DEF IInv, TypeInv
  <1>6. /\ pc' \in [Threads -> Labels]
        /\ \A u \in Threads : pc'[u] = IF u = "writer" THEN "next" ELSE pc[u]
    BY <1>1, <1>2 DEF IInv, TypeInv
  <1>7. /\ todo' \in [Threads -> SUBSET Symbols] /\ todo'["stopper"] = todo["stopper"]
    BY <1>1 DEF IInv, TypeInv, Threads
  <1>8. TypeInv'
    BY <1>1, <1>2, <1>4, <1>5, <1>6, <1>7 DEF IInv, TypeInv
  <1>9. ASSUME NEW s
        PROVE  Busy(s)' = Busy(s) /\ Busy(s) \subseteq Threads
    <2>1. TypeInv /\ flushing' = flushing
      BY <1>1 DEF IInv
    <2>2. Busy(s)' = Busy(s)
      BY <1>1, <1>2, <2>1, BusyStays
    <2> QED BY <2>2 DEF Busy
  <1>10. ASSUME NEW s \in Symbols, s # s0
         PROVE  RowsOnce(s)' /\ (s \notin raced => InOrder(s)')
    <2>1. /\ Busy(s)' = Busy(s) /\ Busy(s) \subseteq Threads
          /\ \A u \in Busy(s) : pc'[u] \in {"truncate", "commit"} => pc[u] \in {"truncate", "commit"}
      BY <1>6, <1>9
    <2>2. TypeInv /\ RowsOnce(s) /\ (s \notin raced => InOrder(s))
      BY DEF IInv
    <2> QED BY <1>1, <1>4, <1>5, <1>10, <2>1, <2>2, Untouched
  <1>11. RowsOnce(s0)'
    <2>1. RowsOnce(s0)
      BY DEF IInv
    <2>2. /\ disk[s0].rows \in Seq(Nat)
          /\ \A u \in Threads : flushing[u].rows \in Seq(Nat) /\ flushing[u].existing \in Seq(Nat)
      BY DEF IInv, TypeInv, Flushing
    <2>3. Distinct(buffer) /\ UpTo(buffer, n) /\ Apart(disk[s0].rows, buffer) /\ UpTo(disk[s0].rows, n)
      BY <1>a, <1>b, <2>1 DEF RowsOnce
    <2> DEFINE longer == Append(buffer, n + 1)
    <2>4. /\ Distinct(longer) /\ UpTo(longer, n + 1)
          /\ \A r \in Seq(Nat) : Apart(r, buffer) /\ UpTo(r, n) => Apart(r, longer)
      BY <2>3, NextTick
    <2>5. buffers'[s0] = longer
      BY <1>4
    <2> HIDE DEF longer
    <2>6. Apart(disk[s0].rows, longer) /\ UpTo(disk[s0].rows, n + 1)
      BY <2>2, <2>3, <2>4, UpToNext
    <2>7. ASSUME NEW u \in Busy(s0)
          PROVE  HandsApart(s0, u)'
      <3>1. /\ Distinct(flushing[u].rows) /\ UpTo(flushing[u].rows, n)
            /\ Apart(disk[s0].rows, flushing[u].rows) /\ Apart(buffer, flushing[u].rows)
            /\ Distinct(flushing[u].existing) /\ UpTo(flushing[u].existing, n)
            /\ Apart(flushing[u].existing, buffer)
            /\ flushing[u].rows \in Seq(Nat) /\ flushing[u].existing \in Seq(Nat)
        BY <1>a, <1>b, <1>9, <2>1, <2>2 DEF RowsOnce, HandsApart
      <3>2. Apart(flushing[u].rows, longer) /\ Apart(flushing[u].existing, longer)
        BY <2>4, <3>1, ApartBothWays
      <3>3. UpTo(flushing[u].rows, n + 1) /\ UpTo(flushing[u].existing, n + 1)
        BY <3>1, UpToNext
      <3>4. Apart(longer, flushing[u].rows)
        BY <3>2, ApartBothWays
      <3> QED BY <1>1, <1>5, <2>5, <3>1, <3>2, <3>3, <3>4 DEF HandsApart
    <2> QED BY <1>1, <1>5, <1>9, <2>1, <2>4, <2>5, <2>6, <2>7 DEF RowsOnce
  <1>12. ASSUME s0 \notin raced
         PROVE  InOrder(s0)'
    <2>1. InOrder(s0) /\ HeldRows(s0) \in Seq(Nat) /\ disk[s0].rows \in Seq(Nat)
      BY <1>12, HeldIsSeq DEF IInv, TypeInv
    <2>2. HeldRows(s0)' = HeldRows(s0)
      <3>1. \A u \in Threads : InHand(u, s0)' = InHand(u, s0)
        BY <1>1, <1>9 DEF InHand
      <3> QED BY <3>1 DEF HeldRows, Threads
    <2>3. PICK file \in Seq(Nat), held \in Seq(Nat) : file = disk[s0].rows /\ held = HeldRows(s0)
      BY <2>1
    <2>4. file \o held \o buffer = Numbers(n)
      BY <1>a, <1>b, <2>1, <2>3 DEF InOrder
    <2>5. file \o held \o Append(buffer, n + 1) = Numbers(n + 1)
      <3>1. file \o held \o Append(buffer, n + 1) = Append(file \o held \o buffer, n + 1)
        BY AppendBehind
      <3>2. Numbers(n + 1) = Append(Numbers(n), n + 1)
        BY NumbersGrow
      <3> QED BY <2>4, <3>1, <3>2
    <2>6. disk'[s0].rows \o HeldRows(s0)' \o buffers'[s0] = Numbers(written'[s0])
      BY <1>1, <1>4, <1>5, <2>2, <2>3, <2>5
    <2>7. \A u \in Busy(s0) : pc'[u] \in {"truncate", "commit"} => pc[u] \in {"truncate", "commit"}
      BY <1>6, <1>9
    <2>8. Busy(s0)' = Busy(s0) /\ \A u \in Busy(s0) : flushing'[u] = flushing[u]
      BY <1>1, <1>9
    <2>9. \A u \in Busy(s0)' : pc'[u] \in {"truncate", "commit"} =>
                                 flushing'[u].existing = disk'[s0].rows
      BY <1>1, <2>1, <2>7, <2>8 DEF InOrder
    <2>10. \A u, v \in Busy(s0)' : u = v
      BY <2>1, <2>8 DEF InOrder
    <2> QED BY <2>6, <2>9, <2>10 DEF InOrder, Numbers
  <1>13. ASSUME NEW s \in Symbols
         PROVE  Drained(s)'
    <2>1. /\ due'[s] = due[s] /\ due[s] \in Nat /\ written[s] \in Nat /\ Len(buffers[s]) \in Nat
          /\ pc'["flusher"] = pc["flusher"] /\ pc'["stopper"] = pc["stopper"]
          /\ \A u \in Threads : pc'[u] = "requeue" => pc[u] = "requeue"
      BY <1>1, <1>6, LenProperties DEF IInv, TypeInv, Threads
    <2>2. \/ written'[s] = written[s] /\ Len(buffers'[s]) = Len(buffers[s])
          \/ written'[s] = written[s] + 1 /\ Len(buffers'[s]) = Len(buffers[s]) + 1
      <3>1. CASE s = s0
        BY <1>a, <1>b, <1>3, <1>4, <1>5, <3>1
      <3>2. CASE s # s0
        BY <1>4, <1>5, <3>2
      <3> QED BY <3>1, <3>2
    <2>3. Drained(s)
      BY DEF IInv
    <2> SUFFICES ASSUME due'[s] # 0
                 PROVE  /\ due'[s] <= written'[s]
                        /\ pc'["flusher"] = "idle" /\ \A t \in Threads : pc'[t] # "requeue"
                        /\ \/ pc'["stopper"] = "join"
                           \/ pc'["stopper"] # "idle" /\ s \in todo'["stopper"]
                           \/ Len(buffers'[s]) + due'[s] <= written'[s]
      BY DEF Drained
    <2>4. /\ due[s] <= written[s]
          /\ pc["flusher"] = "idle" /\ \A t \in Threads : pc[t] # "requeue"
          /\ \/ pc["stopper"] = "join"
             \/ pc["stopper"] # "idle" /\ s \in todo["stopper"]
             \/ Len(buffers[s]) + due[s] <= written[s]
      BY <2>1, <2>3 DEF Drained
    <2>5. due'[s] <= written'[s]
      BY <2>1, <2>2, <2>4
    <2>6. Len(buffers[s]) + due[s] <= written[s] => Len(buffers'[s]) + due'[s] <= written'[s]
      BY <2>1, <2>2
    <2> QED BY <1>7, <2>1, <2>4, <2>5, <2>6
  <1> QED BY <1>1, <1>8, <1>10, <1>11, <1>12, <1>13 DEF IInv

LEMMA PopKeeps == ASSUME IInv, NEW t \in Threads, pop(t) PROVE IInv'
  <1>a. PICK s0 \in todo[t] :
          /\ todo' = [todo EXCEPT ![t] = @ \ {s0}]
          /\ buffers' = [buffers EXCEPT ![s0] = << >>]
          /\ flushing' = [flushing EXCEPT ![t] =
                            [sym |-> s0, rows |-> buffers[s0], existing |-> << >>]]
          /\ pc' = [pc EXCEPT ![t] = IF buffers[s0] = << >> THEN "next" ELSE "read"]
          /\ raced' = IF buffers[s0] # << >> /\ Busy(s0) # {} THEN raced \cup {s0} ELSE raced
    BY DEF pop, Goto, LeftInBuffer, AfterPop
  <1>b. s0 \in Symbols
    BY <1>a DEF IInv, TypeInv
  <1>c. PICK rows \in Seq(Nat) : rows = buffers[s0]
    BY <1>b DEF IInv, TypeInv
  <1>d. PICK l \in {"next", "read"} : l = IF rows = << >> THEN "next" ELSE "read"
    OBVIOUS
  <1>1. /\ pc[t] = "next" /\ pc' = [pc EXCEPT ![t] = l]
        /\ flushing' = [flushing EXCEPT ![t] = [sym |-> s0, rows |-> rows, existing |-> << >>]]
        /\ UNCHANGED <<disk, written, due>>
    BY <1>a, <1>c, <1>d DEF pop
  <1>2. /\ buffers' \in [Symbols -> Seq(Nat)] /\ buffers'[s0] = << >>
        /\ \A s \in Symbols : s # s0 => buffers'[s] = buffers[s]
    BY <1>a, <1>b, EmptySeq DEF IInv, TypeInv
  <1>3. /\ flushing' \in [Threads -> Flushing]
        /\ flushing'[t] = [sym |-> s0, rows |-> rows, existing |-> << >>]
        /\ \A u \in Threads : u # t => flushing'[u] = flushing[u]
    <2>1. [sym |-> s0, rows |-> rows, existing |-> << >>] \in Flushing
      BY <1>b, EmptySeq DEF Flushing
    <2> QED BY <1>1, <2>1 DEF IInv, TypeInv
  <1>4. /\ pc' \in [Threads -> Labels]
        /\ \A u \in Threads : pc'[u] = IF u = t THEN l ELSE pc[u]
    BY <1>1 DEF IInv, TypeInv, Labels
  <1>5. /\ todo' \in [Threads -> SUBSET Symbols]
        /\ \A u \in Threads : todo'[u] = IF u = t THEN todo[t] \ {s0} ELSE todo[u]
    BY <1>a DEF IInv, TypeInv
  <1>6. raced' \subseteq Symbols /\ raced \subseteq raced'
    BY <1>a, <1>b DEF IInv, TypeInv
  <1>7. ASSUME NEW u \in Threads, pc'[u] \in Holding
        PROVE  flushing'[u].sym \in Symbols
    <2>1. CASE u = t
      BY <1>b, <1>3, <2>1
    <2>2. CASE u # t
      BY <1>3, <1>4, <1>7, <2>2 DEF IInv, TypeInv
    <2> QED BY <2>1, <2>2
  <1>8. TypeInv'
    BY <1>1, <1>2, <1>3, <1>4, <1>5, <1>6, <1>7 DEF IInv, TypeInv
  <1>9. ASSUME NEW s
        PROVE  t \notin Busy(s) /\ Busy(s) \subseteq Threads
    BY <1>1, BusyMeans DEF Holding
  <1>10. ASSUME NEW s
         PROVE  Busy(s)' = IF s = s0 /\ l = "read" THEN Busy(s) \cup {t} ELSE Busy(s)
    <2>1. \A u \in Threads : u # t =>
            ((pc'[u] \in Holding /\ flushing'[u].sym = s)
                <=> (pc[u] \in Holding /\ flushing[u].sym = s))
      BY <1>3, <1>4
    <2>2. (pc'[t] \in Holding /\ flushing'[t].sym = s) <=> (s = s0 /\ l = "read")
      BY <1>d, <1>3, <1>4 DEF Holding
    <2>3. \A u \in Threads : u # t => (u \in Busy(s)' <=> u \in Busy(s))
      BY <2>1, BusyMeans
    <2>4. t \in Busy(s)' <=> (s = s0 /\ l = "read")
      BY <2>2, BusyMeans
    <2>5. Busy(s) \subseteq Threads /\ Busy(s)' \subseteq Threads /\ t \notin Busy(s)
      BY <1>9, BusyMeans
    <2>6. CASE s = s0 /\ l = "read"
      <3>1. \A u : u \in Busy(s)' <=> u \in Busy(s) \/ u = t
        BY <2>3, <2>4, <2>5, <2>6
      <3> QED BY <2>6, <3>1
    <2>7. CASE ~(s = s0 /\ l = "read")
      <3>1. \A u : u \in Busy(s)' <=> u \in Busy(s)
        BY <2>3, <2>4, <2>5, <2>7
      <3> QED BY <2>7, <3>1
    <2> QED BY <2>6, <2>7
  <1>11. ASSUME NEW s \in Symbols, s # s0 \/ l = "next"
         PROVE  RowsOnce(s)' /\ (s \notin raced' => InOrder(s)')
    <2>1. /\ Busy(s)' = Busy(s)
          /\ \A u \in Busy(s) : flushing'[u] = flushing[u] /\ pc'[u] = pc[u]
      BY <1>3, <1>4, <1>9, <1>10, <1>11
    <2>2. TypeInv /\ RowsOnce(s) /\ (s \notin raced' => InOrder(s))
      BY <1>6 DEF IInv
    <2>3. buffers'[s] = buffers[s]
      BY <1>c, <1>d, <1>2, <1>11
    <2> QED BY <1>1, <2>1, <2>2, <2>3, Untouched
  <1>12. ASSUME l = "read"
         PROVE  RowsOnce(s0)'
    <2>1. RowsOnce(s0) /\ Busy(s0)' = Busy(s0) \cup {t}
      BY <1>b, <1>10, <1>12 DEF IInv
    <2>2. /\ Distinct(rows) /\ UpTo(rows, written[s0]) /\ Apart(disk[s0].rows, rows)
          /\ Distinct(disk[s0].rows) /\ UpTo(disk[s0].rows, written[s0])
      BY <1>c, <2>1 DEF RowsOnce
    <2>3. HandsApart(s0, t)'
      BY <1>1, <1>2, <1>3, <2>2, NothingIsApart DEF HandsApart
    <2>4. ASSUME NEW u \in Busy(s0)
          PROVE  HandsApart(s0, u)'
      <3>1. HandsApart(s0, u) /\ flushing'[u] = flushing[u]
        BY <1>3, <1>9, <2>1 DEF RowsOnce
      <3> QED BY <1>1, <1>2, <3>1, NothingIsApart DEF HandsApart
    <2>5. ASSUME NEW u \in Busy(s0)
          PROVE  /\ Apart(flushing'[u].rows, flushing'[t].rows)
                 /\ Apart(flushing'[t].rows, flushing'[u].rows)
                 /\ Apart(flushing'[u].existing, flushing'[t].rows)
      <3>1. HandsApart(s0, u) /\ flushing'[u] = flushing[u] /\ flushing'[t].rows = rows
        BY <1>3, <1>9, <2>1 DEF RowsOnce
      <3>2. Apart(rows, flushing[u].rows) /\ Apart(flushing[u].existing, rows)
        BY <1>c, <3>1 DEF HandsApart
      <3> QED BY <3>1, <3>2, ApartBothWays
    <2>6. \A p : Apart(flushing'[t].existing, p)
      BY <1>3, NothingIsApart
    <2>7. ASSUME NEW u \in Busy(s0), NEW v \in Busy(s0)
          PROVE  /\ u # v => Apart(flushing'[u].rows, flushing'[v].rows)
                 /\ Apart(flushing'[u].existing, flushing'[v].rows)
      <3>1. flushing'[u] = flushing[u] /\ flushing'[v] = flushing[v]
        BY <1>3, <1>9
      <3> QED BY <2>1, <3>1 DEF RowsOnce
    <2>8. \A u, v \in Busy(s0)' :
            /\ u # v => Apart(flushing'[u].rows, flushing'[v].rows)
            /\ Apart(flushing'[u].existing, flushing'[v].rows)
      BY <2>1, <2>5, <2>6, <2>7
    <2>9. \A u \in Busy(s0)' : HandsApart(s0, u)'
      BY <2>1, <2>3, <2>4
    <2> QED BY <1>1, <1>2, <2>2, <2>8, <2>9, NothingIsApart DEF RowsOnce
  <1>13. ASSUME l = "read", s0 \notin raced'
         PROVE  InOrder(s0)'
    <2>1. rows # << >> /\ Busy(s0) = {} /\ s0 \notin raced
      BY <1>a, <1>c, <1>d, <1>13
    <2>2. InOrder(s0) /\ disk[s0].rows \in Seq(Nat)
      BY <1>b, <2>1 DEF IInv, TypeInv
    <2>3. Busy(s0)' = {t} /\ flushing'[t].rows = rows
      BY <1>3, <1>10, <1>13, <2>1
    <2>4. HeldRows(s0) = << >> /\ HeldRows(s0)' = rows
      BY <2>1, <2>3, HeldByNone, HeldByOne
    <2>5. PICK file \in Seq(Nat) : file = disk[s0].rows
      BY <2>2
    <2>6. file \o rows \in Seq(Nat)
      BY ConcatProperties
    <2>7. file \o << >> \o rows = file \o rows \o << >>
      BY <2>6, ConcatEmptySeq
    <2>8. file \o << >> \o rows = Numbers(written[s0])
      BY <1>c, <2>2, <2>4, <2>5 DEF InOrder
    <2>9. disk'[s0].rows \o HeldRows(s0)' \o buffers'[s0] = Numbers(written'[s0])
      BY <1>1, <1>2, <2>4, <2>5, <2>7, <2>8
    <2>10. \A u \in Busy(s0)' : pc'[u] \notin {"truncate", "commit"}
      BY <1>4, <1>13, <2>3
    <2> QED BY <2>3, <2>9, <2>10 DEF InOrder, Numbers
  <1>14. ASSUME NEW s \in Symbols
         PROVE  Drained(s)'
    <2> SUFFICES ASSUME due'[s] # 0
                 PROVE  /\ due'[s] <= written'[s]
                        /\ pc'["flusher"] = "idle" /\ \A u \in Threads : pc'[u] # "requeue"
                        /\ \/ pc'["stopper"] = "join"
                           \/ pc'["stopper"] # "idle" /\ s \in todo'["stopper"]
                           \/ Len(buffers'[s]) + due'[s] <= written'[s]
      BY DEF Drained
    <2>1. /\ due[s] <= written[s] /\ due[s] \in Nat /\ written[s] \in Nat
          /\ pc["flusher"] = "idle" /\ \A u \in Threads : pc[u] # "requeue"
          /\ \/ pc["stopper"] = "join"
             \/ pc["stopper"] # "idle" /\ s \in todo["stopper"]
             \/ Len(buffers[s]) + due[s] <= written[s]
      BY <1>1 DEF IInv, Drained, TypeInv
    <2>2. /\ pc'["flusher"] = "idle" /\ \A u \in Threads : pc'[u] # "requeue"
          /\ pc["stopper"] = "join" => pc'["stopper"] = "join"
          /\ pc["stopper"] # "idle" => pc'["stopper"] # "idle"
      BY <1>1, <1>d, <1>4, <2>1 DEF Threads
    <2>3. CASE s = s0
      <3>1. Len(buffers'[s]) = 0
        BY <1>2, <2>3, EmptySeq
      <3> QED BY <1>1, <2>1, <2>2, <3>1
    <2>4. CASE s # s0
      <3>1. buffers'[s] = buffers[s] /\ (s \in todo["stopper"] => s \in todo'["stopper"])
        BY <1>2, <1>5, <2>4 DEF Threads
      <3> QED BY <1>1, <2>1, <2>2, <3>1
    <2> QED BY <2>3, <2>4
  <1> QED BY <1>d, <1>8, <1>11, <1>12, <1>13, <1>14 DEF IInv

-----------------------------------------------------------------------------
LEMMA InitKeeps == Init => IInv
  <1> SUFFICES ASSUME Init PROVE IInv
    OBVIOUS
  <1>1. Nothing \in Flushing
    BY EmptySeq DEF Nothing, Flushing
  <1>2. TypeInv
    BY <1>1, EmptySeq DEF Init, TypeInv, NotDue, Labels, Holding
  <1>3. \A s : Busy(s) = {}
    BY BusyMeans DEF Init, Holding
  <1>4. ASSUME NEW s \in Symbols
        PROVE  RowsOnce(s) /\ Drained(s) /\ InOrder(s)
    <2>1. disk[s].rows = << >> /\ buffers[s] = << >> /\ written[s] = 0 /\ due[s] = 0
      BY DEF Init, NotDue
    <2>2. RowsOnce(s) /\ Drained(s)
      BY <1>3, <2>1, NothingIsApart DEF RowsOnce, Drained
    <2>3. << >> \o << >> \o << >> = << >> /\ Numbers(0) = << >>
      <3>1. << >> \o << >> \o << >> = << >>
        BY EmptySeq, ConcatEmptySeq
      <3>2. Numbers(0) \in Seq(Nat) /\ Len(Numbers(0)) = 0
        BY NumbersGrow
      <3> QED BY <3>1, <3>2, EmptySeq
    <2>4. disk[s].rows \o HeldRows(s) \o buffers[s] = Numbers(written[s])
      BY <1>3, <2>1, <2>3, HeldByNone
    <2> QED BY <1>3, <2>2, <2>4 DEF InOrder
  <1> QED BY <1>2, <1>4 DEF IInv

LEMMA NextKeeps == IInv /\ [Next]_vars => IInv'
  <1> SUFFICES ASSUME IInv, [Next]_vars PROVE IInv'
    OBVIOUS
  <1>1. CASE start
    BY <1>1, StartKeeps
  <1>2. CASE stop
    BY <1>2, StopKeeps
  <1>3. CASE _flush_loop
    BY <1>3, FlushLoopKeeps
  <1>4. CASE interval_passed
    BY <1>4, IntervalKeeps
  <1>5. ASSUME NEW s \in Symbols, write(s) PROVE IInv'
    BY <1>5, WriteKeeps
  <1>6. ASSUME NEW t \in Threads, _flush_symbol(t) PROVE IInv'
    <2>1. CASE pop(t)
      BY <2>1, PopKeeps
    <2>2. CASE read_existing(t)
      BY <2>2, ReadKeeps
    <2>3. CASE truncate(t)
      BY <2>3, TruncateKeeps
    <2>4. CASE commit(t)
      BY <2>4, CommitKeeps
    <2>5. CASE flush_raises(t)
      BY <2>5, FlushRaisesKeeps
    <2>6. CASE requeue(t)
      BY <2>6, RequeueKeeps
    <2>7. CASE flush_done(t)
      BY <2>7, FlushDoneKeeps
    <2> QED BY <1>6, <2>1, <2>2, <2>3, <2>4, <2>5, <2>6, <2>7 DEF _flush_symbol
  <1>7. CASE UNCHANGED vars
    <2>1. /\ UNCHANGED <<buffers, disk, pc, todo, flushing, written, raced, due>>
          /\ \A s : Busy(s)' = Busy(s)
      BY <1>7 DEF vars, Busy
    <2>2. TypeInv /\ TypeInv'
      BY <2>1 DEF IInv, TypeInv
    <2>3. ASSUME NEW s \in Symbols
          PROVE  RowsOnce(s)' /\ Drained(s)' /\ (s \notin raced' => InOrder(s)')
      <3>1. RowsOnce(s) /\ Drained(s) /\ (s \notin raced => InOrder(s))
        BY DEF IInv
      <3>2. Drained(s)'
        BY <2>1, <3>1 DEF Drained
      <3> QED BY <2>1, <2>2, <3>1, <3>2, Untouched
    <2> QED BY <2>2, <2>3 DEF IInv
  <1> QED BY <1>1, <1>2, <1>3, <1>4, <1>5, <1>6, <1>7 DEF Next

-----------------------------------------------------------------------------
LEMMA NoneTwice == IInv => NoRowTwice
  <1> SUFFICES ASSUME IInv, NEW s \in Symbols
               PROVE  Distinct(disk[s].rows \o HeldRows(s) \o buffers[s])
    BY DEF NoRowTwice, Distinct
  <1>1. RowsOnce(s) /\ disk[s].rows \in Seq(Nat) /\ buffers[s] \in Seq(Nat)
    BY DEF IInv, TypeInv
  <1>2. PICK file \in Seq(Nat), buffer \in Seq(Nat) : file = disk[s].rows /\ buffer = buffers[s]
    BY <1>1
  <1>3. PICK w \in Seq(Nat), f \in Seq(Nat), p \in Seq(Nat) :
          w = InHand("writer", s) /\ f = InHand("flusher", s) /\ p = InHand("stopper", s)
    BY HeldIsSeq DEF IInv, Threads
  <1>4. ASSUME NEW t \in Threads
        PROVE  /\ Distinct(InHand(t, s)) /\ Apart(InHand(t, s), file)
               /\ Apart(InHand(t, s), buffer)
               /\ \A u \in Threads : u # t => Apart(InHand(t, s), InHand(u, s))
    <2>1. CASE t \in Busy(s)
      <3>1. InHand(t, s) = flushing[t].rows /\ HandsApart(s, t)
        BY <1>1, <2>1 DEF InHand, RowsOnce
      <3>2. \A u \in Threads : u # t => Apart(flushing[t].rows, InHand(u, s))
        BY <1>1, <2>1, NothingIsApart DEF InHand, RowsOnce
      <3> QED BY <1>2, <3>1, <3>2, ApartBothWays DEF HandsApart
    <2>2. CASE t \notin Busy(s)
      <3>1. InHand(t, s) = << >>
        BY <2>2 DEF InHand
      <3> QED BY <3>1, NothingIsApart
    <2> QED BY <2>1, <2>2
  <1>5. /\ Distinct(w) /\ Distinct(f) /\ Distinct(p)
        /\ Apart(w, f) /\ Apart(w, p) /\ Apart(f, p)
        /\ Apart(w, file) /\ Apart(f, file) /\ Apart(p, file)
        /\ Apart(w, buffer) /\ Apart(f, buffer) /\ Apart(p, buffer)
    BY <1>3, <1>4 DEF Threads
  <1>6. Distinct(file) /\ Distinct(buffer) /\ Apart(file, buffer)
    BY <1>1, <1>2 DEF RowsOnce
  <1>7. PICK two \in Seq(Nat) : two = w \o f
    BY ConcatProperties
  <1>8. Distinct(two) /\ Apart(two, p) /\ Apart(two, file) /\ Apart(two, buffer)
    BY <1>5, <1>7, JoinedDistinct, JoinedApart
  <1>9. PICK held \in Seq(Nat) : held = two \o p
    BY ConcatProperties
  <1>10. Distinct(held) /\ Apart(held, file) /\ Apart(held, buffer)
    BY <1>5, <1>8, <1>9, JoinedDistinct, JoinedApart
  <1>11. PICK front \in Seq(Nat) : front = file \o held
    BY ConcatProperties
  <1>12. Distinct(front) /\ Apart(front, buffer)
    BY <1>6, <1>10, <1>11, JoinedDistinct, JoinedApart, ApartBothWays
  <1>13. HeldRows(s) = held
    BY <1>3, <1>7, <1>9 DEF HeldRows
  <1>14. Distinct(front \o buffer)
    BY <1>6, <1>12, JoinedDistinct
  <1> QED BY <1>2, <1>11, <1>13, <1>14

LEMMA NoneLeftBehind == IInv => StopDrains
  <1> SUFFICES ASSUME IInv, NEW s \in Symbols \ raced, pc["stopper"] = "idle",
                      NEW n \in 1 .. due[s]
               PROVE  \E i \in 1 .. Len(disk[s].rows \o InHand("writer", s)) :
                        (disk[s].rows \o InHand("writer", s))[i] = n
    BY DEF StopDrains
  <1>1. PICK file \in Seq(Nat), w \in Seq(Nat), buffer \in Seq(Nat) :
          file = disk[s].rows /\ w = InHand("writer", s) /\ buffer = buffers[s]
    BY HeldIsSeq DEF IInv, TypeInv, Threads
  <1>2. /\ due[s] \in Nat /\ written[s] \in Nat /\ Len(buffer) \in Nat
        /\ due[s] # 0 /\ n \in Nat /\ 1 <= n /\ n <= due[s]
    BY LenProperties DEF IInv, TypeInv
  <1>3. pc["flusher"] = "idle" /\ Len(buffer) + due[s] <= written[s]
    BY <1>1, <1>2 DEF IInv, Drained
  <1>4. HeldRows(s) = w
    <2>1. "flusher" \notin Busy(s) /\ "stopper" \notin Busy(s)
      BY <1>3 DEF Busy
    <2>2. HeldRows(s) = w \o << >> \o << >>
      BY <1>1, <2>1 DEF HeldRows, InHand
    <2> QED BY <2>2, OneOfThree
  <1>5. PICK front \in Seq(Nat) : front = file \o w
    BY ConcatProperties
  <1>6. front \o buffer = Numbers(written[s])
    BY <1>1, <1>4, <1>5 DEF IInv, InOrder
  <1>7. /\ Len(front \o buffer) = Len(front) + Len(buffer) /\ Len(front) \in Nat
        /\ \A i \in 1 .. Len(front) : (front \o buffer)[i] = front[i]
    BY ConcatProperties, LenProperties
  <1>8. Len(Numbers(written[s])) = written[s]
    BY <1>2, NumbersGrow
  <1>9. n \in 1 .. Len(front) /\ n \in 1 .. written[s]
    BY <1>2, <1>3, <1>6, <1>7, <1>8
  <1>10. Numbers(written[s])[n] = n
    BY <1>9 DEF Numbers
  <1>11. front[n] = n
    BY <1>6, <1>7, <1>9, <1>10
  <1> QED BY <1>1, <1>5, <1>9, <1>11

(* TickWriter, written ticks: none appears twice, whatever the threads do  *)
(* and whatever fails; but for symbols two threads flushed at a time, none *)
(* is lost and none overtakes another; and a stop that waited for the      *)
(* flush thread, with no read or write failing, leaves nothing buffered.   *)
THEOREM TicksKept == Spec => []TicksAreKept
  <1>1. IInv => RowsInOrder
    BY DEF IInv, InOrder, RowsInOrder
  <1>2. IInv => TicksAreKept
    BY <1>1, NoneTwice, NoneLeftBehind DEF TicksAreKept
  <1> QED BY <1>2, InitKeeps, NextKeeps, PTL DEF Spec

-----------------------------------------------------------------------------
(***************************************************************************)
(* The standalone runtime.                                                 *)
(***************************************************************************)
Pumps == 1..MaxStarts

Attributes ==
    [state : {"stopped", "starting", "running", "stopping", "error"},
     adapter_connected : BOOLEAN, stop : BOOLEAN, servers : SUBSET Runtime!Servers,
     adapter : Nat, pump_thread : Nat, starts : Nat]

PumpStates == [phase : {"none", "test", "poll", "publish", "ended"}, item : Nat]

(* The attributes, the pumps and what they publish have their types.       *)
RuntimeTypeOK ==
    /\ rt \in Attributes
    /\ owner \in {"idle", "bind", "construct", "connect", "spawn", "join", "close",
                  "disconnect", "return"}
    /\ pumps \in [Pumps -> PumpStates]
    /\ output_queue \in Seq(Nat) /\ emitted \in Nat /\ published \in Seq(Nat)

Starting == owner \in {"bind", "construct", "connect"}
Stopping == owner \in {"join", "close", "disconnect", "return"}
Down == owner = "idle" /\ rt.state # "running"

(* The state and the flag follow the owner through start and stop.         *)
StateOfOwner ==
    /\ owner = "idle" =>
          /\ rt.state \in {"stopped", "running", "error"}
          /\ rt.adapter_connected <=> rt.state = "running"
    /\ Starting => rt.state = "starting" /\ ~rt.adapter_connected
    /\ owner = "spawn" => rt.state = "running" /\ rt.adapter_connected
    /\ Stopping => rt.state \in {"stopping", "error"}

(* Only the adapter at hand can be connected, and only under its flag,     *)
(* unless its disconnect raised; a cleanup has closed the servers before.  *)
HeldByOwner ==
    /\ linked \subseteq stuck \cup {rt.adapter}
    /\ ~rt.adapter_connected \/ owner = "return" => linked \subseteq stuck
    /\ owner \in {"disconnect", "return"} \/ Down => rt.servers = {}

(* One pump at most has not ended, and none while another may start.       *)
OnePump ==
    /\ \A i \in Pumps : pumps[i].phase \notin {"none", "ended"} => i = rt.pump_thread
    /\ Starting \/ owner \in {"spawn", "close", "disconnect", "return"} \/ Down
         => rt.pump_thread = 0

(* The events come out of the adapter, are queued, are taken by the pump   *)
(* and are published in one order.                                         *)
QueueInOrder ==
    /\ \A i \in DOMAIN output_queue : output_queue[i] <= emitted
    /\ \A i, j \in DOMAIN output_queue : i < j => output_queue[i] < output_queue[j]

PublishedFirst ==
    \A k \in DOMAIN published :
       /\ published[k] <= emitted
       /\ \A i \in DOMAIN output_queue : published[k] < output_queue[i]

TakenBetween ==
    \A p \in Pumps : pumps[p].phase = "publish" =>
       /\ pumps[p].item <= emitted
       /\ \A i \in DOMAIN output_queue : pumps[p].item < output_queue[i]
       /\ \A k \in DOMAIN published : published[k] < pumps[p].item

EventsOrdered ==
    OnePump /\ QueueInOrder /\ PublishedFirst /\ TakenBetween /\ Runtime!PublishedInOrder

(* What start and stop hold, without the order of events. *)
HoldsInv == RuntimeTypeOK /\ StateOfOwner /\ HeldByOwner

RuntimeInv == HoldsInv /\ (~SlowPump => EventsOrdered)

-----------------------------------------------------------------------------
(* Every step leaves the attributes and the pumps in their types.          *)
LEMMA RuntimeTypesKept == RuntimeTypeOK /\ Runtime!Next => RuntimeTypeOK'
  <1> SUFFICES ASSUME RuntimeTypeOK, Runtime!Next PROVE RuntimeTypeOK'
    OBVIOUS
  <1> USE DEF Runtime!Next, Runtime!start_in_thread, Runtime!stop, Runtime!OwnerStep,
      Runtime!bind, Runtime!construct, Runtime!connect, Runtime!spawn,
      Runtime!start_raises, Runtime!join, Runtime!close, Runtime!disconnect,
      Runtime!mark_down, Runtime!emit, Runtime!PumpStep, Runtime!pump_test,
      Runtime!poll_output, Runtime!_publish_adapter_item, Runtime!pump_raises,
      Runtime!dispatch_write, Runtime!write_refused, Runtime!CommandStep,
      Runtime!exchange_decides, Runtime!adapter_answers, Runtime!adapter_raises,
      Runtime!Acknowledge, Runtime!Fault
  <1>1. owner' \in {"idle", "bind", "construct", "connect", "spawn", "join", "close",
                    "disconnect", "return"}
    BY DEF RuntimeTypeOK
  <1>2. rt' \in Attributes
    <2>1. \/ rt' = rt
          \/ rt' = [rt EXCEPT !.stop = FALSE, !.state = "starting", !.starts = @ + 1]
          \/ rt' = [rt EXCEPT !.servers = @ \cup {Runtime!NextServer}]
          \/ rt' = [rt EXCEPT !.adapter = rt.starts]
          \/ rt' = [rt EXCEPT !.adapter_connected = TRUE, !.state = "running"]
          \/ rt' = [rt EXCEPT !.pump_thread = rt.starts]
          \/ rt' = [rt EXCEPT !.state = "error", !.stop = TRUE]
          \/ rt' = [rt EXCEPT !.state = "stopping", !.stop = TRUE]
          \/ rt' = [rt EXCEPT !.pump_thread = 0]
          \/ rt' = [rt EXCEPT !.servers = {}]
          \/ rt' = [rt EXCEPT !.adapter_connected = FALSE,
                              !.state = IF @ = "error" THEN "error" ELSE "stopped"]
      OBVIOUS
    <2>2. rt \in Attributes
      BY DEF RuntimeTypeOK
    <2>3. rt.starts \in Nat /\ rt.starts + 1 \in Nat
      BY <2>2 DEF Attributes
    <2>4. rt.servers \cup {Runtime!NextServer} \in SUBSET Runtime!Servers
      BY <2>2 DEF Attributes, Runtime!NextServer, Runtime!Servers
    <2> HIDE DEF Runtime!Next, Runtime!NextServer, Runtime!Servers
    <2>5. CASE rt' = [rt EXCEPT !.stop = FALSE, !.state = "starting", !.starts = @ + 1]
      BY <2>2, <2>3, <2>5, Zenon DEF Attributes
    <2>6. CASE \/ rt' = [rt EXCEPT !.servers = @ \cup {Runtime!NextServer}]
               \/ rt' = [rt EXCEPT !.servers = {}]
      BY <2>2, <2>4, <2>6 DEF Attributes
    <2>7. CASE \/ rt' = [rt EXCEPT !.adapter = rt.starts] \/ rt' = [rt EXCEPT !.pump_thread = rt.starts]
               \/ rt' = [rt EXCEPT !.pump_thread = 0]
      BY <2>2, <2>3, <2>7 DEF Attributes
    <2>8. CASE rt' = [rt EXCEPT !.adapter_connected = TRUE, !.state = "running"]
      BY <2>2, <2>8, Zenon DEF Attributes
    <2>9. CASE rt' = [rt EXCEPT !.state = "error", !.stop = TRUE]
      BY <2>2, <2>9, Zenon DEF Attributes
    <2>10. CASE rt' = [rt EXCEPT !.state = "stopping", !.stop = TRUE]
      BY <2>2, <2>10, Zenon DEF Attributes
    <2>11. CASE rt' = [rt EXCEPT !.adapter_connected = FALSE,
                                 !.state = IF @ = "error" THEN "error" ELSE "stopped"]
      BY <2>2, <2>11, Zenon DEF Attributes
    <2> QED BY <2>1, <2>2, <2>5, <2>6, <2>7, <2>8, <2>9, <2>10, <2>11
  <1>3. pumps' \in [Pumps -> PumpStates]
    <2>1. \/ pumps' = pumps
          \/ \E i \in Pumps \cup {rt.starts}, phase \in {"test", "poll", "ended"} :
                \/ pumps' = [pumps EXCEPT ![i].phase = phase]
                \/ pumps' = [pumps EXCEPT ![i] = [phase |-> phase, item |-> 0]]
          \/ \E i \in Pumps :
                /\ output_queue # << >>
                /\ pumps' = [pumps EXCEPT ![i] = [phase |-> "publish", item |-> Head(output_queue)]]
      BY DEF Pumps
    <2>2. pumps \in [Pumps -> PumpStates] /\ (output_queue # << >> => Head(output_queue) \in Nat)
      BY DEF RuntimeTypeOK
    <2> HIDE DEF Runtime!Next, Pumps
    <2> QED BY <2>1, <2>2 DEF PumpStates
  <1>4. output_queue' \in Seq(Nat) /\ emitted' \in Nat
    <2>1. \/ output_queue' = output_queue /\ emitted' = emitted
          \/ output_queue' = << >> /\ emitted' = 0
          \/ output_queue' = Append(output_queue, emitted + 1) /\ emitted' = emitted + 1
          \/ output_queue # << >> /\ output_queue' = Tail(output_queue) /\ emitted' = emitted
      OBVIOUS
    <2>2. output_queue \in Seq(Nat) /\ emitted \in Nat
      BY DEF RuntimeTypeOK
    <2>3. Append(output_queue, emitted + 1) \in Seq(Nat) /\ emitted + 1 \in Nat
      BY <2>2
    <2>4. output_queue # << >> => Tail(output_queue) \in Seq(Nat)
      BY <2>2
    <2>5. << >> \in Seq(Nat) /\ 0 \in Nat
      OBVIOUS
    <2> HIDE DEF Runtime!Next
    <2> QED BY <2>1, <2>2, <2>3, <2>4, <2>5, Zenon
  <1>5. published' \in Seq(Nat)
    <2>1. \/ published' = published \/ published' = << >>
          \/ \E i \in Pumps : published' = Append(published, pumps[i].item)
      BY DEF Pumps
    <2>2. published \in Seq(Nat) /\ \A i \in Pumps : pumps[i].item \in Nat
      BY DEF RuntimeTypeOK, PumpStates
    <2>3. \A i \in Pumps : Append(published, pumps[i].item) \in Seq(Nat)
      BY <2>2
    <2>4. << >> \in Seq(Nat)
      OBVIOUS
    <2> HIDE DEF Runtime!Next
    <2> QED BY <2>1, <2>2, <2>3, <2>4, Zenon
  <1> QED BY <1>1, <1>2, <1>3, <1>4, <1>5 DEF RuntimeTypeOK

(* The steps of start and stop keep the state, the flag and what is held   *)
(* in step with the owner; nobody else touches them.                       *)
LEMMA HoldingKept == HoldsInv /\ Runtime!Next => HoldsInv'
  <1> SUFFICES ASSUME HoldsInv, Runtime!Next PROVE HoldsInv'
    OBVIOUS
  <1> USE DEF HoldsInv, Runtime!Next, Runtime!start_in_thread, Runtime!stop,
      Runtime!OwnerStep, Runtime!bind, Runtime!construct, Runtime!connect,
      Runtime!spawn, Runtime!start_raises, Runtime!join, Runtime!close,
      Runtime!disconnect, Runtime!mark_down, Runtime!emit, Runtime!PumpStep,
      Runtime!pump_test, Runtime!poll_output, Runtime!_publish_adapter_item,
      Runtime!pump_raises, Runtime!dispatch_write, Runtime!write_refused,
      Runtime!CommandStep, Runtime!exchange_decides, Runtime!adapter_answers,
      Runtime!adapter_raises, Runtime!Acknowledge, Runtime!Fault
  <1>1. RuntimeTypeOK'
    BY RuntimeTypesKept
  <1>2. StateOfOwner'
    BY DEF RuntimeTypeOK, Attributes, StateOfOwner, Starting, Stopping
  <1>3. HeldByOwner'
    BY DEF RuntimeTypeOK, Attributes, StateOfOwner, HeldByOwner, Starting, Stopping,
        Down
  <1> QED BY <1>1, <1>2, <1>3

(* An event that the adapter puts out comes behind all others, the pump    *)
(* takes the first, and publishes it behind those it has published; a new  *)
(* adapter finds no pump.                                                  *)
LEMMA OrderKept == HoldsInv /\ EventsOrdered /\ ~SlowPump /\ Runtime!Next => EventsOrdered'
  <1> SUFFICES ASSUME HoldsInv, EventsOrdered, ~SlowPump, Runtime!Next PROVE EventsOrdered'
    OBVIOUS
  <1> USE DEF HoldsInv, EventsOrdered
  <1>1. OnePump'
    <2>1. CASE \E i \in Pumps : Runtime!PumpStep(i)
      <3>1. PICK i \in Pumps : Runtime!PumpStep(i)
        BY <2>1
      <3>2. /\ rt' = rt /\ owner' = owner /\ pumps[i].phase \notin {"none", "ended"}
            /\ \A j \in Pumps : j # i => pumps'[j] = pumps[j]
        BY <3>1 DEF Runtime!PumpStep, Runtime!pump_test, Runtime!poll_output,
            Runtime!_publish_adapter_item, Runtime!pump_raises, RuntimeTypeOK
      <3> QED BY <3>2 DEF OnePump, Starting, Down
    <2>2. CASE Runtime!spawn
      BY <2>2 DEF Runtime!spawn, RuntimeTypeOK, Attributes, PumpStates, StateOfOwner,
          OnePump, Starting, Down, Pumps
    <2>3. CASE Runtime!join
      BY <2>3 DEF Runtime!join, RuntimeTypeOK, Attributes, StateOfOwner, OnePump,
          Starting, Stopping, Down, Pumps
    <2>4. CASE ~Runtime!spawn /\ ~Runtime!join /\ ~\E i \in Pumps : Runtime!PumpStep(i)
      <3>1. pumps' = pumps /\ rt'.pump_thread = rt.pump_thread
        BY <2>4 DEF Pumps, Runtime!Next, Runtime!start_in_thread, Runtime!stop,
            Runtime!OwnerStep, Runtime!bind, Runtime!construct, Runtime!connect,
            Runtime!start_raises, Runtime!close, Runtime!disconnect, Runtime!mark_down,
            Runtime!emit, Runtime!dispatch_write, Runtime!write_refused,
            Runtime!CommandStep, Runtime!exchange_decides, Runtime!adapter_answers,
            Runtime!adapter_raises, RuntimeTypeOK, Attributes
      <3>2. owner' \in {"spawn", "close", "disconnect", "return"} \/ Starting' \/ Down'
              => owner \in {"spawn", "close", "disconnect", "return"} \/ Starting \/ Down
        BY <2>4 DEF Pumps, Runtime!Next, Runtime!start_in_thread, Runtime!stop,
            Runtime!OwnerStep, Runtime!bind, Runtime!construct, Runtime!connect,
            Runtime!start_raises, Runtime!close, Runtime!disconnect, Runtime!mark_down,
            Runtime!emit, Runtime!dispatch_write, Runtime!write_refused,
            Runtime!CommandStep, Runtime!exchange_decides, Runtime!adapter_answers,
            Runtime!adapter_raises, Starting, Down, RuntimeTypeOK, Attributes
      <3> QED BY <3>1, <3>2 DEF OnePump
    <2> QED BY <2>1, <2>2, <2>3, <2>4
  <1>2. QueueInOrder' /\ PublishedFirst' /\ TakenBetween' /\ Runtime!PublishedInOrder'
    <2>1. CASE Runtime!construct
      <3>1. \A p \in Pumps : pumps[p].phase # "publish"
        BY <2>1 DEF Runtime!construct, OnePump, Starting, Pumps
      <3> QED BY <2>1, <3>1 DEF Runtime!construct, QueueInOrder, PublishedFirst,
          TakenBetween, Runtime!PublishedInOrder
    <2>2. CASE Runtime!emit
      <3>1. /\ emitted' = emitted + 1 /\ published' = published /\ pumps' = pumps
            /\ DOMAIN output_queue' = 1..Len(output_queue) + 1
            /\ output_queue'[Len(output_queue) + 1] = emitted + 1
            /\ \A i \in 1..Len(output_queue) : output_queue'[i] = output_queue[i]
        BY <2>2 DEF Runtime!emit, RuntimeTypeOK
      <3>2. /\ emitted \in Nat /\ Len(output_queue) \in Nat /\ DOMAIN output_queue = 1..Len(output_queue)
            /\ \A i \in DOMAIN output_queue : output_queue[i] \in Nat
            /\ \A i \in DOMAIN published : published[i] \in Nat
            /\ \A p \in Pumps : pumps[p].item \in Nat
        BY DEF RuntimeTypeOK, PumpStates
      <3>3. QueueInOrder'
        <4>1. \A i \in 1..Len(output_queue) : output_queue[i] < emitted + 1
          BY <3>2 DEF QueueInOrder
        <4>2. \A i \in DOMAIN output_queue' : output_queue'[i] <= emitted'
          BY <3>1, <3>2, <4>1
        <4>3. \A i, j \in DOMAIN output_queue' : i < j => output_queue'[i] < output_queue'[j]
          <5> SUFFICES ASSUME NEW i \in 1..Len(output_queue) + 1, NEW j \in 1..Len(output_queue) + 1, i < j
                       PROVE  output_queue'[i] < output_queue'[j]
            BY <3>1
          <5>1. i \in 1..Len(output_queue)
            BY <3>2
          <5>2. CASE j = Len(output_queue) + 1
            BY <3>1, <4>1, <5>1, <5>2
          <5>3. CASE j \in 1..Len(output_queue)
            BY <3>1, <3>2, <5>1, <5>3 DEF QueueInOrder
          <5> QED BY <3>2, <5>2, <5>3
        <4> QED BY <4>2, <4>3 DEF QueueInOrder
      <3>4. PublishedFirst'
        BY <3>1, <3>2 DEF PublishedFirst
      <3>5. TakenBetween'
        BY <3>1, <3>2 DEF TakenBetween
      <3>6. Runtime!PublishedInOrder'
        BY <3>1 DEF Runtime!PublishedInOrder
      <3> QED BY <3>3, <3>4, <3>5, <3>6
    <2>3. ASSUME NEW i \in Pumps, Runtime!poll_output(i), output_queue # << >>
          PROVE QueueInOrder' /\ PublishedFirst' /\ TakenBetween' /\ Runtime!PublishedInOrder'
      <3>1. /\ emitted' = emitted /\ published' = published
            /\ pumps'[i].phase = "publish" /\ pumps'[i].item = output_queue[1]
            /\ \A p \in Pumps : p # i => pumps'[p] = pumps[p]
        BY <2>3 DEF Runtime!poll_output, RuntimeTypeOK
      <3>2. /\ 1 \in DOMAIN output_queue
            /\ \A n \in DOMAIN output_queue' : n + 1 \in DOMAIN output_queue /\ 1 < n + 1 /\ n \in Int
                                               /\ output_queue'[n] = output_queue[n + 1]
        BY <2>3 DEF Runtime!poll_output, RuntimeTypeOK
      <3>3. \A p \in Pumps : p # i => pumps[p].phase # "publish"
        BY <2>3 DEF Runtime!poll_output, OnePump
      <3>4. QueueInOrder'
        BY <3>1, <3>2 DEF QueueInOrder
      <3>5. PublishedFirst' /\ Runtime!PublishedInOrder'
        BY <3>1, <3>2 DEF PublishedFirst, Runtime!PublishedInOrder
      <3>6. TakenBetween'
        BY <3>1, <3>2, <3>3 DEF TakenBetween, QueueInOrder, PublishedFirst
      <3> QED BY <3>4, <3>5, <3>6
    <2>4. ASSUME NEW i \in Pumps, Runtime!_publish_adapter_item(i)
          PROVE QueueInOrder' /\ PublishedFirst' /\ TakenBetween' /\ Runtime!PublishedInOrder'
      <3>1. /\ output_queue' = output_queue /\ emitted' = emitted
            /\ pumps[i].phase = "publish" /\ pumps'[i].phase = "test"
            /\ \A p \in Pumps : p # i => pumps'[p] = pumps[p]
        BY <2>4 DEF Runtime!_publish_adapter_item, RuntimeTypeOK
      <3>2. \A p \in Pumps : pumps'[p].phase # "publish"
        BY <3>1 DEF OnePump
      <3>3. \/ published' = published
            \/ /\ Len(published) \in Nat /\ DOMAIN published = 1..Len(published)
               /\ DOMAIN published' = 1..Len(published) + 1
               /\ published'[Len(published) + 1] = pumps[i].item
               /\ \A k \in 1..Len(published) : published'[k] = published[k]
        BY <2>4 DEF Runtime!_publish_adapter_item, RuntimeTypeOK, PumpStates
      <3>4. QueueInOrder' /\ TakenBetween'
        BY <3>1, <3>2 DEF QueueInOrder, TakenBetween
      <3>5. PublishedFirst'
        BY <3>1, <3>3 DEF PublishedFirst, TakenBetween
      <3>6. Runtime!PublishedInOrder'
        BY <3>1, <3>3 DEF Runtime!PublishedInOrder, TakenBetween
      <3> QED BY <3>4, <3>5, <3>6
    <2>5. CASE /\ UNCHANGED <<output_queue, emitted, published>>
               /\ \A p \in Pumps : pumps'[p].phase = "publish" => pumps'[p] = pumps[p]
      <3>1. QueueInOrder' /\ PublishedFirst' /\ Runtime!PublishedInOrder'
        BY <2>5 DEF QueueInOrder, PublishedFirst, Runtime!PublishedInOrder
      <3>2. TakenBetween'
        BY <2>5 DEF TakenBetween
      <3> QED BY <3>1, <3>2
    <2>6. \/ Runtime!construct \/ Runtime!emit
          \/ \E i \in Pumps :
                \/ Runtime!poll_output(i) /\ output_queue # << >>
                \/ Runtime!_publish_adapter_item(i)
          \/ /\ UNCHANGED <<output_queue, emitted, published>>
             /\ \/ pumps' = pumps
                \/ \E i \in Pumps \cup {rt.starts}, phase \in {"test", "poll", "ended"} :
                     \/ pumps' = [pumps EXCEPT ![i].phase = phase]
                     \/ pumps' = [pumps EXCEPT ![i] = [phase |-> phase, item |-> 0]]
      BY DEF Pumps, Runtime!Next, Runtime!start_in_thread, Runtime!stop,
          Runtime!OwnerStep, Runtime!bind, Runtime!connect, Runtime!spawn,
          Runtime!start_raises, Runtime!join, Runtime!close, Runtime!disconnect,
          Runtime!mark_down, Runtime!PumpStep, Runtime!pump_test, Runtime!poll_output,
          Runtime!pump_raises, Runtime!dispatch_write, Runtime!write_refused,
          Runtime!CommandStep, Runtime!exchange_decides, Runtime!adapter_answers,
          Runtime!adapter_raises
    <2>7. ASSUME NEW i \in Pumps \cup {rt.starts}, NEW phase \in {"test", "poll", "ended"},
                 \/ pumps' = [pumps EXCEPT ![i].phase = phase]
                 \/ pumps' = [pumps EXCEPT ![i] = [phase |-> phase, item |-> 0]]
          PROVE  \A p \in Pumps : pumps'[p].phase = "publish" => pumps'[p] = pumps[p]
      BY <2>7 DEF RuntimeTypeOK, PumpStates
    <2> QED BY <2>1, <2>2, <2>3, <2>4, <2>5, <2>6, <2>7
  <1> QED BY <1>1, <1>2

(* A write is answered once: by the adapter, which is truthful, as unknown *)
(* when it raises, and as rejected when it was not sent.                   *)
LEMMA AcksStayTrue == AcknowledgementsAreTrue /\ Runtime!Next => AcknowledgementsAreTrue'
  <1> SUFFICES ASSUME AcknowledgementsAreTrue, Runtime!Next PROVE AcknowledgementsAreTrue'
    OBVIOUS
  <1> USE DEF AcknowledgementsAreTrue, Runtime!AcknowledgementsAreTrue
  <1>1. CASE Runtime!adapter_answers
    BY <1>1 DEF Runtime!adapter_answers, Runtime!Acknowledge, Runtime!Truthful,
        Runtime!_write_result
  <1>2. CASE Runtime!adapter_raises \/ Runtime!write_refused
    BY <1>2 DEF Runtime!adapter_raises, Runtime!write_refused, Runtime!Acknowledge
  <1>3. CASE UNCHANGED ack
    BY <1>3
  <1>4. \/ Runtime!adapter_answers \/ Runtime!adapter_raises \/ Runtime!write_refused
        \/ UNCHANGED ack
    BY DEF Runtime!Next, Runtime!start_in_thread, Runtime!stop, Runtime!OwnerStep,
        Runtime!bind, Runtime!construct, Runtime!connect, Runtime!spawn,
        Runtime!start_raises, Runtime!join, Runtime!close, Runtime!disconnect,
        Runtime!mark_down, Runtime!emit, Runtime!PumpStep, Runtime!pump_test,
        Runtime!poll_output, Runtime!_publish_adapter_item, Runtime!pump_raises,
        Runtime!dispatch_write, Runtime!CommandStep, Runtime!exchange_decides
  <1> QED BY <1>1, <1>2, <1>3, <1>4

(* The invariant holds from the constructor on.                            *)
LEMMA RuntimeInvHolds == Runtime!Spec => []RuntimeInv
  <1>1. Runtime!Init => HoldsInv
    <2> SUFFICES ASSUME Runtime!Init PROVE HoldsInv
      OBVIOUS
    <2>1. rt \in Attributes
      BY DEF Runtime!Init, Attributes
    <2>2. pumps \in [Pumps -> PumpStates]
      BY DEF Runtime!Init, Pumps, PumpStates, Runtime!NoPump
    <2>3. RuntimeTypeOK
      BY <2>1, <2>2 DEF Runtime!Init, RuntimeTypeOK
    <2>4. StateOfOwner /\ HeldByOwner
      BY DEF Runtime!Init, StateOfOwner, HeldByOwner, Starting, Stopping, Down
    <2> QED BY <2>3, <2>4 DEF HoldsInv
  <1>2. Runtime!Init => EventsOrdered
    <2> SUFFICES ASSUME Runtime!Init PROVE EventsOrdered
      OBVIOUS
    <2>1. OnePump
      BY DEF Runtime!Init, OnePump, Pumps, Runtime!NoPump
    <2>2. QueueInOrder /\ PublishedFirst /\ Runtime!PublishedInOrder
      BY DEF Runtime!Init, QueueInOrder, PublishedFirst, Runtime!PublishedInOrder
    <2>3. TakenBetween
      BY DEF Runtime!Init, TakenBetween, Pumps, Runtime!NoPump
    <2> QED BY <2>1, <2>2, <2>3 DEF EventsOrdered
  <1>3. RuntimeInv /\ [Runtime!Next]_Runtime!vars => RuntimeInv'
    <2> SUFFICES ASSUME RuntimeInv, [Runtime!Next]_Runtime!vars PROVE RuntimeInv'
      OBVIOUS
    <2>1. CASE Runtime!Next
      BY <2>1, HoldingKept, OrderKept DEF RuntimeInv
    <2>2. CASE UNCHANGED Runtime!vars
      <3> USE <2>2 DEF Runtime!vars
      <3>1. RuntimeTypeOK' <=> RuntimeTypeOK
        BY DEF RuntimeTypeOK
      <3>2. (StateOfOwner' <=> StateOfOwner) /\ (HeldByOwner' <=> HeldByOwner)
        BY DEF StateOfOwner, HeldByOwner, Starting, Stopping, Down
      <3>3. OnePump' <=> OnePump
        BY DEF OnePump, Starting, Down
      <3>4. (QueueInOrder' <=> QueueInOrder) /\ (PublishedFirst' <=> PublishedFirst)
        BY DEF QueueInOrder, PublishedFirst
      <3>5. (TakenBetween' <=> TakenBetween) /\ (Runtime!PublishedInOrder' <=> Runtime!PublishedInOrder)
        BY DEF TakenBetween, Runtime!PublishedInOrder
      <3> QED BY <3>1, <3>2, <3>3, <3>4, <3>5 DEF RuntimeInv, HoldsInv, EventsOrdered
    <2> QED BY <2>1, <2>2
  <1> QED BY <1>1, <1>2, <1>3, PTL DEF Runtime!Spec, RuntimeInv

-----------------------------------------------------------------------------
(* Whatever the adapter answers or raises, a write that the exchange has   *)
(* taken is not acknowledged as rejected, and only one that it has taken   *)
(* as accepted: _write_result and _handle_command.                         *)
THEOREM AcknowledgementsTrue == Runtime!Spec => []AcknowledgementsAreTrue
  <1>1. Runtime!Init => AcknowledgementsAreTrue
    BY DEF Runtime!Init, AcknowledgementsAreTrue, Runtime!AcknowledgementsAreTrue
  <1>2. UNCHANGED Runtime!vars => (AcknowledgementsAreTrue <=> AcknowledgementsAreTrue')
    BY DEF Runtime!vars, AcknowledgementsAreTrue, Runtime!AcknowledgementsAreTrue
  <1> QED BY <1>1, <1>2, AcksStayTrue, PTL DEF Runtime!Spec

(* When start_in_thread or stop has returned and the runtime does not run, *)
(* _cleanup has left no server, and no adapter connected that did not fail *)
(* to disconnect: even where a pump outlasts its join.                     *)
THEOREM IdleHolds == Runtime!Spec => []Runtime!IdleHoldsNothing
  <1>1. RuntimeInv => Runtime!IdleHoldsNothing
    BY DEF RuntimeInv, HoldsInv, StateOfOwner, HeldByOwner, Down,
        Runtime!IdleHoldsNothing
  <1> QED BY <1>1, RuntimeInvHolds, PTL

(* A runtime whose pumps end within the join of _cleanup publishes the     *)
(* events of an adapter in the order it put them out, over stops, restarts *)
(* and exceptions (_pump_adapter_output).                                  *)
THEOREM EventsInOrder == Runtime!Spec => [](~SlowPump => Runtime!PublishedInOrder)
  <1>1. RuntimeInv => (~SlowPump => Runtime!PublishedInOrder)
    BY DEF RuntimeInv, EventsOrdered
  <1> QED BY <1>1, RuntimeInvHolds, PTL

(* Both together: what a runtime that does not run holds, and the order of *)
(* what it publishes.                                                      *)
THEOREM RuntimeStaysClean == Runtime!Spec => []RuntimeIsClean
  <1>1. Runtime!IdleHoldsNothing /\ (~SlowPump => Runtime!PublishedInOrder) => RuntimeIsClean
    BY DEF RuntimeIsClean, Runtime!RuntimeIsClean
  <1> QED BY <1>1, IdleHolds, EventsInOrder, PTL

-----------------------------------------------------------------------------
(* A step of one part leaves the other as it is. *)
LEMMA EachPartRuns == ThreadsSpec => Spec /\ Runtime!Spec
  <1>1. ThreadsInit => Init /\ Runtime!Init
    BY DEF ThreadsInit
  <1>2. [ThreadsNext]_threads => [Next]_vars
    BY DEF ThreadsNext, WriterRuns, RuntimeRuns, threads
  <1>3. [ThreadsNext]_threads => [Runtime!Next]_Runtime!vars
    BY DEF ThreadsNext, WriterRuns, RuntimeRuns, threads, runtime, Runtime!vars
  <1> QED BY <1>1, <1>2, <1>3, PTL DEF ThreadsSpec, Spec, Runtime!Spec

(* The two parts as the run takes them, each as if it were alone: what     *)
(* TickWriter._flush_symbol, GatewayRuntime._handle_command and _cleanup   *)
(* keep.                                                                   *)
THEOREM ThreadsAreSafe ==
    ThreadsSpec => [](TicksAreKept /\ AcknowledgementsAreTrue /\ RuntimeIsClean)
  <1> QED BY EachPartRuns, TicksKept, AcknowledgementsTrue, RuntimeStaysClean, PTL
=============================================================================
