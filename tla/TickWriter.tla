----------------------------- MODULE TickWriter ------------------------------
(***************************************************************************)
(* gateway/storage/tick_writer.py: ticks are buffered per symbol and       *)
(* appended to one Parquet file per symbol by three threads: the caller of *)
(* write when a buffer is full, the flush thread, and the caller of stop.  *)
(* The buffers are guarded by a lock, the files are not: appending is      *)
(* reading the whole file, truncating it and writing it back.              *)
(*                                                                         *)
(* A tick is abstracted to its number within its symbol, a trading day to  *)
(* one file.  The three counters that only logging and snapshot read are   *)
(* left out.  The file system is external: reading and writing may fail,   *)
(* and a write that fails leaves a file that cannot be read any more.      *)
(***************************************************************************)
EXTENDS Integers, Sequences, FiniteSets

CONSTANTS
    Symbols,
    flush_count,    \* rows in a buffer that make write flush it
    MaxRows,        \* bound: ticks per symbol
    MaxErrors,      \* bound: failures of the file system
    MaxStarts,      \* bound: calls of start
    SlowFlush       \* may the flush thread outlast the join of stop?

Threads == {"writer", "flusher", "stopper"}

VARIABLES
    running,    \* _running
    buffers,    \* _buffers; a missing key is an empty sequence
    disk,       \* per symbol: the rows last written, and is the file valid
    pc,         \* where each thread is
    todo,       \* symbols its _flush_all still has to flush
    flushing,   \* per thread: symbol, rows popped, rows read from the file
    written,    \* ticks written so far, per symbol
    errors, starts,     \* counters for the bounds
    raced,      \* history: symbols two threads have flushed at a time
    due         \* history: written when the flush of stop began, per
                \* symbol; 0 again when something went wrong or it restarts

vars == <<running, buffers, disk, pc, todo, flushing, written, errors, starts, raced, due>>

Nothing == [sym |-> CHOOSE s \in Symbols : TRUE, rows |-> << >>, existing |-> << >>]
NotDue == [s \in Symbols |-> 0]

Init ==
    /\ running = FALSE
    /\ buffers = [s \in Symbols |-> << >>]
    /\ disk = [s \in Symbols |-> [rows |-> << >>, valid |-> TRUE]]
    /\ pc = [t \in Threads |-> "idle"]
    /\ todo = [t \in Threads |-> {}]
    /\ flushing = [t \in Threads |-> Nothing]
    /\ written = [s \in Symbols |-> 0]
    /\ errors = 0 /\ starts = 0
    /\ raced = {} /\ due = NotDue

-----------------------------------------------------------------------------
Goto(t, label) == pc' = [pc EXCEPT ![t] = label]

(* start: nothing while running; a second flush thread only once the first *)
(* has ended (a start while an old one outlives its join is left out).     *)
start ==
    /\ ~running /\ starts < MaxStarts
    /\ pc["flusher"] = "idle" /\ pc["stopper"] = "idle"
    /\ running' = TRUE
    /\ starts' = starts + 1
    /\ Goto("flusher", "check")
    /\ due' = NotDue
    /\ UNCHANGED <<buffers, disk, todo, flushing, written, errors, raced>>

write(symbol) ==
    /\ pc["writer"] = "idle"
    /\ written[symbol] < MaxRows
    /\ written' = [written EXCEPT ![symbol] = @ + 1]
    /\ buffers' = [buffers EXCEPT ![symbol] = Append(@, written[symbol] + 1)]
    /\ todo' = [todo EXCEPT !["writer"] =
                   IF Len(buffers'[symbol]) >= flush_count THEN {symbol} ELSE {}]
    /\ Goto("writer", "next")
    /\ UNCHANGED <<running, disk, flushing, errors, starts, raced, due>>

(* _flush_all takes the keys of the buffers under the lock. *)
Keys == {s \in Symbols : buffers[s] # << >>}

(* The flush thread tests running, sleeps, and flushes when the interval   *)
(* has passed, also when running was cleared meanwhile.                    *)
_flush_loop ==
    /\ \/ /\ pc["flusher"] = "check"
          /\ Goto("flusher", IF running THEN "sleep" ELSE "idle")
       \/ /\ pc["flusher"] = "sleep"
          /\ Goto("flusher", "check")
    /\ UNCHANGED <<running, buffers, disk, todo, flushing, written, errors, starts, raced, due>>

(* Faulty variant: the interval never passes. *)
interval_passed_Never == FALSE /\ UNCHANGED vars

interval_passed ==
    /\ pc["flusher"] = "sleep"
    /\ todo' = [todo EXCEPT !["flusher"] = Keys]
    /\ Goto("flusher", "next")
    /\ UNCHANGED <<running, buffers, disk, flushing, written, errors, starts, raced, due>>

(* No flush has failed whose rows are not back in the buffer yet. *)
NonePending == \A t \in Threads : pc[t] # "requeue"

(* Faulty variant: stop does not flush what the flush thread left. *)
FinalFlush_None == {}

FinalFlush == Keys

(* stop: clear running, join the flush thread for at most ten seconds,     *)
(* flush what is left.                                                     *)
stop ==
    /\ \/ /\ pc["stopper"] = "idle"
          /\ running' = FALSE
          /\ Goto("stopper", "join")
          /\ UNCHANGED <<todo, due>>
       \/ /\ pc["stopper"] = "join"
          /\ pc["flusher"] = "idle" \/ SlowFlush
          /\ todo' = [todo EXCEPT !["stopper"] = FinalFlush]
          /\ due' = IF pc["flusher"] = "idle" /\ NonePending THEN written ELSE NotDue
          /\ Goto("stopper", "next")
          /\ UNCHANGED running
    /\ UNCHANGED <<buffers, disk, flushing, written, errors, starts, raced>>

-----------------------------------------------------------------------------
(***************************************************************************)
(* _flush_symbol, by any of the three threads.                             *)
(***************************************************************************)
Busy(s) == {t \in Threads : pc[t] \in {"read", "truncate", "commit", "requeue"}
                              /\ flushing[t].sym = s}

(* Where a thread goes when its symbols are done. *)
AfterFlush(t) == IF t = "flusher" THEN "check" ELSE "idle"

flush_done(t) ==
    /\ pc[t] = "next" /\ todo[t] = {}
    /\ Goto(t, AfterFlush(t))
    /\ UNCHANGED <<running, buffers, disk, todo, flushing, written, errors, starts, raced, due>>

(* Faulty variant: the rows are read but left in the buffer. *)
LeftInBuffer_All(s) == buffers[s]

LeftInBuffer(s) == << >>

AfterPop(s) == IF buffers[s] = << >> THEN "next" ELSE "read"

pop(t) ==
    /\ pc[t] = "next"
    /\ \E s \in todo[t] :
         /\ todo' = [todo EXCEPT ![t] = @ \ {s}]
         /\ buffers' = [buffers EXCEPT ![s] = LeftInBuffer(s)]
         /\ flushing' = [flushing EXCEPT ![t] =
                           [sym |-> s, rows |-> buffers[s], existing |-> << >>]]
         /\ Goto(t, AfterPop(s))
         /\ raced' = IF buffers[s] # << >> /\ Busy(s) # {} THEN raced \cup {s} ELSE raced
    /\ UNCHANGED <<running, disk, written, errors, starts, due>>

read_existing(t) ==
    LET s == flushing[t].sym
    IN  /\ pc[t] = "read" /\ disk[s].valid
        /\ flushing' = [flushing EXCEPT ![t].existing = disk[s].rows]
        /\ Goto(t, "truncate")
        /\ UNCHANGED <<running, buffers, disk, todo, written, errors, starts, raced, due>>

(* pq.write_table opens the file for writing, then completes it. *)
truncate(t) ==
    /\ pc[t] = "truncate"
    /\ disk' = [disk EXCEPT ![flushing[t].sym].valid = FALSE]
    /\ Goto(t, "commit")
    /\ UNCHANGED <<running, buffers, todo, flushing, written, errors, starts, raced, due>>

TableToWrite(t) == flushing[t].existing \o flushing[t].rows

commit(t) ==
    /\ pc[t] = "commit"
    /\ disk' = [disk EXCEPT ![flushing[t].sym] =
                  [rows |-> TableToWrite(t), valid |-> TRUE]]
    /\ Goto(t, "next")
    /\ UNCHANGED <<running, buffers, todo, flushing, written, errors, starts, raced, due>>

(* The file cannot be read (another thread is writing it, or an earlier    *)
(* write failed), or the file system refuses a read or a write.            *)
flush_raises(t) ==
    /\ \/ pc[t] = "read" /\ ~disk[flushing[t].sym].valid /\ UNCHANGED errors
       \/ /\ pc[t] \in {"read", "truncate", "commit"}
          /\ errors < MaxErrors /\ errors' = errors + 1
    /\ Goto(t, "requeue")
    /\ due' = NotDue
    /\ UNCHANGED <<running, buffers, disk, todo, flushing, written, starts, raced>>

(* Faulty variant: the rows go behind the ones that came meanwhile. *)
PutBack_Behind(t) == buffers[flushing[t].sym] \o flushing[t].rows

PutBack(t) == flushing[t].rows \o buffers[flushing[t].sym]

requeue(t) ==
    /\ pc[t] = "requeue"
    /\ buffers' = [buffers EXCEPT ![flushing[t].sym] = PutBack(t)]
    /\ Goto(t, "next")
    /\ UNCHANGED <<running, disk, todo, flushing, written, errors, starts, raced, due>>

_flush_symbol(t) ==
    \/ pop(t) \/ read_existing(t) \/ truncate(t) \/ commit(t)
    \/ flush_raises(t) \/ requeue(t) \/ flush_done(t)

Next ==
    \/ start \/ stop \/ _flush_loop \/ interval_passed
    \/ \E s \in Symbols : write(s)
    \/ \E t \in Threads : _flush_symbol(t)

Spec == Init /\ [][Next]_vars

(* The threads run, and the flush thread, which looks at the clock after   *)
(* every sleep, sees the interval pass again and again.  Nothing makes a   *)
(* caller write, start or stop.                                            *)
FairSpec ==
    /\ Spec
    /\ WF_vars(_flush_loop) /\ SF_vars(interval_passed)
    /\ \A t \in Threads : WF_vars(_flush_symbol(t))

-----------------------------------------------------------------------------
Numbers(n) == [i \in 1..n |-> i]

(* The rows of s a thread has popped and neither written nor put back. *)
InHand(t, s) ==
    IF t \in Busy(s) THEN flushing[t].rows ELSE << >>

HeldRows(s) == InHand("writer", s) \o InHand("flusher", s) \o InHand("stopper", s)

(* Unless two threads flush a symbol at the same time, every tick written  *)
(* is in the file, in the hands of one thread or in the buffer, and in the *)
(* order it came, whatever reads and writes fail in between.  (The rows of *)
(* a file that a failed write has destroyed count as in the file.)         *)
RowsInOrder ==
    \A s \in Symbols \ raced :
        disk[s].rows \o HeldRows(s) \o buffers[s] = Numbers(written[s])

(* Not even a race of two flushes makes a tick appear twice.               *)
NoRowTwice ==
    \A s \in Symbols :
        LET all == disk[s].rows \o HeldRows(s) \o buffers[s]
        IN  \A i, j \in 1..Len(all) : i # j => all[i] # all[j]

(* When stop has returned, the flush thread had ended and no read or write *)
(* failed, every tick written before the final flush is in the file or in  *)
(* the hands of the thread that is calling write.                          *)
StopDrains ==
    \A s \in Symbols \ raced :
        (pc["stopper"] = "idle" /\ ~running) =>
            \A n \in 1..due[s] :
                \E i \in 1..Len(disk[s].rows \o InHand("writer", s)) :
                    (disk[s].rows \o InHand("writer", s))[i] = n

TicksAreKept == NoRowTwice /\ RowsInOrder /\ StopDrains

(* While the file system works, a tick does not stay buffered for ever     *)
(* under a running flush thread.                                           *)
Buffered(s) == written[s] > 0 /\ running
OnDiskOrExcused(s) ==
    ~running \/ Len(disk[s].rows) = written[s] \/ errors > 0 \/ s \in raced

TicksReachDisk == \A s \in Symbols : Buffered(s) ~> OnDiskOrExcused(s)
=============================================================================
