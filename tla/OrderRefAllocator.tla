-------------------------- MODULE OrderRefAllocator --------------------------
(***************************************************************************)
(* gateway/order_ref_allocator.py: the counter that gives every CTP order  *)
(* its OrderRef and remembers the last one in a state file.                *)
(*                                                                         *)
(* The methods run under one RLock, so calls of two threads do not         *)
(* interleave; what does interleave with a call is the end of the process. *)
(* A call is therefore cut where a crash is visible: after the new value   *)
(* is computed, after the temporary file is written, after os.replace, and *)
(* before the caller gets its answer.  A persist that fails is only        *)
(* logged: the call returns as if it had succeeded.                        *)
(*                                                                         *)
(* The state file is a number (the value under last_order_ref; the other   *)
(* keys are carried over unchanged and left out), no file, a file whose    *)
(* JSON or payload is unusable, or a file that is not UTF-8 text.          *)
(***************************************************************************)
EXTENDS Integers, Sequences

CONSTANTS
    InitialValue,   \* initial_value of the constructor
    AlignArgs,      \* arguments of align_with_max
    ResetArgs,      \* arguments of reset
    NoFile, BadJson, Undecodable,   \* the state file when it is no number
    MaxRef,         \* bound: the largest ref given out
    MaxIssued,      \* bound: calls of next that are answered
    MaxFailures,    \* bound: loads and persists that meet an OSError
    MaxCrashes      \* bound: ends of the process

NotANumber == {NoFile, BadJson, Undecodable}

ASSUME ArgumentTypes ==
    /\ InitialValue \in Nat
    /\ AlignArgs \subseteq Int
    /\ ResetArgs \subseteq Nat
    /\ MaxRef \in Nat /\ MaxIssued \in Nat
    /\ MaxFailures \in Nat /\ MaxCrashes \in Nat

ASSUME FileKindsDistinct ==
    /\ NotANumber \cap Nat = {}
    /\ NoFile # Undecodable /\ BadJson # Undecodable

VARIABLES
    up,         \* an allocator object exists
    value,      \* _value
    file,       \* what the state file holds
    pc,         \* where the call that holds the lock is
    op,         \* the method of that call
    issued,     \* history: the refs next has returned, in order
    persisted,  \* history: the latest persist of this process succeeded
    lost,       \* history: a crash came after a failed persist, a load
                \* failed on a file that knew more than the default, or
                \* reset went below the current value
    failures, crashes   \* counters for the bounds

vars == <<up, value, file, pc, op, issued, persisted, lost, failures, crashes>>

-----------------------------------------------------------------------------
Larger(m, n) == IF m > n THEN m ELSE n

(* _load: a saved value wins only over a smaller one; a file whose content *)
(* is unusable is logged and ignored.                                      *)
LoadedValue(f) ==
    IF f \in NotANumber THEN InitialValue ELSE Larger(InitialValue, f)

Init ==
    /\ up = FALSE
    /\ value = 0
    /\ file \in NotANumber \cup {0}
    /\ pc = "idle" /\ op = "none"
    /\ issued = << >>
    /\ persisted = TRUE /\ lost = FALSE
    /\ failures = 0 /\ crashes = 0

construct ==
    /\ ~up
    /\ up' = TRUE
    /\ value' = LoadedValue(file)
    /\ persisted' = TRUE
    /\ UNCHANGED <<file, pc, op, issued, lost, failures, crashes>>

(* The file cannot be read just now: the OSError is logged, the default    *)
(* stands, and a file that was in order is ignored like an unusable one.   *)
load_fails ==
    /\ ~up /\ file # NoFile
    /\ failures < MaxFailures
    /\ failures' = failures + 1
    /\ up' = TRUE
    /\ value' = InitialValue
    /\ persisted' = TRUE
    /\ lost' = (lost \/ LoadedValue(file) # InitialValue)
    /\ UNCHANGED <<file, pc, op, issued, crashes>>

Idle == up /\ pc = "idle"

next ==
    /\ Idle
    /\ value < MaxRef /\ Len(issued) < MaxIssued
    /\ value' = value + 1
    /\ pc' = "persist" /\ op' = "next"
    /\ UNCHANGED <<up, file, issued, persisted, lost, failures, crashes>>

(* Faulty variant: the value of the front end is taken even when smaller. *)
align_with_max_Blind(max_val) ==
    /\ Idle
    /\ value' = max_val
    /\ pc' = "persist" /\ op' = "align_with_max"
    /\ UNCHANGED <<up, file, issued, persisted, lost, failures, crashes>>

(* align_with_max: never lowers the value, persists in either case.        *)
align_with_max(max_val) ==
    /\ Idle
    /\ value' = Larger(value, max_val)
    /\ pc' = "persist" /\ op' = "align_with_max"
    /\ UNCHANGED <<up, file, issued, persisted, lost, failures, crashes>>

reset(v) ==
    /\ Idle
    /\ value' = v
    /\ lost' = (lost \/ v < value)
    /\ pc' = "persist" /\ op' = "reset"
    /\ UNCHANGED <<up, file, issued, persisted, failures, crashes>>

(***************************************************************************)
(* _persist_locked.  Reading the old file tolerates every unusable content *)
(* but text that is not UTF-8: UnicodeDecodeError is a ValueError that the *)
(* inner except does not name, so the outer one gives the persist up.      *)
(***************************************************************************)
write_temp ==
    /\ pc = "persist" /\ file # Undecodable
    /\ pc' = "replace"
    /\ UNCHANGED <<up, value, file, op, issued, persisted, lost, failures, crashes>>

(* Faulty variant: next persists before it increments. *)
os_replace_OldValue ==
    /\ pc = "replace"
    /\ file' = Larger(0, value - 1)
    /\ pc' = "return" /\ persisted' = TRUE
    /\ UNCHANGED <<up, value, op, issued, lost, failures, crashes>>

os_replace ==
    /\ pc = "replace"
    /\ file' = value
    /\ pc' = "return" /\ persisted' = TRUE
    /\ UNCHANGED <<up, value, op, issued, lost, failures, crashes>>

undecodable_state ==
    /\ pc = "persist" /\ file = Undecodable
    /\ pc' = "return" /\ persisted' = FALSE
    /\ UNCHANGED <<up, value, file, op, issued, lost, failures, crashes>>

(* mkdir, the temporary file or os.replace meets an OSError.               *)
persist_fails ==
    /\ pc \in {"persist", "replace"}
    /\ failures < MaxFailures
    /\ failures' = failures + 1
    /\ pc' = "return" /\ persisted' = FALSE
    /\ UNCHANGED <<up, value, file, op, issued, lost, crashes>>

(* The lock is released and the call returns; next hands out its value.    *)
return ==
    /\ pc = "return"
    /\ issued' = IF op = "next" THEN Append(issued, value) ELSE issued
    /\ pc' = "idle" /\ op' = "none"
    /\ UNCHANGED <<up, value, file, persisted, lost, failures, crashes>>

(* The process ends, at any point of a call; only the file survives.       *)
crash ==
    /\ up /\ crashes < MaxCrashes
    /\ crashes' = crashes + 1
    /\ up' = FALSE
    /\ value' = 0 /\ pc' = "idle" /\ op' = "none"
    /\ lost' = (lost \/ ~persisted)
    /\ UNCHANGED <<file, issued, persisted, failures>>

Persist == write_temp \/ os_replace \/ undecodable_state \/ persist_fails

Next ==
    \/ construct \/ load_fails \/ next \/ return \/ crash
    \/ Persist
    \/ \E m \in AlignArgs : align_with_max(m)
    \/ \E v \in ResetArgs : reset(v)

Spec == Init /\ [][Next]_vars

-----------------------------------------------------------------------------
Saved(f) == IF f \in NotANumber THEN 0 ELSE f

Increasing(s) == \A i, j \in 1..Len(s) : i < j => s[i] < s[j]

(* The fields of the allocator and of the file keep their types.           *)
TypeOK ==
    /\ up \in BOOLEAN /\ persisted \in BOOLEAN /\ lost \in BOOLEAN
    /\ value \in Nat
    /\ file \in Nat \cup NotANumber
    /\ pc \in {"idle", "persist", "replace", "return"}
    /\ op \in {"none", "next", "align_with_max", "reset"}
    /\ issued \in Seq(Nat)
    /\ failures \in Nat /\ crashes \in Nat

(* Over any number of crashes, at any point of a call, and over persists   *)
(* that fail and are made good by a later one, the refs next returns       *)
(* strictly increase, so no two orders of the account share an OrderRef.   *)
(* The three ways out are the ones the code leaves open: the process ended *)
(* while its latest persist had failed, a new one could not read a file    *)
(* that was in order, or reset lowered the value.                          *)
RefsIncrease == ~lost => Increasing(issued)

(* Once a persist has succeeded the state file covers every ref given out, *)
(* the ones whose own persist failed included.                             *)
FileCoversIssued ==
    (up /\ persisted /\ ~lost) =>
        \A i \in 1..Len(issued) : issued[i] <= Saved(file)
=============================================================================
