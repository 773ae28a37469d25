----------------------------- MODULE AutoInitMixin -----------------------------
(***************************************************************************)
(* containers/auto_init_mixin.py: a container whose getters parse its data *)
(* on the first use.  Threads may share a container; init_data, which is   *)
(* each container's own, may call getters of it and may fail.              *)
(***************************************************************************)
CONSTANT Threads

VARIABLES
    _initialized,       \* the flag
    parsed,             \* init_data has filled the fields
    thread,             \* where the getter each thread calls is
    overlapped,         \* history: another thread was in init_data during the call
    read                \* history: the last field read was filled, or excused

vars == <<_initialized, parsed, thread, overlapped, read>>

Init ==
    /\ _initialized = FALSE /\ parsed = FALSE
    /\ thread = [t \in Threads |-> "idle"]
    /\ overlapped = [t \in Threads |-> FALSE]
    /\ read = TRUE

-----------------------------------------------------------------------------
Goto(t, pc) == thread' = [thread EXCEPT ![t] = pc]

(* A getter that needs the data looks at the flag.                         *)
__getattribute__(t) ==
    /\ thread[t] = "idle"
    /\ Goto(t, IF _initialized THEN "get" ELSE "ensure")
    /\ overlapped' = [overlapped EXCEPT ![t] = \E o \in Threads : thread[o] = "init_data"]
    /\ UNCHANGED <<_initialized, parsed, read>>

(* It looks again; between that and the flag another may do the same.     *)
_ensure_init(t) ==
    /\ thread[t] = "ensure"
    /\ Goto(t, IF _initialized THEN "get" ELSE "set")
    /\ UNCHANGED <<_initialized, parsed, overlapped, read>>

(* The flag is set before init_data, so that getters called there just     *)
(* read.                                                                   *)
begin(t) ==
    /\ thread[t] = "set"
    /\ Goto(t, "init_data")
    /\ _initialized' = TRUE
    /\ overlapped' = [o \in Threads |->
          overlapped[o] \/ (IF o = t THEN \E other \in Threads : thread[other] = "init_data"
                            ELSE thread[o] # "idle")]
    /\ UNCHANGED <<parsed, read>>

(* init_data is through. *)
init_data(t) ==
    /\ thread[t] = "init_data"
    /\ parsed' = TRUE
    /\ Goto(t, "get")
    /\ UNCHANGED <<_initialized, overlapped, read>>

(* Faulty variant: the flag stays set when init_data fails.                *)
init_data_raises_Flagged(t) ==
    /\ thread[t] = "init_data"
    /\ Goto(t, "idle")
    /\ UNCHANGED <<_initialized, parsed, overlapped, read>>

(* init_data raises, and so does the getter; the next one tries again.     *)
init_data_raises(t) ==
    /\ thread[t] = "init_data"
    /\ _initialized' = FALSE
    /\ Goto(t, "idle")
    /\ UNCHANGED <<parsed, overlapped, read>>

(* The getter itself.                                                      *)
get(t) ==
    /\ thread[t] = "get"
    /\ Goto(t, "idle")
    /\ read' = (parsed \/ overlapped[t])
    /\ UNCHANGED <<_initialized, parsed, overlapped>>

Next == \E t \in Threads :
    \/ __getattribute__(t) \/ _ensure_init(t) \/ begin(t) \/ init_data(t) \/ init_data_raises(t) \/ get(t)

Spec == Init /\ [][Next]_vars

-----------------------------------------------------------------------------
(* A getter that returns has read data that was parsed, after failures and *)
(* with getters called by init_data itself, unless another thread was      *)
(* parsing during the call (_ensure_init, __getattribute__).               *)
DataIsRead == read
================================================================================
