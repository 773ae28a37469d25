----------------------------- MODULE CacheService -----------------------------
(***************************************************************************)
(* core/services.py: CacheService, one key of it.  A value is kept in      *)
(* Redis, which several processes share, and in a dictionary of the        *)
(* process, which answers when Redis has nothing or fails.  Redis may fail *)
(* in any call, which is logged and otherwise ignored, and may lose the    *)
(* key.                                                                    *)
(*                                                                         *)
(* Redis holds the JSON text of a value (json.dumps with default=str), so  *)
(* what json.loads gives back is not always what was set: a tuple comes    *)
(* back as a list, a date or any other object as its string, a key that is *)
(* no string as one.  The dictionary keeps a deep copy.  What a value is   *)
(* matters only in this respect, its kind; values are numbered in the      *)
(* order they are set.  Times to live are left out, but for the loss of    *)
(* the key in Redis, and so is a value that json.dumps refuses: set raises *)
(* then before it does anything.                                           *)
(***************************************************************************)
EXTENDS Naturals

CONSTANTS
    Tasks,
    Processes,
    ProcessOf,          \* the process a task runs in
    MaxValues,          \* bound: values ever set
    MaxFailures         \* bound: failures of Redis

VARIABLES
    redis,              \* what Redis' text reads as, Nothing for none
    _local_cache,       \* the value in the dictionary of each process
    task,               \* what each task does
    values, failures,   \* counters for the bounds
    settled             \* history: what the last write left, if it was alone
                        \* and Redis took it, and the process that wrote it

vars == <<redis, _local_cache, task, values, failures, settled>>

(* "plain": JSON gives the value back as it is; "rich": changed;           *)
(* "uncopied": changed, and copy.deepcopy raises for it (a lock, a file).  *)
(* "changed": what JSON gives back for one of the last two.                *)
Kinds == {"plain", "rich", "uncopied"}
Values == [number : Nat, kind : Kinds \cup {"changed"}]
Nothing == [number |-> 0, kind |-> "plain"]

(* json.loads of json.dumps of a value. *)
json(value) == IF value.kind = "plain" THEN value ELSE [value EXCEPT !.kind = "changed"]

Unsettled == [process |-> "none", value |-> Nothing]

(* expects is what settled was when a get began, and nothing was written   *)
(* since; clean says that a write has met neither another nor a failure.   *)
idle == [pc |-> "idle", value |-> Nothing, clean |-> FALSE, expects |-> Unsettled]

Init ==
    /\ redis = Nothing
    /\ _local_cache = [p \in Processes |-> Nothing]
    /\ task = [t \in Tasks |-> idle]
    /\ values = 0 /\ failures = 0
    /\ settled = Unsettled

Writing(t) == task[t].pc \in {"redis", "local"}

(* A write begins: from now on nobody knows what a get should find.        *)
begin(t, value) ==
    /\ task[t].pc \in {"idle", "got"}
    /\ settled' = Unsettled
    /\ task' = [u \in Tasks |->
          IF u = t THEN [pc |-> "redis", value |-> value, expects |-> Unsettled,
                         clean |-> \A v \in Tasks \ {t} : ~Writing(v)]
          ELSE [task[u] EXCEPT !.clean = FALSE, !.expects = Unsettled]]
    /\ UNCHANGED <<redis, _local_cache, failures>>

set(t) ==
    /\ values < MaxValues
    /\ values' = values + 1
    /\ \E kind \in Kinds : begin(t, [number |-> values', kind |-> kind])

(* delete, and clear, which flushes all keys. *)
delete(t) == begin(t, Nothing) /\ UNCHANGED values

(* Redis has answered the write, or failed, and may have taken it then.    *)
redis_write(t) ==
    /\ task[t].pc = "redis"
    /\ \/ /\ redis' = json(task[t].value)
          /\ task' = [task EXCEPT ![t].pc = "local"]
          /\ UNCHANGED failures
       \/ /\ failures < MaxFailures /\ failures' = failures + 1
          /\ task' = [task EXCEPT ![t].pc = "local", ![t].clean = FALSE]
          /\ redis' \in {redis, json(task[t].value)}
    /\ UNCHANGED <<_local_cache, values, settled>>

(* Faulty variant: the dictionary is only written with a value. *)
local_write_Kept(t) ==
    _local_cache' = IF task[t].value = Nothing THEN _local_cache
                    ELSE [_local_cache EXCEPT ![ProcessOf[t]] = task[t].value]

local_write(t) == _local_cache' = [_local_cache EXCEPT ![ProcessOf[t]] = task[t].value]

(* set and delete end with the dictionary.  Where no copy can be made set  *)
(* raises, and what Redis took stays there.                                *)
written(t) ==
    /\ task[t].pc = "local"
    /\ \/ /\ task[t].value.kind # "uncopied"
          /\ local_write(t)
          /\ settled' = IF task[t].clean
                        THEN [process |-> ProcessOf[t], value |-> task[t].value] ELSE Unsettled
       \/ /\ task[t].value.kind = "uncopied"
          /\ UNCHANGED <<_local_cache, settled>>
    /\ task' = [task EXCEPT ![t] = idle]
    /\ UNCHANGED <<redis, values, failures>>

get(t) ==
    /\ task[t].pc \in {"idle", "got"}
    /\ task' = [task EXCEPT ![t] =
          [idle EXCEPT !.pc = "ask", !.expects =
             IF settled.process = ProcessOf[t] THEN settled ELSE Unsettled]]
    /\ UNCHANGED <<redis, _local_cache, values, failures, settled>>

(* Redis has the value; otherwise, and when it fails, the dictionary is    *)
(* asked.                                                                  *)
redis_read(t) ==
    /\ task[t].pc = "ask"
    /\ \/ /\ task' = [task EXCEPT ![t].pc = IF redis # Nothing THEN "got" ELSE "fallback",
                                  ![t].value = redis]
          /\ UNCHANGED failures
       \/ /\ failures < MaxFailures /\ failures' = failures + 1
          /\ task' = [task EXCEPT ![t].pc = "fallback"]
    /\ UNCHANGED <<redis, _local_cache, values, settled>>

local_read(t) ==
    /\ task[t].pc = "fallback"
    /\ task' = [task EXCEPT ![t].pc = "got", ![t].value = _local_cache[ProcessOf[t]]]
    /\ UNCHANGED <<redis, _local_cache, values, failures, settled>>

(* The key expires in Redis, or is evicted there. *)
redis_loses ==
    /\ redis # Nothing /\ failures < MaxFailures
    /\ redis' = Nothing /\ failures' = failures + 1
    /\ UNCHANGED <<_local_cache, task, values, settled>>

Next ==
    \/ \E t \in Tasks :
         \/ set(t) \/ delete(t) \/ redis_write(t) \/ written(t)
         \/ get(t) \/ redis_read(t) \/ local_read(t)
    \/ redis_loses

Spec == Init /\ [][Next]_vars

-----------------------------------------------------------------------------
(* A process reads what it has written: a get that begins after a set or   *)
(* delete of the same process that succeeded, with no write before it has  *)
(* ended, returns what was written, as it was or as JSON gives it back,    *)
(* even while Redis fails to answer or has lost the key; a value JSON      *)
(* keeps is returned as it was.  For others it depends on who answers.     *)
(* That the write met no other write, and that Redis took it, are needed:  *)
(* else the two stores may differ for good.                                *)
OwnWritesAreRead ==
    \A t \in Tasks :
        task[t].pc = "got" /\ task[t].expects # Unsettled =>
            /\ task[t].value.number = task[t].expects.value.number
            /\ task[t].expects.value.kind = "plain" => task[t].value = task[t].expects.value
=============================================================================
