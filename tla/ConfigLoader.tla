----------------------------- MODULE ConfigLoader ------------------------------
(***************************************************************************)
(* config_loader.py: load_all_exchange_configs reads the configurations of *)
(* a directory, file by file, while someone edits the directory.           *)
(*                                                                         *)
(* A file is empty, not a mapping, not YAML, unreadable (not text, or a    *)
(* directory, or with keys that are no strings), or a mapping of fields,   *)
(* of which those that the validators and the loader look at are kept: the *)
(* id, the venue type, base_urls (absent, null or given) and the           *)
(* connection type.                                                        *)
(***************************************************************************)
EXTENDS Naturals, Sequences

CONSTANTS
    Suffixes,           \* of the files of a directory, in the order of their names
    Contents,           \* what a file may hold
    MaxEdits            \* bound: changes of files

VARIABLES
    files,              \* what the files hold now, or Gone
    todo,               \* files the running load has listed and not read yet
    configs,            \* id to the configuration, with the file it is from
    state,              \* of the load: none, running, done or raised
    held,               \* history: what each file held since the files were listed
    edits               \* counter for the bound

vars == <<files, todo, configs, state, held, edits>>

File(kind) == [kind |-> kind]
Gone == File("gone")
Mapping(id, venue_type, base_urls, connection) ==
    [kind |-> "mapping", id |-> id, venue_type |-> venue_type, base_urls |-> base_urls,
     connection |-> connection]

Init ==
    /\ files \in [DOMAIN Suffixes -> {Gone} \cup Contents]
    /\ todo = << >> /\ configs = << >> /\ state = "none"
    /\ held = [n \in DOMAIN Suffixes |-> {files[n]}] /\ edits = 0

-----------------------------------------------------------------------------
(* A field validator does not run on a field that is not there.            *)
validate_base_urls(m) == ~(m.venue_type = "cex" /\ m.base_urls = "null")

validate_connection(m) == m.venue_type = "cex" => m.connection = "http"

(* What reading a file ends with: its configuration or an exception.       *)
load_exchange_config(content) ==
    CASE content.kind = "gone" -> "FileNotFoundError"
      [] content.kind \in {"empty", "list"} -> "ConfigurationError"
      [] content.kind = "not yaml" -> "YAMLError"
      [] content.kind = "unreadable" -> "another"
      [] OTHER -> IF validate_base_urls(content) /\ validate_connection(content)
                  THEN "config" ELSE "ValidationError"

(* Faulty variant: a file that is gone meanwhile is not expected.          *)
load_errors_Present == {"ConfigurationError", "ValidationError", "YAMLError"}

load_errors == {"ConfigurationError", "FileNotFoundError", "ValidationError", "YAMLError"}

(* Files of other kinds are not the loader's, nor are those called _...,   *)
(* which stand for a kind of their own here.                               *)
wanted(n) == Suffixes[n] \in {".yaml", ".yml"}

listed == SelectSeq([n \in DOMAIN Suffixes |-> n], LAMBDA n : wanted(n) /\ files[n] # Gone)

load_all_exchange_configs ==
    /\ state # "running"
    /\ state' = "running"
    /\ todo' = listed /\ configs' = << >>
    /\ held' = [n \in DOMAIN Suffixes |-> {files[n]}]
    /\ UNCHANGED <<files, edits>>

(* The next file: a later one takes the id of an earlier one.  Errors that *)
(* are not among the expected ones end the load.                           *)
next_file ==
    LET content == files[Head(todo)]
        outcome == load_exchange_config(content)
    IN  /\ state = "running" /\ todo # << >>
        /\ todo' = Tail(todo)
        /\ configs' = IF outcome = "config"
                      THEN [id \in DOMAIN configs \cup {content.id} |->
                               IF id = content.id THEN [file |-> Head(todo), config |-> content]
                               ELSE configs[id]]
                      ELSE configs
        /\ state' = IF outcome \in load_errors \cup {"config"} THEN state ELSE "raised"
        /\ UNCHANGED <<files, held, edits>>

returned ==
    /\ state = "running" /\ todo = << >>
    /\ state' = "done"
    /\ UNCHANGED <<files, todo, configs, held, edits>>

(* Someone writes or removes a file. *)
edit ==
    /\ edits < MaxEdits /\ edits' = edits + 1
    /\ \E n \in DOMAIN Suffixes, content \in {Gone} \cup Contents :
         files' = [files EXCEPT ![n] = content] /\ held' = [held EXCEPT ![n] = @ \cup {content}]
    /\ UNCHANGED <<todo, configs, state>>

Next == load_all_exchange_configs \/ next_file \/ returned \/ edit

Spec == Init /\ [][Next]_vars

-----------------------------------------------------------------------------
(* Whatever is edited during a load, and however many files are broken:    *)
(* what is loaded has passed the validators and comes from a file that is  *)
(* read at all; a load that returns has the exchange of every good file    *)
(* that stayed as it was, from that file or from a later one; and only an  *)
(* unreadable file ends a load (load_all_exchange_configs).                *)
LoadedRight ==
    /\ \A id \in DOMAIN configs :
         /\ load_exchange_config(configs[id].config) = "config" /\ configs[id].config.id = id
         /\ wanted(configs[id].file)
    /\ state = "done" =>
         \A n \in {n \in DOMAIN Suffixes : held[n] = {files[n]}} :
            wanted(n) /\ load_exchange_config(files[n]) = "config"
                => files[n].id \in DOMAIN configs /\ configs[files[n].id].file >= n
    /\ state = "raised" => \E n \in DOMAIN Suffixes : File("unreadable") \in held[n]
================================================================================
