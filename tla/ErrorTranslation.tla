--------------------------- MODULE ErrorTranslation ---------------------------
(***************************************************************************)
(* error.py: what ErrorTranslator and OKXErrorTranslator make of an error  *)
(* a venue reports, and the translators the module exports lazily.         *)
(*                                                                         *)
(* An error has a code, an sCode and a status; a code is <<form, digits>>, *)
(* as JSON may hold a string or a number.  A few lines stand for OKX's     *)
(* table and for that of the statuses; messages are left out.              *)
(***************************************************************************)
EXTENDS Naturals, Sequences, TLC

VARIABLES
    translators,        \* the module's globals: translator to its class
    installed,          \* the translators whose package can be imported
    raw,                \* the last error translated, by whom
    result              \* what was made of it

vars == <<translators, installed, raw, result>>

Absent == << >>
Codes == {Absent} \cup ({"string", "number"} \X {0, 50011, 51008, 99999})
Statuses == {0, 404, 503}

Init ==
    /\ translators = [OKX |-> "OKX", KRAKEN |-> "none"]
    /\ installed = {}
    /\ raw = [by |-> "OKX", code |-> Absent, sCode |-> Absent, status |-> 0]
    /\ result = << >>

-----------------------------------------------------------------------------
(* Codes of the errors; None stands for success, which is no error.        *)
None == 0
INVALID_SYMBOL == 4001
INSUFFICIENT_BALANCE == 4004
RATE_LIMIT_EXCEEDED == 3001
EXCHANGE_OVERLOADED == 5002
INTERNAL_ERROR == 5003

HTTP_STATUS_MAP == (404 :> INVALID_SYMBOL) @@ (503 :> EXCHANGE_OVERLOADED)

(* The table of OKX is by strings; ErrorTranslator itself has none.        *)
ERROR_MAP == (<<"string", 0>> :> None) @@ (<<"string", 50011>> :> RATE_LIMIT_EXCEEDED)
             @@ (<<"string", 51008>> :> INSUFFICIENT_BALANCE)

_get_category(code) ==
    CASE code \div 1000 = 1 -> "network" [] code \div 1000 = 2 -> "auth"
      [] code \div 1000 = 3 -> "rate_limit" [] code \div 1000 = 4 -> "business"
      [] code \div 1000 = 5 -> "system" [] code \div 1000 = 6 -> "capability"
      [] OTHER -> "validation"

unified(code) == IF code = None THEN << >> ELSE <<code, _get_category(code)>>

(* ErrorTranslator.translate: the code counts first, then the status.      *)
translate(e, table) ==
    IF e.code \in DOMAIN table THEN unified(table[e.code])
    ELSE IF e.status \in DOMAIN HTTP_STATUS_MAP THEN unified(HTTP_STATUS_MAP[e.status])
    ELSE unified(INTERNAL_ERROR)

(* Faulty variant: the code is looked up as it comes. *)
OKX_translate_Raw(e) ==
    LET code == IF e.code # Absent THEN e.code ELSE e.sCode IN
    IF code \in DOMAIN ERROR_MAP THEN unified(ERROR_MAP[code]) ELSE translate(e, ERROR_MAP)

(* OKXErrorTranslator.translate: the sCode stands in for a code, and both  *)
(* are made strings.                                                       *)
OKX_translate(e) ==
    LET code == IF e.code # Absent THEN e.code ELSE e.sCode
        code_str == IF code = Absent THEN Absent ELSE <<"string", code[2]>>
    IN  IF code_str \in DOMAIN ERROR_MAP THEN unified(ERROR_MAP[code_str]) ELSE translate(e, ERROR_MAP)

-----------------------------------------------------------------------------
(* A package with a translator can be imported from now on.                *)
install ==
    /\ installed' = installed \cup {"KRAKEN"}
    /\ UNCHANGED <<translators, raw, result>>

(* The first use of a translator imports it, or makes one without a table; *)
(* the module keeps what it got.                                           *)
__getattr__ ==
    /\ translators["KRAKEN"] = "none"
    /\ translators' = [translators EXCEPT !["KRAKEN"] =
                          IF "KRAKEN" \in installed THEN "plugin" ELSE "ErrorTranslator"]
    /\ UNCHANGED <<installed, raw, result>>

(* The translator of a package is its own.                                 *)
translated ==
    /\ raw' \in [by : {v \in {"OKX", "KRAKEN"} : translators[v] \in {"OKX", "ErrorTranslator"}},
                 code : Codes, sCode : Codes, status : Statuses]
    /\ result' = IF translators[raw'.by] = "OKX" THEN OKX_translate(raw') ELSE translate(raw', << >>)
    /\ UNCHANGED <<translators, installed>>

Next == install \/ __getattr__ \/ translated

Spec == Init /\ [][Next]_vars

-----------------------------------------------------------------------------
(* An error of OKX is translated the same whether its code is a number or  *)
(* a string (OKXErrorTranslator.translate); an error is success only where *)
(* the venue's table says so (translate).                                  *)
FormsAgree ==
    raw.by = "OKX" /\ raw.code # Absent =>
        \A form \in {"string", "number"} :
            OKX_translate([raw EXCEPT !.code = <<form, raw.code[2]>>]) = result

FallbackReports == raw.by = "KRAKEN" => result # << >>

TranslationsHold == FormsAgree /\ FallbackReports
=============================================================================
