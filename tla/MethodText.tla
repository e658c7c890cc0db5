----------------------------- MODULE MethodText -----------------------------
(***************************************************************************)
(* The text of the method that `cago gen` adds to a service for a method   *)
(* of its interface: parameters, results and a return statement, made from *)
(* the syntax of the types.                                                *)
(***************************************************************************)
EXTENDS Naturals, Sequences, Functions

CONSTANTS
  Methods  \* methods that an interface may have: [params, results, void]

VARIABLES
  method,  \* the method of the interface
  text     \* what has been generated for it: [status, params, results, values]

vars == <<method, text>>

\* Forms of a type in the source; "struct name", "byte" and "interface name" are names.
Forms == {"string", "int", "bool", "byte", "interface name", "struct name", "imported interface",
          "imported struct", "pointer", "slice", "array", "map", "chan", "func", "interface{}",
          "struct{}", "generic"}

\* A field of a parameter or result list: the names it has (none, one or several) and
\* the form of its type.  A void method has no result list.
MethodTextAssumption ==
  \A m \in Methods :
    /\ \A i \in DOMAIN m.params : m.params[i].names \in Nat /\ m.params[i].form \in Forms
    /\ m.void \in BOOLEAN
    /\ \A i \in DOMAIN m.results : m.results[i].names \in Nat /\ m.results[i].form \in Forms

---------------------------------------------------------------------------
\* What the fields declare, one type after the other: for each field and each name.
Names(field) == IF field.names = 0 THEN 1 ELSE field.names
Places(fields) == UNION {{i} \X (1..Names(fields[i])) : i \in DOMAIN fields}
Declared(fields) == [p \in Places(fields) |-> fields[p[1]].form]

\* GetType: an array loses its length; a struct that is written out and a type with
\* arguments come out empty.
GetType(form) ==
  CASE form = "array" -> "slice"
    [] form \in {"struct{}", "generic"} -> ""
    [] OTHER -> form

\* GetMethodParams: every name of a field.
Params(fields) == [p \in Places(fields) |-> GetType(fields[p[1]].form)]

\* GetMethodResult: a field, whatever names it has.
Results(fields) == [p \in (DOMAIN fields) \X {1} |-> GetType(fields[p[1]].form)]

\* GetTypeDefaultVal: by the name, nil for names it does not know.
Value(form) ==
  CASE form = "string" -> "\"\""
    [] form = "int" -> "0"
    [] form = "bool" -> "false"
    [] form \in {"chan", "func", "interface{}", "struct{}", "generic"} -> ""
    [] OTHER -> "nil"

\* Whether Go takes the value for the type.
Fits(value, form) ==
  CASE value = "nil" -> form \in {"interface name", "imported interface", "pointer", "slice", "map",
                                  "chan", "func", "interface{}"}
    [] value = "\"\"" -> form = "string"
    [] value = "0" -> form \in {"int", "byte"}
    [] value = "false" -> form = "bool"
    [] OTHER -> FALSE

\* genServiceFile: a method without results is taken for one with a list of them; text
\* that gofmt does not parse is not written.
Generate ==
  /\ text.status = "none"
  /\ text' =
       IF method.void THEN [text EXCEPT !.status = "panic"]
       ELSE LET values == [p \in (DOMAIN method.results) \X {1} |-> Value(method.results[p[1]].form)]
            IN [status  |-> IF "" \in Range(values) THEN "refused" ELSE "written",
                params  |-> Params(method.params),
                results |-> Results(method.results),
                values  |-> values]
  /\ UNCHANGED method

---------------------------------------------------------------------------
Init ==
  /\ method \in Methods
  /\ text = [status |-> "none", params |-> <<>>, results |-> <<>>, values |-> <<>>]

Next == Generate

Spec == Init /\ [][Next]_vars

MethodTextTypeOK ==
  /\ method \in Methods
  /\ text.status \in {"none", "panic", "refused", "written"}

\* What the generator cannot write: arrays, types that are written out or have
\* arguments, several results of one field, and values that are not nil by a name.
Ordinary(m) ==
  /\ ~m.void
  /\ \A i \in DOMAIN m.params : m.params[i].form \notin {"array", "struct{}", "generic"}
  /\ \A i \in DOMAIN m.results :
       /\ m.results[i].names <= 1
       /\ m.results[i].form \notin {"array", "struct{}", "generic", "chan", "func", "interface{}",
                                    "byte", "struct name", "imported struct"}

\* The method that is generated for an ordinary method of the interface implements it
\* and builds: the types are the interface's, one by one, and each value fits its type.
MethodBuilds ==
  Ordinary(method) /\ text.status # "none" =>
    /\ text.status = "written"
    /\ text.params = Declared(method.params) /\ text.results = Declared(method.results)
    /\ \A p \in DOMAIN text.values : Fits(text.values[p], text.results[p])
=============================================================================
