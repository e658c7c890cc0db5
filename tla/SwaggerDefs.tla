---------------------------- MODULE SwaggerDefs ----------------------------
(***************************************************************************)
(* How the generator of pkg/swagger collects swagger.Definitions: a type   *)
(* is parsed field by field, a field of a named type parses that type      *)
(* first and leaves a $ref to it.  The recursion of parseStruct and        *)
(* parseFieldType is the stack of the types that are being parsed.         *)
(* Definitions are found by package name and type name, whatever the path  *)
(* of the package and the name it was imported under.                      *)
(***************************************************************************)
EXTENDS Naturals, Sequences, FiniteSets

CONSTANTS
  Types,    \* the named types of the project
  Name,     \* what the source of a type's own package calls it: package name and name
  Sources,  \* what the types may be: functions that give each its shape and fields
  RootSets  \* what the API may declare: sets of [type, kind]

\* A declaration of the API is a response type, a request whose fields are the JSON
\* body, or a request whose fields are parameters one by one.
Kinds == {"response", "body", "query"}

VARIABLES
  source,  \* per type [shape, fields]: its fields are [of, inline], in order
  roots,   \* the declarations of the API that have not been parsed
  stack,   \* the types being parsed: [type, kind, next, refs], the innermost first
  defs,    \* swagger.Definitions: name -> [of, refs, whole]
  status,  \* "running", "failed" (an error ends the generation) or "crashed" (a panic)
  written  \* the files of docs/ that hold what was collected

vars == <<source, roots, stack, defs, status, written>>

---------------------------------------------------------------------------
Shapes == {"struct", "basic", "renamed"}
Missing == "missing"   \* what no package declares, and a basic type as a type argument

\* A name in a field is [to, as]: what it means, and what it writes (an import may have
\* another name than its package).  A field's type is one name, or two where it is an
\* instance A[B] of a generic type; an inline field is embedded, its type is not referred
\* to.  (An argument that is an instance itself, a list or a pointer is left out.)
Names == [to : Types \cup {Missing}, as : STRING]

SwaggerDefsAssumption ==
  /\ IsFiniteSet(Types) /\ Missing \notin Types /\ Name \in [Types -> STRING]
  /\ \A rs \in RootSets : rs \subseteq [type : Types, kind : Kinds]
  /\ \A s \in Sources, t \in Types :
       /\ s[t].shape \in Shapes
       /\ s[t].fields \in Seq([of : Seq(Names), inline : BOOLEAN])
       /\ \A i \in DOMAIN s[t].fields : Len(s[t].fields[i].of) \in {1, 2}

Top == Head(stack)
Under(frame) == <<frame>> \o Tail(stack)
FieldAt(frame) == source[frame.type].fields[frame.next]
AtEnd(frame) == frame.next > Len(source[frame.type].fields)
Frame(t, kind) == [type |-> t, kind |-> kind, next |-> 1, refs |-> {}]

Define(n, d) == [m \in DOMAIN defs \cup {n} |-> IF m = n THEN d ELSE defs[m]]

\* A mutant: the type is registered only when it has been parsed.
EnterUnmarked(t) ==
  /\ stack' = <<Frame(t, "type")>> \o stack
  /\ UNCHANGED defs

\* parseStruct on a type without a definition: an empty definition holds its place
\* while its fields are parsed.
Enter(t) ==
  /\ stack' = <<Frame(t, "type")>> \o stack
  /\ defs' = Define(Name[t], [of |-> t, refs |-> {}, whole |-> FALSE])

\* parseFile and parseRoute: a response type is parsed like any named type, a
\* request type is not registered while its fields are.
Root(r) ==
  /\ status = "running" /\ stack = <<>> /\ r \in roots
  /\ roots' = roots \ {r}
  /\ IF r.kind # "response"
     THEN stack' = <<Frame(r.type, r.kind)>> /\ UNCHANGED defs
     ELSE IF Name[r.type] \in DOMAIN defs THEN UNCHANGED <<stack, defs>>
     ELSE Enter(r.type)
  /\ UNCHANGED <<source, status, written>>

\* The names of the next field that lead to no definition yet: the generic type comes
\* before its argument.
Undefined(n) == n.to # Missing => Name[n.to] \notin DOMAIN defs

IsFirstUndefined(of, i) ==
  i \in DOMAIN of /\ Undefined(of[i]) /\ \A j \in 1..i-1 : ~Undefined(of[j])

\* parseExpr and findStruct on the next field: a type it names is parsed first unless a
\* definition of that name is there.
Descend ==
  /\ status = "running" /\ stack # <<>> /\ ~AtEnd(Top)
  /\ \E i \in {1, 2} :
       LET of == FieldAt(Top).of IN
         /\ IsFirstUndefined(of, i) /\ of[i].to # Missing
         /\ Enter(of[i].to)
  /\ UNCHANGED <<source, roots, status, written>>

\* A reference is made of the names the field writes.  It leads to a definition when it
\* is one name, that of the definition: the schema of an instance A[B] is only put into
\* InnerDefinitions, which is not part of the document.
LeadsNowhere(ref) == Len(ref) = 2 \/ ref[1].as \notin DOMAIN defs

\* What an inline field brings along: InnerDefinitions is all it is looked for in, so that
\* the fields of an ordinary type are lost.  An instance has those of the generic type, with
\* a reference to the argument for one of them, if that type is found, finished, and has a
\* field (or a list) of the parameter's type.
Brings(f) ==
  LET generic == f.of[1].as IN
  IF Len(f.of) = 2 /\ generic \in DOMAIN defs /\ defs[generic].whole
  THEN {{}, defs[generic].refs \cup {<<f.of[2]>>}} ELSE {{}}

\* A reference that is left where parameters are is looked up at once, unless in a list or
\* a map: the empty schema that is found for it nowhere has no first type.
Refer ==
  /\ status = "running" /\ stack # <<>> /\ ~AtEnd(Top)
  /\ LET f == FieldAt(Top) IN
       /\ \A i \in DOMAIN f.of : ~Undefined(f.of[i])
       /\ \/ /\ Top.kind = "query" /\ ~f.inline /\ LeadsNowhere(f.of)
             /\ status' = "crashed" /\ UNCHANGED stack
          \/ /\ \E refs \in IF f.inline THEN Brings(f) ELSE {{f.of}} :
                  stack' = Under([Top EXCEPT !.next = @ + 1, !.refs = @ \cup refs])
             /\ UNCHANGED status
  /\ UNCHANGED <<source, roots, defs, written>>

\* A type that is not found: every caller takes its placeholder back and returns the
\* error, and nothing is written.
NotFound ==
  /\ status = "running" /\ stack # <<>> /\ ~AtEnd(Top)
  /\ \E i \in {1, 2} :
       LET of == FieldAt(Top).of IN IsFirstUndefined(of, i) /\ of[i].to = Missing
  /\ status' = "failed"
  /\ defs' = [n \in {m \in DOMAIN defs : defs[m].whole} |-> defs[n]]
  /\ stack' = <<>>
  /\ UNCHANGED <<source, roots, written>>

\* The end of a type: its schema takes the place of the placeholder.  A type that
\* only renames another has a reference for a schema, and that has no first type.
\* A request for a JSON body overwrites the definition of its name, if there is one;
\* one whose fields are parameters leaves none.
Leave ==
  /\ status = "running" /\ stack # <<>> /\ AtEnd(Top)
  /\ IF Top.kind = "type" /\ source[Top.type].shape = "renamed"
     THEN status' = "crashed" /\ UNCHANGED <<stack, defs>>
     ELSE /\ stack' = Tail(stack)
          /\ defs' = IF Top.kind = "query" THEN defs
                     ELSE Define(Name[Top.type], [of |-> Top.type, refs |-> Top.refs, whole |-> TRUE])
          /\ UNCHANGED status
  /\ UNCHANGED <<source, roots, written>>

\* Write: the files are written one after the other, from the same document; docs.go
\* has it as text, with what a program may set at its start left open.
Files == <<"swagger.yaml", "swagger.json", "docs.go">>

Write ==
  /\ status = "running" /\ roots = {} /\ stack = <<>> /\ Len(written) < Len(Files)
  /\ written' = Append(written, Files[Len(written) + 1])
  /\ UNCHANGED <<source, roots, stack, defs, status>>

---------------------------------------------------------------------------
Init ==
  /\ source \in Sources
  /\ roots \in RootSets
  /\ stack = <<>> /\ defs = << >> /\ status = "running" /\ written = <<>>

Next == (\E r \in roots : Root(r)) \/ Descend \/ Refer \/ NotFound \/ Leave \/ Write

Spec == Init /\ [][Next]_vars

DefsTypeOK ==
  /\ source \in Sources
  /\ roots \subseteq [type : Types, kind : Kinds]
  /\ \A i \in DOMAIN stack : stack[i].type \in Types /\ stack[i].kind \in {"type", "body", "query"}
  /\ \A n \in DOMAIN defs : defs[n].of \in Types /\ defs[n].whole \in BOOLEAN
  /\ status \in {"running", "failed", "crashed"}
  /\ Len(written) <= Len(Files) /\ written = SubSeq(Files, 1, Len(written))

\* The names are unambiguous: no two types share one, and no import renames a package.
Unambiguous ==
  /\ \A t, u \in Types : Name[t] = Name[u] => t = u
  /\ \A t \in Types : \A i \in DOMAIN source[t].fields :
       LET of == source[t].fields[i].of IN
       \A j \in DOMAIN of : of[j].to # Missing => of[j].as = Name[of[j].to]

\* When names are unambiguous and nothing has failed, every type that a reference names
\* has the definition of that name, in what is finished and in what is being parsed.  So a
\* reference to a type leads to its definition; the one to an instance A[B] of a generic
\* type does not, nothing is defined under that name, but A and B are.  The definitions
\* that are not whole are those of the types being parsed, each of them once, however the
\* types refer to each other.  (A failed generation does leave whole definitions that
\* refer to a placeholder taken back; it writes none.)
RefsResolve ==
  LET refs   == UNION ({stack[i].refs : i \in DOMAIN stack} \cup {defs[n].refs : n \in DOMAIN defs})
      parsed == {i \in DOMAIN stack : stack[i].kind = "type"}
  IN /\ Unambiguous /\ status # "failed" =>
          /\ \A ref \in refs : /\ LeadsNowhere(ref) <=> Len(ref) = 2
                               /\ \A i \in DOMAIN ref : /\ ref[i].as \in DOMAIN defs
                                                        /\ defs[ref[i].as].of = ref[i].to
          /\ \A i, j \in parsed : stack[i].type = stack[j].type => i = j
          /\ {n \in DOMAIN defs : ~defs[n].whole} = {Name[stack[i].type] : i \in parsed}
     /\ written # <<>> => status = "running" /\ \A n \in DOMAIN defs : defs[n].whole
=============================================================================
