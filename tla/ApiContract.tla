---------------------------- MODULE ApiContract ----------------------------
(***************************************************************************)
(* One request type is read by five programs: the router of server/mux     *)
(* serves it, the generator of pkg/swagger documents it, the analyzer of   *)
(* tools/cagolint checks it, `cago gen --swagger` writes Swaggo comments   *)
(* for it and the client of muxclient sends it.  Each reads the tag of     *)
(* mux.Meta and the tags of the fields in its own way.  A declaration is   *)
(* the part of a request type, of its file and of its handler that they    *)
(* look at.  The comments and the client's requests depend on nothing      *)
(* else and change nothing: they are operators.                            *)
(***************************************************************************)
EXTENDS Naturals, Sequences, FiniteSets, SequencesExt

CONSTANTS
  Requests,       \* the request types of an API package
  Declarations,   \* what they may look like
  ProperPrefixes  \* the pairs <<u, n>> of parameter names where n starts with u

VARIABLES
  decl,      \* the declaration of each request type
  routes,    \* the router: what it serves, and the request type behind it
  panicked,  \* Bind has panicked: the application does not start
  docs,      \* swagger.Paths: an operation for each documented path and method
  problems,  \* what the analyzer has reported
  todo       \* the readings that have not taken place

vars == <<decl, routes, panicked, docs, problems, todo>>

---------------------------------------------------------------------------
(* Declarations.                                                          *)

\* A path is [segs, flaw]: its segments and what is wrong with its spelling.
Flaws == {"none", "no slash", "query"}

\* A field is its Go name and its tags, NoTag where it has none.  An inlined field is one of
\* an embedded type, and is embedded with form:",inline".  (Names are those before a comma,
\* and a Go name that is a tag's but for upper case is spelled like the tag, as it is for
\* encoding/json; the name "-" and embedded types that are generic are left out, and so
\* are fields that have other tags only.)
NoTag == ""

Fields ==
  [go : STRING, uri : STRING, form : STRING, json : STRING, header : STRING, inlined : BOOLEAN]

\* What follows "application/".
ContentTypes == {"json", "x-www-form-urlencoded", "form-data"}
Results == {"none", "error", "response and error", "response", "error and response"}

\* A method that is left out is the whole list; "get" is one that is not upper case.
RouteMethods ==
  {"", "get", "GET", "POST", "PUT", "DELETE", "PATCH", "HEAD", "OPTIONS", "CONNECT", "TRACE"}

WellFormed(d) ==
  /\ d.paths \in Seq([segs : Seq([par : BOOLEAN, name : STRING]), flaw : Flaws]) \ {<<>>}
  /\ d.methods \in Seq(RouteMethods) \ {<<>>} /\ ("" \in Range(d.methods) => Len(d.methods) = 1)
  /\ d.fields \in Seq(Fields)
  /\ d.contentType \in ContentTypes /\ d.results \in Results
  /\ {d.suffix, d.response, d.first, d.oddStem, d.context} \subseteq BOOLEAN

ApiContractAssumption ==
  IsFiniteSet(Requests) /\ \A d \in Declarations : WellFormed(d)

\* The fields that the generators and the analyzer take for path parameters: they do not
\* look into embedded types.
IsUri(f) == f.uri # NoTag /\ ~f.inlined
UriIndices(d) == {i \in DOMAIN d.fields : IsUri(d.fields[i])}
UriFields(d) == {d.fields[i].uri : i \in UriIndices(d)}
Parameters(segs) == {segs[i].name : i \in {j \in DOMAIN segs : segs[j].par}}

---------------------------------------------------------------------------
(* The router.                                                            *)

ServedMethod(m) == IF m = "" THEN "GET" ELSE m

\* requestHandle: every path of the list with every method of the list.
Served(d) ==
  {<<d.paths[i], ServedMethod(d.methods[j])>> : i \in DOMAIN d.paths, j \in DOMAIN d.methods}

\* gin's tree of one method holds no pattern twice and one name for a parameter.
Conflict(p, q) ==
  \/ p = q
  \/ \E k \in DOMAIN p \cap DOMAIN q :
       /\ SubSeq(p, 1, k - 1) = SubSeq(q, 1, k - 1)
       /\ p[k].par /\ q[k].par /\ p[k] # q[k]

GinPanics(d) ==
  \/ \E s \in Served(d) : s[2] = "get"
  \/ Cardinality(Served(d)) < Len(d.paths) * Len(d.methods)
  \/ \E s, t \in Served(d) : s # t /\ s[2] = t[2] /\ Conflict(s[1].segs, t[1].segs)
  \/ \E s \in Served(d), t \in routes : s[2] = t.method /\ Conflict(s[1].segs, t.path.segs)

InQuery(m) == m \in {"GET", "DELETE"}

\* The content types of a request that bind reads as a form: "multipart" is
\* multipart/form-data, which no declaration spells.
FormTypes == {"x-www-form-urlencoded", "multipart"}

\* encoding/json finds a field without a json tag by its Go name.
JsonName(f) == IF f.json # NoTag THEN f.json ELSE f.go

\* bind: from where, and under which name, a field has its value after a request of
\* method m and content type ct: form goes before uri, uri before header, and what is
\* read later overwrites what the JSON body gave.  There is one place or none.
Reads(m, ct, f) ==
  LET decoded == IF ~InQuery(m) /\ ct = "json" THEN {<<"body", JsonName(f)>>} ELSE {}
  IN IF f.form # NoTag
     THEN IF InQuery(m) THEN {<<"query", f.form>>}
          ELSE IF ct \in FormTypes THEN {<<"formData", f.form>>} ELSE decoded
     ELSE IF f.uri # NoTag THEN {<<"path", f.uri>>}
     ELSE IF f.header # NoTag THEN {<<"header", f.header>>} ELSE decoded

Bind(r) ==
  /\ <<"bind", r>> \in todo /\ ~panicked
  /\ todo' = todo \ {<<"bind", r>>}
  /\ LET d == decl[r] IN
     IF ~d.context \/ GinPanics(d)
     THEN panicked' = TRUE /\ UNCHANGED routes
     ELSE /\ routes' = routes \cup {[path |-> s[1], method |-> s[2], by |-> r] : s \in Served(d)}
          /\ UNCHANGED panicked
  /\ UNCHANGED <<decl, docs, problems>>

---------------------------------------------------------------------------
(* The generator of the documentation.                                    *)

\* strings.ReplaceAll(path, ":"+uri, ...) for the fields of is in order: the first
\* field whose name the parameter starts with takes it.
FilledSegment(d, is, s) ==
  LET takers == {i \in is : d.fields[i].uri = s.name \/ <<d.fields[i].uri, s.name>> \in ProperPrefixes}
      first  == CHOOSE i \in takers : \A j \in takers : i <= j
  IN IF ~s.par THEN s
     ELSE IF takers = {} THEN [raw |-> s.name]
     ELSE IF d.fields[first].uri = s.name THEN s
     ELSE [garbled |-> <<d.fields[first].uri, s.name>>]

FilledPath(d, is) ==
  [i \in DOMAIN d.paths |->
     [j \in DOMAIN d.paths[i].segs |-> FilledSegment(d, is, d.paths[i].segs[j])]]

\* parseRoute does not take the list of paths apart.
DocumentedPath(d) == FilledPath(d, UriIndices(d))

DocumentedMethods == {"GET", "POST", "PUT", "DELETE", "PATCH", "HEAD", "OPTIONS"}

\* utils.SwaggerName
SwaggerName(f) ==
  IF f.json # NoTag THEN f.json ELSE IF f.form # NoTag THEN f.form ELSE IF f.uri # NoTag THEN f.uri ELSE f.go

Tagged(f) == f.uri # NoTag \/ f.form # NoTag \/ f.json # NoTag \/ f.header # NoTag

\* Where a field is documented.  The fields of a request for a JSON body are all in the
\* definition of the body but for the names of the uri fields; the definition of an
\* embedded type is looked for where only generic types are kept.
DocumentedPlaces(d, m, f) ==
  IF f.inlined \/ ~Tagged(f) THEN {}
  ELSE IF m = "GET" \/ d.contentType # "json"
  THEN {<<IF f.uri # NoTag THEN "path" ELSE IF m = "GET" THEN "query" ELSE "formData", SwaggerName(f)>>}
  ELSE {p \in {"path", "body"} \X {SwaggerName(f)} :
          IF p[1] = "path" THEN f.uri # NoTag ELSE SwaggerName(f) \notin UriFields(d)}

\* The response the operation refers to: the first "Request" of the name becomes
\* "Response", which is the response type unless the stem has a "Request" too.
Operation(r, d, m) ==
  [by       |-> r,
   places   |-> [i \in DOMAIN d.fields |-> DocumentedPlaces(d, m, d.fields[i])],
   response |-> d.response /\ d.suffix /\ ~d.oddStem]

\* parseFile looks at the first type of a declaration only.
Document(r) ==
  /\ <<"document", r>> \in todo
  /\ todo' = todo \ {<<"document", r>>}
  /\ LET d       == decl[r]
         methods == Range(d.methods) \cap DocumentedMethods
         keys    == IF d.first THEN {<<DocumentedPath(d), m>> : m \in methods} ELSE {}
     IN docs' = [k \in DOMAIN docs \cup keys |->
                   IF k \in keys THEN Operation(r, d, k[2]) ELSE docs[k]]
  /\ UNCHANGED <<decl, routes, panicked, problems>>

---------------------------------------------------------------------------
(* The analyzer: the rules on a request type and on its handler.          *)

AllParameters(d) == UNION {Parameters(d.paths[i].segs) : i \in DOMAIN d.paths}

\* A mutant: only the fields are looked up among the parameters.
UriFieldUnused(d) == ~(UriFields(d) \subseteq AllParameters(d))

\* checkURIParams: the parameters of all paths are the uri fields.
UriMismatch(d) == UriFields(d) # AllParameters(d)

Rules == {"CAGO3003", "CAGO3004", "CAGO3005", "CAGO3006", "CAGO3007", "CAGO4002", "CAGO4003"}

Reported(d) ==
  {rule \in Rules :
     CASE rule = "CAGO3003" -> ~d.suffix
       [] rule = "CAGO3004" -> d.suffix /\ ~d.response
       [] rule = "CAGO3005" -> \E i \in DOMAIN d.paths : d.paths[i].flaw # "none"
       [] rule = "CAGO3006" -> "get" \in Range(d.methods)
       [] rule = "CAGO3007" -> UriMismatch(d)
       [] rule = "CAGO4002" -> d.suffix /\ ~d.context
       [] rule = "CAGO4003" -> d.suffix /\ d.results \notin {"none", "error", "response and error"}}

Lint(r) ==
  /\ <<"lint", r>> \in todo
  /\ todo' = todo \ {<<"lint", r>>}
  /\ problems' = problems \cup {<<r, rule>> : rule \in Reported(decl[r])}
  /\ UNCHANGED <<decl, routes, panicked, docs>>

---------------------------------------------------------------------------
(* The Swaggo comments of `cago gen --swagger`.                           *)

CommentedMethod(m) == IF m \in {"", "get"} THEN "GET" ELSE m

\* routePathForSwagger puts the braces around each parameter, segment by segment.
Commented(d) ==
  {<<d.paths[i].segs, CommentedMethod(d.methods[j])>> : i \in DOMAIN d.paths, j \in DOMAIN d.methods}

\* One parameter stands for all the fields that are not in the path: one GET among
\* the methods makes it a query.
CommentedPlace(d, f) ==
  IF IsUri(f) THEN "path"
  ELSE IF \E m \in Range(d.methods) : m \in {"GET", "get"} THEN "query"
  ELSE "body"

\* swaggerMimeType: the comments call form-data by its name.
CommentedType(d) == IF d.contentType = "form-data" THEN "multipart" ELSE d.contentType

---------------------------------------------------------------------------
(* The request that muxclient makes (without WithPath).                   *)

\* The path and the method are the whole tags; strings.ReplaceAll puts the values of
\* the fields in, unless they have a json or form tag, which goes first.
CalledPath(d) ==
  FilledPath(d, {i \in UriIndices(d) : d.fields[i].json = NoTag /\ d.fields[i].form = NoTag})

\* net/http takes no method for GET, but the fields have been put aside for a body.
CalledMethod(m) == IF m = "" THEN "GET" ELSE m

\* Where the client puts a field: an embedded value goes under the key ",inline", which
\* is no field's, headers are not looked at, and a body is JSON, whatever the tags say.
CalledPlaces(m, f) ==
  IF f.inlined THEN {}
  ELSE IF f.json # NoTag \/ f.form # NoTag
  THEN {<<IF InQuery(m) THEN "query" ELSE "body", IF f.json # NoTag THEN f.json ELSE f.form>>}
  ELSE IF f.uri # NoTag THEN {<<"path", f.uri>>} ELSE {}

---------------------------------------------------------------------------
Init ==
  /\ decl \in [Requests -> Declarations]
  /\ routes = {} /\ panicked = FALSE
  /\ docs = << >>
  /\ problems = {}
  /\ todo = {"bind", "document", "lint"} \X Requests

Next == \E r \in Requests : Bind(r) \/ Document(r) \/ Lint(r)

Spec == Init /\ [][Next]_vars

ApiTypeOK ==
  /\ decl \in [Requests -> Declarations]
  /\ \A t \in routes : DOMAIN t = {"path", "method", "by"} /\ t.by \in Requests
  /\ panicked \in BOOLEAN
  /\ \A k \in DOMAIN docs : docs[k].by \in Requests
  /\ problems \subseteq Requests \X Rules
  /\ todo \subseteq {"bind", "document", "lint"} \X Requests

\* What the readings are known to take differently and no rule reports, about the path
\* or the method: lists of paths, methods left out or not documented (CONNECT and TRACE),
\* a second type in one declaration, a parameter whose name starts another's, and
\* "Request" in the middle of a name.
Plain(d) ==
  /\ Len(d.paths) = 1 /\ Range(d.methods) \subseteq DocumentedMethods
  /\ d.first /\ ~d.oddStem
  /\ \A u, n \in UriFields(d) : <<u, n>> \notin ProperPrefixes

\* The fields that encoding/json finds by the name of their json tag or else form tag, and
\* that nothing overwrites.
FoundInBody(f) ==
  \/ f.json # NoTag /\ (f.form # NoTag \/ (f.uri = NoTag /\ f.header = NoTag))
  \/ f.json = NoTag /\ f.form # NoTag /\ f.go = f.form

\* The fields that are documented where the router reads them.  The others, which no rule
\* reports: an inlined field (documented nowhere), a header (in the query or the body), a
\* uri field with a form tag (which is read first) or another json name, a field of a
\* DELETE (documented in the body, read from the query), a field without a form tag in a
\* query or a form, every form called form-data, and in a body a form tag that is not the
\* Go name or a name that a uri field has too.
RightlyDocumented(d, m, f) ==
  /\ ~f.inlined
  /\ \/ f.uri # NoTag /\ f.form = NoTag /\ f.json \in {NoTag, f.uri}
     \/ /\ f.uri = NoTag /\ f.form # NoTag /\ f.json \in {NoTag, f.form}
        /\ m = "GET" \/ (~InQuery(m) /\ d.contentType = "x-www-form-urlencoded")
     \/ /\ f.uri = NoTag /\ ~InQuery(m) /\ d.contentType = "json"
        /\ FoundInBody(f) /\ SwaggerName(f) \notin UriFields(d)

\* The fields whose place in the comments is the router's: not a header, not a form or a
\* DELETE, which are said to be bodies, and not the body of a POST beside a GET.
RightlyCommented(d, m, f) ==
  \/ IsUri(f) /\ f.form = NoTag
  \/ ~IsUri(f) /\ InQuery(m) /\ f.form # NoTag /\ "GET" \in Range(d.methods)
  \/ /\ ~IsUri(f) /\ ~InQuery(m) /\ d.contentType = "json" /\ "GET" \notin Range(d.methods)
     /\ f.form # NoTag \/ (f.uri = NoTag /\ f.header = NoTag)

\* The fields that the client puts where the router reads them: neither inlined nor a
\* header, of one name, and found in a body.
RightlyCalled(m, f) ==
  /\ ~f.inlined
  /\ \/ f.uri # NoTag /\ f.form = NoTag /\ f.json = NoTag
     \/ InQuery(m) /\ f.form # NoTag /\ f.json \in {NoTag, f.form}
     \/ ~InQuery(m) /\ FoundInBody(f)

RoutesOf(r) == {t \in routes : t.by = r}

\* Two readings of a field agree: it is read, and from this place.
Agree(places, reads) == reads # {} /\ places = reads

\* Each route has an operation at its path and method, of its own request type, with
\* a response that exists, and nothing else is documented.  A request of the documented
\* content type has a field where the router reads it if, and only if, it is one of those
\* that are rightly documented.
Documented ==
  /\ DOMAIN docs = {<< <<t.path.segs>>, t.method>> : t \in routes}
  /\ \A t \in routes :
       LET d  == decl[t.by]
           op == docs[<< <<t.path.segs>>, t.method>>]
       IN /\ op.by = t.by /\ op.response
          /\ \A i \in DOMAIN d.fields :
               Agree(op.places[i], Reads(t.method, d.contentType, d.fields[i]))
                 <=> RightlyDocumented(d, t.method, d.fields[i])

\* The comments are those of the request type's routes, for any declaration, and have the
\* rightly commented fields, and no others, where the router reads them.
CommentsAgree(r) ==
  LET d == decl[r] IN
  /\ Commented(d) = {<<t.path.segs, t.method>> : t \in RoutesOf(r)}
  /\ \A t \in RoutesOf(r), i \in DOMAIN d.fields :
       LET reads == Reads(t.method, CommentedType(d), d.fields[i]) IN
       Agree({CommentedPlace(d, d.fields[i])}, {p[1] : p \in reads})
         <=> RightlyCommented(d, t.method, d.fields[i])

\* The client's request for a plain declaration of one method, whose uri fields have no
\* json or form tag, is served by the route of the request type, which finds the rightly
\* called fields, and no others, where they were put.
ClientIsServed(r) ==
  LET d == decl[r] IN
  /\ Plain(d) /\ Len(d.methods) = 1
  /\ \A i \in UriIndices(d) : d.fields[i].json = NoTag /\ d.fields[i].form = NoTag
  => \E t \in RoutesOf(r) :
       /\ CalledPath(d) = <<t.path.segs>> /\ CalledMethod(d.methods[1]) = t.method
       /\ \A i \in DOMAIN d.fields :
            Agree(CalledPlaces(d.methods[1], d.fields[i]), Reads(t.method, "json", d.fields[i]))
              <=> RightlyCalled(d.methods[1], d.fields[i])

\* When the analyzer reports nothing and the application starts, the comments name the
\* routes and the client reaches its own; when every declaration is a plain one the
\* documentation has the router's routes; and the fields that documentation, comments and
\* client place as the router does are known from their tags.
ReadersAgree ==
  todo = {} /\ ~panicked /\ problems = {} =>
    /\ \A r \in Requests : CommentsAgree(r) /\ ClientIsServed(r)
    /\ (\A r \in Requests : Plain(decl[r])) => Documented

=============================================================================
