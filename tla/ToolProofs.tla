---------------------------- MODULE ToolProofs ----------------------------
(***************************************************************************)
(* Safety of the tools, from the readers of an API to the generators of    *)
(* its code, and the types of all parts of Data: their invariants are      *)
(* those of LimitProofs and of DataProofs and the ones below.              *)
(***************************************************************************)
EXTENDS LimitProofs, DataProofs, WellFoundedInduction

-----------------------------------------------------------------------------
\* The readers of a declaration.

\* A set of numbers has a least one.
LEMMA Least ==
    ASSUME NEW T \in SUBSET Nat, T # {}
    PROVE  \E x \in T : \A y \in T : x <= y
  <1>. DEFINE R == {ss \in Nat \X Nat : ss[1] < ss[2]}
  <1>1. IsWellFoundedOn(R, Nat)
    BY NatLessThanWellFounded, Zenon DEF OpToRel
  <1>. HIDE DEF R
  <1>2. PICK x \in T : \A y \in T : ~(<<y, x>> \in R)
    BY <1>1, WFMin
  <1>3. ASSUME NEW y \in T PROVE x <= y
    <2>1. <<y, x>> \in Nat \X Nat /\ ~(<<y, x>> \in R)
      BY <1>2
    <2>2. ~(<<y, x>>[1] < <<y, x>>[2])
      BY <2>1, Zenon DEF R
    <2>. QED
      BY <2>2
  <1>. QED
    BY <1>3

\* What the readings leave behind, as far as they have taken place.
ReadBy(kind) == {r \in RequestTypes : <<kind, r>> \notin todo}
RoutesServed ==
    ~panicked =>
        /\ \A r \in ReadBy("bind") : \A s \in Api!Served(decl[r]) :
             [path |-> s[1], method |-> s[2], by |-> r] \in routes
        /\ \A t \in routes : \E r \in ReadBy("bind") : \E s \in Api!Served(decl[r]) :
             t = [path |-> s[1], method |-> s[2], by |-> r]
OneRoute ==
    ~panicked =>
        \A t, u \in routes : t.path.segs = u.path.segs /\ t.method = u.method => t.by = u.by
KeysOf(r) ==
    IF decl[r].first
    THEN {<<Api!DocumentedPath(decl[r]), m>> :
             m \in Api!Range(decl[r].methods) \cap Api!DocumentedMethods}
    ELSE {}
OperationsWritten ==
    /\ \A r \in ReadBy("document") : KeysOf(r) \subseteq DOMAIN docs
    /\ \A k \in DOMAIN docs : \E r \in ReadBy("document") :
         k \in KeysOf(r) /\ docs[k] = Api!Operation(r, decl[r], k[2])
AllReported ==
    \A r \in ReadBy("lint") : \A rule \in Api!Reported(decl[r]) : <<r, rule>> \in problems
ApiInv == Api!ApiTypeOK /\ RoutesServed /\ OneRoute /\ OperationsWritten /\ AllReported

LEMMA ApiInitInv ==
    ASSUME Api!ApiContractAssumption
    PROVE  Api!Init => ApiInv
  <1>. SUFFICES ASSUME Api!Init PROVE ApiInv
    OBVIOUS
  <1>1. /\ decl \in [RequestTypes -> Declarations] /\ routes = {} /\ docs = << >>
        /\ problems = {} /\ todo = {"bind", "document", "lint"} \X RequestTypes
    BY DEF Api!Init
  <1>2. panicked \in BOOLEAN
    BY DEF Api!Init
  <1>3. DOMAIN docs = {} /\ \A kind \in {"bind", "document", "lint"} : ReadBy(kind) = {}
    BY <1>1 DEF ReadBy
  <1>4. Api!ApiTypeOK
    BY <1>1, <1>2, <1>3 DEF Api!ApiTypeOK
  <1>5. RoutesServed /\ OneRoute /\ OperationsWritten /\ AllReported
    BY <1>1, <1>3 DEF RoutesServed, OneRoute, OperationsWritten, AllReported
  <1>. QED
    BY <1>4, <1>5 DEF ApiInv

\* A reading that takes place, and the others that do not.
LEMMA ReadNow ==
    ASSUME NEW kind, NEW r \in RequestTypes, todo' = todo \ {<<kind, r>>}
    PROVE  /\ ReadBy(kind)' = ReadBy(kind) \cup {r}
           /\ \A other : other # kind => ReadBy(other)' = ReadBy(other)
  BY DEF ReadBy

LEMMA BindInv ==
    ASSUME Api!ApiContractAssumption, ApiInv, NEW r \in RequestTypes, Api!Bind(r)
    PROVE  ApiInv'
  <1>0. Api!ApiTypeOK /\ RoutesServed /\ OneRoute /\ OperationsWritten /\ AllReported
    BY DEF ApiInv
  <1>1. /\ ~panicked /\ todo' = todo \ {<<"bind", r>>} /\ UNCHANGED <<decl, docs, problems>>
        /\ \/ panicked' = TRUE /\ UNCHANGED routes
           \/ /\ panicked' = FALSE /\ ~Api!GinPanics(decl[r])
              /\ routes' = routes \cup
                   {[path |-> s[1], method |-> s[2], by |-> r] : s \in Api!Served(decl[r])}
    <2>1. CASE ~decl[r].context \/ Api!GinPanics(decl[r])
      BY <2>1 DEF Api!Bind
    <2>2. CASE ~(~decl[r].context \/ Api!GinPanics(decl[r]))
      <3>1. panicked \in BOOLEAN
        BY <1>0 DEF Api!ApiTypeOK
      <3>. QED
        BY <2>2, <3>1 DEF Api!Bind
    <2>. QED
      BY <2>1, <2>2
  <1>2. /\ ReadBy("bind")' = ReadBy("bind") \cup {r}
        /\ ReadBy("document")' = ReadBy("document") /\ ReadBy("lint")' = ReadBy("lint")
    BY <1>1, ReadNow
  <1>3. Api!ApiTypeOK'
    <2>1. panicked' \in BOOLEAN
      BY <1>1
    <2>2. \A t \in routes' : DOMAIN t = {"path", "method", "by"} /\ t.by \in RequestTypes
      BY <1>0, <1>1 DEF Api!ApiTypeOK
    <2>3. /\ decl' \in [RequestTypes -> Declarations]
               /\ problems' \subseteq RequestTypes \X Api!Rules
          /\ \A k \in DOMAIN docs' : docs'[k].by \in RequestTypes
          /\ todo' \subseteq {"bind", "document", "lint"} \X RequestTypes
      BY <1>0, <1>1 DEF Api!ApiTypeOK
    <2>. QED
      BY <2>1, <2>2, <2>3 DEF Api!ApiTypeOK
  <1>4. OperationsWritten' /\ AllReported'
    BY <1>0, <1>1, <1>2 DEF OperationsWritten, AllReported, KeysOf
  <1>5. RoutesServed'
    BY <1>0, <1>1, <1>2 DEF RoutesServed
  <1>6. OneRoute'
    <2>. SUFFICES ASSUME ~panicked', NEW t \in routes', NEW u \in routes',
                         t.path.segs = u.path.segs, t.method = u.method
                  PROVE  t.by = u.by
      BY DEF OneRoute
    <2>. DEFINE new == {[path |-> s[1], method |-> s[2], by |-> r] : s \in Api!Served(decl[r])}
    <2>1. routes' = routes \cup new /\ ~Api!GinPanics(decl[r])
      BY <1>1
    <2>2. \A v \in new : v.by = r
      OBVIOUS
    <2>3. ASSUME NEW v \in new, NEW w \in routes, v.path.segs = w.path.segs, v.method = w.method
          PROVE  FALSE
      <3>1. PICK s \in Api!Served(decl[r]) : v.path = s[1] /\ v.method = s[2]
        OBVIOUS
      <3>2. Api!Conflict(s[1].segs, w.path.segs)
        BY <2>3, <3>1 DEF Api!Conflict
      <3>. QED
        BY <2>1, <2>3, <3>1, <3>2 DEF Api!GinPanics
    <2>. HIDE DEF new
    <2>4. CASE t \in routes /\ u \in routes
      BY <1>0, <1>1, <2>4 DEF OneRoute
    <2>5. CASE t \in new /\ u \in new
      BY <2>2, <2>5
    <2>. QED
      BY <2>1, <2>3, <2>4, <2>5
  <1>. QED
    BY <1>3, <1>4, <1>5, <1>6 DEF ApiInv

LEMMA DocumentInv ==
    ASSUME Api!ApiContractAssumption, ApiInv, NEW r \in RequestTypes, Api!Document(r)
    PROVE  ApiInv'
  <1>0. Api!ApiTypeOK /\ RoutesServed /\ OneRoute /\ OperationsWritten /\ AllReported
    BY DEF ApiInv
  <1>1. /\ todo' = todo \ {<<"document", r>>} /\ UNCHANGED <<decl, routes, panicked, problems>>
        /\ docs' = [k \in DOMAIN docs \cup KeysOf(r) |->
                      IF k \in KeysOf(r) THEN Api!Operation(r, decl[r], k[2]) ELSE docs[k]]
    BY DEF Api!Document, KeysOf
  <1>2. /\ ReadBy("document")' = ReadBy("document") \cup {r}
        /\ ReadBy("bind")' = ReadBy("bind") /\ ReadBy("lint")' = ReadBy("lint")
    BY <1>1, ReadNow
  <1>3. /\ DOMAIN docs' = DOMAIN docs \cup KeysOf(r)
        /\ \A k \in DOMAIN docs' : docs'[k] = IF k \in KeysOf(r) THEN Api!Operation(r, decl[r],
             k[2])
                                              ELSE docs[k]
    BY <1>1
  <1>4. \A q : KeysOf(q)' = KeysOf(q)
    BY <1>1 DEF KeysOf
  <1>5. Api!ApiTypeOK'
    <2>1. \A k \in DOMAIN docs' : docs'[k].by \in RequestTypes
      <3>1. \A k : Api!Operation(r, decl[r], k).by = r
        BY DEF Api!Operation
      <3>. QED
        BY <1>0, <1>3, <3>1 DEF Api!ApiTypeOK
    <2>. QED
      BY <1>0, <1>1, <2>1 DEF Api!ApiTypeOK
  <1>6. OperationsWritten'
    <2>1. \A q \in ReadBy("document")' : KeysOf(q)' \subseteq DOMAIN docs'
      BY <1>0, <1>2, <1>3, <1>4 DEF OperationsWritten
    <2>2. ASSUME NEW k \in DOMAIN docs'
          PROVE  \E q \in ReadBy("document")' :
                   k \in KeysOf(q)' /\ docs'[k] = Api!Operation(q, decl'[q], k[2])
      <3>1. CASE k \in KeysOf(r)
        BY <1>1, <1>2, <1>3, <1>4, <3>1
      <3>2. CASE k \notin KeysOf(r)
        <4>1. PICK q \in ReadBy("document") : k \in KeysOf(q) /\ docs[k] = Api!Operation(q,
                                                decl[q], k[2])
          BY <1>0, <1>3, <3>2 DEF OperationsWritten
        <4>2. docs'[k] = docs[k]
          BY <1>3, <3>2
        <4>. QED
          BY <1>1, <1>2, <1>4, <4>1, <4>2
      <3>. QED
        BY <3>1, <3>2
    <2>. QED
      BY <2>1, <2>2 DEF OperationsWritten
  <1>7. RoutesServed' /\ OneRoute' /\ AllReported'
    BY <1>0, <1>1, <1>2 DEF RoutesServed, OneRoute, AllReported
  <1>. QED
    BY <1>5, <1>6, <1>7 DEF ApiInv

LEMMA LintInv ==
    ASSUME Api!ApiContractAssumption, ApiInv, NEW r \in RequestTypes, Api!Lint(r)
    PROVE  ApiInv'
  <1>0. Api!ApiTypeOK /\ RoutesServed /\ OneRoute /\ OperationsWritten /\ AllReported
    BY DEF ApiInv
  <1>1. /\ todo' = todo \ {<<"lint", r>>} /\ UNCHANGED <<decl, routes, panicked, docs>>
        /\ problems' = problems \cup {<<r, rule>> : rule \in Api!Reported(decl[r])}
    BY DEF Api!Lint
  <1>2. /\ ReadBy("lint")' = ReadBy("lint") \cup {r}
        /\ ReadBy("bind")' = ReadBy("bind") /\ ReadBy("document")' = ReadBy("document")
    BY <1>1, ReadNow
  <1>3. Api!ApiTypeOK'
    <2>1. Api!Reported(decl[r]) \subseteq Api!Rules
      BY DEF Api!Reported
    <2>. QED
      BY <1>0, <1>1, <2>1 DEF Api!ApiTypeOK
  <1>4. RoutesServed' /\ OneRoute' /\ OperationsWritten'
    BY <1>0, <1>1, <1>2 DEF RoutesServed, OneRoute, OperationsWritten, KeysOf
  <1>5. AllReported'
    BY <1>0, <1>1, <1>2 DEF AllReported
  <1>. QED
    BY <1>3, <1>4, <1>5 DEF ApiInv

LEMMA ApiNextInv ==
    ASSUME Api!ApiContractAssumption, ApiInv, [Api!Next]_apiVars
    PROVE  ApiInv'
  <1>1. CASE UNCHANGED apiVars
    <2>1. UNCHANGED <<decl, routes, panicked, docs, problems, todo>>
      BY <1>1 DEF apiVars
    <2>2. \A q : KeysOf(q)' = KeysOf(q) /\ ReadBy(q)' = ReadBy(q)
      BY <2>1 DEF KeysOf, ReadBy
    <2>3. Api!ApiTypeOK' /\ OneRoute'
      BY <2>1 DEF ApiInv, Api!ApiTypeOK, OneRoute
    <2>4. RoutesServed' /\ OperationsWritten' /\ AllReported'
      BY <2>1, <2>2 DEF ApiInv, RoutesServed, OperationsWritten, AllReported
    <2>. QED
      BY <2>3, <2>4 DEF ApiInv
  <1>. QED
    BY <1>1, BindInv, DocumentInv, LintInv DEF Api!Next

\* A declaration the analyzer has nothing to say about.
Flawless(d) ==
    /\ d.suffix /\ d.response /\ "get" \notin Api!Range(d.methods)
    /\ Api!UriFields(d) = Api!AllParameters(d)

LEMMA NothingReported ==
    ASSUME NEW d, Api!WellFormed(d), Api!Reported(d) = {}
    PROVE  Flawless(d)
  <1>1. {d.suffix, d.response} \subseteq BOOLEAN
    BY DEF Api!WellFormed
  <1>2. d.suffix
    <2>1. "CAGO3003" \notin Api!Reported(d)
      OBVIOUS
    <2>. QED
      BY <2>1 DEF Api!Reported, Api!Rules
  <1>3. d.response
    <2>1. "CAGO3004" \notin Api!Reported(d)
      OBVIOUS
    <2>. QED
      BY <1>2, <2>1 DEF Api!Reported, Api!Rules
  <1>4. "get" \notin Api!Range(d.methods)
    <2>1. "CAGO3006" \notin Api!Reported(d)
      OBVIOUS
    <2>. QED
      BY <2>1 DEF Api!Reported, Api!Rules
  <1>5. ~Api!UriMismatch(d)
    <2>1. "CAGO3007" \notin Api!Reported(d)
      OBVIOUS
    <2>. QED
      BY <2>1 DEF Api!Reported, Api!Rules
  <1>. QED
    BY <1>2, <1>3, <1>4, <1>5 DEF Flawless, Api!UriMismatch

\* A field is one of the known shape, of a known type of contents.
LEMMA FieldOf ==
    ASSUME NEW d, Api!WellFormed(d), NEW i \in DOMAIN d.fields
    PROVE  /\ d.fields[i] \in Api!Fields /\ d.contentType \in Api!ContentTypes
           /\ Api!IsUri(d.fields[i]) => d.fields[i].uri \in Api!UriFields(d)
  <1>1. d.fields \in Seq(Api!Fields) /\ d.contentType \in Api!ContentTypes
    BY DEF Api!WellFormed
  <1>2. d.fields[i] \in Api!Fields
    BY <1>1, ElementOfSeq
  <1>. QED
    BY <1>1, <1>2 DEF Api!UriFields, Api!UriIndices

\* One place, and what makes two of them the same.
Place(p, n) == {<<p, n>>}

LEMMA SamePlace ==
    ASSUME NEW p, NEW n, NEW q, NEW o
    PROVE  /\ Place(p, n) = Place(q, o) <=> p = q /\ n = o
           /\ Place(p, n) # {}
  <1>1. <<p, n>> = <<q, o>> <=> p = q /\ n = o
    OBVIOUS
  <1>2. \A x, y : ({x} = {y} <=> x = y) /\ {x} # {}
    OBVIOUS
  <1>. QED
    BY <1>1, <1>2 DEF Place

\* Where the router reads a field, case by case.
LEMMA ReadFrom ==
    ASSUME NEW m, NEW ct, NEW f
    PROVE  LET reads == Api!Reads(m, ct, f)
           IN /\ f.form # Api!NoTag /\ Api!InQuery(m) => reads = Place("query", f.form)
              /\ f.form # Api!NoTag /\ ~Api!InQuery(m) /\ ct \in Api!FormTypes => reads = Place("formData", f.form)
              /\ f.form # Api!NoTag /\ ~Api!InQuery(m) /\ ct = "json" => reads = Place("body", Api!JsonName(f))
              /\ f.form # Api!NoTag /\ ~Api!InQuery(m) /\ ct \notin Api!FormTypes \cup {"json"} => reads = {}
              /\ f.form = Api!NoTag /\ f.uri # Api!NoTag => reads = Place("path", f.uri)
              /\ f.form = Api!NoTag /\ f.uri = Api!NoTag /\ f.header # Api!NoTag => reads = Place("header", f.header)
              /\ f.form = Api!NoTag /\ f.uri = Api!NoTag /\ f.header = Api!NoTag =>
                   reads = IF ~Api!InQuery(m) /\ ct = "json" THEN Place("body", Api!JsonName(f)) ELSE {}
  BY Zenon DEF Api!Reads, Api!FormTypes, Place

\* Where a field is documented, case by case.
LEMMA DocumentedAt ==
    ASSUME NEW d, NEW m, NEW f
    PROVE  LET places == Api!DocumentedPlaces(d, m, f)
               name   == Api!SwaggerName(f)
               apart  == m = "GET" \/ d.contentType # "json"
           IN /\ f.inlined \/ ~Api!Tagged(f) => places = {}
              /\ ~f.inlined /\ Api!Tagged(f) /\ apart =>
                   places = Place(IF f.uri # Api!NoTag THEN "path" ELSE IF m = "GET" THEN "query" ELSE "formData", name)
              /\ ~f.inlined /\ Api!Tagged(f) /\ ~apart =>
                   /\ f.uri # Api!NoTag => \A q, o : places = Place(q, o) => q = "path" /\ o = name
                   /\ f.uri # Api!NoTag /\ name \in Api!UriFields(d) => places = Place("path", name)
                   /\ f.uri = Api!NoTag /\ name \notin Api!UriFields(d) => places = Place("body", name)
                   /\ f.uri = Api!NoTag /\ name \in Api!UriFields(d) => places = {}
  <1>. DEFINE name  == Api!SwaggerName(f)
              apart == m = "GET" \/ d.contentType # "json"
              kept  == {p \in {"path", "body"} \X {name} :
                          IF p[1] = "path" THEN f.uri # Api!NoTag ELSE name \notin Api!UriFields(d)}
  <1>1. f.inlined \/ ~Api!Tagged(f) => Api!DocumentedPlaces(d, m, f) = {}
    BY DEF Api!DocumentedPlaces
  <1>2. ~f.inlined /\ Api!Tagged(f) /\ apart =>
          Api!DocumentedPlaces(d, m, f) =
            Place(IF f.uri # Api!NoTag THEN "path" ELSE IF m = "GET" THEN "query" ELSE "formData", name)
    BY Zenon DEF Api!DocumentedPlaces, Place
  <1>3. ~f.inlined /\ Api!Tagged(f) /\ ~apart => Api!DocumentedPlaces(d, m, f) = kept
    BY Zenon DEF Api!DocumentedPlaces
  <1>. HIDE DEF name
  <1>4. \A p : p \in kept <=> \/ p = <<"path", name>> /\ f.uri # Api!NoTag
                              \/ p = <<"body", name>> /\ name \notin Api!UriFields(d)
    OBVIOUS
  <1>5. <<"path", name>> # <<"body", name>>
    OBVIOUS
  <1>. HIDE DEF kept, apart
  <1>6. /\ f.uri # Api!NoTag => \A q, o : kept = Place(q, o) => q = "path" /\ o = name
        /\ f.uri # Api!NoTag /\ name \in Api!UriFields(d) => kept = Place("path", name)
        /\ f.uri = Api!NoTag /\ name \notin Api!UriFields(d) => kept = Place("body", name)
        /\ f.uri = Api!NoTag /\ name \in Api!UriFields(d) => kept = {}
    <2>1. ASSUME f.uri # Api!NoTag, NEW q, NEW o, kept = Place(q, o) PROVE q = "path" /\ o = name
      <3>1. <<"path", name>> \in kept
        BY <1>4, <2>1
      <3>2. <<"path", name>> = <<q, o>>
        BY <2>1, <3>1 DEF Place
      <3>. QED
        BY <3>2
    <2>2. f.uri # Api!NoTag /\ name \in Api!UriFields(d) => kept = Place("path", name)
      BY <1>4, <1>5 DEF Place
    <2>3. f.uri = Api!NoTag /\ name \notin Api!UriFields(d) => kept = Place("body", name)
      BY <1>4, <1>5 DEF Place
    <2>4. f.uri = Api!NoTag /\ name \in Api!UriFields(d) => kept = {}
      BY <1>4
    <2>. QED
      BY <2>1, <2>2, <2>3, <2>4
  <1>. QED
    BY <1>1, <1>2, <1>3, <1>6, Zenon DEF name, apart

\* A field is documented where it is read if, and only if, it is a rightly documented one.
LEMMA DocumentedRight ==
    ASSUME NEW d, Api!WellFormed(d), NEW i \in DOMAIN d.fields, NEW m
    PROVE  Api!Agree(Api!DocumentedPlaces(d, m, d.fields[i]), Api!Reads(m, d.contentType, d.fields[i]))
             <=> Api!RightlyDocumented(d, m, d.fields[i])
  <1>. DEFINE f      == d.fields[i]
              ct     == d.contentType
              places == Api!DocumentedPlaces(d, m, f)
              reads  == Api!Reads(m, ct, f)
              name   == Api!SwaggerName(f)
              uris   == Api!UriFields(d)
  <1>. SUFFICES Api!Agree(places, reads) <=> Api!RightlyDocumented(d, m, f)
    OBVIOUS
  <1>1. /\ f \in Api!Fields /\ ct \in {"json", "x-www-form-urlencoded", "form-data"}
        /\ f.uri # Api!NoTag /\ ~f.inlined => f.uri \in uris
    BY FieldOf DEF Api!ContentTypes, Api!IsUri
  <1>2. f.inlined \in BOOLEAN
    BY <1>1 DEF Api!Fields
  <1>. HIDE DEF f, ct
  <1>3. name = IF f.json # Api!NoTag THEN f.json ELSE IF f.form # Api!NoTag THEN f.form
               ELSE IF f.uri # Api!NoTag THEN f.uri ELSE f.go
    BY DEF Api!SwaggerName
  <1>4. Api!Tagged(f) <=> f.uri # Api!NoTag \/ f.form # Api!NoTag \/ f.json # Api!NoTag \/ f.header # Api!NoTag
    BY DEF Api!Tagged
  <1>5. Api!JsonName(f) = IF f.json # Api!NoTag THEN f.json ELSE f.go
    BY DEF Api!JsonName
  <1>6. Api!InQuery(m) <=> m = "GET" \/ m = "DELETE"
    BY DEF Api!InQuery
  <1>7. ct \in Api!FormTypes <=> ct = "x-www-form-urlencoded"
    BY <1>1 DEF Api!FormTypes
  <1>8. Api!RightlyDocumented(d, m, f) <=>
          /\ ~f.inlined
          /\ \/ f.uri # Api!NoTag /\ f.form = Api!NoTag /\ (f.json = Api!NoTag \/ f.json = f.uri)
             \/ /\ f.uri = Api!NoTag /\ f.form # Api!NoTag /\ (f.json = Api!NoTag \/ f.json = f.form)
                /\ m = "GET" \/ (~Api!InQuery(m) /\ ct = "x-www-form-urlencoded")
             \/ /\ f.uri = Api!NoTag /\ ~Api!InQuery(m) /\ ct = "json"
                /\ \/ f.json # Api!NoTag /\ (f.form # Api!NoTag \/ (f.uri = Api!NoTag /\ f.header = Api!NoTag))
                   \/ f.json = Api!NoTag /\ f.form # Api!NoTag /\ f.go = f.form
                /\ name \notin uris
    BY DEF Api!RightlyDocumented, Api!FoundInBody, f, ct
  <1>9. Api!Agree(places, reads) <=> reads # {} /\ places = reads
    BY DEF Api!Agree
  <1>. HIDE DEF places, reads, name, uris
  <1>10. CASE f.inlined \/ ~Api!Tagged(f)
    <2>1. places = {}
      BY <1>10, DocumentedAt DEF places
    <2>. QED
      BY <1>4, <1>8, <1>9, <1>10, <2>1
  <1>11. CASE ~f.inlined /\ Api!Tagged(f) /\ (m = "GET" \/ ct # "json")
    <2>. DEFINE place == IF f.uri # Api!NoTag THEN "path" ELSE IF m = "GET" THEN "query" ELSE "formData"
    <2>1. places = Place(place, name)
      BY <1>11, DocumentedAt DEF places, name, ct
    <2>. HIDE DEF place
    <2>0. place = IF f.uri # Api!NoTag THEN "path" ELSE IF m = "GET" THEN "query" ELSE "formData"
      BY DEF place
    <2>3. CASE f.form # Api!NoTag /\ Api!InQuery(m)
      <3>1. reads = Place("query", f.form)
        BY <2>3, ReadFrom DEF reads
      <3>2. Api!Agree(places, reads) <=> place = "query" /\ name = f.form
        BY <1>9, <2>1, <3>1, SamePlace
      <3>. QED
        BY <1>3, <1>6, <1>8, <1>11, <2>0, <2>3, <3>2
    <2>4. CASE f.form # Api!NoTag /\ ~Api!InQuery(m) /\ ct = "x-www-form-urlencoded"
      <3>1. reads = Place("formData", f.form)
        BY <1>7, <2>4, ReadFrom DEF reads
      <3>2. Api!Agree(places, reads) <=> place = "formData" /\ name = f.form
        BY <1>9, <2>1, <3>1, SamePlace
      <3>. QED
        BY <1>3, <1>6, <1>8, <1>11, <2>0, <2>4, <3>2
    <2>5. CASE f.form # Api!NoTag /\ ~Api!InQuery(m) /\ ct # "x-www-form-urlencoded"
      <3>1. reads = {}
        BY <1>6, <1>7, <1>11, <2>5, ReadFrom DEF reads
      <3>. QED
        BY <1>6, <1>8, <1>9, <1>11, <2>5, <3>1
    <2>6. CASE f.form = Api!NoTag /\ f.uri # Api!NoTag
      <3>1. reads = Place("path", f.uri)
        BY <2>6, ReadFrom DEF reads
      <3>2. Api!Agree(places, reads) <=> place = "path" /\ name = f.uri
        BY <1>9, <2>1, <3>1, SamePlace
      <3>. QED
        BY <1>3, <1>6, <1>8, <1>11, <2>0, <2>6, <3>2
    <2>7. CASE f.form = Api!NoTag /\ f.uri = Api!NoTag
      <3>1. reads = Place("header", f.header) \/ reads = {}
        BY <1>6, <1>11, <2>7, ReadFrom DEF reads
      <3>. QED
        BY <1>6, <1>8, <1>9, <1>11, <2>0, <2>1, SamePlace, <2>7, <3>1
    <2>. QED
      BY <2>3, <2>4, <2>5, <2>6, <2>7
  <1>12. CASE ~f.inlined /\ Api!Tagged(f) /\ ~(m = "GET" \/ ct # "json")
    <2>1. /\ f.uri # Api!NoTag => \A q, o : places = Place(q, o) => q = "path" /\ o = name
          /\ f.uri # Api!NoTag /\ name \in uris => places = Place("path", name)
          /\ f.uri = Api!NoTag /\ name \notin uris => places = Place("body", name)
          /\ f.uri = Api!NoTag /\ name \in uris => places = {}
      BY <1>12, DocumentedAt DEF places, name, uris, ct
    <2>3. CASE f.form # Api!NoTag /\ Api!InQuery(m)
      <3>1. reads = Place("query", f.form)
        BY <2>3, ReadFrom DEF reads
      <3>2. places # reads
        BY <2>1, SamePlace, <3>1
      <3>. QED
        BY <1>6, <1>8, <1>9, <1>12, <2>3, <3>2
    <2>4. CASE f.form # Api!NoTag /\ ~Api!InQuery(m)
      <3>1. reads = Place("body", Api!JsonName(f))
        BY <1>12, <2>4, ReadFrom DEF reads
      <3>2. Api!Agree(places, reads) <=> f.uri = Api!NoTag /\ name \notin uris /\ name = Api!JsonName(f)
        BY <1>9, <2>1, <3>1, SamePlace
      <3>. QED
        BY <1>3, <1>5, <1>6, <1>8, <1>12, <2>4, <3>2
    <2>5. CASE f.form = Api!NoTag /\ f.uri # Api!NoTag
      <3>1. reads = Place("path", f.uri)
        BY <2>5, ReadFrom DEF reads
      <3>2. places = reads <=> name = f.uri
        BY <1>1, <1>12, <2>1, SamePlace, <2>5, <3>1
      <3>. QED
        BY <1>3, <1>6, <1>8, <1>9, <1>12, SamePlace, <2>5, <3>1, <3>2
    <2>6. CASE f.form = Api!NoTag /\ f.uri = Api!NoTag /\ f.header # Api!NoTag
      <3>1. reads = Place("header", f.header)
        BY <2>6, ReadFrom DEF reads
      <3>2. places # reads
        BY <2>1, SamePlace, <3>1
      <3>. QED
        BY <1>6, <1>8, <1>9, <1>12, <2>6, <3>2
    <2>7. CASE f.form = Api!NoTag /\ f.uri = Api!NoTag /\ f.header = Api!NoTag
      <3>1. f.json # Api!NoTag /\ name = f.json /\ Api!JsonName(f) = f.json
        BY <1>3, <1>4, <1>5, <1>12, <2>7
      <3>2. CASE Api!InQuery(m)
        <4>1. reads = {}
          BY <2>7, <3>2, ReadFrom DEF reads
        <4>. QED
          BY <1>6, <1>8, <1>9, <1>12, <2>7, <3>2, <4>1
      <3>3. CASE ~Api!InQuery(m)
        <4>1. reads = Place("body", f.json)
          BY <1>12, <2>7, <3>1, <3>3, ReadFrom DEF reads
        <4>2. places = reads <=> name \notin uris
          BY <2>1, SamePlace, <2>7, <3>1, <4>1
        <4>. QED
          BY <1>6, <1>8, <1>9, <1>12, SamePlace, <2>7, <3>1, <3>3, <4>1, <4>2
      <3>. QED
        BY <3>2, <3>3
    <2>. QED
      BY <2>3, <2>4, <2>5, <2>6, <2>7
  <1>. QED
    BY <1>2, <1>10, <1>11, <1>12

\* A field has its place in the comments where it is read if, and only if, it is a rightly
\* commented one.
LEMMA CommentedRight ==
    ASSUME NEW d, Api!WellFormed(d), "get" \notin Api!Range(d.methods), NEW i \in DOMAIN d.fields, NEW m
    PROVE  Api!Agree({Api!CommentedPlace(d, d.fields[i])},
                     {p[1] : p \in Api!Reads(m, Api!CommentedType(d), d.fields[i])})
             <=> Api!RightlyCommented(d, m, d.fields[i])
  <1>. DEFINE f     == d.fields[i]
              ct    == Api!CommentedType(d)
              place == Api!CommentedPlace(d, f)
              reads == Api!Reads(m, ct, f)
              firsts == {p[1] : p \in reads}
              withGet == "GET" \in Api!Range(d.methods)
  <1>. SUFFICES Api!Agree({place}, firsts) <=> Api!RightlyCommented(d, m, f)
    OBVIOUS
  <1>1. f \in Api!Fields /\ d.contentType \in {"json", "x-www-form-urlencoded", "form-data"}
    BY FieldOf DEF Api!ContentTypes
  <1>2. /\ ct \in Api!FormTypes <=> ct # "json"
        /\ ct = "json" <=> d.contentType = "json"
    BY <1>1 DEF Api!FormTypes, Api!CommentedType
  <1>3. f.inlined \in BOOLEAN
    BY <1>1 DEF Api!Fields
  <1>. HIDE DEF f, ct
  <1>4. Api!IsUri(f) <=> f.uri # Api!NoTag /\ ~f.inlined
    BY DEF Api!IsUri
  <1>5. place = IF Api!IsUri(f) THEN "path" ELSE IF withGet THEN "query" ELSE "body"
    BY DEF Api!CommentedPlace
  <1>6. Api!RightlyCommented(d, m, f) <=>
          \/ Api!IsUri(f) /\ f.form = Api!NoTag
          \/ ~Api!IsUri(f) /\ Api!InQuery(m) /\ f.form # Api!NoTag /\ withGet
          \/ /\ ~Api!IsUri(f) /\ ~Api!InQuery(m) /\ d.contentType = "json" /\ ~withGet
             /\ f.form # Api!NoTag \/ (f.uri = Api!NoTag /\ f.header = Api!NoTag)
    BY DEF Api!RightlyCommented
  <1>7. Api!Agree({place}, firsts) <=> firsts # {} /\ {place} = firsts
    BY DEF Api!Agree
  <1>8. /\ \A p, n : reads = Place(p, n) => firsts = {p}
        /\ reads = {} => firsts = {}
    <2>. HIDE DEF reads
    <2>1. \A p, n : <<p, n>>[1] = p
      OBVIOUS
    <2>2. ASSUME NEW p, NEW n, reads = Place(p, n) PROVE firsts = {p}
      BY <2>1, <2>2 DEF Place
    <2>3. reads = {} => firsts = {}
      OBVIOUS
    <2>. QED
      BY <2>2, <2>3
  <1>9. \A p, q : ({p} = {q} <=> p = q) /\ {p} # {}
    OBVIOUS
  <1>. HIDE DEF place, reads, firsts, withGet
  <1>10. CASE f.form # Api!NoTag /\ Api!InQuery(m)
    <2>1. firsts = {"query"}
      BY <1>8, <1>10, ReadFrom DEF reads
    <2>. QED
      BY <1>4, <1>5, <1>6, <1>7, <1>9, <1>10, <2>1
  <1>11. CASE f.form # Api!NoTag /\ ~Api!InQuery(m) /\ ct # "json"
    <2>0. reads = Place("formData", f.form)
      BY <1>2, <1>11, ReadFrom DEF reads
    <2>1. firsts = {"formData"}
      BY <1>8, <2>0
    <2>. QED
      BY <1>2, <1>4, <1>5, <1>6, <1>7, <1>9, <1>11, <2>1
  <1>12. CASE f.form # Api!NoTag /\ ~Api!InQuery(m) /\ ct = "json"
    <2>0. reads = Place("body", Api!JsonName(f))
      BY <1>12, ReadFrom DEF reads
    <2>1. firsts = {"body"}
      BY <1>8, <2>0
    <2>. QED
      BY <1>2, <1>4, <1>5, <1>6, <1>7, <1>9, <1>12, <2>1
  <1>13. CASE f.form = Api!NoTag /\ f.uri # Api!NoTag
    <2>1. firsts = {"path"}
      BY <1>8, <1>13, ReadFrom DEF reads
    <2>. QED
      BY <1>3, <1>4, <1>5, <1>6, <1>7, <1>9, <1>13, <2>1
  <1>14. CASE f.form = Api!NoTag /\ f.uri = Api!NoTag /\ f.header # Api!NoTag
    <2>1. firsts = {"header"}
      BY <1>8, <1>14, ReadFrom DEF reads
    <2>. QED
      BY <1>4, <1>5, <1>6, <1>7, <1>9, <1>14, <2>1
  <1>15. CASE f.form = Api!NoTag /\ f.uri = Api!NoTag /\ f.header = Api!NoTag
    <2>0. reads = IF ~Api!InQuery(m) /\ ct = "json" THEN Place("body", Api!JsonName(f)) ELSE {}
      BY <1>15, ReadFrom DEF reads
    <2>1. firsts = IF ~Api!InQuery(m) /\ ct = "json" THEN {"body"} ELSE {}
      BY <1>8, <2>0
    <2>. QED
      BY <1>2, <1>4, <1>5, <1>6, <1>7, <1>9, <1>15, <2>1
  <1>. QED
    BY <1>10, <1>11, <1>12, <1>13, <1>14, <1>15

\* The client puts a field where it is read if, and only if, it is a rightly called one, in
\* a request whose path fields have neither a json nor a form tag.
LEMMA CalledRight ==
    ASSUME NEW d, Api!WellFormed(d), NEW i \in DOMAIN d.fields, NEW m,
           \A j \in Api!UriIndices(d) : d.fields[j].json = Api!NoTag /\ d.fields[j].form = Api!NoTag
    PROVE  Api!Agree(Api!CalledPlaces(m, d.fields[i]), Api!Reads(m, "json", d.fields[i]))
             <=> Api!RightlyCalled(m, d.fields[i])
  <1>. DEFINE f      == d.fields[i]
              places == Api!CalledPlaces(m, f)
              reads  == Api!Reads(m, "json", f)
              name   == Api!JsonName(f)
  <1>. SUFFICES Api!Agree(places, reads) <=> Api!RightlyCalled(m, f)
    OBVIOUS
  <1>1. f \in Api!Fields
    BY FieldOf
  <1>2. f.inlined \in BOOLEAN
    BY <1>1 DEF Api!Fields
  <1>3. f.uri # Api!NoTag /\ ~f.inlined => f.json = Api!NoTag /\ f.form = Api!NoTag
    BY DEF Api!UriIndices, Api!IsUri
  <1>. HIDE DEF f
  <1>4. name = IF f.json # Api!NoTag THEN f.json ELSE f.go
    BY DEF Api!JsonName
  <1>5. Api!RightlyCalled(m, f) <=>
          /\ ~f.inlined
          /\ \/ f.uri # Api!NoTag /\ f.form = Api!NoTag /\ f.json = Api!NoTag
             \/ Api!InQuery(m) /\ f.form # Api!NoTag /\ (f.json = Api!NoTag \/ f.json = f.form)
             \/ /\ ~Api!InQuery(m)
                /\ \/ f.json # Api!NoTag /\ (f.form # Api!NoTag \/ (f.uri = Api!NoTag /\ f.header = Api!NoTag))
                   \/ f.json = Api!NoTag /\ f.form # Api!NoTag /\ f.go = f.form
    BY DEF Api!RightlyCalled, Api!FoundInBody
  <1>6. Api!Agree(places, reads) <=> reads # {} /\ places = reads
    BY DEF Api!Agree
  <1>7. /\ f.inlined => places = {}
        /\ ~f.inlined /\ (f.json # Api!NoTag \/ f.form # Api!NoTag) =>
             places = Place(IF Api!InQuery(m) THEN "query" ELSE "body", IF f.json # Api!NoTag THEN f.json ELSE f.form)
        /\ ~f.inlined /\ f.json = Api!NoTag /\ f.form = Api!NoTag /\ f.uri # Api!NoTag => places = Place("path", f.uri)
        /\ ~f.inlined /\ f.json = Api!NoTag /\ f.form = Api!NoTag /\ f.uri = Api!NoTag => places = {}
    BY Zenon DEF Api!CalledPlaces, Place
  <1>. HIDE DEF places, reads, name
  <1>9. CASE f.inlined
    BY <1>5, <1>6, <1>7, <1>9
  <1>10. CASE ~f.inlined /\ f.form # Api!NoTag /\ Api!InQuery(m)
    <2>1. reads = Place("query", f.form)
      BY <1>10, ReadFrom DEF reads
    <2>2. places = Place("query", IF f.json # Api!NoTag THEN f.json ELSE f.form)
      BY <1>7, <1>10
    <2>3. reads # {} /\ (places = reads <=> f.json = Api!NoTag \/ f.json = f.form)
      BY <2>1, <2>2, SamePlace
    <2>. QED
      BY <1>3, <1>5, <1>6, <1>10, <2>3
  <1>11. CASE ~f.inlined /\ f.form # Api!NoTag /\ ~Api!InQuery(m)
    <2>1. reads = Place("body", name)
      BY <1>11, ReadFrom DEF reads, name
    <2>2. places = Place("body", IF f.json # Api!NoTag THEN f.json ELSE f.form)
      BY <1>7, <1>11
    <2>3. reads # {} /\ (places = reads <=> f.json # Api!NoTag \/ f.go = f.form)
      BY <1>4, <2>1, <2>2, SamePlace
    <2>. QED
      BY <1>3, <1>5, <1>6, <1>11, <2>3
  <1>12. CASE ~f.inlined /\ f.form = Api!NoTag /\ f.uri # Api!NoTag
    <2>1. reads = Place("path", f.uri) /\ places = Place("path", f.uri)
      BY <1>3, <1>7, <1>12, ReadFrom DEF reads
    <2>. QED
      BY <1>3, <1>5, <1>6, SamePlace, <1>12, <2>1
  <1>13. CASE ~f.inlined /\ f.form = Api!NoTag /\ f.uri = Api!NoTag /\ f.header # Api!NoTag
    <2>1. reads = Place("header", f.header)
      BY <1>13, ReadFrom DEF reads
    <2>2. places # reads
      <3>1. CASE f.json # Api!NoTag
        <4>1. places = Place(IF Api!InQuery(m) THEN "query" ELSE "body", f.json)
          BY <1>7, <1>13, <3>1
        <4>2. (IF Api!InQuery(m) THEN "query" ELSE "body") # "header"
          OBVIOUS
        <4>. QED
          BY <2>1, <4>1, <4>2, SamePlace
      <3>2. CASE f.json = Api!NoTag
        BY <1>7, SamePlace, <1>13, <2>1, <3>2
      <3>. QED
        BY <3>1, <3>2
    <2>. QED
      BY <1>5, <1>6, <1>13, <2>2
  <1>14. CASE ~f.inlined /\ f.form = Api!NoTag /\ f.uri = Api!NoTag /\ f.header = Api!NoTag
    <2>1. reads = IF ~Api!InQuery(m) THEN Place("body", name) ELSE {}
      BY <1>14, ReadFrom DEF reads, name
    <2>2. f.json = Api!NoTag => places = {}
      BY <1>7, <1>14
    <2>3. f.json # Api!NoTag /\ ~Api!InQuery(m) => places = Place("body", f.json) /\ name = f.json
      BY <1>4, <1>7, <1>14
    <2>. QED
      BY <1>5, <1>6, SamePlace, <1>14, <2>1, <2>2, <2>3
  <1>. QED
    BY <1>2, <1>9, <1>10, <1>11, <1>12, <1>13, <1>14

\* The path as the fields of some indices fill it, if they cover the parameters: no name
\* starts another.
LEMMA PlainPath ==
    ASSUME NEW d, Api!WellFormed(d), Api!Plain(d), Flawless(d),
           NEW is \in SUBSET Api!UriIndices(d),
           \A j \in Api!UriIndices(d) : d.fields[j].uri \in {d.fields[i].uri : i \in is}
    PROVE  Api!FilledPath(d, is) = <<d.paths[1].segs>>
  <1>1. Len(d.paths) = 1 /\ \A u, n \in Api!UriFields(d) : <<u, n>> \notin ProperPrefixes
    BY DEF Api!Plain
  <1>. DEFINE Seg  == [par : BOOLEAN, name : STRING]
              APath == [segs : Seq(Seg), flaw : Api!Flaws]
  <1>2. d.paths \in Seq(APath)
    BY DEF Api!WellFormed
  <1>3. DOMAIN d.paths = {1}
    <2>1. DOMAIN d.paths = 1..1
      BY <1>1, <1>2
    <2>. QED
      BY <2>1
  <1>4. d.paths[1].segs \in Seq(Seg)
    <2>. HIDE DEF APath
    <2>1. d.paths[1] \in APath
      BY <1>2, <1>3
    <2>. QED
      BY <2>1 DEF APath
  <1>. DEFINE segs == d.paths[1].segs
  <1>5. ASSUME NEW j \in DOMAIN segs PROVE Api!FilledSegment(d, is, segs[j]) = segs[j]
    <2>. DEFINE s == segs[j]
                takers == {i \in is :
                             d.fields[i].uri = s.name \/ <<d.fields[i].uri, s.name>> \in ProperPrefixes}
                first  == CHOOSE i \in takers : \A k \in takers : i <= k
    <2>1. CASE ~s.par
      BY <2>1 DEF Api!FilledSegment
    <2>2. CASE s.par
      <3>1. s.name \in Api!UriFields(d)
        BY <1>3, <2>2 DEF Flawless, Api!AllParameters, Api!Parameters
      <3>2. \E i \in is : d.fields[i].uri = s.name
        BY <3>1 DEF Api!UriFields
      <3>3. takers # {} /\ takers \in SUBSET Nat
        <4>1. d.fields \in Seq(Api!Fields)
          BY DEF Api!WellFormed
        <4>2. DOMAIN d.fields = 1..Len(d.fields) /\ Len(d.fields) \in Nat
          BY <4>1
        <4>. QED
          BY <3>2, <4>2 DEF Api!UriIndices
      <3>4. first \in takers
        BY <3>3, Least
      <3>5. first \in Api!UriIndices(d)
            /\ (d.fields[first].uri = s.name \/ <<d.fields[first].uri, s.name>> \in ProperPrefixes)
        BY <3>4
      <3>6. d.fields[first].uri = s.name
        <4>1. d.fields[first].uri \in Api!UriFields(d)
          BY <3>5 DEF Api!UriFields
        <4>. QED
          BY <1>1, <3>1, <3>5, <4>1
      <3>7. Api!FilledSegment(d, is, s) =
              IF ~s.par THEN s
              ELSE IF takers = {} THEN [raw |-> s.name]
              ELSE IF d.fields[first].uri = s.name THEN s
              ELSE [garbled |-> <<d.fields[first].uri, s.name>>]
        BY DEF Api!FilledSegment
      <3>. HIDE DEF first, takers
      <3>. QED
        BY <2>2, <3>3, <3>6, <3>7
    <2>. QED
      BY <2>1, <2>2
  <1>6. [j \in DOMAIN segs |-> Api!FilledSegment(d, is, segs[j])] = segs
    BY <1>4, <1>5
  <1>7. Api!FilledPath(d, is) = [i \in {1} |-> [j \in DOMAIN d.paths[i].segs |->
                                                  Api!FilledSegment(d, is, d.paths[i].segs[j])]]
    BY <1>3 DEF Api!FilledPath
  <1>8. Api!FilledPath(d, is) = [i \in {1} |-> segs]
    BY <1>6, <1>7
  <1>. HIDE DEF segs
  <1>9. [i \in {1} |-> segs] = <<segs>>
    <2>1. {1} = 1..1
      OBVIOUS
    <2>. QED
      BY <2>1
  <1>. QED
    BY <1>8, <1>9 DEF segs

LEMMA ApiInvImplies ==
    ASSUME Api!ApiContractAssumption, ApiInv
    PROVE  Api!ReadersAgree
  <1>0. Api!ApiTypeOK /\ RoutesServed /\ OneRoute /\ OperationsWritten /\ AllReported
    BY DEF ApiInv
  <1>. SUFFICES ASSUME todo = {}, ~panicked, problems = {}
                PROVE  /\ \A r \in RequestTypes : Api!CommentsAgree(r) /\ Api!ClientIsServed(r)
                       /\ (\A r \in RequestTypes : Api!Plain(decl[r])) => Api!Documented
    BY DEF Api!ReadersAgree
  <1>1. \A kind : ReadBy(kind) = RequestTypes
    BY DEF ReadBy
  <1>2. \A r \in RequestTypes : Api!WellFormed(decl[r])
    BY <1>0 DEF Api!ApiTypeOK, Api!ApiContractAssumption
  <1>3. \A r \in RequestTypes : Flawless(decl[r])
    <2>. SUFFICES ASSUME NEW r \in RequestTypes PROVE Flawless(decl[r])
      OBVIOUS
    <2>1. Api!Reported(decl[r]) = {}
      BY <1>0, <1>1 DEF AllReported
    <2>. QED
      BY <1>2, <2>1, NothingReported
  <1>4. /\ \A r \in RequestTypes : \A s \in Api!Served(decl[r]) :
             [path |-> s[1], method |-> s[2], by |-> r] \in routes
        /\ \A t \in routes : \E r \in RequestTypes : \E s \in Api!Served(decl[r]) :
             t = [path |-> s[1], method |-> s[2], by |-> r]
    BY <1>0, <1>1 DEF RoutesServed
  <1>5. \A r \in RequestTypes :
          /\ \A s \in Api!Served(decl[r]) : [path |-> s[1], method |-> s[2], by |-> r]
               \in Api!RoutesOf(r)
          /\ \A t \in Api!RoutesOf(r) : \E s \in Api!Served(decl[r]) : t.path = s[1]
               /\ t.method = s[2]
    BY <1>4 DEF Api!RoutesOf
  \* A plain declaration has the one path of its routes, and its methods are theirs.
  <1>6. ASSUME NEW r \in RequestTypes, Api!Plain(decl[r])
        PROVE  /\ \A t \in Api!RoutesOf(r) : /\ t.path = decl[r].paths[1]
                                             /\ t.method \in Api!Range(decl[r].methods)
               /\ \A m \in Api!Range(decl[r].methods) :
                    [path |-> decl[r].paths[1], method |-> m, by |-> r] \in Api!RoutesOf(r)
    <2>. DEFINE d == decl[r]
    <2>1. DOMAIN d.paths = {1}
      <3>. DEFINE APath == [segs : Seq([par : BOOLEAN, name : STRING]), flaw : Api!Flaws]
      <3>1. d.paths \in Seq(APath)
        BY <1>2 DEF Api!WellFormed
      <3>. HIDE DEF APath
      <3>2. DOMAIN d.paths = 1..1
        BY <1>6, <3>1 DEF Api!Plain
      <3>. QED
        BY <3>2
    <2>2. \A m \in Api!Range(d.methods) : Api!ServedMethod(m) = m
      BY <1>6 DEF Api!Plain, Api!DocumentedMethods, Api!ServedMethod
    <2>3. \A s : s \in Api!Served(d) <=> \E m \in Api!Range(d.methods) : s = <<d.paths[1], m>>
      BY <2>1, <2>2 DEF Api!Served, Api!Range
    <2>. HIDE DEF d
    <2>4. ASSUME NEW t \in Api!RoutesOf(r)
          PROVE  t.path = d.paths[1] /\ t.method \in Api!Range(d.methods)
      BY <1>5, <2>3 DEF d
    <2>5. ASSUME NEW m \in Api!Range(d.methods)
          PROVE  [path |-> d.paths[1], method |-> m, by |-> r] \in Api!RoutesOf(r)
      <3>1. <<d.paths[1], m>> \in Api!Served(d)
        BY <2>3
      <3>2. [path |-> <<d.paths[1], m>>[1], method |-> <<d.paths[1], m>>[2], by |-> r]
              \in Api!RoutesOf(r)
        BY <1>5, <3>1 DEF d
      <3>. QED
        BY <3>2
    <2>. QED
      BY <2>4, <2>5 DEF d
  <1>7. ASSUME NEW r \in RequestTypes PROVE Api!CommentsAgree(r)
    <2>. DEFINE d == decl[r]
    <2>1. Api!Commented(d) = {<<t.path.segs, t.method>> : t \in Api!RoutesOf(r)}
      <3>1. \A m \in Api!Range(d.methods) : Api!CommentedMethod(m) = Api!ServedMethod(m)
        BY <1>3 DEF Flawless, Api!CommentedMethod, Api!ServedMethod
      <3>2. \A j \in DOMAIN d.methods : Api!CommentedMethod(d.methods[j]) = Api!ServedMethod(d.methods[j])
        BY <3>1 DEF Api!Range
      <3>3. Api!Commented(d) = {<<s[1].segs, s[2]>> : s \in Api!Served(d)}
        <4>1. Api!Served(d) = {<<d.paths[i], Api!CommentedMethod(d.methods[j])>> :
                                 i \in DOMAIN d.paths, j \in DOMAIN d.methods}
          BY <3>2 DEF Api!Served
        <4>2. ASSUME NEW i \in DOMAIN d.paths, NEW j \in DOMAIN d.methods
              PROVE  \E s \in Api!Served(d) :
                       /\ s[1] = d.paths[i] /\ s[2] = Api!CommentedMethod(d.methods[j])
          <5>. DEFINE s == <<d.paths[i], Api!CommentedMethod(d.methods[j])>>
          <5>1. s \in Api!Served(d)
            BY <4>1
          <5>2. s[1] = d.paths[i] /\ s[2] = Api!CommentedMethod(d.methods[j])
            OBVIOUS
          <5>. HIDE DEF s
          <5>. QED
            BY <5>1, <5>2
        <4>3. ASSUME NEW s \in Api!Served(d)
              PROVE  \E i \in DOMAIN d.paths, j \in DOMAIN d.methods :
                       /\ s[1] = d.paths[i] /\ s[2] = Api!CommentedMethod(d.methods[j])
          BY <4>1
        <4>4. \A x : x \in Api!Commented(d) <=>
                \E i \in DOMAIN d.paths, j \in DOMAIN d.methods :
                  x = <<d.paths[i].segs, Api!CommentedMethod(d.methods[j])>>
          BY DEF Api!Commented
        <4>. HIDE DEF d
        <4>5. \A x : x \in Api!Commented(d) <=> \E s \in Api!Served(d) : x = <<s[1].segs, s[2]>>
          BY <4>2, <4>3, <4>4
        <4>. QED
          BY <4>5
      <3>4. {<<s[1].segs, s[2]>> : s \in Api!Served(d)} = {<<t.path.segs, t.method>> : t
              \in Api!RoutesOf(r)}
        <4>1. ASSUME NEW s \in Api!Served(d)
              PROVE  \E t \in Api!RoutesOf(r) : t.path = s[1] /\ t.method = s[2]
          BY <1>5
        <4>2. ASSUME NEW t \in Api!RoutesOf(r)
              PROVE  \E s \in Api!Served(d) : t.path = s[1] /\ t.method = s[2]
          BY <1>5
        <4>. HIDE DEF d
        <4>. QED
          BY <4>1, <4>2
      <3>. QED
        BY <3>3, <3>4
    <2>2. ASSUME NEW t \in Api!RoutesOf(r), NEW i \in DOMAIN d.fields
          PROVE  Api!Agree({Api!CommentedPlace(d, d.fields[i])},
                           {p[1] : p \in Api!Reads(t.method, Api!CommentedType(d), d.fields[i])})
                   <=> Api!RightlyCommented(d, t.method, d.fields[i])
      <3>1. Api!WellFormed(d) /\ "get" \notin Api!Range(d.methods)
        BY <1>2, <1>3 DEF Flawless
      <3>. HIDE DEF d
      <3>. QED
        BY <3>1, CommentedRight
    <2>. QED
      BY <2>1, <2>2 DEF Api!CommentsAgree
  <1>8. ASSUME NEW r \in RequestTypes PROVE Api!ClientIsServed(r)
    <2>. DEFINE d == decl[r]
    <2>. SUFFICES ASSUME Api!Plain(d), Len(d.methods) = 1,
                         \A i \in Api!UriIndices(d) : d.fields[i].json = Api!NoTag /\ d.fields[i].form = Api!NoTag
                  PROVE  \E t \in Api!RoutesOf(r) :
                           /\ Api!CalledPath(d) = <<t.path.segs>>
                           /\ Api!CalledMethod(d.methods[1]) = t.method
                           /\ \A i \in DOMAIN d.fields :
                                Api!Agree(Api!CalledPlaces(d.methods[1], d.fields[i]),
                                          Api!Reads(t.method, "json", d.fields[i]))
                                  <=> Api!RightlyCalled(d.methods[1], d.fields[i])
      BY DEF Api!ClientIsServed
    <2>. DEFINE m == d.methods[1]
                t == [path |-> d.paths[1], method |-> m, by |-> r]
    <2>1. m \in Api!Range(d.methods)
      <3>1. d.methods \in Seq(Api!RouteMethods)
        BY <1>2 DEF Api!WellFormed
      <3>2. 1 \in DOMAIN d.methods
        BY <3>1
      <3>. QED
        BY <3>2 DEF Api!Range
    <2>2. t \in Api!RoutesOf(r)
      BY <1>6, <2>1
    <2>3. Api!CalledPath(d) = <<d.paths[1].segs>>
      <3>1. {i \in Api!UriIndices(d) : d.fields[i].json = Api!NoTag /\ d.fields[i].form = Api!NoTag}
              = Api!UriIndices(d)
        OBVIOUS
      <3>2. Api!CalledPath(d) = Api!FilledPath(d, Api!UriIndices(d))
        BY <3>1 DEF Api!CalledPath
      <3>. HIDE DEF d
      <3>3. Api!WellFormed(d) /\ Flawless(d)
        BY <1>2, <1>3 DEF d
      <3>. QED
        BY <3>2, <3>3, PlainPath
    <2>4. Api!CalledMethod(m) = m
      BY <2>1 DEF Api!CalledMethod, Api!Plain, Api!DocumentedMethods
    <2>5. \A i \in DOMAIN d.fields :
            Api!Agree(Api!CalledPlaces(m, d.fields[i]), Api!Reads(m, "json", d.fields[i]))
              <=> Api!RightlyCalled(m, d.fields[i])
      BY <1>2, CalledRight
    <2>6. t.path = d.paths[1] /\ t.method = m
      OBVIOUS
    <2>. HIDE DEF t, m, d
    <2>. QED
      BY <2>2, <2>3, <2>4, <2>5, <2>6 DEF m
  <1>9. ASSUME \A r \in RequestTypes : Api!Plain(decl[r]) PROVE Api!Documented
    <2>1. \A r \in RequestTypes :
            /\ Api!DocumentedPath(decl[r]) = <<decl[r].paths[1].segs>> /\ decl[r].first
            /\ Api!Range(decl[r].methods) \cap Api!DocumentedMethods = Api!Range(decl[r].methods)
      BY <1>2, <1>3, <1>9, PlainPath DEF Api!Plain, Api!DocumentedPath
    <2>2. \A r \in RequestTypes :
            KeysOf(r) = {<< <<decl[r].paths[1].segs>>, m>> : m \in Api!Range(decl[r].methods)}
      BY <2>1 DEF KeysOf
    <2>3. \A t \in routes : t.by \in RequestTypes /\ t \in Api!RoutesOf(t.by)
      BY <1>0 DEF Api!ApiTypeOK, Api!RoutesOf
    <2>4. ASSUME NEW t \in routes
          PROVE  /\ << <<t.path.segs>>, t.method>> \in KeysOf(t.by)
                 /\ << <<t.path.segs>>, t.method>> \in DOMAIN docs
      <3>1. t.path = decl[t.by].paths[1] /\ t.method \in Api!Range(decl[t.by].methods)
        BY <1>6, <1>9, <2>3
      <3>2. << <<t.path.segs>>, t.method>> \in KeysOf(t.by)
        BY <2>2, <2>3, <3>1
      <3>. QED
        BY <1>0, <1>1, <2>3, <3>2 DEF OperationsWritten
    <2>5. ASSUME NEW k \in DOMAIN docs
          PROVE  \E r \in RequestTypes, t \in routes :
                   /\ k = << <<t.path.segs>>, t.method>> /\ t.by = r /\ t \in Api!RoutesOf(r)
                   /\ docs[k] = Api!Operation(r, decl[r], t.method)
      <3>1. PICK r \in RequestTypes : k \in KeysOf(r) /\ docs[k] = Api!Operation(r, decl[r],
                                        k[2])
        BY <1>0, <1>1 DEF OperationsWritten
      <3>2. PICK m \in Api!Range(decl[r].methods) : k = << <<decl[r].paths[1].segs>>, m>>
        BY <2>2, <3>1
      <3>. DEFINE t == [path |-> decl[r].paths[1], method |-> m, by |-> r]
      <3>3. t \in Api!RoutesOf(r)
        BY <1>6, <1>9
      <3>4. t \in routes /\ t.by = r /\ t.path = decl[r].paths[1] /\ t.method = m /\ k[2] = m
        BY <3>2, <3>3 DEF Api!RoutesOf
      <3>. HIDE DEF t
      <3>. QED
        BY <3>1, <3>2, <3>3, <3>4
    <2>6. DOMAIN docs = {<< <<t.path.segs>>, t.method>> : t \in routes}
      BY <2>4, <2>5
    <2>7. ASSUME NEW t \in routes
          PROVE  LET op == docs[<< <<t.path.segs>>, t.method>>]
                     d  == decl[t.by]
                 IN /\ op.by = t.by /\ op.response
                    /\ \A i \in DOMAIN d.fields :
                         Api!Agree(op.places[i], Api!Reads(t.method, d.contentType, d.fields[i]))
                           <=> Api!RightlyDocumented(d, t.method, d.fields[i])
      <3>. DEFINE k == << <<t.path.segs>>, t.method>>
      <3>1. PICK r \in RequestTypes, u \in routes :
              /\ k = << <<u.path.segs>>, u.method>> /\ u.by = r /\ u \in Api!RoutesOf(r)
              /\ docs[k] = Api!Operation(r, decl[r], u.method)
        BY <2>4, <2>5
      <3>2. t.path.segs = u.path.segs /\ t.method = u.method
        BY <3>1
      <3>3. t.by = r
        BY <1>0, <3>1, <3>2 DEF OneRoute
      <3>4. docs[k] = Api!Operation(r, decl[r], t.method) /\ t.method
              \in Api!Range(decl[r].methods)
        BY <1>6, <1>9, <3>1, <3>2
      <3>. HIDE DEF k
      <3>5. docs[k].by = r /\ docs[k].response = (decl[r].response /\ decl[r].suffix
              /\ ~decl[r].oddStem)
            /\ \A i \in DOMAIN decl[r].fields :
                 docs[k].places[i] = Api!DocumentedPlaces(decl[r], t.method, decl[r].fields[i])
        BY <3>4 DEF Api!Operation
      <3>6. docs[k].response
        BY <1>3, <1>9, <3>5 DEF Flawless, Api!Plain
      <3>7. \A i \in DOMAIN decl[r].fields :
              Api!Agree(docs[k].places[i], Api!Reads(t.method, decl[r].contentType, decl[r].fields[i]))
                <=> Api!RightlyDocumented(decl[r], t.method, decl[r].fields[i])
        BY <1>2, <3>5, DocumentedRight
      <3>. QED
        BY <3>3, <3>5, <3>6, <3>7 DEF k
    <2>. QED
      BY <2>6, <2>7 DEF Api!Documented
  <1>. QED
    BY <1>7, <1>8, <1>9

-----------------------------------------------------------------------------
\* The definitions of the documentation.

Refs   == Seq([to : Types, as : STRING]) \ {<<>>}
Frames == [type : Types, kind : {"type", "body", "query"}, next : Nat \ {0}, refs : SUBSET Refs]

\* A name leads to a definition of its own; one is not whole while its type is parsed, and
\* what is parsed within a type has other names.
Parsed == {i \in DOMAIN stack : stack[i].kind = "type"}
DefsTyped ==
    /\ stack \in Seq(Frames)
    /\ \A n \in DOMAIN defs : /\ n = Name[defs[n].of] /\ defs[n].of \in Types
                              /\ defs[n].whole \in BOOLEAN /\ defs[n].refs \in SUBSET Refs
NamesApart ==
    \A i, j \in Parsed : Name[stack[i].type] = Name[stack[j].type] => i = j
RootsAtBottom == \A i \in DOMAIN stack : stack[i].kind # "type" => i = Len(stack)
UnfinishedAreParsed ==
    \A n : n \in DOMAIN defs /\ ~defs[n].whole <=> \E i \in Parsed : n = Name[stack[i].type]

\* What a reference is made of.
ByName(refs, names) ==
    \A ref \in refs : \A i \in DOMAIN ref : ref[i].as = Name[ref[i].to] /\ ref[i].as \in names
AllByName ==
    Defs!Unambiguous /\ status # "failed" =>
        /\ \A i \in DOMAIN stack : ByName(stack[i].refs, DOMAIN defs)
        /\ \A n \in DOMAIN defs : ByName(defs[n].refs, DOMAIN defs)
WrittenAtEnd ==
    /\ Len(written) <= Len(Defs!Files) /\ written = SubSeq(Defs!Files, 1, Len(written))
    /\ written # <<>> => roots = {} /\ stack = <<>> /\ status = "running"

DefsInv ==
    /\ source \in Sources /\ roots \subseteq [type : Types, kind : Defs!Kinds]
    /\ status \in {"running", "failed", "crashed"}
    /\ DefsTyped /\ NamesApart /\ RootsAtBottom /\ UnfinishedAreParsed /\ AllByName
    /\ WrittenAtEnd

LEMMA DefsInitInv ==
    ASSUME Defs!SwaggerDefsAssumption
    PROVE  Defs!Init => DefsInv
  <1>. SUFFICES ASSUME Defs!Init PROVE DefsInv
    OBVIOUS
  <1>0. stack = <<>> /\ defs = <<>> /\ status = "running" /\ written = <<>>
    BY DEF Defs!Init
  <1>1. /\ source \in Sources /\ roots \subseteq [type : Types, kind : Defs!Kinds]
    BY DEF Defs!Init, Defs!SwaggerDefsAssumption
  <1>2. DOMAIN stack = {} /\ DOMAIN defs = {} /\ stack \in Seq(Frames) /\ Parsed = {}
    BY <1>0 DEF Parsed
  <1>3. /\ DefsTyped /\ NamesApart /\ RootsAtBottom /\ UnfinishedAreParsed /\ AllByName
    BY <1>2 DEF DefsTyped, NamesApart, RootsAtBottom, UnfinishedAreParsed, AllByName
  <1>4. WrittenAtEnd
    <2>1. Len(written) = 0 /\ Len(Defs!Files) = 3 /\ SubSeq(Defs!Files, 1, 0) = <<>>
      BY <1>0 DEF Defs!Files
    <2>. QED
      BY <1>0, <2>1 DEF WrittenAtEnd
  <1>. QED
    BY <1>0, <1>1, <1>3, <1>4 DEF DefsInv

\* The frames after one was pushed, and after the first was changed or popped.
LEMMA StackPushed ==
    ASSUME NEW s \in Seq(Frames), NEW f \in Frames
    PROVE  /\ <<f>> \o s \in Seq(Frames) /\ Len(<<f>> \o s) = Len(s) + 1
           /\ (<<f>> \o s)[1] = f /\ \A i \in DOMAIN s : (<<f>> \o s)[i + 1] = s[i]
           /\ \A i \in DOMAIN (<<f>> \o s) : i = 1 \/ (i - 1 \in DOMAIN s /\ i = (i - 1) + 1)
  OBVIOUS

LEMMA StackTop ==
    ASSUME NEW s \in Seq(Frames), s # <<>>, NEW f \in Frames
    PROVE  /\ Head(s) = s[1] /\ s[1] \in Frames /\ 1 \in DOMAIN s
           /\ <<f>> \o Tail(s) \in Seq(Frames) /\ DOMAIN (<<f>> \o Tail(s)) = DOMAIN s
           /\ Len(<<f>> \o Tail(s)) = Len(s)
           /\ \A i \in DOMAIN s : (<<f>> \o Tail(s))[i] = IF i = 1 THEN f ELSE s[i]
           /\ Tail(s) \in Seq(Frames) /\ Len(Tail(s)) = Len(s) - 1
           /\ \A i \in DOMAIN Tail(s) : Tail(s)[i] = s[i + 1] /\ i + 1 \in DOMAIN s
           /\ \A i \in DOMAIN s : i # 1 => i - 1 \in DOMAIN Tail(s) /\ Tail(s)[i - 1] = s[i]
  OBVIOUS

\* A type begins to be parsed under a name that leads nowhere yet.
LEMMA EnterInv ==
    ASSUME Defs!SwaggerDefsAssumption, DefsInv, NEW t \in Types, Name[t] \notin DOMAIN defs,
           Defs!Enter(t), UNCHANGED <<source, status, written>>, roots' \subseteq roots,
           written = <<>>
    PROVE  DefsInv'
  <1>0. /\ source \in Sources /\ roots \subseteq [type : Types, kind : Defs!Kinds]
        /\ status \in {"running", "failed", "crashed"}
        /\ DefsTyped /\ NamesApart /\ RootsAtBottom /\ UnfinishedAreParsed /\ AllByName
             /\ WrittenAtEnd
        /\ stack \in Seq(Frames) /\ Name[t] \in STRING
    BY DEF DefsInv, DefsTyped, Defs!SwaggerDefsAssumption
  <1>. DEFINE f == [type |-> t, kind |-> "type", next |-> 1, refs |-> {}]
  <1>1. stack' = <<f>> \o stack /\ f \in Frames
    BY DEF Defs!Enter, Defs!Frame, Frames
  <1>2. /\ stack' \in Seq(Frames) /\ Len(stack') = Len(stack) + 1
        /\ stack'[1] = f /\ \A i \in DOMAIN stack : stack'[i + 1] = stack[i]
        /\ \A i \in DOMAIN stack' : i = 1 \/ (i - 1 \in DOMAIN stack /\ i = (i - 1) + 1)
        /\ DOMAIN stack = 1..Len(stack) /\ DOMAIN stack' = 1..Len(stack')
        /\ Len(stack) \in Nat
    BY <1>0, <1>1, StackPushed
  <1>3. f.type = t /\ f.kind = "type" /\ f.refs = {}
    OBVIOUS
  <1>4. /\ DOMAIN defs' = DOMAIN defs \cup {Name[t]}
        /\ \A n \in DOMAIN defs : defs'[n] = defs[n]
        /\ defs'[Name[t]] = [of |-> t, refs |-> {}, whole |-> FALSE]
    BY DEF Defs!Enter, Defs!Define
  <1>. HIDE DEF f
  <1>5. \A i \in Parsed : Name[stack[i].type] \in DOMAIN defs
    BY <1>0 DEF UnfinishedAreParsed
  <1>6. /\ \A i \in Parsed' : i = 1 \/ (i - 1 \in Parsed /\ stack'[i] = stack[i - 1])
        /\ \A i \in Parsed : i + 1 \in Parsed' /\ stack'[i + 1] = stack[i]
        /\ 1 \in Parsed'
    BY <1>2, <1>3 DEF Parsed
  <1>7. DefsTyped'
    <2>1. ASSUME NEW n \in DOMAIN defs'
          PROVE  /\ n = Name[defs'[n].of] /\ defs'[n].of \in Types
                 /\ defs'[n].whole \in BOOLEAN /\ defs'[n].refs \in SUBSET Refs
      <3>1. CASE n \in DOMAIN defs
        BY <1>0, <1>4, <3>1 DEF DefsTyped
      <3>2. CASE n = Name[t]
        <4>1. /\ defs'[n].of = t /\ defs'[n].refs = {} /\ defs'[n].whole = FALSE
          BY <1>4, <3>2
        <4>. QED
          BY <3>2, <4>1
      <3>. QED
        BY <1>4, <3>1, <3>2
    <2>. QED
      BY <1>2, <2>1 DEF DefsTyped
  <1>8. NamesApart'
    <2>. SUFFICES ASSUME NEW i \in Parsed', NEW j \in Parsed',
                         Name[stack'[i].type] = Name[stack'[j].type]
                  PROVE  i = j
      BY DEF NamesApart
    <2>1. i \in Int /\ j \in Int
      BY <1>2 DEF Parsed
    <2>2. CASE i # 1 /\ j # 1
      BY <1>0, <1>6, <2>1, <2>2 DEF NamesApart
    <2>3. CASE i = 1 \/ j = 1
      <3>1. \A k \in Parsed' : k # 1 => Name[stack'[k].type] # Name[t]
        BY <1>5, <1>6
      <3>2. Name[stack'[1].type] = Name[t]
        BY <1>2, <1>3
      <3>. QED
        BY <2>3, <3>1, <3>2
    <2>. QED
      BY <2>2, <2>3
  <1>9. RootsAtBottom'
    BY <1>0, <1>2, <1>3 DEF RootsAtBottom
  <1>10. UnfinishedAreParsed'
    <2>. SUFFICES ASSUME NEW n
                  PROVE  n \in DOMAIN defs' /\ ~defs'[n].whole
                           <=> \E i \in Parsed' : n = Name[stack'[i].type]
      BY DEF UnfinishedAreParsed
    <2>1. CASE n = Name[t]
      BY <1>2, <1>3, <1>4, <1>6, <2>1
    <2>2. CASE n # Name[t]
      <3>1. n \in DOMAIN defs' /\ ~defs'[n].whole <=> n \in DOMAIN defs /\ ~defs[n].whole
        BY <1>4, <2>2
      <3>2. (\E i \in Parsed' : n = Name[stack'[i].type]) <=> \E i
              \in Parsed : n = Name[stack[i].type]
        <4>1. ASSUME NEW i \in Parsed', n = Name[stack'[i].type] PROVE i - 1 \in Parsed
                       /\ n = Name[stack[i - 1].type]
          BY <1>2, <1>3, <1>6, <2>2, <4>1
        <4>. QED
          BY <1>6, <4>1
      <3>. QED
        BY <1>0, <3>1, <3>2 DEF UnfinishedAreParsed
    <2>. QED
      BY <2>1, <2>2
  <1>11. AllByName'
    <2>1. Defs!Unambiguous' <=> Defs!Unambiguous
      BY DEF Defs!Unambiguous
    <2>. SUFFICES ASSUME Defs!Unambiguous, status # "failed"
                  PROVE  /\ \A i \in DOMAIN stack' : ByName(stack'[i].refs, DOMAIN defs')
                         /\ \A n \in DOMAIN defs' : ByName(defs'[n].refs, DOMAIN defs')
      BY <2>1 DEF AllByName
    <2>2. /\ \A i \in DOMAIN stack : ByName(stack[i].refs, DOMAIN defs')
          /\ \A n \in DOMAIN defs : ByName(defs[n].refs, DOMAIN defs')
      BY <1>0, <1>4 DEF AllByName, ByName
    <2>3. ByName({}, DOMAIN defs')
      BY DEF ByName
    <2>4. ASSUME NEW i \in DOMAIN stack' PROVE ByName(stack'[i].refs, DOMAIN defs')
      <3>1. CASE i = 1
        BY <1>2, <1>3, <2>3, <3>1
      <3>2. CASE i - 1 \in DOMAIN stack /\ i = (i - 1) + 1
        <4>1. stack'[i] = stack[i - 1]
          BY <1>2, <3>2
        <4>. QED
          BY <2>2, <3>2, <4>1
      <3>. QED
        BY <1>2, <3>1, <3>2
    <2>5. ASSUME NEW n \in DOMAIN defs' PROVE ByName(defs'[n].refs, DOMAIN defs')
      <3>1. CASE n \in DOMAIN defs
        BY <1>4, <2>2, <3>1
      <3>2. CASE n = Name[t]
        <4>1. defs'[n].refs = {}
          BY <1>4, <3>2
        <4>. QED
          BY <2>3, <4>1
      <3>. QED
        BY <1>4, <3>1, <3>2
    <2>. QED
      BY <2>4, <2>5
  <1>12. WrittenAtEnd'
    BY <1>0 DEF WrittenAtEnd, Defs!Files
  <1>. QED
    BY <1>0, <1>7, <1>8, <1>9, <1>10, <1>11, <1>12 DEF DefsInv

Fields == [of : Seq(Defs!Names), inline : BOOLEAN]

\* The next field of the type that is parsed.
LEMMA FieldIsTyped ==
    ASSUME Defs!SwaggerDefsAssumption, DefsInv, stack # <<>>, ~Defs!AtEnd(Defs!Top)
    PROVE  /\ Defs!FieldAt(Defs!Top) \in Fields /\ Len(Defs!FieldAt(Defs!Top).of) \in {1, 2}
           /\ Defs!Unambiguous =>
                \A j \in DOMAIN Defs!FieldAt(Defs!Top).of :
                  LET name == Defs!FieldAt(Defs!Top).of[j]
                  IN  name.to # Defs!Missing => name.as = Name[name.to]
  <1>1. stack \in Seq(Frames) /\ source \in Sources
    BY DEF DefsInv, DefsTyped
  <1>2. stack[1] \in Frames /\ Head(stack) = stack[1]
    BY <1>1
  <1>3. stack[1].type \in Types /\ stack[1].next \in Nat \ {0}
    BY <1>2 DEF Frames
  <1>4. /\ source[stack[1].type].fields \in Seq(Fields)
        /\ \A i \in DOMAIN source[stack[1].type].fields :
             Len(source[stack[1].type].fields[i].of) \in {1, 2}
    BY <1>1, <1>3 DEF Defs!SwaggerDefsAssumption, Fields
  <1>5. stack[1].next \in 1..Len(source[stack[1].type].fields)
    BY <1>2, <1>3, <1>4 DEF Defs!AtEnd, Defs!Top
  <1>. DEFINE fields == source[stack[1].type].fields
  <1>6. Defs!FieldAt(Defs!Top) = fields[stack[1].next]
    BY <1>2 DEF Defs!FieldAt, Defs!Top
  <1>7. /\ fields \in Seq(Fields) /\ stack[1].next \in 1..Len(fields)
        /\ stack[1].next \in DOMAIN fields
        /\ \A i \in DOMAIN fields : Len(fields[i].of) \in {1, 2}
    BY <1>4, <1>5
  <1>8. Defs!Unambiguous =>
          \A i \in DOMAIN fields : \A j \in DOMAIN fields[i].of :
            fields[i].of[j].to # Defs!Missing => fields[i].of[j].as = Name[fields[i].of[j].to]
    BY <1>3 DEF Defs!Unambiguous
  <1>. HIDE DEF fields
  <1>9. fields[stack[1].next] \in Fields
    BY <1>7, ElementOfSeq, Zenon
  <1>. QED
    BY <1>6, <1>7, <1>8, <1>9, Zenon

LEMMA DefsRootInv ==
    ASSUME Defs!SwaggerDefsAssumption, DefsInv, NEW r \in roots, Defs!Root(r)
    PROVE  DefsInv'
  <1>0. /\ source \in Sources /\ roots \subseteq [type : Types, kind : Defs!Kinds]
        /\ status \in {"running", "failed", "crashed"}
        /\ DefsTyped /\ NamesApart /\ RootsAtBottom /\ UnfinishedAreParsed /\ AllByName
             /\ WrittenAtEnd
    BY DEF DefsInv
  <1>1. /\ status = "running" /\ stack = <<>> /\ roots' = roots \ {r}
        /\ UNCHANGED <<source, status, written>>
    BY DEF Defs!Root
  <1>2. r.type \in Types /\ r.kind \in Defs!Kinds
    BY <1>0
  <1>3. written = <<>>
    BY <1>0 DEF WrittenAtEnd
  <1>4. DOMAIN stack = {} /\ Parsed = {}
    BY <1>1 DEF Parsed
  <1>5. CASE r.kind # "response"
    <2>. DEFINE f == [type |-> r.type, kind |-> r.kind, next |-> 1, refs |-> {}]
    <2>1. stack' = <<f>> /\ defs' = defs
      BY <1>5 DEF Defs!Root, Defs!Frame
    <2>2. f \in Frames /\ f.kind # "type" /\ f.refs = {}
      BY <1>2, <1>5 DEF Frames, Defs!Kinds
    <2>. HIDE DEF f
    <2>3. /\ stack' \in Seq(Frames) /\ Len(stack') = 1 /\ DOMAIN stack' = {1} /\ stack'[1] = f
      BY <2>1, <2>2
    <2>4. Parsed' = {}
      BY <2>2, <2>3 DEF Parsed
    <2>5. DefsTyped' /\ NamesApart' /\ RootsAtBottom'
      BY <1>0, <2>1, <2>3, <2>4 DEF DefsTyped, NamesApart, RootsAtBottom
    <2>6. UnfinishedAreParsed'
      BY <1>0, <1>4, <2>1, <2>4 DEF UnfinishedAreParsed
    <2>7. AllByName'
      BY <1>0, <1>1, <2>1, <2>2, <2>3 DEF AllByName, ByName, Defs!Unambiguous
    <2>8. WrittenAtEnd'
      BY <1>0, <1>1, <1>3 DEF WrittenAtEnd, Defs!Files
    <2>. QED
      BY <1>0, <1>1, <2>5, <2>6, <2>7, <2>8 DEF DefsInv
  <1>6. CASE r.kind = "response" /\ Name[r.type] \in DOMAIN defs
    <2>1. UNCHANGED <<stack, defs>>
      BY <1>6 DEF Defs!Root
    <2>2. DefsTyped' /\ NamesApart' /\ RootsAtBottom' /\ UnfinishedAreParsed' /\ AllByName'
      BY <1>0, <1>1, <2>1 DEF DefsTyped, NamesApart, RootsAtBottom, UnfinishedAreParsed,
         AllByName,
         Parsed, ByName, Defs!Unambiguous
    <2>3. WrittenAtEnd'
      BY <1>0, <1>1, <1>3 DEF WrittenAtEnd, Defs!Files
    <2>. QED
      BY <1>0, <1>1, <2>2, <2>3 DEF DefsInv
  <1>7. CASE r.kind = "response" /\ Name[r.type] \notin DOMAIN defs
    <2>1. Defs!Enter(r.type)
      BY <1>7 DEF Defs!Root
    <2>. QED
      BY <1>1, <1>2, <1>3, <1>7, <2>1, EnterInv
  <1>. QED
    BY <1>5, <1>6, <1>7

\* A frame whose next field left references.
LEMMA FrameMoved ==
    ASSUME NEW frame \in Frames, NEW new \in SUBSET Refs
    PROVE  LET moved == [frame EXCEPT !.next = @ + 1, !.refs = @ \cup new]
           IN /\ moved \in Frames /\ moved.type = frame.type /\ moved.kind = frame.kind
              /\ moved.refs = frame.refs \cup new
  <1>. DEFINE Pos == Nat \ {0}
              refs == SUBSET Refs
              Kept == [type : Types, kind : {"type", "body", "query"}, next : Pos, refs : refs]
              moved == [frame EXCEPT !.next = @ + 1, !.refs = @ \cup new]
  <1>1. frame \in Kept /\ frame.next + 1 \in Pos /\ frame.refs \cup new \in refs
    BY DEF Frames
  <1>. HIDE DEF Pos, refs
  <1>2. /\ moved \in Kept /\ moved.type = frame.type /\ moved.kind = frame.kind
        /\ moved.refs = frame.refs \cup new
    BY <1>1
  <1>. QED
    BY <1>2 DEF Frames, Pos, refs

\* A type whose name leads somewhere is among the names the parser may refer to.
LEMMA NameFound ==
    ASSUME NEW name \in Defs!Names, ~Defs!Undefined(name)
    PROVE  name.to \in Types /\ name \in [to : Types, as : STRING] /\ Name[name.to] \in DOMAIN defs
  BY DEF Defs!Names, Defs!Undefined

\* What the next field leaves: a reference of the names it writes, or, if it is inline, the
\* references of a generic type and one to its argument.
LEMMA ReferredTo ==
    ASSUME Defs!SwaggerDefsAssumption, DefsInv, status = "running", NEW f \in Fields,
           Len(f.of) \in {1, 2}, \A i \in DOMAIN f.of : ~Defs!Undefined(f.of[i]),
           Defs!Unambiguous =>
             \A j \in DOMAIN f.of : f.of[j].to # Defs!Missing => f.of[j].as = Name[f.of[j].to],
           NEW new \in IF f.inline THEN Defs!Brings(f) ELSE {{f.of}}
    PROVE  new \in SUBSET Refs /\ (Defs!Unambiguous => ByName(new, DOMAIN defs))
  <1>. DEFINE Present == [to : Types, as : STRING]
  <1>1. f.of \in Seq(Defs!Names) /\ DOMAIN f.of = 1..Len(f.of)
    BY DEF Fields
  <1>2. ASSUME NEW i \in DOMAIN f.of
        PROVE  /\ f.of[i] \in Present /\ f.of[i].to \in Types /\ Name[f.of[i].to] \in DOMAIN defs
               /\ Defs!Unambiguous => f.of[i].as = Name[f.of[i].to]
    <2>1. f.of[i] \in Defs!Names
      BY <1>1, ElementOfSeq, Zenon
    <2>2. f.of[i] \in Present /\ f.of[i].to \in Types /\ Name[f.of[i].to] \in DOMAIN defs
      BY <2>1, NameFound
    <2>3. f.of[i].to # Defs!Missing
      BY <2>2 DEF Defs!SwaggerDefsAssumption
    <2>. QED
      BY <2>2, <2>3
  <1>. HIDE DEF Present
  <1>3. f.of \in Seq(Present) /\ f.of # <<>>
    <2>1. ASSUME NEW S, NEW T, NEW s \in Seq(S), \A i \in 1..Len(s) : s[i] \in T
          PROVE  s \in Seq(T)
      <3>1. s \in [1..Len(s) -> T] /\ Len(s) \in Nat
        BY <2>1
      <3>. QED
        BY <3>1
    <2>2. f.of \in Seq(Present)
      BY <1>1, <1>2, <2>1, Zenon
    <2>3. f.of # <<>>
      <3>1. Len(<<>>) = 0 /\ Len(f.of) # 0
        OBVIOUS
      <3>. QED
        BY <3>1, Zenon
    <2>. QED
      BY <2>2, <2>3
  <1>4. f.of \in Refs
    BY <1>3 DEF Refs, Present
  <1>5. CASE ~f.inline
    <2>1. new = {f.of}
      BY <1>5
    <2>. QED
      BY <1>2, <1>4, <2>1 DEF ByName
  <1>6. CASE f.inline /\ new = {}
    BY <1>6 DEF ByName
  <1>7. CASE f.inline /\ new # {}
    <2>. DEFINE generic == f.of[1].as
                arg     == <<f.of[2]>>
    <2>1. /\ Len(f.of) = 2 /\ generic \in DOMAIN defs
          /\ new = defs[generic].refs \cup {arg}
      BY <1>7 DEF Defs!Brings
    <2>2. 2 \in DOMAIN f.of
      BY <1>1, <2>1
    <2>3. arg \in Refs
      <3>1. f.of[2] \in Present
        BY <1>2, <2>2
      <3>2. arg \in Seq(Present) /\ arg # <<>>
        BY <3>1
      <3>. QED
        BY <3>2 DEF Refs, Present
    <2>4. DOMAIN arg = {1} /\ arg[1] = f.of[2]
      OBVIOUS
    <2>5. defs[generic].refs \in SUBSET Refs
      BY <2>1 DEF DefsInv, DefsTyped
    <2>6. Defs!Unambiguous => ByName(defs[generic].refs, DOMAIN defs)
      BY <2>1 DEF DefsInv, AllByName
    <2>7. Defs!Unambiguous => arg[1].as = Name[arg[1].to] /\ arg[1].as \in DOMAIN defs
      BY <1>2, <2>2, <2>4
    <2>. HIDE DEF arg, generic
    <2>. QED
      BY <2>1, <2>3, <2>4, <2>5, <2>6, <2>7 DEF ByName
  <1>. QED
    BY <1>5, <1>6, <1>7

LEMMA DefsReferInv ==
    ASSUME Defs!SwaggerDefsAssumption, DefsInv, Defs!Refer
    PROVE  DefsInv'
  <1>0. /\ source \in Sources /\ roots \subseteq [type : Types, kind : Defs!Kinds]
        /\ DefsTyped /\ NamesApart /\ RootsAtBottom /\ UnfinishedAreParsed /\ AllByName
             /\ WrittenAtEnd
        /\ stack \in Seq(Frames)
    BY DEF DefsInv, DefsTyped
  <1>1. /\ status = "running" /\ stack # <<>> /\ ~Defs!AtEnd(Defs!Top)
        /\ UNCHANGED <<source, roots, defs, written>>
    BY DEF Defs!Refer
  <1>. DEFINE f == Defs!FieldAt(Defs!Top)
  <1>2. /\ f \in Fields /\ Len(f.of) \in {1, 2}
        /\ Defs!Unambiguous =>
             \A j \in DOMAIN f.of : f.of[j].to # Defs!Missing => f.of[j].as = Name[f.of[j].to]
    BY <1>1, FieldIsTyped
  <1>3. \A i \in DOMAIN f.of : ~Defs!Undefined(f.of[i])
    BY DEF Defs!Refer
  <1>4. written = <<>>
    BY <1>0, <1>1 DEF WrittenAtEnd
  <1>5. WrittenAtEnd'
    BY <1>0, <1>1, <1>4 DEF WrittenAtEnd, Defs!Files
  <1>6. CASE status' = "crashed" /\ stack' = stack
    <2>1. DefsTyped' /\ NamesApart' /\ RootsAtBottom' /\ UnfinishedAreParsed' /\ AllByName'
      BY <1>0, <1>1, <1>6 DEF DefsTyped, NamesApart, RootsAtBottom, UnfinishedAreParsed,
         AllByName,
         Parsed, ByName, Defs!Unambiguous
    <2>. QED
      BY <1>0, <1>1, <1>5, <1>6, <2>1 DEF DefsInv
  <1>7. ASSUME NEW new \in IF f.inline THEN Defs!Brings(f) ELSE {{f.of}}, status' = status,
               stack' = Defs!Under([Defs!Top EXCEPT !.next = @ + 1, !.refs = @ \cup new])
        PROVE  DefsInv'
    <2>. DEFINE top == [stack[1] EXCEPT !.next = @ + 1, !.refs = @ \cup new]
    <2>1. Head(stack) = stack[1] /\ stack[1] \in Frames /\ 1 \in DOMAIN stack
      BY <1>0, <1>1
    <2>2. stack' = <<top>> \o Tail(stack)
      BY <1>7, <2>1 DEF Defs!Under, Defs!Top
    <2>8. new \in SUBSET Refs /\ (Defs!Unambiguous => ByName(new, DOMAIN defs))
      <3>. HIDE DEF f
      <3>. QED
        BY <1>1, <1>2, <1>3, <1>7, ReferredTo
    <2>3. /\ top \in Frames /\ top.type = stack[1].type /\ top.kind = stack[1].kind
          /\ top.refs = stack[1].refs \cup new
      BY <2>1, <2>8, FrameMoved
    <2>. HIDE DEF top
    <2>4. /\ stack' \in Seq(Frames) /\ DOMAIN stack' = DOMAIN stack /\ Len(stack') = Len(stack)
          /\ \A i \in DOMAIN stack : stack'[i] = IF i = 1 THEN top ELSE stack[i]
      BY <1>0, <1>1, <2>2, <2>3, StackTop
    <2>5. /\ \A i \in DOMAIN stack : stack'[i].type = stack[i].type
               /\ stack'[i].kind = stack[i].kind
          /\ Parsed' = Parsed
      BY <2>3, <2>4 DEF Parsed
    <2>6. DefsTyped' /\ NamesApart' /\ RootsAtBottom' /\ UnfinishedAreParsed'
      <3>1. \A i \in Parsed : i \in DOMAIN stack
        BY DEF Parsed
      <3>. QED
        BY <1>0, <1>1, <2>4, <2>5, <3>1 DEF DefsTyped, NamesApart, RootsAtBottom,
           UnfinishedAreParsed
    <2>7. AllByName'
      <3>1. Defs!Unambiguous' <=> Defs!Unambiguous
        BY <1>1 DEF Defs!Unambiguous
      <3>. SUFFICES ASSUME Defs!Unambiguous
                    PROVE  /\ \A i \in DOMAIN stack' : ByName(stack'[i].refs, DOMAIN defs)
                           /\ \A n \in DOMAIN defs : ByName(defs[n].refs, DOMAIN defs)
        BY <1>1, <3>1 DEF AllByName
      <3>2. /\ \A i \in DOMAIN stack : ByName(stack[i].refs, DOMAIN defs)
            /\ \A n \in DOMAIN defs : ByName(defs[n].refs, DOMAIN defs)
        BY <1>0, <1>1 DEF AllByName
      <3>3. ByName(top.refs, DOMAIN defs)
        BY <2>1, <2>3, <2>8, <3>2 DEF ByName
      <3>4. ASSUME NEW i \in DOMAIN stack' PROVE ByName(stack'[i].refs, DOMAIN defs)
        BY <2>4, <3>2, <3>3
      <3>. QED
        BY <3>2, <3>4
    <2>. QED
      BY <1>0, <1>1, <1>5, <1>7, <2>6, <2>7 DEF DefsInv
  <1>. HIDE DEF f
  <1>8. \/ status' = "crashed" /\ stack' = stack
        \/ \E new \in IF f.inline THEN Defs!Brings(f) ELSE {{f.of}} :
             /\ stack' = Defs!Under([Defs!Top EXCEPT !.next = @ + 1, !.refs = @ \cup new])
             /\ status' = status
    BY DEF Defs!Refer, f
  <1>. QED
    BY <1>6, <1>7, <1>8

LEMMA DefsLeaveInv ==
    ASSUME Defs!SwaggerDefsAssumption, DefsInv, Defs!Leave
    PROVE  DefsInv'
  <1>0. /\ source \in Sources /\ roots \subseteq [type : Types, kind : Defs!Kinds]
        /\ DefsTyped /\ NamesApart /\ RootsAtBottom /\ UnfinishedAreParsed /\ AllByName
             /\ WrittenAtEnd
        /\ stack \in Seq(Frames)
    BY DEF DefsInv, DefsTyped
  <1>1. /\ status = "running" /\ stack # <<>> /\ UNCHANGED <<source, roots, written>>
    BY DEF Defs!Leave
  <1>2. written = <<>>
    BY <1>0, <1>1 DEF WrittenAtEnd
  <1>3. WrittenAtEnd'
    BY <1>0, <1>1, <1>2 DEF WrittenAtEnd, Defs!Files
  <1>4. CASE status' = "crashed" /\ UNCHANGED <<stack, defs>>
    <2>1. DefsTyped' /\ NamesApart' /\ RootsAtBottom' /\ UnfinishedAreParsed' /\ AllByName'
      BY <1>0, <1>1, <1>4 DEF DefsTyped, NamesApart, RootsAtBottom, UnfinishedAreParsed,
         AllByName,
         Parsed, ByName, Defs!Unambiguous
    <2>. QED
      BY <1>0, <1>1, <1>3, <1>4, <2>1 DEF DefsInv
  <1>5. CASE status' = status /\ stack' = Tail(stack)
             /\ defs' = IF Defs!Top.kind = "query" THEN defs
                        ELSE Defs!Define(Name[Defs!Top.type],
                                [of |-> Defs!Top.type, refs |-> Defs!Top.refs, whole |-> TRUE])
    <2>. DEFINE top == stack[1]
    <2>1. Head(stack) = top /\ top \in Frames /\ 1 \in DOMAIN stack
      BY <1>0, <1>1
    <2>2. /\ top.type \in Types /\ top.refs \in SUBSET Refs /\ Name[top.type] \in STRING
          /\ top.kind \in {"type", "body", "query"}
      BY <2>1 DEF Frames, Defs!SwaggerDefsAssumption
    <2>3. /\ stack' \in Seq(Frames) /\ Len(stack') = Len(stack) - 1 /\ Len(stack) \in Nat
          /\ \A i \in DOMAIN stack' : stack'[i] = stack[i + 1] /\ i + 1 \in DOMAIN stack /\ i
               \in Nat \ {0}
          /\ \A i \in DOMAIN stack : i # 1 => i - 1 \in DOMAIN stack'
               /\ stack'[i - 1] = stack[i]
          /\ \A i \in DOMAIN stack : i \in Nat
      BY <1>0, <1>1, <1>5, StackTop
    <2>4. /\ \A i \in Parsed' : i + 1 \in Parsed /\ stack'[i] = stack[i + 1] /\ i \in Nat \ {0}
          /\ \A i \in Parsed : i # 1 => i - 1 \in Parsed' /\ stack'[i - 1] = stack[i]
      BY <2>3 DEF Parsed
    <2>5. top.kind # "type" => Parsed = {} /\ Parsed' = {}
      <3>1. top.kind # "type" => Len(stack) = 1
        BY <1>0, <2>1 DEF RootsAtBottom
      <3>2. DOMAIN stack = 1..Len(stack)
        BY <1>0
      <3>3. top.kind # "type" => \A i \in DOMAIN stack : i = 1
        BY <3>1, <3>2
      <3>4. top.kind # "type" => Parsed = {}
        BY <3>3 DEF Parsed
      <3>. QED
        BY <2>4, <3>4
    <2>6. /\ DOMAIN defs \subseteq DOMAIN defs'
          /\ \A n \in DOMAIN defs' : \/ n \in DOMAIN defs /\ defs'[n] = defs[n]
                                        /\ (top.kind = "query" \/ n # Name[top.type])
                                     \/ /\ n = Name[top.type] /\ top.kind # "query"
                                        /\ defs'[n] = [of |-> top.type, refs |-> top.refs,
                                             whole |-> TRUE]
      <3>1. Defs!Top = top
        BY <2>1 DEF Defs!Top
      <3>2. CASE top.kind = "query"
        BY <1>5, <3>1, <3>2
      <3>3. CASE top.kind # "query"
        <4>. HIDE DEF top
        <4>1. defs' = Defs!Define(Name[top.type], [of |-> top.type, refs |-> top.refs,
                whole |-> TRUE])
          BY <1>5, <3>1, <3>3
        <4>. QED
          BY <3>3, <4>1 DEF Defs!Define
      <3>. QED
        BY <3>2, <3>3
    <2>. HIDE DEF top
    <2>7. DefsTyped'
      <3>1. ASSUME NEW n \in DOMAIN defs'
            PROVE  /\ n = Name[defs'[n].of] /\ defs'[n].of \in Types
                   /\ defs'[n].whole \in BOOLEAN /\ defs'[n].refs \in SUBSET Refs
        <4>1. CASE n \in DOMAIN defs /\ defs'[n] = defs[n]
          BY <1>0, <4>1 DEF DefsTyped
        <4>2. CASE n = Name[top.type] /\ defs'[n] = [of |-> top.type, refs |-> top.refs,
                     whole |-> TRUE]
          <5>1. /\ defs'[n].of = top.type /\ defs'[n].refs = top.refs /\ defs'[n].whole = TRUE
            BY <4>2
          <5>. QED
            BY <2>2, <4>2, <5>1
        <4>. QED
          BY <2>6, <4>1, <4>2
      <3>. QED
        BY <2>3, <3>1 DEF DefsTyped
    <2>8. NamesApart'
      <3>. SUFFICES ASSUME NEW i \in Parsed', NEW j \in Parsed',
                           Name[stack'[i].type] = Name[stack'[j].type]
                    PROVE  i = j
        BY DEF NamesApart
      <3>1. i + 1 = j + 1
        BY <1>0, <2>4 DEF NamesApart
      <3>. QED
        BY <2>4, <3>1
    <2>9. RootsAtBottom'
      <3>. SUFFICES ASSUME NEW i \in DOMAIN stack', stack'[i].kind # "type"
                             PROVE i = Len(stack')
        BY DEF RootsAtBottom
      <3>1. i + 1 = Len(stack)
        BY <1>0, <2>3 DEF RootsAtBottom
      <3>. QED
        BY <2>3, <3>1
    <2>10. UnfinishedAreParsed'
      <3>. SUFFICES ASSUME NEW n
                    PROVE  n \in DOMAIN defs' /\ ~defs'[n].whole
                             <=> \E i \in Parsed' : n = Name[stack'[i].type]
        BY DEF UnfinishedAreParsed
      <3>1. CASE top.kind # "type"
        <4>1. ~\E i \in Parsed' : n = Name[stack'[i].type]
          BY <2>5, <3>1
        <4>2. ~(n \in DOMAIN defs /\ ~defs[n].whole)
          BY <1>0, <2>5, <3>1 DEF UnfinishedAreParsed
        <4>3. ~(n \in DOMAIN defs' /\ ~defs'[n].whole)
          BY <2>6, <4>2
        <4>. QED
          BY <4>1, <4>3
      <3>2. CASE top.kind = "type"
        <4>1. 1 \in Parsed /\ stack[1] = top
          BY <2>1, <3>2 DEF Parsed, top
        <4>2. n \in DOMAIN defs' /\ ~defs'[n].whole
                <=> n \in DOMAIN defs /\ ~defs[n].whole /\ n # Name[top.type]
          BY <2>6, <3>2
        <4>3. (\E i \in Parsed' : n = Name[stack'[i].type])
                <=> \E i \in Parsed : i # 1 /\ n = Name[stack[i].type]
          <5>1. ASSUME NEW i \in Parsed', n = Name[stack'[i].type]
                PROVE  \E k \in Parsed : k # 1 /\ n = Name[stack[k].type]
            <6>1. i + 1 \in Parsed /\ i + 1 # 1 /\ n = Name[stack[i + 1].type]
              BY <2>4, <5>1
            <6>. QED
              BY <6>1
          <5>2. ASSUME NEW i \in Parsed, i # 1, n = Name[stack[i].type]
                PROVE  \E k \in Parsed' : n = Name[stack'[k].type]
            <6>1. i - 1 \in Parsed' /\ n = Name[stack'[i - 1].type]
              BY <2>4, <5>2
            <6>. QED
              BY <6>1
          <5>. QED
            BY <5>1, <5>2
        <4>4. (\E i \in Parsed : i # 1 /\ n = Name[stack[i].type])
                <=> (\E i \in Parsed : n = Name[stack[i].type]) /\ n # Name[top.type]
          BY <1>0, <4>1 DEF NamesApart
        <4>. QED
          BY <1>0, <4>2, <4>3, <4>4 DEF UnfinishedAreParsed
      <3>. QED
        BY <3>1, <3>2
    <2>11. AllByName'
      <3>1. Defs!Unambiguous' <=> Defs!Unambiguous
        BY <1>1 DEF Defs!Unambiguous
      <3>. SUFFICES ASSUME Defs!Unambiguous
                    PROVE  /\ \A i \in DOMAIN stack' : ByName(stack'[i].refs, DOMAIN defs')
                           /\ \A n \in DOMAIN defs' : ByName(defs'[n].refs, DOMAIN defs')
        BY <3>1 DEF AllByName
      <3>2. /\ \A i \in DOMAIN stack : ByName(stack[i].refs, DOMAIN defs')
            /\ \A n \in DOMAIN defs : ByName(defs[n].refs, DOMAIN defs')
        BY <1>0, <1>1, <2>6 DEF AllByName, ByName
      <3>3. \A i \in DOMAIN stack' : ByName(stack'[i].refs, DOMAIN defs')
        BY <2>3, <3>2
      <3>4. ByName(top.refs, DOMAIN defs')
        BY <2>1, <3>2 DEF top
      <3>5. ASSUME NEW n \in DOMAIN defs' PROVE ByName(defs'[n].refs, DOMAIN defs')
        <4>1. CASE n \in DOMAIN defs /\ defs'[n] = defs[n]
          BY <3>2, <4>1
        <4>2. CASE defs'[n] = [of |-> top.type, refs |-> top.refs, whole |-> TRUE]
          BY <3>4, <4>2
        <4>. QED
          BY <2>6, <4>1, <4>2
      <3>. QED
        BY <3>3, <3>5
    <2>. QED
      BY <1>0, <1>1, <1>3, <1>5, <2>7, <2>8, <2>9, <2>10, <2>11 DEF DefsInv
  <1>. QED
    BY <1>4, <1>5 DEF Defs!Leave

LEMMA DefsNextInv ==
    ASSUME Defs!SwaggerDefsAssumption, DefsInv, [Defs!Next]_defsVars
    PROVE  DefsInv'
  <1>0. /\ source \in Sources /\ roots \subseteq [type : Types, kind : Defs!Kinds]
        /\ status \in {"running", "failed", "crashed"}
        /\ DefsTyped /\ NamesApart /\ RootsAtBottom /\ UnfinishedAreParsed /\ AllByName
             /\ WrittenAtEnd
    BY DEF DefsInv
  <1>1. CASE Defs!Descend
    <2>. DEFINE of == Defs!FieldAt(Defs!Top).of
    <2>1. stack # <<>> /\ ~Defs!AtEnd(Defs!Top) /\ UNCHANGED <<source, roots, status, written>>
      BY <1>1 DEF Defs!Descend
    <2>2. PICK i \in {1, 2} :
            /\ i \in DOMAIN of /\ Defs!Undefined(of[i]) /\ of[i].to # Defs!Missing
            /\ Defs!Enter(of[i].to)
      BY <1>1 DEF Defs!Descend, Defs!IsFirstUndefined
    <2>3. of \in Seq(Defs!Names) /\ DOMAIN of = 1..Len(of)
      BY <2>1, FieldIsTyped DEF Fields
    <2>. HIDE DEF of
    <2>4. of[i] \in Defs!Names
      BY <2>2, <2>3, ElementOfSeq, Zenon
    <2>5. of[i].to \in Types /\ Name[of[i].to] \notin DOMAIN defs
      BY <2>2, <2>4 DEF Defs!Names, Defs!Undefined
    <2>6. written = <<>>
      BY <1>0, <2>1 DEF WrittenAtEnd
    <2>. QED
      BY <2>1, <2>2, <2>5, <2>6, EnterInv
  <1>2. CASE Defs!NotFound
    <2>1. /\ status = "running" /\ stack # <<>> /\ status' = "failed" /\ stack' = <<>>
          /\ UNCHANGED <<source, roots, written>>
          /\ DOMAIN defs' = {m \in DOMAIN defs : defs[m].whole}
          /\ \A n \in DOMAIN defs' : defs'[n] = defs[n]
      BY <1>2 DEF Defs!NotFound
    <2>2. DOMAIN stack' = {} /\ stack' \in Seq(Frames) /\ Parsed' = {}
      BY <2>1 DEF Parsed
    <2>3. DefsTyped' /\ NamesApart' /\ RootsAtBottom' /\ UnfinishedAreParsed'
      BY <1>0, <2>1, <2>2 DEF DefsTyped, NamesApart, RootsAtBottom, UnfinishedAreParsed
    <2>4. AllByName'
      BY <2>1 DEF AllByName, ByName
    <2>5. WrittenAtEnd'
      BY <1>0, <2>1 DEF WrittenAtEnd, Defs!Files
    <2>. QED
      BY <1>0, <2>1, <2>3, <2>4, <2>5 DEF DefsInv
  <1>3. CASE Defs!Write
    <2>1. /\ status = "running" /\ roots = {} /\ stack = <<>> /\ Len(written) < Len(Defs!Files)
          /\ written' = Append(written, Defs!Files[Len(written) + 1])
          /\ UNCHANGED <<source, roots, stack, defs, status>>
      BY <1>3 DEF Defs!Write
    <2>2. WrittenAtEnd'
      <3>1. Len(Defs!Files) = 3 /\ Defs!Files \in Seq({"swagger.yaml", "swagger.json",
              "docs.go"})
        <4>1. ASSUME NEW S, NEW x \in S, NEW y \in S, NEW z \in S
              PROVE  Len(<<x, y, z>>) = 3 /\ <<x, y, z>> \in Seq(S)
          OBVIOUS
        <4>. DEFINE S == {"swagger.yaml", "swagger.json", "docs.go"}
        <4>2. "swagger.yaml" \in S /\ "swagger.json" \in S /\ "docs.go" \in S
          OBVIOUS
        <4>. HIDE DEF S
        <4>3. /\ Len(<<"swagger.yaml", "swagger.json", "docs.go">>) = 3
              /\ <<"swagger.yaml", "swagger.json", "docs.go">> \in Seq(S)
          BY <4>1, <4>2, Zenon
        <4>. QED
          BY <4>3, Zenon DEF Defs!Files, S
      <3>2. /\ Len(written) \in 0..2 /\ written = SubSeq(Defs!Files, 1, Len(written))
        <4>1. Len(SubSeq(Defs!Files, 1, Len(written))) \in Nat
          <5>1. written = SubSeq(Defs!Files, 1, Len(written)) /\ Len(written) < 3
            BY <1>0, <2>1, <3>1 DEF WrittenAtEnd
          <5>. QED
            BY <3>1, <5>1
        <4>. QED
          BY <1>0, <2>1, <3>1, <4>1 DEF WrittenAtEnd
      <3>3. /\ Len(written') = Len(written) + 1
            /\ written' = SubSeq(Defs!Files, 1, Len(written) + 1)
        BY <2>1, <3>1, <3>2
      <3>. QED
        BY <2>1, <3>1, <3>2, <3>3 DEF WrittenAtEnd, Defs!Files
    <2>3. DefsTyped' /\ NamesApart' /\ RootsAtBottom' /\ UnfinishedAreParsed' /\ AllByName'
      BY <1>0, <2>1 DEF DefsTyped, NamesApart, RootsAtBottom, UnfinishedAreParsed, AllByName,
         Parsed, ByName, Defs!Unambiguous
    <2>. QED
      BY <1>0, <2>1, <2>2, <2>3 DEF DefsInv
  <1>4. CASE UNCHANGED defsVars
    BY <1>0, <1>4 DEF defsVars, DefsInv, DefsTyped, NamesApart, RootsAtBottom,
       UnfinishedAreParsed,
       AllByName, Parsed, ByName, Defs!Unambiguous, WrittenAtEnd, Defs!Files
  <1>. QED
    BY <1>1, <1>2, <1>3, <1>4, DefsRootInv, DefsReferInv, DefsLeaveInv DEF Defs!Next

LEMMA DefsInvImplies ==
    ASSUME Defs!SwaggerDefsAssumption, DefsInv
    PROVE  Defs!DefsTypeOK /\ Defs!RefsResolve
  <1>0. /\ source \in Sources /\ roots \subseteq [type : Types, kind : Defs!Kinds]
        /\ status \in {"running", "failed", "crashed"} /\ stack \in Seq(Frames)
        /\ DefsTyped /\ NamesApart /\ RootsAtBottom /\ UnfinishedAreParsed /\ AllByName
             /\ WrittenAtEnd
    BY DEF DefsInv, DefsTyped
  <1>1. \A i \in DOMAIN stack : stack[i] \in Frames
    BY <1>0
  <1>2. Defs!DefsTypeOK
    <2>1. \A i \in DOMAIN stack : stack[i].type \in Types /\ stack[i].kind \in {"type", "body",
                                    "query"}
      BY <1>1 DEF Frames
    <2>. QED
      BY <1>0, <2>1 DEF Defs!DefsTypeOK, DefsTyped, WrittenAtEnd
  <1>. DEFINE refs == UNION ({stack[i].refs : i \in DOMAIN stack} \cup {defs[n].refs : n
         \in DOMAIN defs})
  <1>3. ASSUME Defs!Unambiguous, status # "failed", NEW ref \in refs
        PROVE  /\ Defs!LeadsNowhere(ref) <=> Len(ref) = 2
               /\ \A i \in DOMAIN ref : /\ ref[i].as \in DOMAIN defs
                                        /\ defs[ref[i].as].of = ref[i].to
    <2>1. \A i \in DOMAIN ref : ref[i].as = Name[ref[i].to] /\ ref[i].as \in DOMAIN defs
      BY <1>0, <1>3 DEF AllByName, ByName
    <2>2. ref \in Refs
      <3>1. \A i \in DOMAIN stack : stack[i].refs \in SUBSET Refs
        BY <1>1 DEF Frames
      <3>. QED
        BY <1>0, <1>3, <3>1 DEF DefsTyped
    <2>. DEFINE Present == [to : Types, as : STRING]
    <2>3. ref \in Seq(Present) /\ ref # <<>>
      BY <2>2 DEF Refs
    <2>4. \A i \in DOMAIN ref : ref[i].to \in Types
      <3>1. \A i \in DOMAIN ref : ref[i] \in Present
        <4>. HIDE DEF Present
        <4>. QED
          BY <2>3
      <3>. QED
        BY <3>1
    <2>. HIDE DEF Present
    <2>5. 1 \in DOMAIN ref
      BY <2>3
    <2>6. Defs!LeadsNowhere(ref) <=> Len(ref) = 2
      BY <2>1, <2>5 DEF Defs!LeadsNowhere
    <2>7. ASSUME NEW i \in DOMAIN ref PROVE defs[ref[i].as].of = ref[i].to
      BY <1>0, <1>3, <2>1, <2>4 DEF DefsTyped, Defs!Unambiguous
    <2>. QED
      BY <2>1, <2>6, <2>7
  <1>4. \A i, j \in Parsed : stack[i].type = stack[j].type => i = j
    BY <1>0 DEF NamesApart
  <1>5. {n \in DOMAIN defs : ~defs[n].whole} = {Name[stack[i].type] : i \in Parsed}
    BY <1>0 DEF UnfinishedAreParsed
  <1>6. written # <<>> => status = "running" /\ \A n \in DOMAIN defs : defs[n].whole
    <2>1. written # <<>> => Parsed = {} /\ status = "running"
      BY <1>0 DEF WrittenAtEnd, Parsed
    <2>. QED
      BY <1>0, <2>1 DEF UnfinishedAreParsed
  <1>. QED
    BY <1>2, <1>3, <1>4, <1>5, <1>6 DEF Defs!RefsResolve, Parsed

-----------------------------------------------------------------------------
\* The generator of controllers and services.

\* While a run goes on nothing is finished, and what it has passed is found in the file; a
\* method of the controller has its place in the interface, unless the run is there or was
\* killed there.
Passed ==
    run.at # "idle" => ~fresh /\ \A r \in declared : r \in run.todo \/ Gen!Found(r)
MethodHasPlace ==
    \A r \in Generated : ctrl[r] # "absent" =>
        r \in iface \/ r \in cut \/ (run.at = "service" /\ run.request = r)
GenInv ==
    /\ Gen!GeneratorTypeOK /\ Passed /\ MethodHasPlace /\ Gen!FinishedIsComplete
    /\ run.at = "service" => run.request \in Generated

LEMMA GenInitInv ==
    ASSUME Gen!GeneratorAssumption
    PROVE  Gen!Init => GenInv
  <1>. SUFFICES ASSUME Gen!Init PROVE GenInv
    OBVIOUS
  <1>1. Gen!GeneratorTypeOK
    <2>1. edits \in 0..MaxEdits /\ kills \in 0..MaxKills
      BY DEF Gen!Init, Gen!GeneratorAssumption
    <2>2. comments \in [Generated -> 0..1]
      BY DEF Gen!Init
    <2>3. struct \in BOOLEAN /\ fresh \in BOOLEAN
      BY DEF Gen!Init
    <2>4. run \in [at : {"idle", "controller", "service"}, swagger : BOOLEAN,
                   todo : SUBSET Generated, request : Generated \cup {Gen!None}]
      BY DEF Gen!Init, Gen!Idle
    <2>5. /\ declared \subseteq Generated /\ mentioned \subseteq Generated
          /\ iface \subseteq Generated /\ cut \subseteq Generated
          /\ ctrl \in [Generated -> Gen!Bodies] /\ impl \in [Generated -> Gen!Bodies]
      BY DEF Gen!Init, Gen!Bodies
    <2>. QED
      BY <2>1, <2>2, <2>3, <2>4, <2>5 DEF Gen!GeneratorTypeOK
  <1>2. Passed /\ MethodHasPlace /\ Gen!FinishedIsComplete /\ run.at # "service"
    BY DEF Gen!Init, Passed, MethodHasPlace, Gen!FinishedIsComplete, Gen!Idle
  <1>. QED
    BY <1>1, <1>2 DEF GenInv

\* The steps of a run.
LEMMA GenRunInv ==
    ASSUME Gen!GeneratorAssumption, GenInv,
           \/ \E swagger \in BOOLEAN : Gen!Start(swagger)
           \/ \E r \in Generated : Gen!ControllerFound(r) \/ Gen!ControllerMade(r)
           \/ Gen!Service \/ Gen!Implement \/ Gen!Kill
    PROVE  GenInv'
  <1>0. /\ Gen!GeneratorTypeOK /\ Passed /\ MethodHasPlace /\ Gen!FinishedIsComplete
        /\ run.at = "service" => run.request \in Generated
    BY DEF GenInv
  <1>1. ASSUME NEW swagger \in BOOLEAN, Gen!Start(swagger) PROVE GenInv'
    <2>1. /\ run' = [at |-> "controller", swagger |-> swagger, todo |-> declared,
               request |-> Gen!None]
          /\ fresh' = FALSE
          /\ UNCHANGED <<declared, ctrl, impl, comments, iface, struct, mentioned, cut, edits,
               kills>>
      BY <1>1 DEF Gen!Start, Gen!files
    <2>2. run.at = "idle"
      BY <1>1 DEF Gen!Start
    <2>3. Gen!GeneratorTypeOK'
      BY <1>0, <2>1 DEF Gen!GeneratorTypeOK
    <2>4. Passed' /\ MethodHasPlace' /\ Gen!FinishedIsComplete'
      BY <1>0, <2>1, <2>2 DEF Passed, MethodHasPlace, Gen!FinishedIsComplete
    <2>. QED
      BY <2>1, <2>3, <2>4 DEF GenInv
  <1>2. ASSUME NEW r \in Generated, Gen!ControllerFound(r) PROVE GenInv'
    <2>1. /\ run.at = "controller" /\ Gen!Found(r) /\ run' = [run EXCEPT !.todo = @ \ {r}]
          /\ UNCHANGED <<declared, ctrl, impl, iface, struct, mentioned, fresh, cut, edits,
               kills>>
          /\ comments' = [comments EXCEPT ![r] = 1] \/ comments' = comments
      BY <1>2 DEF Gen!ControllerFound
    <2>2. /\ run'.at = "controller" /\ run'.request = run.request /\ run'.todo = run.todo \ {r}
          /\ Gen!GeneratorTypeOK'
      BY <1>0, <2>1 DEF Gen!GeneratorTypeOK
    <2>3. Passed' /\ MethodHasPlace' /\ Gen!FinishedIsComplete'
      BY <1>0, <2>1, <2>2 DEF Passed, MethodHasPlace, Gen!FinishedIsComplete, Gen!Found
    <2>. QED
      BY <2>2, <2>3 DEF GenInv
  <1>3. ASSUME NEW r \in Generated, Gen!ControllerMade(r) PROVE GenInv'
    <2>1. /\ run.at = "controller" /\ ctrl' = [ctrl EXCEPT ![r] = "generated"]
          /\ run' = [run EXCEPT !.at = "service", !.request = r, !.todo = @ \ {r}]
          /\ UNCHANGED <<declared, impl, iface, struct, mentioned, fresh, cut, edits, kills>>
          /\ comments' = [comments EXCEPT ![r] = IF run.swagger THEN 1 ELSE 0]
      BY <1>3 DEF Gen!ControllerMade
    <2>2. /\ run'.at = "service" /\ run'.request = r /\ run'.todo = run.todo \ {r}
          /\ \A q \in Generated : ctrl'[q] = IF q = r THEN "generated" ELSE ctrl[q]
          /\ Gen!GeneratorTypeOK'
      <3>1. /\ run'.at = "service" /\ run'.request = r /\ run'.todo = run.todo \ {r}
            /\ run' \in [at : {"idle", "controller", "service"}, swagger : BOOLEAN,
                         todo : SUBSET Generated, request : Generated \cup {Gen!None}]
        BY <1>0, <2>1 DEF Gen!GeneratorTypeOK
      <3>2. /\ \A q \in Generated : ctrl'[q] = IF q = r THEN "generated" ELSE ctrl[q]
            /\ ctrl' \in [Generated -> Gen!Bodies]
        BY <1>0, <2>1 DEF Gen!GeneratorTypeOK, Gen!Bodies
      <3>3. comments' \in [Generated -> 0..1]
        <4>1. (IF run.swagger THEN 1 ELSE 0) \in 0..1
          OBVIOUS
        <4>2. comments \in [Generated -> 0..1]
          BY <1>0 DEF Gen!GeneratorTypeOK
        <4>. QED
          BY <2>1, <4>1, <4>2
      <3>. QED
        BY <1>0, <2>1, <3>1, <3>2, <3>3 DEF Gen!GeneratorTypeOK
    <2>3. declared \subseteq Generated
      BY <1>0 DEF Gen!GeneratorTypeOK
    <2>4. Passed' /\ MethodHasPlace' /\ Gen!FinishedIsComplete'
      BY <1>0, <2>1, <2>2, <2>3 DEF Passed, MethodHasPlace, Gen!FinishedIsComplete, Gen!Found
    <2>. QED
      BY <2>2, <2>4 DEF GenInv
  <1>4. CASE Gen!Service
    <2>1. /\ run.at = "service" /\ iface' = iface \cup {run.request}
          /\ run' = [run EXCEPT !.at = "controller", !.request = Gen!None]
          /\ UNCHANGED <<declared, ctrl, impl, comments, struct, mentioned, fresh, cut, edits,
               kills>>
      BY <1>4 DEF Gen!Service
    <2>2. run'.at = "controller" /\ run'.todo = run.todo /\ Gen!GeneratorTypeOK'
      BY <1>0, <2>1 DEF Gen!GeneratorTypeOK
    <2>3. Passed' /\ MethodHasPlace' /\ Gen!FinishedIsComplete'
      BY <1>0, <2>1, <2>2 DEF Passed, MethodHasPlace, Gen!FinishedIsComplete, Gen!Found
    <2>. QED
      BY <2>2, <2>3 DEF GenInv
  <1>5. CASE Gen!Implement
    <2>1. /\ run.at = "controller" /\ run.todo = {} /\ run' = Gen!Idle /\ fresh' = TRUE
          /\ UNCHANGED <<declared, ctrl, comments, iface, mentioned, cut, edits, kills>>
          /\ struct' = (struct \/ iface # {})
      BY <1>5 DEF Gen!Implement
    <2>2. /\ impl' \in [Generated -> Gen!Bodies]
          /\ \A r \in Generated : r \in iface /\ r # Accessor => impl'[r] # "absent"
      BY <1>0, <1>5 DEF Gen!Implement, Gen!GeneratorTypeOK, Gen!Bodies
    <2>3. struct' \in BOOLEAN
      BY <1>0, <2>1 DEF Gen!GeneratorTypeOK
    <2>4. run'.at = "idle" /\ Gen!GeneratorTypeOK'
      BY <1>0, <2>1, <2>2, <2>3 DEF Gen!GeneratorTypeOK, Gen!Idle, Gen!None
    <2>5. Passed' /\ MethodHasPlace'
      BY <1>0, <2>1, <2>4 DEF Passed, MethodHasPlace
    <2>6. Gen!FinishedIsComplete'
      <3>1. declared \subseteq Generated
        BY <1>0 DEF Gen!GeneratorTypeOK
      <3>2. \A r \in declared : Gen!Found(r)
        BY <1>0, <2>1 DEF Passed
      <3>. QED
        BY <1>0, <2>1, <2>2, <3>1, <3>2 DEF Gen!FinishedIsComplete, MethodHasPlace, Gen!Found
    <2>. QED
      BY <2>4, <2>5, <2>6 DEF GenInv
  <1>6. CASE Gen!Kill
    <2>1. /\ run.at # "idle" /\ run' = Gen!Idle /\ kills < MaxKills /\ kills' = kills + 1
          /\ cut' = IF run.at = "service" THEN cut \cup {run.request} ELSE cut
          /\ UNCHANGED <<declared, ctrl, impl, comments, iface, struct, mentioned, fresh,
               edits>>
      BY <1>6 DEF Gen!Kill, Gen!files
    <2>2. kills' \in 0..MaxKills
      BY <1>0, <2>1 DEF Gen!GeneratorTypeOK, Gen!GeneratorAssumption
    <2>3. run'.at = "idle" /\ Gen!GeneratorTypeOK'
      BY <1>0, <2>1, <2>2 DEF Gen!GeneratorTypeOK, Gen!Idle, Gen!None
    <2>4. Passed' /\ MethodHasPlace' /\ Gen!FinishedIsComplete'
      BY <1>0, <2>1, <2>3 DEF Passed, MethodHasPlace, Gen!FinishedIsComplete
    <2>. QED
      BY <2>3, <2>4 DEF GenInv
  <1>. QED
    BY <1>1, <1>2, <1>3, <1>4, <1>5, <1>6

LEMMA GenNextInv ==
    ASSUME Gen!GeneratorAssumption, GenInv, [Gen!Next]_genVars
    PROVE  GenInv'
  <1>0. /\ Gen!GeneratorTypeOK /\ Passed /\ MethodHasPlace /\ Gen!FinishedIsComplete
        /\ run.at = "service" => run.request \in Generated
    BY DEF GenInv
  <1>1. ASSUME NEW r \in Generated,
               Gen!Declare(r) \/ Gen!Mention(r) \/ Gen!WriteController(r) \/ Gen!WriteService(r)
        PROVE  GenInv'
    <2>1. /\ run.at = "idle" /\ edits < MaxEdits /\ edits' = edits + 1 /\ fresh' = FALSE
          /\ UNCHANGED <<comments, iface, struct, run, cut, kills>>
      BY <1>1 DEF Gen!Declare, Gen!Mention, Gen!WriteController, Gen!WriteService, Gen!Edit
    <2>2. /\ declared' = declared \cup {r} \/ declared' = declared
          /\ mentioned' = mentioned \cup {r} \/ mentioned' = mentioned
          /\ (ctrl[r] = "generated" /\ ctrl' = [ctrl EXCEPT ![r] = "written"]) \/ ctrl' = ctrl
          /\ impl' = [impl EXCEPT ![r] = "written"] \/ impl' = impl
      BY <1>1 DEF Gen!Declare, Gen!Mention, Gen!WriteController, Gen!WriteService
    <2>3. edits' \in 0..MaxEdits
      BY <1>0, <2>1 DEF Gen!GeneratorTypeOK, Gen!GeneratorAssumption
    <2>4. ctrl' \in [Generated -> Gen!Bodies] /\ impl' \in [Generated -> Gen!Bodies]
      BY <1>0, <2>2 DEF Gen!GeneratorTypeOK, Gen!Bodies
    <2>5. Gen!GeneratorTypeOK'
      BY <1>0, <2>1, <2>2, <2>3, <2>4 DEF Gen!GeneratorTypeOK
    <2>6. \A q \in Generated : ctrl'[q] # "absent" => ctrl[q] # "absent"
      BY <1>0, <2>2 DEF Gen!GeneratorTypeOK
    <2>7. Passed' /\ MethodHasPlace' /\ Gen!FinishedIsComplete'
      BY <1>0, <2>1, <2>6 DEF Passed, MethodHasPlace, Gen!FinishedIsComplete
    <2>. QED
      BY <2>1, <2>5, <2>7 DEF GenInv
  <1>2. CASE UNCHANGED genVars
    BY <1>2 DEF genVars, GenInv, Gen!GeneratorTypeOK, Passed, MethodHasPlace,
       Gen!FinishedIsComplete, Gen!Found
  <1>. QED
    BY <1>1, <1>2, GenRunInv DEF Gen!Next

-----------------------------------------------------------------------------
\* The generator of entities and repositories.

\* Between runs both files are there or neither, and they fit, unless a run was cut between
\* them; between the two files of a run the entity is there.
TableRuns ==
    /\ command.at = "idle" <=> command = Table!Idle
    /\ command # Table!Idle => command.command \in Table!Commands /\ outcome = "running"
Fit == {entity, repository} \subseteq Table!Commands => entity = repository
BothOrNeither ==
    /\ ~broken /\ command.at # "repository" =>
          Fit /\ (entity = "absent" <=> repository = "absent")
    /\ command.at = "repository" =>
          /\ entity # "absent"
          /\ ~broken => IF repository = "absent" THEN entity = command.command ELSE Fit
TableInv == Table!TableGenTypeOK /\ TableRuns /\ BothOrNeither /\ Table!PairIsWhole

LEMMA EntityBuilds ==
    ASSUME columns \subseteq Table!SQLTypes, "datetime" \notin columns
    PROVE  Table!Builds
  <1>1. \A t \in Table!SQLTypes : t # "datetime" => Table!GoType(t) # "time.Time"
    BY DEF Table!SQLTypes, Table!GoType
  <1>. QED
    BY <1>1 DEF Table!Builds

LEMMA TableInitInv ==
    ASSUME Table!TableGenAssumption
    PROVE  Table!Init => TableInv
  <1>. SUFFICES ASSUME Table!Init PROVE TableInv
    OBVIOUS
  <1>1. Table!TableGenTypeOK
    <2>1. runs \in 0..MaxRuns /\ rewrites \in 0..MaxRewrites
      BY DEF Table!Init, Table!TableGenAssumption
    <2>2. broken \in BOOLEAN
      BY DEF Table!Init
    <2>3. /\ columns \subseteq Table!SQLTypes
          /\ {entity, repository} \subseteq Table!Commands \cup {"absent", "edited"}
          /\ command \in [command : Table!Commands \cup {"none"}, at : {"idle", "entity",
               "repository"}]
          /\ outcome \in {"none", "running", "failed", "refused", "done"}
      BY DEF Table!Init, Table!Idle
    <2>. QED
      BY <2>1, <2>2, <2>3 DEF Table!TableGenTypeOK
  <1>2. TableRuns /\ BothOrNeither /\ Table!PairIsWhole
    BY DEF Table!Init, TableRuns, BothOrNeither, Fit, Table!PairIsWhole, Table!Idle,
       Table!Commands
  <1>. QED
    BY <1>1, <1>2 DEF TableInv

LEMMA TableNextInv ==
    ASSUME Table!TableGenAssumption, TableInv, [Table!Next]_tableVars
    PROVE  TableInv'
  <1>0. /\ Table!TableGenTypeOK /\ TableRuns /\ BothOrNeither /\ Table!PairIsWhole
        /\ columns \subseteq Table!SQLTypes
    BY DEF TableInv, Table!TableGenTypeOK
  <1>1. ASSUME NEW c \in Table!Commands, Table!Start(c) PROVE TableInv'
    <2>1. runs' \in 0..MaxRuns
      BY <1>0, <1>1 DEF Table!Start, Table!TableGenTypeOK, Table!TableGenAssumption
    <2>2. /\ command = Table!Idle /\ UNCHANGED <<columns, entity, repository, broken, rewrites>>
          /\ \/ command' = [command |-> c, at |-> "entity"] /\ outcome' = "running"
             \/ outcome' = "failed" /\ command' = command
      BY <1>1 DEF Table!Start
    <2>3. Table!TableGenTypeOK'
      BY <1>0, <2>1, <2>2 DEF Table!TableGenTypeOK
    <2>4. TableRuns' /\ BothOrNeither' /\ Table!PairIsWhole'
      BY <1>0, <2>2 DEF TableRuns, BothOrNeither, Fit, Table!PairIsWhole, Table!Idle,
         Table!Commands
    <2>. QED
      BY <2>3, <2>4 DEF TableInv
  <1>2. CASE Table!Entity
    <2>1. command.at = "entity" /\ UNCHANGED <<columns, repository, broken, runs, rewrites>>
      BY <1>2 DEF Table!Entity
    <2>2. CASE entity = "absent"
      <3>1. entity' = command.command /\ command' = [command EXCEPT !.at = "repository"]
              /\ outcome' = outcome
        BY <1>2, <2>2 DEF Table!Entity
      <3>2. command.command \in Table!Commands /\ outcome = "running"
        BY <1>0, <2>1 DEF TableRuns, Table!Idle
      <3>3. Table!TableGenTypeOK' /\ command'.at = "repository"
              /\ command'.command = command.command
        BY <1>0, <2>1, <3>1, <3>2 DEF Table!TableGenTypeOK
      <3>4. TableRuns' /\ BothOrNeither' /\ Table!PairIsWhole'
        BY <1>0, <2>1, <2>2, <3>1, <3>2, <3>3
        DEF TableRuns, BothOrNeither, Fit, Table!PairIsWhole, Table!Idle, Table!Commands
      <3>. QED
        BY <3>3, <3>4 DEF TableInv
    <2>3. CASE entity # "absent"
      <3>1. /\ entity' = entity
            /\ \/ command' = [command EXCEPT !.at = "repository"] /\ outcome' = outcome
               \/ command' = Table!Idle /\ outcome' = "refused"
        BY <1>2, <2>3 DEF Table!Entity
      <3>2. command.command \in Table!Commands /\ outcome = "running"
        BY <1>0, <2>1 DEF TableRuns, Table!Idle
      <3>3. CASE command' = [command EXCEPT !.at = "repository"] /\ outcome' = outcome
        <4>1. Table!TableGenTypeOK' /\ command'.at = "repository"
                /\ command'.command = command.command
          BY <1>0, <2>1, <3>1, <3>2, <3>3 DEF Table!TableGenTypeOK
        <4>2. TableRuns' /\ BothOrNeither' /\ Table!PairIsWhole'
          BY <1>0, <2>1, <2>3, <3>1, <3>2, <3>3, <4>1
          DEF TableRuns, BothOrNeither, Fit, Table!PairIsWhole, Table!Idle, Table!Commands
        <4>. QED
          BY <4>1, <4>2 DEF TableInv
      <3>4. CASE command' = Table!Idle /\ outcome' = "refused"
        <4>1. Table!TableGenTypeOK' /\ command'.at = "idle"
          BY <1>0, <2>1, <3>1, <3>4 DEF Table!TableGenTypeOK, Table!Idle
        <4>2. TableRuns' /\ BothOrNeither' /\ Table!PairIsWhole'
          BY <1>0, <2>1, <2>3, <3>1, <3>4, <4>1
          DEF TableRuns, BothOrNeither, Fit, Table!PairIsWhole, Table!Idle, Table!Commands
        <4>. QED
          BY <4>1, <4>2 DEF TableInv
      <3>. QED
        BY <3>1, <3>3, <3>4
    <2>. QED
      BY <2>2, <2>3
  <1>3. CASE Table!Repository
    <2>1. /\ command.at = "repository" /\ command' = Table!Idle
          /\ UNCHANGED <<columns, entity, runs, rewrites>>
          /\ \/ /\ repository = "absent" /\ repository' = command.command
                /\ outcome' = "done" /\ broken' = broken
             \/ repository # "absent" /\ repository' = repository /\ outcome' = "done"
                  /\ broken' = broken
             \/ /\ repository # "absent" /\ repository' = repository
                /\ outcome' = "refused" /\ broken' = TRUE
      BY <1>3 DEF Table!Repository
    <2>2. command.command \in Table!Commands /\ command'.at = "idle"
      BY <1>0, <2>1 DEF TableRuns, Table!Idle
    <2>3. Table!TableGenTypeOK'
      BY <1>0, <2>1, <2>2 DEF Table!TableGenTypeOK, Table!Idle
    <2>4. entity # "absent" /\ repository' # "absent" /\ (broken => broken')
      BY <1>0, <2>1, <2>2 DEF BothOrNeither, Table!Commands
    <2>5. ~broken' => Fit'
      BY <1>0, <2>1, <2>2 DEF BothOrNeither, Fit
    <2>6. TableRuns' /\ BothOrNeither'
      BY <2>1, <2>2, <2>4, <2>5 DEF TableRuns, BothOrNeither, Table!Idle
    <2>7. "datetime" \notin columns => Table!Builds'
      BY <1>0, <2>1, EntityBuilds DEF Table!Builds
    <2>8. Table!PairIsWhole'
      BY <2>1, <2>4, <2>5, <2>7 DEF Table!PairIsWhole, Fit
    <2>. QED
      BY <2>3, <2>6, <2>8 DEF TableInv
  <1>4. CASE Table!Cut
    <2>1. /\ command # Table!Idle /\ command' = Table!Idle /\ outcome' = "failed"
          /\ broken' = (broken \/ command.at = "repository")
          /\ UNCHANGED <<columns, entity, repository, runs, rewrites>>
      BY <1>4 DEF Table!Cut
    <2>2. command'.at = "idle" /\ broken' \in BOOLEAN
      BY <2>1 DEF Table!Idle
    <2>3. Table!TableGenTypeOK'
      BY <1>0, <2>1, <2>2 DEF Table!TableGenTypeOK, Table!Idle
    <2>4. TableRuns' /\ BothOrNeither' /\ Table!PairIsWhole'
      BY <1>0, <2>1, <2>2 DEF TableRuns, BothOrNeither, Fit, Table!PairIsWhole, Table!Idle
    <2>. QED
      BY <2>3, <2>4 DEF TableInv
  <1>5. CASE Table!Edit
    <2>1. rewrites' \in 0..MaxRewrites
      BY <1>0, <1>5 DEF Table!Edit, Table!TableGenTypeOK, Table!TableGenAssumption
    <2>2. /\ command = Table!Idle /\ UNCHANGED <<columns, command, runs>>
          /\ \/ /\ entity \in Table!Commands /\ entity' = "edited"
                /\ UNCHANGED <<repository, outcome, broken>>
             \/ /\ repository \in Table!Commands /\ repository' = "edited"
                /\ UNCHANGED <<entity, outcome, broken>>
             \/ entity' = "absent" /\ repository' = "absent" /\ outcome' = "none"
                  /\ broken' = FALSE
      BY <1>5 DEF Table!Edit
    <2>3. Table!TableGenTypeOK'
      BY <1>0, <2>1, <2>2 DEF Table!TableGenTypeOK
    <2>4. TableRuns' /\ BothOrNeither'
      BY <1>0, <2>2 DEF TableRuns, BothOrNeither, Fit, Table!Idle, Table!Commands
    <2>5. "datetime" \notin columns => Table!Builds'
      <3>. SUFFICES ASSUME "datetime" \notin columns PROVE Table!Builds'
        OBVIOUS
      <3>1. \A t \in columns : Table!GoType(t) # "time.Time"
        BY <1>0 DEF Table!SQLTypes, Table!GoType
      <3>. QED
        BY <2>2, <3>1 DEF Table!Builds
    <2>6. Table!PairIsWhole'
      BY <1>0, <2>2, <2>5 DEF Table!PairIsWhole, Table!Commands
    <2>. QED
      BY <2>3, <2>4, <2>6 DEF TableInv
  <1>6. CASE UNCHANGED tableVars
    BY <1>6 DEF tableVars, TableInv, Table!TableGenTypeOK, TableRuns, BothOrNeither, Fit,
       Table!PairIsWhole, Table!Builds
  <1>. QED
    BY <1>1, <1>2, <1>3, <1>4, <1>5, <1>6 DEF Table!Next

-----------------------------------------------------------------------------
\* The text of a method.

TextInv ==
    /\ Text!MethodTextTypeOK /\ Text!MethodBuilds
    /\ text.status = "none" =>
          text = [status |-> "none", params |-> <<>>, results |-> <<>>, values |-> <<>>]

LEMMA TextInitInv == Text!Init => TextInv
  BY DEF Text!Init, TextInv, Text!MethodTextTypeOK, Text!MethodBuilds

\* Only what is no ordinary type comes out as another, or without a value that fits.
LEMMA OrdinaryForms ==
    ASSUME NEW f \in Text!Forms
    PROVE  /\ f \notin {"array", "struct{}", "generic"} => Text!GetType(f) = f
           /\ f \notin {"array", "struct{}", "generic", "chan", "func", "interface{}",
                        "byte", "struct name", "imported struct"} =>
                 Text!Value(f) # "" /\ Text!Fits(Text!Value(f), f)
  <1>1. f \notin {"array", "struct{}", "generic"} => Text!GetType(f) = f
    BY DEF Text!GetType
  <1>2. f \notin {"chan", "func", "interface{}", "struct{}", "generic"} => Text!Value(f) # ""
    BY DEF Text!Value
  <1>3. ASSUME f \in {"string", "int", "bool"} PROVE Text!Fits(Text!Value(f), f)
    BY <1>3 DEF Text!Value, Text!Fits
  <1>4. ASSUME f \in {"interface name", "imported interface", "pointer", "slice", "map"}
        PROVE  Text!Fits(Text!Value(f), f)
    BY <1>4 DEF Text!Value, Text!Fits
  <1>. QED
    BY <1>1, <1>2, <1>3, <1>4 DEF Text!Forms

LEMMA TextNextInv ==
    ASSUME Text!MethodTextAssumption, TextInv, [Text!Next]_textVars
    PROVE  TextInv'
  <1>1. CASE UNCHANGED textVars
    BY <1>1 DEF textVars, TextInv, Text!MethodTextTypeOK, Text!MethodBuilds
  <1>2. CASE Text!Generate /\ method.void
    <2>1. /\ method' = method /\ text' = [text EXCEPT !.status = "panic"]
          /\ text = [status |-> "none", params |-> <<>>, results |-> <<>>, values |-> <<>>]
      BY <1>2 DEF Text!Generate, TextInv
    <2>2. text'.status = "panic"
      BY <2>1
    <2>3. ~Text!Ordinary(method)
      BY <1>2 DEF Text!Ordinary
    <2>. QED
      BY <2>1, <2>2, <2>3 DEF TextInv, Text!MethodTextTypeOK, Text!MethodBuilds
  <1>3. CASE Text!Generate /\ ~method.void
    <2>. DEFINE values == [p
           \in (DOMAIN method.results) \X {1} |-> Text!Value(method.results[p[1]].form)]
    <2>1. /\ method' = method
          /\ text' = [status  |-> IF "" \in Text!Range(values) THEN "refused" ELSE "written",
                      params  |-> Text!Params(method.params),
                      results |-> Text!Results(method.results),
                      values  |-> values]
      BY <1>3 DEF Text!Generate
    <2>2. /\ text'.status = IF "" \in Text!Range(values) THEN "refused" ELSE "written"
          /\ text'.params = Text!Params(method.params)
          /\ text'.results = Text!Results(method.results) /\ text'.values = values
      BY <2>1
    <2>3. text'.status \in {"refused", "written"}
      BY <2>2
    <2>4. ASSUME Text!Ordinary(method)
          PROVE  /\ text'.status = "written"
                 /\ text'.params = Text!Declared(method.params)
                 /\ text'.results = Text!Declared(method.results)
                 /\ \A p \in DOMAIN text'.values : Text!Fits(text'.values[p], text'.results[p])
      <3>1. /\ \A i \in DOMAIN method.params : method.params[i].form \in Text!Forms
            /\ \A i \in DOMAIN method.results : /\ method.results[i].form \in Text!Forms
                                                /\ method.results[i].names \in Nat
        BY DEF TextInv, Text!MethodTextTypeOK, Text!MethodTextAssumption
      <3>2. \A i \in DOMAIN method.params :
               Text!GetType(method.params[i].form) = method.params[i].form
        BY <2>4, <3>1, OrdinaryForms DEF Text!Ordinary
      <3>3. \A p \in Text!Places(method.params) : p[1] \in DOMAIN method.params
        BY DEF Text!Places
      <3>4. Text!Params(method.params) = Text!Declared(method.params)
        BY <3>2, <3>3 DEF Text!Params, Text!Declared
      <3>5. \A i \in DOMAIN method.results :
               /\ Text!Names(method.results[i]) = 1
               /\ Text!GetType(method.results[i].form) = method.results[i].form
               /\ Text!Value(method.results[i].form) # ""
               /\ Text!Fits(Text!Value(method.results[i].form), method.results[i].form)
        <4>1. \A i \in DOMAIN method.results : method.results[i].names \in Nat
                                                 /\ method.results[i].names <= 1
          BY <2>4, <3>1 DEF Text!Ordinary
        <4>2. \A i \in DOMAIN method.results : Text!Names(method.results[i]) = 1
          BY <4>1 DEF Text!Names
        <4>3. \A i \in DOMAIN method.results :
                 method.results[i].form \notin {"array", "struct{}", "generic", "chan", "func",
                                                "interface{}", "byte", "struct name",
                                                  "imported struct"}
          BY <2>4 DEF Text!Ordinary
        <4>. QED
          BY <3>1, <4>2, <4>3, OrdinaryForms
      <3>6. Text!Places(method.results) = (DOMAIN method.results) \X {1}
        <4>1. \A i \in DOMAIN method.results : 1..Text!Names(method.results[i]) = {1}
          <5>1. 1..1 = {1}
            OBVIOUS
          <5>. QED
            BY <3>5, <5>1
        <4>2. Text!Places(method.results) = UNION {{i} \X {1} : i \in DOMAIN method.results}
          BY <4>1 DEF Text!Places
        <4>. QED
          BY <4>2
      <3>7. Text!Results(method.results) = Text!Declared(method.results)
        BY <3>5, <3>6 DEF Text!Results, Text!Declared
      <3>8. "" \notin Text!Range(values)
        BY <3>5 DEF Text!Range
      <3>9. \A p \in DOMAIN values : Text!Fits(values[p], Text!Results(method.results)[p])
        BY <3>5 DEF Text!Results
      <3>. QED
        BY <2>2, <3>4, <3>7, <3>8, <3>9
    <2>. QED
      BY <2>1, <2>3, <2>4 DEF TextInv, Text!MethodTextTypeOK, Text!MethodBuilds
  <1>. QED
    BY <1>1, <1>2, <1>3 DEF Text!Next

-----------------------------------------------------------------------------
\* A step is a step of one part, or of none.
LEMMA StepOfOneTool ==
    [Next]_vars => /\ [Api!Next]_apiVars /\ [Defs!Next]_defsVars /\ [Gen!Next]_genVars
                   /\ [Table!Next]_tableVars /\ [Text!Next]_textVars
  BY DEF Next, vars

LEMMA ToolsAssume ==
    /\ Api!ApiContractAssumption /\ Defs!SwaggerDefsAssumption /\ Gen!GeneratorAssumption
    /\ Table!TableGenAssumption /\ Text!MethodTextAssumption
  BY DataAssumption

ToolInv == ApiInv /\ DefsInv /\ GenInv /\ TableInv /\ TextInv

LEMMA ToolsKeepInv == Spec => []ToolInv
  <1>1. Init => ToolInv
    <2>1. Init => Api!Init /\ Defs!Init /\ Gen!Init /\ Table!Init /\ Text!Init
      BY DEF Init
    <2>. QED
      BY <2>1, ToolsAssume, ApiInitInv, DefsInitInv, GenInitInv, TableInitInv, TextInitInv
      DEF ToolInv
  <1>2. ASSUME ToolInv, [Next]_vars
        PROVE  ToolInv'
    <2>1. ApiInv' /\ DefsInv' /\ GenInv'
      BY <1>2, StepOfOneTool, ToolsAssume, ApiNextInv, DefsNextInv, GenNextInv DEF ToolInv
    <2>2. TableInv' /\ TextInv'
      BY <1>2, StepOfOneTool, ToolsAssume, TableNextInv, TextNextInv DEF ToolInv
    <2>. QED
      BY <2>1, <2>2 DEF ToolInv
  <1>. QED
    BY <1>1, <1>2, PTL DEF Spec

\* Whatever request types an API has, in whichever order they are bound, documented and
\* linted: when the analyzer reports nothing and the application starts, the comments name the
\* routes, the client reaches its own, and the documentation of plain declarations is the
\* router's.
THEOREM ReadersStayAgreed == Spec => []ReadersAgree
  <1>1. ToolInv => ReadersAgree
    BY ToolsAssume, ApiInvImplies DEF ToolInv, ReadersAgree
  <1>. QED
    BY <1>1, ToolsKeepInv, PTL

\* However the types of an API refer to each other: when names are unambiguous every reference
\* leads to the definition of the type it was written for, the definitions that are not whole
\* are those of the types being parsed, and only whole ones are written.
THEOREM ReferencesResolve == Spec => []RefsResolve
  <1>1. ToolInv => RefsResolve
    BY ToolsAssume, DefsInvImplies DEF ToolInv, RefsResolve
  <1>. QED
    BY <1>1, ToolsKeepInv, PTL

\* However runs of the generators are repeated, killed and interleaved with edits: after a run
\* that finished every request has its method in the controller, the interface and the service
\* that was not edited away; an entity and a repository fit; and the text of a method of the
\* usual types builds.
THEOREM GeneratedIsComplete == Spec => []FinishedIsComplete
  <1>1. ToolInv => FinishedIsComplete
    BY DEF ToolInv, FinishedIsComplete, GenInv, TableInv, TextInv
  <1>. QED
    BY <1>1, ToolsKeepInv, PTL

\* Every variable of every part holds a value of its type.
THEOREM DataTypeCorrect == Spec => []TypeOK
  <1>1. LimitInv /\ DataInv /\ ToolInv => TypeOK
    <2>. SUFFICES ASSUME LimitInv, DataInv, ToolInv PROVE TypeOK
      OBVIOUS
    <2>1. Limit!LimitTypeOK
      BY DEF LimitInv
    <2>2. /\ Migrate!MigrateTypeOK /\ Cache!CacheTypeOK /\ Session!SessionTypeOK
          /\ Policy!PolicyTypeOK /\ Repo!RepositoryTypeOK
      BY DEF DataInv, MigrateInv, CacheInv, SessionInv, PolicyInv, RepoInv
    <2>3. /\ Api!ApiTypeOK /\ Gen!GeneratorTypeOK /\ Table!TableGenTypeOK
          /\ Text!MethodTextTypeOK
      BY DEF ToolInv, ApiInv, GenInv, TableInv, TextInv
    <2>4. Defs!DefsTypeOK
      BY ToolsAssume, DefsInvImplies DEF ToolInv
    <2>. QED
      BY <2>1, <2>2, <2>3, <2>4 DEF TypeOK
  <1>. QED
    BY <1>1, LimitKeepsInv, DataKeepsInv, ToolsKeepInv, PTL
=============================================================================
