------------------------------- MODULE MCData -------------------------------
(***************************************************************************)
(* Small instances of the parts of Data.  The parts that are not at work   *)
(* begin in one way only.                                                  *)
(***************************************************************************)
EXTENDS Data, TLC

\* Two goroutines, which nothing tells apart.
CONSTANTS a, b

Symmetry == Permutations({a, b})

\* The second limit is the stricter one, over a longer time.
MCPeriod == <<3, 4>>
MCQuota  == <<2, 1>>

MCKnown == "old" :> 1 @@ "new" :> 3 @@ "new2" :> 3

\* The user is in a group whose policies deny, and has one that allows, at a later place.
MCPool ==
  <<[Subject |-> "u", Resource |-> "g", Effect |-> "allow", Priority |-> 0, InAction |-> TRUE],
    [Subject |-> "g", Resource |-> "f", Effect |-> "deny",  Priority |-> 1, InAction |-> TRUE],
    [Subject |-> "u", Resource |-> "f", Effect |-> "allow", Priority |-> 2, InAction |-> TRUE]>>

\* Declarations around the usual one, each with something a reader may trip over.
Lit(n) == [par |-> FALSE, name |-> n]
Par(n) == [par |-> TRUE, name |-> n]
Path(segs) == [segs |-> segs, flaw |-> "none"]
Users == Path(<<Lit("users")>>)
User1 == Path(<<Lit("users"), Par("id")>>)
User2 == Path(<<Lit("users"), Par("idx")>>)
Both  == Path(<<Lit("users"), Par("id"), Par("idx")>>)
Bare == [go |-> "go", uri |-> "", form |-> "", json |-> "", header |-> "", inlined |-> FALSE]
Uri(n)  == [Bare EXCEPT !.uri = n]
Form(n) == [Bare EXCEPT !.form = n]
Usual == [paths |-> <<User1>>, methods |-> <<"GET">>, contentType |-> "json",
          fields |-> <<Uri("id"), Form("page")>>, suffix |-> TRUE,
          response |-> TRUE, first |-> TRUE, oddStem |-> FALSE, context |-> TRUE,
          results |-> "response and error"]
Others ==
  { [Usual EXCEPT !.paths = <<Both>>, !.fields = f] :
      f \in {<<Uri("id"), Uri("idx")>>, <<Uri("idx"), Uri("id")>>} }
  \cup { [Usual EXCEPT !.paths = <<Users, User1>>], [Usual EXCEPT !.methods = <<"">>],
         [Usual EXCEPT !.methods = <<"TRACE">>],
         [Usual EXCEPT !.methods = <<"get">>],
         [Usual EXCEPT !.paths = <<User2>>, !.fields = <<Uri("idx")>>],
         [Usual EXCEPT !.paths = <<Users>>, !.fields = <<Form("page")>>],
         [Usual EXCEPT !.fields = <<Form("page")>>],
         [Usual EXCEPT !.paths = <<[User1 EXCEPT !.flaw = "no slash"]>>],
         [Usual EXCEPT !.suffix = FALSE], [Usual EXCEPT !.response = FALSE],
         [Usual EXCEPT !.first = FALSE], [Usual EXCEPT !.oddStem = TRUE],
         [Usual EXCEPT !.context = FALSE], [Usual EXCEPT !.results = "response"] }


\* And one field of every make beside the usual one, read with every method and content.
Makes ==
  [go : {"page", "go"}, uri : {"", "id"}, form : {"", "page"}, json : {"", "page", "id"},
   header : {"", "X-Page"}, inlined : {FALSE}]
  \cup { [f EXCEPT !.inlined = TRUE] : f \in {Bare, Uri("idx"), Form("page")} }
Readings ==
  {<<<<"GET">>, "json">>, <<<<"DELETE", "GET">>, "json">>}
  \cup ({<<"POST">>} \X {"json", "x-www-form-urlencoded", "form-data"})
Mades == { [Usual EXCEPT !.fields = <<Uri("id"), f>>, !.methods = mc[1], !.contentType = mc[2]] :
             f \in Makes, mc \in Readings }
Elsewhere == [Usual EXCEPT !.paths = <<Path(<<Lit("pages")>>)>>, !.fields = <<Form("page")>>]
MCDeclarations == {Usual, Elsewhere} \cup Others \cup Mades

\* Two of the others, or one field of every make beside a request of another path.
Pair(d, e) == [r \in RequestTypes |-> IF r = "A" THEN d ELSE e]
MCPairs == {Pair(d, e) : d, e \in {Usual} \cup Others} \cup {Pair(Elsewhere, d) : d \in Mades}

MCPrefixes == {<<"id", "idx">>}

\* Two types of the API and one of another package, which one field imports under
\* another name and which may only rename a type.
MCName == "A" :> "api.A" @@ "B" :> "api.B" @@ "C" :> "model.C"
N(t) == [to |-> t, as |-> IF t = "missing" THEN "" ELSE MCName[t]]
OfType(t) == [of |-> <<N(t)>>, inline |-> FALSE]
OfInstance(t, u) == [of |-> <<N(t), N(u)>>, inline |-> FALSE]
Inline(f) == [f EXCEPT !.inline = TRUE]
FieldLists == {<<>>, <<OfType("A")>>, <<OfType("missing")>>, <<OfType("C"), OfType("B")>>,
               <<OfType("B"), OfType("A")>>, <<[OfType("C") EXCEPT !.of[1].as = "alias.C"]>>,
               <<OfInstance("C", "B"), Inline(OfType("B"))>>, <<Inline(OfInstance("C", "A"))>>}
Forms == [shape : {"struct"}, fields : FieldLists]
Renamed == [shape |-> "renamed", fields |-> <<OfType("B")>>]
MCSources ==
  {f \in [{"A", "B", "C"} -> Forms \cup {Renamed}] : f["B"] # Renamed /\ f["A"] # Renamed}

MCRootSets ==
  {{[type |-> "A", kind |-> k], [type |-> "B", kind |-> "response"]} :
     k \in {"response", "body", "query"}}

\* Lists of up to two fields, each of one name, two or none.
TypeForms == {"string", "int", "bool", "byte", "interface name", "struct name", "imported interface",
              "imported struct", "pointer", "slice", "array", "map", "chan", "func", "interface{}",
              "struct{}", "generic"}
Fields == [names : {0, 1, 2}, form : TypeForms]
Lists(rest) == {<<>>} \cup {<<f>> : f \in Fields} \cup {<<f, rest>> : f \in Fields}
Common == [names |-> 0, form |-> "interface name"]
MCMethods ==
  [params : Lists(Common), results : {<<Common>>}, void : {FALSE}]
  \cup [params : {<<Common>>}, results : Lists(Common), void : {FALSE}]
  \cup [params : {<<>>}, results : {<<>>}, void : {TRUE}]

-----------------------------------------------------------------------------
MCInit ==
  /\ which \in Parts
  /\ which = "repo" \/ backend = "gorm"
  /\ decl \in IF which = "api" THEN MCPairs ELSE {Pair(Usual, Usual)}
  /\ which = "defs" \/ /\ source = [t \in Types |-> [shape |-> "struct", fields |-> <<>>]]
                       /\ roots = {[type |-> "A", kind |-> "body"], [type |-> "B", kind |-> "response"]}
  /\ which = "gen" \/ declared = {}
  /\ which = "table" \/ columns = {}
  /\ which = "text" \/ method = [params |-> <<>>, results |-> <<>>, void |-> TRUE]
  /\ Init

MCSpec == MCInit /\ [][Next]_vars
=============================================================================
