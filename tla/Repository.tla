----------------------------- MODULE Repository -----------------------------
(***************************************************************************)
(* The repositories that `cago gen gorm` and `cago gen mongo` write into   *)
(* an application: rows are deleted by their status, an entity that was    *)
(* found is written back by a later call, and a list is read page by page, *)
(* its total first.  No call runs in a transaction.  Of the columns the    *)
(* model keeps the status and the time of creation, in seconds.            *)
(***************************************************************************)
EXTENDS Naturals, Sequences, FiniteSets, SequencesExt, FiniteSetsExt

CONSTANTS
  Callers,      \* goroutines that find and update
  MaxSize,      \* the largest size of a page that is accepted
  DefaultSize,  \* the size taken for one that is not
  Asked,        \* the sizes that a caller may ask for
  MaxRows,      \* bound on the rows
  MaxWalks      \* bound on the walks through the pages

RepositoryAssumption ==
  /\ IsFiniteSet(Callers)
  /\ MaxSize \in Nat \ {0} /\ DefaultSize \in 1..MaxSize
  /\ Asked \subseteq Nat \ {0} /\ MaxRows \in Nat /\ MaxWalks \in Nat

VARIABLES
  backend,     \* "gorm" or "mongo"
  rows,        \* [active, second], by id, which is the order of creation
  held,        \* what each caller has found and not written back, 0 for nothing
  dead,        \* the rows whose Delete has returned
  overlapped,  \* those that some caller had found before that and not written back yet
  walk,        \* a walk through the pages: [at, from, page, asked, total]
  owed,        \* the rows that were active when it began and no page has shown yet; none
               \* any more when one was deleted since, or appeared between a total and its list
  walks

walkVars == <<walk, owed, walks>>
vars == <<backend, rows, held, dead, overlapped, walkVars>>

Active == {id \in DOMAIN rows : rows[id].active}

NoWalk == [at |-> "idle", from |-> 1, page |-> 1, asked |-> 1, total |-> 0]

---------------------------------------------------------------------------
\* Create: the columns have been filled in by the caller.
Create ==
  /\ Len(rows) < MaxRows
  /\ \E s \in {0, 1} :
       LET last == IF rows = <<>> THEN 0 ELSE Last(rows).second
       IN rows' = Append(rows, [active |-> TRUE, second |-> last + s])
  /\ owed' = IF walk.at = "counted" THEN {} ELSE owed
  /\ UNCHANGED <<backend, held, dead, overlapped, walk, walks>>

\* Find: only a row that is active.
Find(c) ==
  /\ \E id \in DOMAIN rows : held' = [held EXCEPT ![c] = IF rows[id].active THEN id ELSE 0]
  /\ UNCHANGED <<backend, rows, dead, overlapped, walkVars>>

\* A mutant: the status is not part of the filter.
UpdatesAny(id) == TRUE

\* Mongo's filter has the status; gorm's Updates looks for the primary key.
Updates(id) == backend = "mongo" => rows[id].active

\* Update writes every column of the entity back that is not empty, its status too.
Update(c) ==
  /\ held[c] # 0
  /\ rows' = IF Updates(held[c]) THEN [rows EXCEPT ![held[c]].active = TRUE] ELSE rows
  /\ held' = [held EXCEPT ![c] = 0]
  /\ owed' = IF walk.at = "counted" /\ ~rows[held[c]].active /\ Updates(held[c]) THEN {} ELSE owed
  /\ UNCHANGED <<backend, dead, overlapped, walk, walks>>

\* Delete: the status is set, whatever it was (gorm) or if it is active (mongo), and
\* that no row was changed is no error.
Delete(id) ==
  /\ rows' = [rows EXCEPT ![id].active = FALSE]
  /\ dead' = dead \cup {id}
  /\ overlapped' = IF \E c \in Callers : held[c] = id THEN overlapped \cup {id} ELSE overlapped \ {id}
  /\ owed' = IF walk.at \in {"asking", "counted"} THEN {} ELSE owed
  /\ UNCHANGED <<backend, held, walk, walks>>

---------------------------------------------------------------------------
(* The pages.                                                             *)

\* GetPage, GetSize and GetOffset.
PageNumber(p) == IF p = 0 THEN 1 ELSE p
Size(asked) == IF asked > MaxSize THEN DefaultSize ELSE asked
Offset(page, asked) == (PageNumber(page) - 1) * Size(asked)

\* The newest first; the order of rows of one second is the database's.
Orders ==
  {o \in SetToSeqs(Active) :
     \A i, j \in DOMAIN o : i < j => rows[o[i]].second >= rows[o[j]].second}

\* A caller begins to read page after page, from 0 or from 1.
Walk(from, asked) ==
  /\ walk.at \in {"idle", "done"} /\ walks < MaxWalks
  /\ walk' = [at |-> "asking", from |-> from, page |-> from, asked |-> asked, total |-> 0]
  /\ owed' = Active
  /\ walks' = walks + 1
  /\ UNCHANGED <<backend, rows, held, dead, overlapped>>

\* FindPage counts.
Count ==
  /\ walk.at = "asking"
  /\ walk' = [walk EXCEPT !.at = "counted", !.total = Cardinality(Active)]
  /\ UNCHANGED <<backend, rows, held, dead, overlapped, owed, walks>>

\* FindPage lists, and the caller goes on to the next page while the total is more
\* than it has asked for.
List ==
  /\ walk.at = "counted"
  /\ \E o \in Orders :
       LET first == Offset(walk.page, walk.asked) + 1
       IN owed' = owed \ Range(SubSeq(o, first, Min({Len(o), first + Size(walk.asked) - 1})))
  /\ walk' = IF (walk.page - walk.from + 1) * walk.asked < walk.total
             THEN [walk EXCEPT !.at = "asking", !.page = @ + 1]
             ELSE [walk EXCEPT !.at = "done", !.total = 0]
  /\ UNCHANGED <<backend, rows, held, dead, overlapped, walks>>

---------------------------------------------------------------------------
Init ==
  /\ backend \in {"gorm", "mongo"}
  /\ rows = <<>> /\ held = [c \in Callers |-> 0]
  /\ dead = {} /\ overlapped = {}
  /\ walk = NoWalk /\ owed = {} /\ walks = 0

Next ==
  \/ Create
  \/ \E c \in Callers : Find(c) \/ Update(c)
  \/ \E id \in DOMAIN rows : Delete(id)
  \/ \E from \in {0, 1}, asked \in Asked : Walk(from, asked)
  \/ Count \/ List

Spec == Init /\ [][Next]_vars

RepositoryTypeOK ==
  /\ backend \in {"gorm", "mongo"}
  /\ rows \in Seq([active : BOOLEAN, second : Nat])
  /\ held \in [Callers -> 0..Len(rows)]
  /\ dead \subseteq DOMAIN rows /\ overlapped \subseteq dead
  /\ walk \in [at : {"idle", "asking", "counted", "done"}, from : {0, 1}, page : Nat,
               asked : Nat, total : Nat]
  /\ owed \subseteq DOMAIN rows /\ walks \in 0..MaxWalks

\* The pages show the living.  A row that was deleted is in no page, unless somebody
\* had found it before, in which case gorm's Update brings it back (and mongo's does
\* not).  And who has read all the pages has seen every row that was active
\* throughout, although each page is two queries of its own - unless a row was deleted
\* meanwhile, or one appeared between a total and its list, two rows are of the same
\* second, the size that was asked for was not accepted, or the pages were counted
\* from 0.
PagesShowTheLiving ==
  /\ Active \cap dead \subseteq (IF backend = "gorm" THEN overlapped ELSE {})
  /\ walk.at = "done" /\ walk.from = 1 /\ walk.asked <= MaxSize
       /\ (\A i, j \in DOMAIN rows : rows[i].second = rows[j].second => i = j)
     => owed = {}
=============================================================================
