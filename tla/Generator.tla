----------------------------- MODULE Generator -----------------------------
(***************************************************************************)
(* `cago gen` on one API file: the controller and the service it keeps up  *)
(* with the request types, run after run, in files that the developer      *)
(* edits in between.  A run decides what is missing by looking at the text *)
(* of the files; it keeps no record of what it has done.                   *)
(***************************************************************************)
EXTENDS Naturals, FiniteSets

CONSTANTS
  Requests,   \* the names of the request types, without the suffix
  Accessor,   \* the name of the service's accessor function (the file's, in camel case)
  MaxEdits,   \* bound on the developer's edits
  MaxKills    \* bound on the runs that are killed

GeneratorAssumption == IsFiniteSet(Requests) /\ MaxEdits \in Nat /\ MaxKills \in Nat

VARIABLES
  declared,   \* the request types in the API file
  ctrl, impl, \* the method of the controller and of the service struct, for each request
  mentioned,  \* the names other text of the controller file has, as in "x := Name("
  comments,   \* the number of Swaggo comments on each controller method
  iface,      \* the methods of the service interface
  struct,     \* the service struct and its accessor have been generated
  run,        \* the run: [at, swagger, todo]
  fresh,      \* no edit since the last run that came to its end
  cut,        \* requests whose run was killed between controller and service
  edits, kills

files == <<ctrl, impl, comments, iface, struct>>
vars == <<declared, files, mentioned, run, fresh, cut, edits, kills>>

Bodies == {"absent", "generated", "written"}
None == "none"
Idle == [at |-> "idle", swagger |-> FALSE, todo |-> {}, request |-> None]

---------------------------------------------------------------------------
\* A mutant: a controller file that is there is taken to be complete.
FoundFile(r) == \E q \in Requests : ctrl[q] # "absent"

\* strings.Contains(data, " "+name+"("): any text of the file will do.
Found(r) == ctrl[r] # "absent" \/ r \in mentioned

\* gen: the API file is read once.
Start(swagger) ==
  /\ run.at = "idle" /\ declared # {}
  /\ run' = [at |-> "controller", swagger |-> swagger, todo |-> declared, request |-> None]
  /\ fresh' = FALSE
  /\ UNCHANGED <<declared, files, mentioned, cut, edits, kills>>

\* genController on a request that has its method: with --swagger the comment is put
\* on it unless it has one.  (A name that is only mentioned has no method to put it on.)
ControllerFound(r) ==
  /\ run.at = "controller" /\ r \in run.todo /\ Found(r)
  /\ run' = [run EXCEPT !.todo = @ \ {r}]
  /\ comments' = IF run.swagger /\ ctrl[r] # "absent" /\ comments[r] = 0
                 THEN [comments EXCEPT ![r] = 1] ELSE comments
  /\ UNCHANGED <<declared, ctrl, impl, iface, struct, mentioned, fresh, cut, edits, kills>>

\* genController and regenController: the method is appended to the file, which is
\* made if it is not there.
ControllerMade(r) ==
  /\ run.at = "controller" /\ r \in run.todo /\ ~Found(r)
  /\ ctrl' = [ctrl EXCEPT ![r] = "generated"]
  /\ comments' = [comments EXCEPT ![r] = IF run.swagger THEN 1 ELSE 0]
  /\ run' = [run EXCEPT !.at = "service", !.request = r, !.todo = @ \ {r}]
  /\ UNCHANGED <<declared, impl, iface, struct, mentioned, fresh, cut, edits, kills>>

\* genService follows only a controller method that has just been made.
Service ==
  /\ run.at = "service"
  /\ iface' = iface \cup {run.request}
  /\ run' = [run EXCEPT !.at = "controller", !.request = None]
  /\ UNCHANGED <<declared, ctrl, impl, comments, struct, mentioned, fresh, cut, edits, kills>>

\* findService and genServiceFile: one write adds what the service lacks.  Any
\* function of the name counts as the method, the accessor too.
Implement ==
  /\ run.at = "controller" /\ run.todo = {}
  /\ impl' = [r \in Requests |->
                IF r \in iface /\ impl[r] = "absent" /\ ~(struct /\ r = Accessor)
                THEN "generated" ELSE impl[r]]
  /\ struct' = (struct \/ iface # {})
  /\ run' = Idle /\ fresh' = TRUE
  /\ UNCHANGED <<declared, ctrl, comments, iface, mentioned, cut, edits, kills>>

\* The process ends between two writes.
Kill ==
  /\ run.at # "idle" /\ kills < MaxKills
  /\ run' = Idle /\ kills' = kills + 1
  /\ cut' = IF run.at = "service" THEN cut \cup {run.request} ELSE cut
  /\ UNCHANGED <<declared, files, mentioned, fresh, edits>>

---------------------------------------------------------------------------
(* The developer, between runs.                                           *)

Edit ==
  /\ run.at = "idle" /\ edits < MaxEdits
  /\ edits' = edits + 1 /\ fresh' = FALSE
  /\ UNCHANGED <<comments, iface, struct, run, cut, kills>>

Declare(r) ==
  /\ Edit /\ r \notin declared
  /\ declared' = declared \cup {r}
  /\ UNCHANGED <<ctrl, impl, mentioned>>

Mention(r) ==
  /\ Edit /\ \E q \in Requests : ctrl[q] # "absent"
  /\ mentioned' = mentioned \cup {r}
  /\ UNCHANGED <<declared, ctrl, impl>>

WriteController(r) ==
  /\ Edit /\ ctrl[r] = "generated"
  /\ ctrl' = [ctrl EXCEPT ![r] = "written"]
  /\ UNCHANGED <<declared, impl, mentioned>>

WriteService(r) ==
  /\ Edit /\ impl[r] = "generated"
  /\ impl' = [impl EXCEPT ![r] = "written"]
  /\ UNCHANGED <<declared, ctrl, mentioned>>

---------------------------------------------------------------------------
Init ==
  /\ declared \in SUBSET Requests
  /\ ctrl = [r \in Requests |-> "absent"] /\ impl = [r \in Requests |-> "absent"]
  /\ mentioned = {} /\ comments = [r \in Requests |-> 0]
  /\ iface = {} /\ struct = FALSE
  /\ run = Idle /\ fresh = FALSE /\ cut = {} /\ edits = 0 /\ kills = 0

Next ==
  \/ \E swagger \in BOOLEAN : Start(swagger)
  \/ \E r \in Requests : ControllerFound(r) \/ ControllerMade(r)
  \/ Service \/ Implement \/ Kill
  \/ \E r \in Requests : Declare(r) \/ Mention(r) \/ WriteController(r) \/ WriteService(r)

Spec == Init /\ [][Next]_vars

GeneratorTypeOK ==
  /\ declared \subseteq Requests /\ mentioned \subseteq Requests
  /\ iface \subseteq Requests /\ cut \subseteq Requests
  /\ ctrl \in [Requests -> Bodies] /\ impl \in [Requests -> Bodies]
  /\ comments \in [Requests -> 0..1]
  /\ struct \in BOOLEAN /\ fresh \in BOOLEAN
  /\ run \in [at : {"idle", "controller", "service"}, swagger : BOOLEAN,
              todo : SUBSET Requests, request : Requests \cup {None}]
  /\ edits \in 0..MaxEdits /\ kills \in 0..MaxKills

\* After a run that came to its end every declared request has its controller method,
\* its method in the interface and the one that implements it, except a request whose
\* name the controller file mentioned before it had the method, the one named as the
\* accessor, and one whose earlier run was killed between the two files: that one is
\* never completed by a later run.
FinishedIsComplete ==
  fresh => \A r \in declared :
    /\ r \notin mentioned => ctrl[r] # "absent"
    /\ ctrl[r] # "absent" /\ r \notin cut => r \in iface
    /\ r \in iface /\ r # Accessor => impl[r] # "absent"
=============================================================================
