------------------------------ MODULE TableGen ------------------------------
(***************************************************************************)
(* `cago gen gorm` and `cago gen mongo` on one table: each writes the      *)
(* entity and then the repository, in two files of the same names.  The    *)
(* first skips a file that is there, the second gives up at it.            *)
(***************************************************************************)
EXTENDS Naturals

CONSTANTS
  MaxRuns,   \* bound on the runs
  MaxEdits   \* bound on the developer's edits

TableGenAssumption == MaxRuns \in Nat /\ MaxEdits \in Nat

VARIABLES
  columns,             \* the SQL types of the table's columns
  entity, repository,  \* the two files: the command that wrote it, "edited" or "absent"
  run,                 \* the run: [command, at]
  outcome,             \* how the last run came to its end
  broken,              \* a run ended between the two files
  runs, edits

vars == <<columns, entity, repository, run, outcome, broken, runs, edits>>

Commands == {"gorm", "mongo"}
Idle == [command |-> "none", at |-> "idle"]
SQLTypes == {"bigint", "bigint unsigned", "varchar", "datetime"}

---------------------------------------------------------------------------
\* convSQLType: what it does not know is an interface.
GoType(t) ==
  CASE t = "bigint" -> "int64" [] t = "varchar" -> "string" [] t = "datetime" -> "time.Time"
    [] OTHER -> "interface{}"

\* The template of the gorm entity imports nothing.
Builds == entity = "gorm" => \A t \in columns : GoType(t) # "time.Time"

\* genDB: an unreadable configuration or table ends it before anything is written.
\* genMongo looks at neither.
Start(command) ==
  /\ run = Idle /\ runs < MaxRuns
  /\ runs' = runs + 1
  /\ \/ run' = [command |-> command, at |-> "entity"] /\ outcome' = "running"
     \/ command = "gorm" /\ outcome' = "failed" /\ UNCHANGED run
  /\ UNCHANGED <<columns, entity, repository, broken, edits>>

Skips == run.command = "gorm"

\* genEntity and the first WriteFile of genMongo.
Entity ==
  /\ run.at = "entity"
  /\ IF entity = "absent"
     THEN entity' = run.command /\ run' = [run EXCEPT !.at = "repository"] /\ UNCHANGED outcome
     ELSE /\ UNCHANGED entity
          /\ IF Skips
             THEN run' = [run EXCEPT !.at = "repository"] /\ UNCHANGED outcome
             ELSE run' = Idle /\ outcome' = "refused"
  /\ UNCHANGED <<columns, repository, broken, runs, edits>>

\* genRepository and the second WriteFile.
Repository ==
  /\ run.at = "repository"
  /\ run' = Idle
  /\ IF repository = "absent"
     THEN repository' = run.command /\ outcome' = "done" /\ UNCHANGED broken
     ELSE /\ UNCHANGED repository
          /\ IF Skips THEN outcome' = "done" /\ UNCHANGED broken
                      ELSE outcome' = "refused" /\ broken' = TRUE
  /\ UNCHANGED <<columns, entity, runs, edits>>

\* The package is not found, a file is not written, or the process ends.
Cut ==
  /\ run # Idle
  /\ run' = Idle /\ outcome' = "failed"
  /\ broken' = (broken \/ run.at = "repository")
  /\ UNCHANGED <<columns, entity, repository, runs, edits>>

---------------------------------------------------------------------------
\* The developer edits a file or removes both, between runs.
Edit ==
  /\ run = Idle /\ edits < MaxEdits
  /\ edits' = edits + 1
  /\ \/ entity \in Commands /\ entity' = "edited" /\ UNCHANGED <<repository, outcome, broken>>
     \/ repository \in Commands /\ repository' = "edited" /\ UNCHANGED <<entity, outcome, broken>>
     \/ /\ entity' = "absent" /\ repository' = "absent" /\ outcome' = "none" /\ broken' = FALSE
  /\ UNCHANGED <<columns, run, runs>>

Init ==
  /\ columns \in SUBSET SQLTypes
  /\ entity = "absent" /\ repository = "absent"
  /\ run = Idle /\ outcome = "none" /\ broken = FALSE /\ runs = 0 /\ edits = 0

Next == (\E command \in Commands : Start(command)) \/ Entity \/ Repository \/ Cut \/ Edit

Spec == Init /\ [][Next]_vars

TableGenTypeOK ==
  /\ columns \subseteq SQLTypes
  /\ {entity, repository} \subseteq Commands \cup {"absent", "edited"}
  /\ run \in [command : Commands \cup {"none"}, at : {"idle", "entity", "repository"}]
  /\ outcome \in {"none", "running", "failed", "refused", "done"}
  /\ broken \in BOOLEAN /\ runs \in 0..MaxRuns /\ edits \in 0..MaxEdits

\* After a run that has succeeded both files are there, and unless an earlier run came
\* to an end between the two they fit each other; unless there is a column with a time,
\* the entity builds.  A run that was refused has found both files, or the entity that
\* a broken run had left: no later run of `gen mongo` adds the repository to it.
PairIsWhole ==
  /\ outcome = "done" =>
       /\ entity # "absent" /\ repository # "absent"
       /\ ~broken /\ {entity, repository} \subseteq Commands => entity = repository
       /\ "datetime" \notin columns => Builds
  /\ outcome = "refused" => entity # "absent" /\ (repository # "absent" \/ broken)
=============================================================================
