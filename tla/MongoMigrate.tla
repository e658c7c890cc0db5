---------------------------- MODULE MongoMigrate ----------------------------
(***************************************************************************)
(* MongoMigrate.Migrate, run by instances of several versions of a program *)
(* when they start.  The migrations are 1..N, of which a version knows the *)
(* first few.  Neither Migrate nor InsertOne uses the session's context,   *)
(* so the transaction around them undoes nothing.                          *)
(***************************************************************************)
EXTENDS Naturals, Sequences

CONSTANTS
    Instances,  \* processes that migrate
    Known,      \* how many migrations each instance's version knows
    HasPre,     \* the instances that run in production with HasPre
    MaxStarts   \* bound: starts of each instance

MigrateAssumption ==
    Known \in [Instances -> Nat] /\ HasPre \subseteq Instances /\ MaxStarts \in Nat

VARIABLES
    records,  \* the collection "migrations", in the order of insertion
    indexed,  \* it has its unique index
    applied,  \* history: how often each migration has run
    at,       \* where each instance is
    next,     \* the migration it is at
    starts    \* bound counter

vars == <<records, indexed, applied, at, next, starts>>

Migrations == UNION {1..Known[i] : i \in Instances}
-----------------------------------------------------------------------------
Init ==
    /\ records = <<>> /\ indexed = FALSE
    /\ applied = [m \in Migrations |-> 0]
    /\ at = [i \in Instances |-> "stopped"]
    /\ next = [i \in Instances |-> 1]
    /\ starts = [i \in Instances |-> 0]

\* The process starts, and creates the index.
Start(i) ==
    /\ at[i] = "stopped" /\ starts[i] < MaxStarts
    /\ starts' = [starts EXCEPT ![i] = @ + 1]
    /\ indexed' = TRUE
    /\ at' = [at EXCEPT ![i] = "find"]
    /\ UNCHANGED <<records, applied, next>>

\* Mutant: nothing stops after the last migration.
CompareOn(i) ==
    IF \E n \in DOMAIN records : records[n] # n THEN "refused" ELSE "migrate"

\* What comparing the records with the migrations ends in.  A version that knows fewer is
\* refused; with HasPre in production it is let through, and then indexes its list past
\* the end.
Compare(i) ==
    IF Len(records) > Known[i] THEN IF i \in HasPre THEN "panicked" ELSE "refused"
    ELSE IF \E n \in DOMAIN records : records[n] # n THEN "refused"
    ELSE IF Len(records) = Known[i] THEN "done" ELSE "migrate"

Find(i) ==
    /\ at[i] = "find"
    /\ at' = [at EXCEPT ![i] = Compare(i)]
    /\ next' = [next EXCEPT ![i] = Len(records) + 1]
    /\ UNCHANGED <<records, indexed, applied, starts>>

\* The migration runs; it may fail when a part of it is done.
Migrate(i) ==
    /\ at[i] = "migrate"
    /\ applied' = [applied EXCEPT ![next[i]] = @ + 1]
    /\ \E to \in {"insert", "failed"} : at' = [at EXCEPT ![i] = to]
    /\ UNCHANGED <<records, indexed, next, starts>>

\* Mutant: the index is not unique.
DuplicateNever(id) == FALSE

\* The unique index refuses an id that is there.
Duplicate(id) == indexed /\ \E n \in DOMAIN records : records[n] = id

\* The migration is recorded, and the next one begins.
Insert(i) ==
    /\ at[i] = "insert"
    /\ IF Duplicate(next[i])
       THEN at' = [at EXCEPT ![i] = "failed"] /\ UNCHANGED <<records, next>>
       ELSE /\ records' = Append(records, next[i])
            /\ next' = [next EXCEPT ![i] = @ + 1]
            /\ at' = [at EXCEPT ![i] = IF next[i] = Known[i] THEN "done" ELSE "migrate"]
    /\ UNCHANGED <<indexed, applied, starts>>

\* The process ends, or dies wherever it is.
Stop(i) ==
    /\ at[i] # "stopped"
    /\ at' = [at EXCEPT ![i] = "stopped"]
    /\ UNCHANGED <<records, indexed, applied, next, starts>>

Next == \E i \in Instances : Start(i) \/ Find(i) \/ Migrate(i) \/ Insert(i) \/ Stop(i)

Spec == Init /\ [][Next]_vars
-----------------------------------------------------------------------------
\* Every variable holds a value of its type.
MigrateTypeOK ==
    /\ records \in Seq(Migrations) /\ indexed \in BOOLEAN
    /\ applied \in [Migrations -> Nat]
    /\ at \in [Instances -> {"stopped", "find", "migrate", "insert", "done", "refused",
                             "failed", "panicked"}]
    /\ next \in [Instances -> Nat] /\ starts \in [Instances -> Nat]

\* However instances of old and new versions start together, fail and crash: the records
\* are the first migrations in their order, each once; no migration runs before the one
\* before it is recorded; and an instance that starts its program has them all (Migrate).
MigrationsInOrder ==
    /\ \A n \in DOMAIN records : records[n] = n /\ applied[n] > 0
    /\ \A m \in Migrations : applied[m] > 0 => m <= Len(records) + 1
    /\ \A i \in Instances : at[i] = "done" => Len(records) >= Known[i]
=============================================================================
