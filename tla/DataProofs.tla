---------------------------- MODULE DataProofs ----------------------------
(***************************************************************************)
(* Safety of what keeps data consistent.  Each part has an inductive       *)
(* invariant of its own, shown over the actions of its module; a step of   *)
(* Data is a step of one part and none of the others, which joins them.    *)
(***************************************************************************)
EXTENDS Data, FiniteSetTheorems, SequenceTheorems, TLAPS

-----------------------------------------------------------------------------
\* The migrations.

\* What an instance is about to run or to record: one that it knows, not beyond the first
\* that is not recorded, under a unique index.
AtNext ==
    \A i \in Instances :
        /\ at[i] # "stopped" => indexed
        /\ at[i] \in {"migrate", "insert"} =>
              next[i] \in 1..Known[i] /\ next[i] <= Len(records) + 1
        /\ at[i] = "insert" => applied[next[i]] > 0

MigrateInv == Migrate!MigrateTypeOK /\ AtNext /\ Migrate!MigrationsInOrder

LEMMA MigrateInitInv ==
    ASSUME Migrate!MigrateAssumption
    PROVE  Migrate!Init => MigrateInv
  <1>. SUFFICES ASSUME Migrate!Init PROVE MigrateInv
    OBVIOUS
  <1>1. Migrate!MigrateTypeOK
    <2>1. <<>> \in Seq(Migrate!Migrations)
      OBVIOUS
    <2>2. /\ applied \in [Migrate!Migrations -> Nat] /\ next \in [Instances -> Nat]
          /\ starts \in [Instances -> Nat]
      BY DEF Migrate!Init
    <2>. QED
      BY <2>1, <2>2 DEF Migrate!Init, Migrate!MigrateTypeOK
  <1>2. AtNext
    BY DEF Migrate!Init, AtNext
  <1>3. Migrate!MigrationsInOrder
    BY DEF Migrate!Init, Migrate!MigrationsInOrder
  <1>. QED
    BY <1>1, <1>2, <1>3 DEF MigrateInv

\* A migration is one that some instance knows, and a positive number.
LEMMA KnownIsMigration ==
    ASSUME Migrate!MigrateAssumption, NEW i \in Instances, NEW m \in 1..Known[i]
    PROVE  m \in Migrate!Migrations
  BY DEF Migrate!Migrations

\* Reading the records: they begin with the first migrations, so what comes next is known.
LEMMA MigrateFindInv ==
    ASSUME Migrate!MigrateAssumption, MigrateInv, NEW i \in Instances, Migrate!Find(i)
    PROVE  MigrateInv'
  <1>0. /\ Migrate!MigrateTypeOK /\ AtNext /\ Migrate!MigrationsInOrder
        /\ Len(records) \in Nat /\ Known[i] \in Nat
        /\ UNCHANGED <<records, indexed, applied, starts>>
    BY DEF MigrateInv, Migrate!MigrateTypeOK, Migrate!MigrateAssumption, Migrate!Find
  <1>1. /\ at' = [at EXCEPT ![i] = Migrate!Compare(i)]
             /\ next' = [next EXCEPT ![i] = Len(records) + 1]
        /\ at[i] = "find"
    BY DEF Migrate!Find
  <1>2. /\ Migrate!Compare(i) \in {"panicked", "refused", "done", "migrate"}
        /\ Migrate!Compare(i) = "done" => Len(records) = Known[i]
        /\ Migrate!Compare(i) = "migrate" => Len(records) < Known[i]
    BY <1>0 DEF Migrate!Compare
  <1>3. Migrate!MigrateTypeOK'
    BY <1>0, <1>1, <1>2 DEF Migrate!MigrateTypeOK
  <1>4. AtNext'
    BY <1>0, <1>1, <1>2 DEF AtNext, Migrate!MigrateTypeOK
  <1>5. Migrate!MigrationsInOrder'
    BY <1>0, <1>1, <1>2 DEF Migrate!MigrationsInOrder, Migrate!MigrateTypeOK
  <1>. QED
    BY <1>3, <1>4, <1>5 DEF MigrateInv

LEMMA MigrateMigrateInv ==
    ASSUME Migrate!MigrateAssumption, MigrateInv, NEW i \in Instances, Migrate!Migrate(i)
    PROVE  MigrateInv'
  <1>0. /\ Migrate!MigrateTypeOK /\ AtNext /\ Migrate!MigrationsInOrder /\ at[i] = "migrate"
        /\ Len(records) \in Nat /\ UNCHANGED <<records, indexed, next, starts>>
    BY DEF MigrateInv, Migrate!MigrateTypeOK, Migrate!Migrate
  <1>1. /\ next[i] \in 1..Known[i] /\ next[i] <= Len(records) + 1
        /\ next[i] \in Migrate!Migrations
    BY <1>0, KnownIsMigration DEF AtNext
  <1>2. /\ applied' \in [Migrate!Migrations -> Nat]
        /\ \A m \in Migrate!Migrations : applied'[m] = IF m = next[i] THEN applied[m] + 1 ELSE applied[m]
    BY <1>0, <1>1 DEF Migrate!Migrate, Migrate!MigrateTypeOK
  <1>3. PICK to \in {"insert", "failed"} : at' = [at EXCEPT ![i] = to]
    BY DEF Migrate!Migrate
  <1>4. Migrate!MigrateTypeOK'
    BY <1>0, <1>2, <1>3 DEF Migrate!MigrateTypeOK
  <1>5. AtNext'
    <2>. SUFFICES ASSUME NEW j \in Instances
                  PROVE  /\ at'[j] # "stopped" => indexed'
                         /\ at'[j] \in {"migrate", "insert"} =>
                               next'[j] \in 1..Known[j] /\ next'[j] <= Len(records') + 1
                         /\ at'[j] = "insert" => applied'[next'[j]] > 0
      BY DEF AtNext
    <2>1. CASE j = i
      BY <1>0, <1>1, <1>2, <1>3, <2>1 DEF AtNext, Migrate!MigrateTypeOK
    <2>2. CASE j # i
      <3>1. at'[j] = at[j]
        BY <1>0, <1>3, <2>2 DEF Migrate!MigrateTypeOK
      <3>2. at[j] = "insert" => next[j] \in Migrate!Migrations /\ applied[next[j]] > 0
        BY <1>0, KnownIsMigration DEF AtNext
      <3>3. at[j] = "insert" => applied'[next[j]] > 0
        BY <1>0, <1>2, <3>2 DEF Migrate!MigrateTypeOK
      <3>. QED
        BY <1>0, <3>1, <3>3 DEF AtNext
    <2>. QED
      BY <2>1, <2>2
  <1>6. Migrate!MigrationsInOrder'
    <2>1. \A n \in DOMAIN records : n \in Migrate!Migrations
      <3>1. \A n \in 1..Len(records) : records[n] \in Migrate!Migrations
        BY <1>0 DEF Migrate!MigrateTypeOK
      <3>2. DOMAIN records = 1..Len(records)
        BY <1>0 DEF Migrate!MigrateTypeOK
      <3>. QED
        BY <1>0, <3>1, <3>2 DEF Migrate!MigrationsInOrder
    <2>2. \A n \in DOMAIN records : records[n] = n /\ applied'[n] > 0
      <3>. SUFFICES ASSUME NEW n \in DOMAIN records
                    PROVE  records[n] = n /\ applied'[n] > 0
        OBVIOUS
      <3>1. records[n] = n /\ applied[n] > 0
        BY <1>0 DEF Migrate!MigrationsInOrder
      <3>2. n \in Migrate!Migrations /\ applied[n] \in Nat
        BY <1>0, <2>1 DEF Migrate!MigrateTypeOK
      <3>3. applied'[n] = applied[n] + 1 \/ applied'[n] = applied[n]
        BY <1>2, <3>2
      <3>. QED
        BY <3>1, <3>2, <3>3
    <2>3. \A m \in Migrate!Migrations : applied'[m] > 0 => m <= Len(records) + 1
      BY <1>0, <1>1, <1>2 DEF Migrate!MigrationsInOrder
    <2>4. \A j \in Instances : at'[j] = "done" => Len(records) >= Known[j]
      BY <1>0, <1>3 DEF Migrate!MigrationsInOrder, Migrate!MigrateTypeOK
    <2>. QED
      BY <1>0, <2>2, <2>3, <2>4 DEF Migrate!MigrationsInOrder
  <1>. QED
    BY <1>4, <1>5, <1>6 DEF MigrateInv

\* A migration is recorded by the first that comes; the index refuses all others.
LEMMA MigrateInsertInv ==
    ASSUME Migrate!MigrateAssumption, MigrateInv, NEW i \in Instances, Migrate!Insert(i)
    PROVE  MigrateInv'
  <1>0. /\ Migrate!MigrateTypeOK /\ AtNext /\ Migrate!MigrationsInOrder /\ at[i] = "insert"
        /\ Len(records) \in Nat /\ DOMAIN records = 1..Len(records)
        /\ \A j \in Instances : Known[j] \in Nat
        /\ UNCHANGED <<indexed, applied, starts>>
    BY DEF MigrateInv, Migrate!MigrateTypeOK, Migrate!MigrateAssumption, Migrate!Insert
  <1>1. /\ next[i] \in 1..Known[i] /\ next[i] <= Len(records) + 1 /\ next[i]
             \in Migrate!Migrations
        /\ indexed /\ applied[next[i]] > 0
    BY <1>0, KnownIsMigration DEF AtNext
  <1>2. Migrate!Duplicate(next[i]) <=> next[i] <= Len(records)
    BY <1>0, <1>1 DEF Migrate!Duplicate, Migrate!MigrationsInOrder
  <1>3. CASE Migrate!Duplicate(next[i])
    <2>1. at' = [at EXCEPT ![i] = "failed"] /\ UNCHANGED <<records, next>>
      BY <1>3 DEF Migrate!Insert
    <2>2. Migrate!MigrateTypeOK'
      BY <1>0, <2>1 DEF Migrate!MigrateTypeOK
    <2>3. AtNext'
      BY <1>0, <1>1, <2>1 DEF AtNext, Migrate!MigrateTypeOK
    <2>4. Migrate!MigrationsInOrder'
      BY <1>0, <2>1 DEF Migrate!MigrationsInOrder, Migrate!MigrateTypeOK
    <2>. QED
      BY <2>2, <2>3, <2>4 DEF MigrateInv
  <1>4. CASE ~Migrate!Duplicate(next[i])
    <2>1. /\ records' = Append(records, next[i]) /\ next' = [next EXCEPT ![i] = @ + 1]
          /\ at' = [at EXCEPT ![i] = IF next[i] = Known[i] THEN "done" ELSE "migrate"]
      BY <1>4 DEF Migrate!Insert
    <2>2. next[i] = Len(records) + 1
      BY <1>0, <1>1, <1>2, <1>4
    <2>3. /\ Len(records') = Len(records) + 1 /\ DOMAIN records' = 1..Len(records) + 1
          /\ records'[next[i]] = next[i]
          /\ \A n \in DOMAIN records : records'[n] = records[n]
          /\ records' \in Seq(Migrate!Migrations)
      BY <1>0, <1>1, <2>1, <2>2 DEF Migrate!MigrateTypeOK
    <2>4. Migrate!MigrateTypeOK'
      BY <1>0, <2>1, <2>3 DEF Migrate!MigrateTypeOK
    <2>5. AtNext'
      <3>. SUFFICES ASSUME NEW j \in Instances
                    PROVE  /\ at'[j] # "stopped" => indexed'
                           /\ at'[j] \in {"migrate", "insert"} =>
                                 next'[j] \in 1..Known[j] /\ next'[j] <= Len(records') + 1
                           /\ at'[j] = "insert" => applied'[next'[j]] > 0
        BY DEF AtNext
      <3>1. CASE j = i
        BY <1>0, <1>1, <2>1, <2>2, <2>3, <3>1 DEF Migrate!MigrateTypeOK
      <3>2. CASE j # i
        BY <1>0, <2>1, <2>3, <3>2 DEF AtNext, Migrate!MigrateTypeOK
      <3>. QED
        BY <3>1, <3>2
    <2>6. Migrate!MigrationsInOrder'
      <3>1. \A n \in DOMAIN records' : records'[n] = n /\ applied[n] > 0
        BY <1>0, <1>1, <2>2, <2>3 DEF Migrate!MigrationsInOrder
      <3>2. \A m \in Migrate!Migrations : applied[m] > 0 => m <= Len(records') + 1
        BY <1>0, <2>3 DEF Migrate!MigrationsInOrder, Migrate!Migrations
      <3>3. \A j \in Instances : at'[j] = "done" => Len(records') >= Known[j]
        BY <1>0, <2>1, <2>2, <2>3 DEF Migrate!MigrationsInOrder, Migrate!MigrateTypeOK
      <3>. QED
        BY <1>0, <3>1, <3>2, <3>3 DEF Migrate!MigrationsInOrder
    <2>. QED
      BY <2>4, <2>5, <2>6 DEF MigrateInv
  <1>. QED
    BY <1>3, <1>4

LEMMA MigrateNextInv ==
    ASSUME Migrate!MigrateAssumption
    PROVE  MigrateInv /\ [Migrate!Next]_migrateVars => MigrateInv'
  <1>. SUFFICES ASSUME MigrateInv, [Migrate!Next]_migrateVars
                PROVE  MigrateInv'
    OBVIOUS
  <1>1. ASSUME NEW i \in Instances, Migrate!Start(i) \/ Migrate!Stop(i) PROVE MigrateInv'
    <2>1. Migrate!MigrateTypeOK'
      <3>1. indexed' \in BOOLEAN
        BY <1>1 DEF MigrateInv, Migrate!Start, Migrate!Stop, Migrate!MigrateTypeOK
      <3>2. UNCHANGED <<records, applied, next>>
        BY <1>1 DEF Migrate!Start, Migrate!Stop
      <3>3. /\ at' \in [Instances -> {"stopped", "find", "migrate", "insert", "done", "refused",
                                      "failed", "panicked"}]
            /\ starts' \in [Instances -> Nat]
        <4>1. ASSUME NEW a \in {"find", "stopped"}
              PROVE  [at EXCEPT ![i] = a] \in [Instances -> {"stopped", "find", "migrate",
                                       "insert", "done", "refused", "failed", "panicked"}]
          BY DEF MigrateInv, Migrate!MigrateTypeOK
        <4>2. [starts EXCEPT ![i] = starts[i] + 1] \in [Instances -> Nat]
          BY DEF MigrateInv, Migrate!MigrateTypeOK
        <4>. QED
          BY <1>1, <4>1, <4>2 DEF MigrateInv, Migrate!Start, Migrate!Stop, Migrate!MigrateTypeOK
      <3>. QED
        BY <3>1, <3>2, <3>3 DEF MigrateInv, Migrate!MigrateTypeOK
    <2>2. AtNext'
      BY <1>1 DEF MigrateInv, Migrate!Start, Migrate!Stop, AtNext, Migrate!MigrateTypeOK
    <2>3. Migrate!MigrationsInOrder'
      BY <1>1 DEF MigrateInv, Migrate!Start, Migrate!Stop, Migrate!MigrationsInOrder,
         Migrate!MigrateTypeOK
    <2>. QED
      BY <2>1, <2>2, <2>3 DEF MigrateInv
  <1>2. CASE UNCHANGED migrateVars
    BY <1>2 DEF migrateVars, MigrateInv, Migrate!MigrateTypeOK, AtNext,
       Migrate!MigrationsInOrder
  <1>. QED
    BY <1>1, <1>2, MigrateFindInv, MigrateMigrateInv, MigrateInsertInv DEF Migrate!Next

-----------------------------------------------------------------------------
\* The cache with dependencies.

\* No version is higher than the ones that were made, and no revision than the database's.
Counters ==
    /\ confirmed <= db /\ \A w \in Writers : revision[w] <= db
    /\ dep <= versions /\ \A k \in Keys : entry[k].version <= versions
    /\ \A r \in Readers :
          /\ seen[r] <= versions /\ floor[r] <= confirmed
          /\ cachePc[r] \in {"valid", "store", "validSet", "versionSet"} => seen[r] > 0

\* A version that its maker has not stored yet is known to nobody else.
NewVersionIsNew ==
    \A r \in Readers : cachePc[r] \in {"validSet", "versionSet"} =>
        /\ seen[r] # dep
        /\ \A k \in Keys : entry[k].version # seen[r]
        /\ \A q \in Readers :
              q # r /\ cachePc[q] \in {"valid", "store", "validSet", "versionSet"}
                => seen[q] # seen[r]

\* What has the dependency's version, in the store or on the way to it, is as new as
\* the last InvalidKey.
CurrentIsFresh ==
    dep > 0 =>
        /\ \A k \in Keys : entry[k].version = dep => entry[k].datum.good >= confirmed
        /\ \A r \in Readers :
              cachePc[r] \in {"valid", "store"} /\ seen[r] = dep => data[r].good >= confirmed

\* What a fill has read is as new as its call, and until it has its version as new as the
\* last InvalidKey.
LoadedIsFresh ==
    \A r \in Readers :
        /\ cachePc[r] \in {"version", "versionSet"} => data[r].good >= confirmed
        /\ cachePc[r] \in {"version", "versionSet", "store", "hit"} => data[r].good >= floor[r]

CacheInv ==
    Cache!CacheTypeOK /\ Counters /\ NewVersionIsNew /\ CurrentIsFresh /\ LoadedIsFresh

LEMMA CacheInitInv ==
    ASSUME Cache!CacheAssumption
    PROVE  Cache!Init => CacheInv
  <1>. SUFFICES ASSUME Cache!Init PROVE CacheInv
    OBVIOUS
  <1>. USE DEF Cache!CacheAssumption, Cache!Init, Cache!Missing, Cache!Invalid, Cache!None,
               Cache!NoDatum, Cache!Datum
  <1>1. data \in [Readers -> Cache!Datum]
    OBVIOUS
  <1>2. dep \in Cache!Invalid..MaxVersions /\ seen \in [Readers -> 0..MaxVersions]
    OBVIOUS
  <1>3. Cache!CacheTypeOK
    BY <1>1, <1>2 DEF Cache!CacheTypeOK
  <1>4. Counters /\ NewVersionIsNew /\ CurrentIsFresh /\ LoadedIsFresh
    BY DEF Counters, NewVersionIsNew, CurrentIsFresh, LoadedIsFresh
  <1>. QED
    BY <1>3, <1>4 DEF CacheInv

\* The facts about the bounds that the steps need.
LEMMA CacheBounds ==
    ASSUME Cache!CacheAssumption, CacheInv
    PROVE  /\ MaxUpdates \in Nat /\ MaxVersions \in Nat /\ MaxStoreFaults \in Nat
           /\ Cache!CacheTypeOK /\ Counters
  BY DEF Cache!CacheAssumption, CacheInv

LEMMA CacheNextTypeOK ==
    ASSUME Cache!CacheAssumption, CacheInv, [Cache!Next]_cacheVars
    PROVE  Cache!CacheTypeOK'
  <1>. USE CacheBounds DEF Cache!CacheTypeOK, Cache!Missing, Cache!Invalid
  <1>1. ASSUME NEW w \in Writers, Cache!Update(w) PROVE Cache!CacheTypeOK'
    BY <1>1 DEF Cache!Update, Cache!Goto, Cache!store
  <1>2. ASSUME NEW w \in Writers, Cache!InvalidKey(w) PROVE Cache!CacheTypeOK'
    <2>1. confirmed' \in 0..MaxUpdates
      BY <1>2 DEF Cache!InvalidKey
    <2>2. data' \in [Readers -> Cache!Datum]
      BY <1>2, <2>1 DEF Cache!InvalidKey, Cache!Datum
    <2>3. dep' \in Cache!Invalid..MaxVersions
      BY <1>2 DEF Cache!InvalidKey, Cache!InvalidDep
    <2>. QED
      BY <1>2, <2>1, <2>2, <2>3 DEF Cache!InvalidKey, Cache!Goto
  <1>3. ASSUME NEW w \in Writers, Cache!InvalidKeyFails(w) PROVE Cache!CacheTypeOK'
    BY <1>3 DEF Cache!InvalidKeyFails, Cache!Fault, Cache!Goto, Cache!store
  <1>4. CASE Cache!Expire
    <2>1. dep' \in Cache!Invalid..MaxVersions
      BY <1>4 DEF Cache!Expire, Cache!store
    <2>2. entry' \in [Keys -> {Cache!None} \cup [version : 1..MaxVersions, datum : Cache!Datum]]
      BY <1>4 DEF Cache!Expire, Cache!store
    <2>. QED
      BY <1>4, <2>1, <2>2 DEF Cache!Expire, Cache!locals
  <1>5. ASSUME NEW r \in Readers, Cache!Get(r) PROVE Cache!CacheTypeOK'
    <2>1. PICK k \in Keys :
            /\ key' = [key EXCEPT ![r] = k]
            /\ floor' = [floor EXCEPT ![r] = confirmed]
            /\ \/ /\ entry[k] # Cache!None
                  /\ seen' = [seen EXCEPT ![r] = entry[k].version]
                  /\ data' = [data EXCEPT ![r] = entry[k].datum]
                  /\ Cache!Goto(r, "valid") /\ UNCHANGED storeFaults
               \/ /\ Cache!Fault \/ (entry[k] = Cache!None /\ UNCHANGED storeFaults)
                  /\ \E to \in Cache!Missed : Cache!Goto(r, to)
                  /\ UNCHANGED <<seen, data>>
      BY <1>5 DEF Cache!Get
    <2>2. seen' \in [Readers -> 0..MaxVersions] /\ data' \in [Readers -> Cache!Datum]
      BY <2>1
    <2>3. storeFaults' \in Nat
      BY <2>1 DEF Cache!Fault
    <2>4. \E to \in {"valid", "set", "error"} : Cache!Goto(r, to)
      BY <2>1 DEF Cache!Missed
    <2>5. cachePc' \in [Readers \cup Writers -> {"idle", "invalidate", "valid", "validSet",
            "set",
                                              "version", "versionSet", "store", "hit", "error"}]
      BY <2>4 DEF Cache!Goto
    <2>6. key' \in [Readers -> Keys] /\ floor' \in [Readers -> 0..MaxUpdates]
      BY <2>1
    <2>. QED
      BY <1>5, <2>2, <2>3, <2>5, <2>6 DEF Cache!Get, Cache!store
  <1>6. ASSUME NEW r \in Readers, Cache!Valid(r) PROVE Cache!CacheTypeOK'
    <2>1. versions' \in 0..MaxVersions /\ seen' \in [Readers -> 0..MaxVersions]
      BY <1>6 DEF Cache!Valid, Cache!NewVersion
    <2>2. storeFaults' \in Nat
      BY <1>6 DEF Cache!Valid, Cache!Fault
    <2>3. \E to \in {"hit", "set", "error", "validSet"} : Cache!Goto(r, to)
      BY <1>6 DEF Cache!Valid, Cache!NewVersion, Cache!Missed
    <2>4. cachePc' \in [Readers \cup Writers -> {"idle", "invalidate", "valid", "validSet",
            "set",
                                              "version", "versionSet", "store", "hit", "error"}]
      BY <2>3 DEF Cache!Goto
    <2>. QED
      BY <1>6, <2>1, <2>2, <2>4 DEF Cache!Valid, Cache!store
  <1>7. ASSUME NEW r \in Readers, Cache!Load(r) PROVE Cache!CacheTypeOK'
    <2>1. data' \in [Readers -> Cache!Datum]
      BY <1>7 DEF Cache!Load, Cache!Datum
    <2>2. storeFaults' \in Nat
      BY <1>7 DEF Cache!Load, Cache!Fault
    <2>. QED
      BY <1>7, <2>1, <2>2 DEF Cache!Load, Cache!Goto, Cache!store
  <1>8. ASSUME NEW r \in Readers, Cache!Version(r) PROVE Cache!CacheTypeOK'
    <2>1. versions' \in 0..MaxVersions /\ seen' \in [Readers -> 0..MaxVersions]
      BY <1>8 DEF Cache!Version, Cache!NewVersion, Cache!HasVersion
    <2>2. storeFaults' \in Nat
      BY <1>8 DEF Cache!Version, Cache!Fault
    <2>3. \E to \in {"store", "versionSet"} : Cache!Goto(r, to)
      BY <1>8 DEF Cache!Version, Cache!NewVersion
    <2>4. cachePc' \in [Readers \cup Writers -> {"idle", "invalidate", "valid", "validSet",
            "set",
                                              "version", "versionSet", "store", "hit", "error"}]
      BY <2>3 DEF Cache!Goto
    <2>. QED
      BY <1>8, <2>1, <2>2, <2>4 DEF Cache!Version, Cache!store
  <1>9. ASSUME NEW r \in Readers, Cache!SetVersion(r) PROVE Cache!CacheTypeOK'
    <2>1. dep' \in Cache!Invalid..MaxVersions /\ storeFaults' \in Nat
      BY <1>9 DEF Cache!SetVersion, Cache!Fault
    <2>2. \E to \in {"store", "set", "error"} : Cache!Goto(r, to)
      BY <1>9 DEF Cache!SetVersion, Cache!Missed
    <2>3. cachePc' \in [Readers \cup Writers -> {"idle", "invalidate", "valid", "validSet",
            "set",
                                              "version", "versionSet", "store", "hit", "error"}]
      BY <2>2 DEF Cache!Goto
    <2>. QED
      BY <1>9, <2>1, <2>3 DEF Cache!SetVersion
  <1>10. ASSUME NEW r \in Readers, Cache!Return(r) PROVE Cache!CacheTypeOK'
    <2>1. data' \in [Readers -> Cache!Datum] /\ seen' \in [Readers -> 0..MaxVersions]
      BY <1>10 DEF Cache!Return, Cache!Datum, Cache!NoDatum
    <2>2. floor' \in [Readers -> 0..MaxUpdates]
      BY <1>10 DEF Cache!Return
    <2>. QED
      BY <1>10, <2>1, <2>2 DEF Cache!Return, Cache!Goto, Cache!store
  <1>11. ASSUME NEW r \in Readers, Cache!Store(r) PROVE Cache!CacheTypeOK'
    <2>1. seen[r] \in 1..MaxVersions /\ data[r] \in Cache!Datum
      BY <1>11 DEF Cache!Store, Counters
    <2>2. entry' \in [Keys -> {Cache!None} \cup [version : 1..MaxVersions, datum : Cache!Datum]]
      BY <1>11, <2>1 DEF Cache!Store
    <2>3. storeFaults' \in Nat
      BY <1>11 DEF Cache!Store, Cache!Fault
    <2>4. \E to \in {"hit", "error"} : Cache!Goto(r, to)
      BY <1>11 DEF Cache!Store
    <2>5. cachePc' \in [Readers \cup Writers -> {"idle", "invalidate", "valid", "validSet",
            "set",
                                              "version", "versionSet", "store", "hit", "error"}]
      BY <2>4 DEF Cache!Goto
    <2>. QED
      BY <1>11, <2>2, <2>3, <2>5 DEF Cache!Store
  <1>12. CASE UNCHANGED cacheVars
    BY <1>12 DEF cacheVars
  <1>. QED
    BY <1>1, <1>2, <1>3, <1>4, <1>5, <1>6, <1>7, <1>8, <1>9, <1>10, <1>11, <1>12
    DEF Cache!Next, Cache!ReaderStep

\* An entry is none, or has a version that was made.
LEMMA CacheEntry ==
    ASSUME Cache!CacheTypeOK, NEW k \in Keys
    PROVE  \/ entry[k] = Cache!None /\ entry[k].version = 0
           \/ entry[k].version \in 1..MaxVersions /\ entry[k].datum \in Cache!Datum
  BY DEF Cache!CacheTypeOK, Cache!None, Cache!Missing

LEMMA CacheNextInv ==
    ASSUME Cache!CacheAssumption, CacheInv, [Cache!Next]_cacheVars
    PROVE  CacheInv'
  <1>0. /\ Cache!CacheTypeOK /\ Counters /\ NewVersionIsNew /\ CurrentIsFresh /\ LoadedIsFresh
        /\ Cache!CacheTypeOK'
    BY CacheNextTypeOK DEF CacheInv
  <1>. SUFFICES Counters' /\ NewVersionIsNew' /\ CurrentIsFresh' /\ LoadedIsFresh'
    BY <1>0 DEF CacheInv
  <1>. USE <1>0, CacheBounds, CacheEntry DEF Cache!CacheTypeOK, Cache!Missing, Cache!Invalid
  <1>1. ASSUME NEW w \in Writers, Cache!Update(w)
        PROVE  Counters' /\ NewVersionIsNew' /\ CurrentIsFresh' /\ LoadedIsFresh'
    BY <1>1 DEF Cache!Update, Cache!Goto, Cache!store, Counters, NewVersionIsNew,
       CurrentIsFresh,
       LoadedIsFresh
  <1>2. ASSUME NEW w \in Writers, Cache!InvalidKey(w)
        PROVE  Counters' /\ NewVersionIsNew' /\ CurrentIsFresh' /\ LoadedIsFresh'
    BY <1>2 DEF Cache!InvalidKey, Cache!InvalidDep, Cache!Goto, Cache!Datum, Counters,
       NewVersionIsNew, CurrentIsFresh,
       LoadedIsFresh
  <1>3. ASSUME NEW w \in Writers, Cache!InvalidKeyFails(w)
        PROVE  Counters' /\ NewVersionIsNew' /\ CurrentIsFresh' /\ LoadedIsFresh'
    BY <1>3 DEF Cache!InvalidKeyFails, Cache!Goto, Cache!store, Counters, NewVersionIsNew,
       CurrentIsFresh,
       LoadedIsFresh
  <1>4. CASE Cache!Expire
    BY <1>4 DEF Cache!Expire, Cache!locals, Cache!None, Counters, NewVersionIsNew,
       CurrentIsFresh, LoadedIsFresh
  <1>5. ASSUME NEW r \in Readers, Cache!Get(r)
        PROVE  Counters' /\ NewVersionIsNew' /\ CurrentIsFresh' /\ LoadedIsFresh'
    BY <1>5 DEF Cache!Get, Cache!Goto, Cache!Missed, Cache!store, Counters, NewVersionIsNew,
       CurrentIsFresh,
       LoadedIsFresh
  <1>6. ASSUME NEW r \in Readers, Cache!Valid(r)
        PROVE  Counters' /\ NewVersionIsNew' /\ CurrentIsFresh' /\ LoadedIsFresh'
    <2>0. /\ cachePc[r] = "valid"
          /\ UNCHANGED <<db, confirmed, dep, entry, key, data, floor, revision>>
      BY <1>6 DEF Cache!Valid, Cache!store
    <2>1. CASE Cache!HasVersion /\ UNCHANGED <<versions, seen>>
      <3>1. PICK to \in {"hit", "set", "error"} :
                Cache!Goto(r, to) /\ (to = "hit" => dep = seen[r])
        BY <1>6, <2>1 DEF Cache!Valid, Cache!Matches, Cache!Missed, Cache!NewVersion
      <3>2. Counters' /\ NewVersionIsNew'
        BY <2>0, <2>1, <3>1 DEF Cache!Goto, Counters, NewVersionIsNew
      <3>3. CurrentIsFresh'
        BY <2>0, <2>1, <3>1 DEF Cache!Goto, CurrentIsFresh
      <3>4. to = "hit" => data[r].good >= floor[r]
        <4>1. dep > 0
          BY <2>1 DEF Cache!HasVersion
        <4>2. dep = seen[r] => data[r].good >= confirmed
          BY <2>0, <4>1 DEF CurrentIsFresh
        <4>3. floor[r] <= confirmed /\ data[r].good \in Nat /\ confirmed \in Nat /\ floor[r]
                \in Nat
          BY DEF Counters, Cache!Datum
        <4>. QED
          BY <3>1, <4>2, <4>3
      <3>5. LoadedIsFresh'
        BY <2>0, <2>1, <3>1, <3>4 DEF Cache!Goto, LoadedIsFresh
      <3>. QED
        BY <3>2, <3>3, <3>5
    <2>2. CASE Cache!NewVersion(r, "validSet")
      BY <2>0, <2>2 DEF Cache!NewVersion, Cache!Goto, Counters, NewVersionIsNew, CurrentIsFresh,
         LoadedIsFresh
    <2>. QED
      BY <1>6, <2>1, <2>2 DEF Cache!Valid
  <1>7. ASSUME NEW r \in Readers, Cache!Load(r)
        PROVE  Counters' /\ NewVersionIsNew' /\ CurrentIsFresh' /\ LoadedIsFresh'
    BY <1>7 DEF Cache!Load, Cache!Goto, Cache!store, Counters, NewVersionIsNew, CurrentIsFresh,
       LoadedIsFresh
  <1>8. ASSUME NEW r \in Readers, Cache!Version(r)
        PROVE  Counters' /\ NewVersionIsNew' /\ CurrentIsFresh' /\ LoadedIsFresh'
    BY <1>8 DEF Cache!Version, Cache!HasVersion, Cache!NewVersion, Cache!Goto, Cache!store,
       Counters, NewVersionIsNew, CurrentIsFresh,
       LoadedIsFresh
  <1>9. ASSUME NEW r \in Readers, Cache!SetVersion(r)
        PROVE  Counters' /\ NewVersionIsNew' /\ CurrentIsFresh' /\ LoadedIsFresh'
    BY <1>9 DEF Cache!SetVersion, Cache!Goto, Cache!Missed, Counters, NewVersionIsNew,
       CurrentIsFresh, LoadedIsFresh
  <1>10. ASSUME NEW r \in Readers, Cache!Return(r)
        PROVE  Counters' /\ NewVersionIsNew' /\ CurrentIsFresh' /\ LoadedIsFresh'
    BY <1>10 DEF Cache!Return, Cache!Goto, Cache!NoDatum, Cache!store, Counters,
       NewVersionIsNew, CurrentIsFresh,
       LoadedIsFresh
  <1>11. ASSUME NEW r \in Readers, Cache!Store(r)
        PROVE  Counters' /\ NewVersionIsNew' /\ CurrentIsFresh' /\ LoadedIsFresh'
    <2>0. /\ cachePc[r] = "store"
          /\ UNCHANGED <<db, confirmed, versions, dep, key, seen, data, floor, revision>>
      BY <1>11 DEF Cache!Store
    <2>1. CASE entry' = [entry EXCEPT ![key[r]] = [version |-> seen[r], datum |-> data[r]]]
               /\ Cache!Goto(r, "hit")
      <3>1. \A k \in Keys : \/ entry'[k] = entry[k]
                            \/ entry'[k].version = seen[r] /\ entry'[k].datum = data[r]
        BY <2>1
      <3>2. Counters' /\ NewVersionIsNew'
        BY <2>0, <2>1, <3>1 DEF Cache!Goto, Counters, NewVersionIsNew
      <3>3. CurrentIsFresh'
        BY <2>0, <2>1, <3>1 DEF Cache!Goto, CurrentIsFresh
      <3>4. LoadedIsFresh'
        BY <2>0, <2>1 DEF Cache!Goto, LoadedIsFresh
      <3>. QED
        BY <3>2, <3>3, <3>4
    <2>2. CASE UNCHANGED entry /\ Cache!Goto(r, "error")
      BY <2>0, <2>2 DEF Cache!Goto, Counters, NewVersionIsNew, CurrentIsFresh, LoadedIsFresh
    <2>. QED
      BY <1>11, <2>1, <2>2 DEF Cache!Store
  <1>12. CASE UNCHANGED cacheVars
    BY <1>12 DEF cacheVars, Counters, NewVersionIsNew, CurrentIsFresh, LoadedIsFresh
  <1>. QED
    BY <1>1, <1>2, <1>3, <1>4, <1>5, <1>6, <1>7, <1>8, <1>9, <1>10, <1>11, <1>12
    DEF Cache!Next, Cache!ReaderStep

LEMMA CacheInvImplies ==
    ASSUME Cache!CacheAssumption, CacheInv
    PROVE  Cache!FreshAfterInvalidKey
  BY DEF CacheInv, LoadedIsFresh, Cache!FreshAfterInvalidKey

-----------------------------------------------------------------------------
\* The memory sessions.

\* Sessions that were not logged in have no id, and ids that were not made lead nowhere.
Made ==
    /\ \A s \in Session!Sessions : id[s] <= ids /\ (s > logins => id[s] = 0)
    /\ \A i \in Session!Ids : storage[i] <= logins /\ (i > ids => storage[i] = 0)
    /\ \A i \in retired : i <= ids
    /\ \A r \in Requests : requestPc[r] # "idle" =>
          session[r] \in 1..logins /\ cookie[r] \in 1..ids

\* An id never becomes another session's.
OneOwner ==
    /\ \A s, t \in Session!Sessions : s # t /\ id[s] = id[t] => id[s] = 0
    /\ \A i \in Session!Ids : storage[i] # 0 =>
          \A t \in Session!Sessions : id[t] = i => t = storage[i]
    /\ \A r \in Requests : requestPc[r] \in Session!Changing =>
          /\ storage[cookie[r]] \in {0, session[r]}
          /\ \A t \in Session!Sessions : id[t] = cookie[r] => t = session[r]

\* Two that change one session have raced.
Alone ==
    \A q, r \in Requests :
        /\ q # r /\ requestPc[q] \in Session!Changing /\ requestPc[r] \in Session!Changing
        /\ session[q] = session[r]
        => session[q] \in raced

\* Without a race a session is stored under the id it has, or not at all while its
\* refresh has taken the old one away.
StoredUnderItsId ==
    /\ \A i \in Session!Ids : storage[i] # 0 /\ storage[i] \notin raced => id[storage[i]] = i
    /\ \A r \in Requests : session[r] \notin raced =>
          /\ requestPc[r] \in {"delete", "logout"} => id[session[r]] = cookie[r]
          /\ requestPc[r] \in {"clear", "save"} =>
                \A i \in Session!Ids : storage[i] # session[r]
          /\ requestPc[r] = "save" => id[session[r]] = 0
          /\ requestPc[r] = "respond" => id[session[r]] \notin {0, cookie[r]}

\* A session that was not raced for is not changed any more under an id that is retired.
RetiredForGood ==
    /\ \A i \in retired : storage[i] # 0 => storage[i] \in raced
    /\ \A s \in Session!Sessions : s \notin raced /\ id[s] \in retired =>
          \A r \in Requests : requestPc[r] \in Session!Changing => session[r] # s

SessionInv ==
    /\ Session!SessionTypeOK /\ Made /\ OneOwner /\ Alone /\ StoredUnderItsId
    /\ RetiredForGood

LEMMA SessionInitInv ==
    ASSUME Session!SessionAssumption
    PROVE  Session!Init => SessionInv
  <1>. SUFFICES ASSUME Session!Init PROVE SessionInv
    OBVIOUS
  <1>. USE DEF Session!SessionAssumption, Session!Init, Session!Sessions, Session!Ids,
               Session!Changing
  <1>1. Session!SessionTypeOK
    BY DEF Session!SessionTypeOK
  <1>2. Made /\ OneOwner /\ Alone /\ StoredUnderItsId /\ RetiredForGood
    BY DEF Made, OneOwner, Alone, StoredUnderItsId, RetiredForGood
  <1>. QED
    BY <1>1, <1>2 DEF SessionInv

LEMMA SessionBounds ==
    ASSUME Session!SessionAssumption, SessionInv
    PROVE  /\ Lifetime \in Nat /\ MaxSessions \in Nat /\ MaxIds \in Nat /\ MaxSessionTime
                \in Nat
           /\ Session!SessionTypeOK /\ Made
  BY DEF Session!SessionAssumption, SessionInv

\* Save stores a session under its id, which is a new one when it had none.
LEMMA SaveStores ==
    ASSUME Session!SessionAssumption, SessionInv, NEW s \in Session!Sessions, Session!Save(s)
    PROVE  \E n \in Session!Ids :
              /\ storage' = [storage EXCEPT ![n] = s] /\ id' = [id EXCEPT ![s] = n]
              /\ \/ n = id[s] /\ ids' = ids
                 \/ id[s] = 0 /\ n = ids + 1 /\ ids' = n
  <1>. USE SessionBounds DEF Session!SessionTypeOK, Session!Ids
  <1>1. CASE id[s] # 0
    <2>1. id[s] \in 1..MaxIds /\ id' = id /\ ids' = ids
            /\ storage' = [storage EXCEPT ![id[s]] = s]
      BY <1>1 DEF Session!Save
    <2>2. id' = [id EXCEPT ![s] = id[s]]
      BY <2>1
    <2>. QED
      BY <2>1, <2>2
  <1>2. CASE id[s] = 0
    <2>1. ids + 1 \in 1..MaxIds
      BY <1>2 DEF Session!Save
    <2>. QED
      BY <1>2, <2>1 DEF Session!Save
  <1>. QED
    BY <1>1, <1>2

\* The types of what Save and Get change.
LEMMA SaveTyped ==
    ASSUME Session!SessionAssumption, SessionInv, NEW s \in Session!Sessions, Session!Save(s)
    PROVE  /\ storage' \in [Session!Ids -> 0..MaxSessions]
           /\ id' \in [Session!Sessions -> 0..MaxIds] /\ ids' \in 0..MaxIds
  <1>. USE SessionBounds DEF Session!SessionTypeOK, Session!Ids, Session!Sessions
  <1>1. PICK n \in Session!Ids :
              /\ storage' = [storage EXCEPT ![n] = s] /\ id' = [id EXCEPT ![s] = n]
              /\ ids' \in {ids, n}
    BY SaveStores
  <1>. QED
    BY <1>1

LEMMA GetTyped ==
    ASSUME Session!SessionAssumption, SessionInv, NEW r \in Requests, NEW i \in Session!Ids,
           NEW to \in Session!Changing \cup {"served"}, Session!Get(r, i, to)
    PROVE  /\ requestPc[r] = "idle" /\ i \in 1..ids /\ storage[i] \in 1..logins
           /\ storage[i] \in Session!Sessions
           /\ requestPc' = [requestPc EXCEPT ![r] = to]
           /\ session' = [session EXCEPT ![r] = storage[i]]
           /\ cookie' = [cookie EXCEPT ![r] = i]
           /\ requestPc' \in [Requests -> Session!Changing \cup {"idle", "served"}]
           /\ session' \in [Requests -> 0..MaxSessions] /\ cookie' \in [Requests -> 0..MaxIds]
           /\ raced \subseteq raced' /\ raced' \subseteq Session!Sessions
           /\ \/ raced' = raced
              \/ to \in Session!Changing /\ raced' = raced \cup {storage[i]}
           /\ to \in Session!Changing => \A q \in Requests :
                 requestPc[q] \in Session!Changing /\ session[q] = storage[i] => storage[i]
                   \in raced'
  <1>. USE SessionBounds DEF Session!SessionTypeOK, Session!Ids, Session!Sessions
  <1>1. /\ requestPc[r] = "idle" /\ i \in 1..ids /\ storage[i] \in 1..logins
        /\ requestPc' = [requestPc EXCEPT ![r] = to]
        /\ session' = [session EXCEPT ![r] = storage[i]]
        /\ cookie' = [cookie EXCEPT ![r] = i]
    BY DEF Session!Get, Session!Valid, Made
  <1>2. storage[i] \in 1..MaxSessions /\ i \in 1..MaxIds
    BY <1>1
  <1>3. requestPc' \in [Requests -> Session!Changing \cup {"idle", "served"}]
    BY <1>1
  <1>4. session' \in [Requests -> 0..MaxSessions] /\ cookie' \in [Requests -> 0..MaxIds]
    BY <1>1, <1>2
  <1>5. \/ raced' = raced
        \/ to \in Session!Changing /\ raced' = raced \cup {storage[i]}
    BY DEF Session!Get
  <1>6. to \in Session!Changing => \A q \in Requests :
            requestPc[q] \in Session!Changing /\ session[q] = storage[i] => storage[i]
              \in raced'
    BY DEF Session!Get
  <1>. QED
    BY <1>1, <1>2, <1>3, <1>4, <1>5, <1>6

LEMMA SessionNextTypeOK ==
    ASSUME Session!SessionAssumption, SessionInv, [Session!Next]_sessionVars
    PROVE  Session!SessionTypeOK'
  <1>. USE SessionBounds DEF Session!SessionTypeOK
  <1>0. \A r \in Requests : requestPc[r] # "idle" =>
            session[r] \in Session!Sessions /\ cookie[r] \in Session!Ids
    BY DEF Made, Session!Sessions, Session!Ids
  <1>1. CASE Session!Tick
    BY <1>1 DEF Session!Tick, Session!sessions, Session!history
  <1>2. ASSUME NEW r \in Requests, Session!Login(r) PROVE Session!SessionTypeOK'
    <2>1. logins + 1 \in Session!Sessions /\ logins' \in 0..MaxSessions
      BY <1>2 DEF Session!Login, Session!Sessions
    <2>2. /\ storage' \in [Session!Ids -> 0..MaxSessions]
          /\ id' \in [Session!Sessions -> 0..MaxIds] /\ ids' \in 0..MaxIds
      BY <1>2, <2>1, SaveTyped DEF Session!Login
    <2>3. expire' \in [Session!Sessions -> Nat]
      BY <1>2, <2>1 DEF Session!Login
    <2>. QED
      BY <1>2, <2>1, <2>2, <2>3 DEF Session!Login
  <1>3. ASSUME NEW r \in Requests, Session!Request(r) \/ Session!Logout(r)
                 PROVE Session!SessionTypeOK'
    <2>1. PICK i \in Session!Ids, to \in {"served", "logout"} : Session!Get(r, i, to)
      BY <1>3 DEF Session!Request, Session!Logout
    <2>2. to \in Session!Changing \cup {"served"}
      BY DEF Session!Changing
    <2>. QED
      BY <1>3, <2>1, <2>2, GetTyped DEF Session!Request, Session!Logout, Session!sessions
  <1>4. ASSUME NEW r \in Requests, Session!Refresh(r) PROVE Session!SessionTypeOK'
    <2>1. PICK i \in Session!Ids :
              /\ Session!Get(r, i, "delete")
              /\ expire' = [expire EXCEPT ![storage[i]] = sessionClock + Lifetime]
      BY <1>4 DEF Session!Refresh
    <2>2. "delete" \in Session!Changing \cup {"served"}
      BY DEF Session!Changing
    <2>3. expire' \in [Session!Sessions -> Nat]
      <3>1. sessionClock + Lifetime \in Nat
        OBVIOUS
      <3>. QED
        BY <2>1, <3>1
    <2>. QED
      BY <1>4, <2>1, <2>2, <2>3, GetTyped DEF Session!Refresh
  <1>5. ASSUME NEW r \in Requests, Session!LogoutDelete(r) \/ Session!RefreshDelete(r)
        PROVE  Session!SessionTypeOK'
    <2>1. storage' \in [Session!Ids -> 0..MaxSessions]
      BY <1>5 DEF Session!LogoutDelete, Session!RefreshDelete, Session!Removed
    <2>2. retired' \subseteq Session!Ids
      BY <1>0, <1>5 DEF Session!LogoutDelete, Session!RefreshDelete, Session!history
    <2>. QED
      BY <1>5, <2>1, <2>2 DEF Session!LogoutDelete, Session!RefreshDelete, Session!Changing,
         Session!history
  <1>6. ASSUME NEW r \in Requests, Session!RefreshClear(r) PROVE Session!SessionTypeOK'
    <2>1. 0 \in 0..MaxIds /\ "save" \in Session!Changing
      BY DEF Session!Changing
    <2>2. id' \in [Session!Sessions -> 0..MaxIds]
      BY <1>6, <2>1 DEF Session!RefreshClear
    <2>. QED
      BY <1>6, <2>1, <2>2 DEF Session!RefreshClear, Session!history
  <1>7. ASSUME NEW r \in Requests, Session!RefreshSave(r) PROVE Session!SessionTypeOK'
    BY <1>0, <1>7, SaveTyped DEF Session!RefreshSave, Session!Changing, Session!history
  <1>8. ASSUME NEW r \in Requests, Session!SaveToResponse(r) PROVE Session!SessionTypeOK'
    BY <1>0, <1>8, SaveTyped DEF Session!SaveToResponse
  <1>9. ASSUME NEW r \in Requests, Session!Respond(r) PROVE Session!SessionTypeOK'
    BY <1>9 DEF Session!Respond, Session!sessions, Session!history
  <1>10. CASE UNCHANGED sessionVars
    BY <1>10 DEF sessionVars
  <1>. QED
    BY <1>1, <1>2, <1>3, <1>4, <1>5, <1>6, <1>7, <1>8, <1>9, <1>10
    DEF Session!Next, Session!RequestStep

\* A request that finds a session joins those that hold one.
LEMMA GetInv ==
    ASSUME Session!SessionAssumption, SessionInv, NEW r \in Requests, NEW i \in Session!Ids,
           NEW to \in {"served", "delete", "logout"}, Session!Get(r, i, to),
           UNCHANGED <<storage, id, logins, ids, retired>>
    PROVE  Made' /\ OneOwner' /\ Alone' /\ StoredUnderItsId' /\ RetiredForGood'
  <1>0. /\ Made /\ OneOwner /\ Alone /\ StoredUnderItsId /\ RetiredForGood
        /\ Session!SessionTypeOK
    BY DEF SessionInv
  <1>1. to \in Session!Changing \cup {"served"}
    BY DEF Session!Changing
  <1>2. /\ requestPc[r] = "idle" /\ i \in 1..ids /\ storage[i] \in 1..logins
        /\ storage[i] \in Session!Sessions /\ storage[i] # 0
        /\ raced \subseteq raced'
        /\ \A s : s # storage[i] => (s \in raced' <=> s \in raced)
        /\ to \in Session!Changing => \A q \in Requests :
                 requestPc[q] \in Session!Changing /\ session[q] = storage[i] => storage[i]
                   \in raced'
    BY <1>1, GetTyped, SessionBounds
  <1>3. /\ requestPc'[r] = to /\ session'[r] = storage[i] /\ cookie'[r] = i
        /\ \A q \in Requests : q # r => /\ requestPc'[q] = requestPc[q]
             /\ session'[q] = session[q]
                                       /\ cookie'[q] = cookie[q]
    BY <1>0, <1>1, GetTyped DEF Session!SessionTypeOK
  <1>4. Made'
    BY <1>0, <1>2, <1>3 DEF Made
  <1>5. OneOwner'
    BY <1>0, <1>2, <1>3 DEF OneOwner
  <1>6. Alone'
    BY <1>0, <1>2, <1>3 DEF Alone
  <1>7. StoredUnderItsId'
    BY <1>0, <1>2, <1>3 DEF StoredUnderItsId
  <1>8. RetiredForGood'
    <2>1. \A j \in retired' : storage'[j] # 0 => storage'[j] \in raced'
      BY <1>0, <1>2 DEF RetiredForGood
    <2>2. ASSUME NEW s \in Session!Sessions, s \notin raced', id'[s] \in retired',
                 NEW q \in Requests, requestPc'[q] \in Session!Changing
          PROVE  session'[q] # s
      <3>1. s \notin raced /\ id[s] \in retired
        BY <1>2, <2>2
      <3>2. CASE q # r
        BY <1>0, <1>3, <2>2, <3>1, <3>2 DEF RetiredForGood
      <3>3. CASE q = r /\ s = storage[i]
        BY <1>0, <1>2, <3>1, <3>3 DEF RetiredForGood, StoredUnderItsId
      <3>. QED
        BY <1>3, <3>2, <3>3
    <2>. QED
      BY <2>1, <2>2 DEF RetiredForGood
  <1>. QED
    BY <1>4, <1>5, <1>6, <1>7, <1>8

\* What Save leaves of the ids: they are owned and not retired.
LEMMA SaveInv ==
    ASSUME Session!SessionAssumption, SessionInv, NEW s \in Session!Sessions,
           logins' \in Nat, s <= logins' /\ logins <= logins', Session!Save(s),
           s <= logins \/ (id[s] = 0 /\ logins' = s /\ \A i \in Session!Ids : storage[i] # s),
           s \in raced \/ id[s] = 0 \/ id[s] \notin retired,
           s \in raced \/ id[s] # 0 \/ \A i \in Session!Ids : storage[i] # s
    PROVE  /\ \A t \in Session!Sessions : id'[t] <= ids' /\ (t > logins' => id'[t] = 0)
           /\ \A i \in Session!Ids : storage'[i] <= logins' /\ (i > ids' => storage'[i] = 0)
           /\ ids <= ids' /\ id'[s] # 0
           /\ \A t, u \in Session!Sessions : t # u /\ id'[t] = id'[u] => id'[t] = 0
           /\ \A i \in Session!Ids : storage'[i] # 0 =>
                 \A t \in Session!Sessions : id'[t] = i => t = storage'[i]
           /\ \A i \in Session!Ids : storage'[i] # 0 /\ storage'[i] \notin raced =>
                 id'[storage'[i]] = i
           /\ \A i \in retired : storage'[i] # 0 => storage'[i] \in raced
           /\ s \notin raced => id'[s] \notin retired
           /\ \A t \in Session!Sessions : t # s => id'[t] = id[t]
           /\ \A i \in Session!Ids : i <= ids /\ i # id[s] => storage'[i] = storage[i]
           /\ \A i \in Session!Ids : storage'[i] \in {storage[i], s}
           /\ id[s] # 0 => id'[s] = id[s]
           /\ id[s] = 0 => id'[s] > ids
  <1>. USE DEF Session!SessionTypeOK, Session!Ids, Session!Sessions
  <1>00. /\ MaxSessions \in Nat /\ MaxIds \in Nat /\ ids \in 0..MaxIds /\ logins
              \in 0..MaxSessions
         /\ id \in [Session!Sessions -> 0..MaxIds] /\ storage
              \in [Session!Ids -> 0..MaxSessions]
         /\ retired \subseteq Session!Ids
    BY SessionBounds
  <1>. USE <1>00
  <1>0. Made /\ OneOwner /\ Alone /\ StoredUnderItsId /\ RetiredForGood
    BY DEF SessionInv
  <1>1. PICK n \in Session!Ids :
              /\ storage' = [storage EXCEPT ![n] = s] /\ id' = [id EXCEPT ![s] = n]
              /\ \/ n = id[s] /\ ids' = ids
                 \/ id[s] = 0 /\ n = ids + 1 /\ ids' = n
    BY SaveStores
  <1>2. /\ \A t \in Session!Sessions : id'[t] = IF t = s THEN n ELSE id[t]
        /\ \A i \in Session!Ids : storage'[i] = IF i = n THEN s ELSE storage[i]
        /\ n # 0 /\ ids \in Nat /\ ids' \in Nat /\ ids <= ids' /\ n <= ids'
    <2>1. id[s] \in 0..MaxIds /\ n \in Nat \ {0} /\ ids \in Nat
      BY <1>00
    <2>4. id[s] <= ids
      BY <1>0 DEF Made
    <2>2. n # 0 /\ ids \in Nat /\ ids' \in Nat /\ ids <= ids' /\ n <= ids'
      BY <1>1, <2>1, <2>4
    <2>3. /\ \A t \in Session!Sessions : id'[t] = IF t = s THEN n ELSE id[t]
          /\ \A i \in Session!Ids : storage'[i] = IF i = n THEN s ELSE storage[i]
      BY <1>1
    <2>. QED
      BY <2>2, <2>3
  <1>3. \A t \in Session!Sessions : id[t] <= ids /\ (t # s => id[t] # n)
    BY <1>0, <1>1, <1>2 DEF Made, OneOwner
  <1>4. /\ \A t \in Session!Sessions : id'[t] <= ids' /\ (t > logins' => id'[t] = 0)
        /\ \A i \in Session!Ids : storage'[i] <= logins' /\ (i > ids' => storage'[i] = 0)
    <2>1. ASSUME NEW t \in Session!Sessions
          PROVE  id'[t] <= ids' /\ (t > logins' => id'[t] = 0)
      <3>1. id[t] \in Nat /\ t \in Nat /\ s \in Nat /\ logins \in Nat
              /\ id'[t] = IF t = s THEN n ELSE id[t]
        BY <1>2
      <3>2. id[t] <= ids /\ (t > logins => id[t] = 0)
        BY <1>0 DEF Made
      <3>. QED
        BY <1>2, <3>1, <3>2
    <2>2. ASSUME NEW i \in Session!Ids
          PROVE  storage'[i] <= logins' /\ (i > ids' => storage'[i] = 0)
      <3>1. storage[i] \in Nat /\ i \in Nat /\ logins \in Nat
              /\ storage'[i] = IF i = n THEN s ELSE storage[i]
        BY <1>2
      <3>2. storage[i] <= logins /\ (i > ids => storage[i] = 0)
        BY <1>0 DEF Made
      <3>. QED
        BY <1>2, <3>1, <3>2
    <2>. QED
      BY <2>1, <2>2
  <1>5. \A t, u \in Session!Sessions : t # u /\ id'[t] = id'[u] => id'[t] = 0
    <2>1. ASSUME NEW t \in Session!Sessions, NEW u \in Session!Sessions, t # u, id'[t] = id'[u]
          PROVE  id'[t] = 0
      <3>1. t # s /\ u # s
        BY <1>2, <1>3, <2>1
      <3>2. id'[t] = id[t] /\ id'[u] = id[u]
        BY <1>2, <3>1
      <3>. QED
        BY <1>0, <2>1, <3>2 DEF OneOwner
    <2>. QED
      BY <2>1
  <1>6. \A i \in Session!Ids : storage'[i] # 0 =>
            \A t \in Session!Sessions : id'[t] = i => t = storage'[i]
    <2>1. ASSUME NEW i \in Session!Ids, storage'[i] # 0, NEW t \in Session!Sessions, id'[t] = i
          PROVE  t = storage'[i]
      <3>1. CASE i = n
        BY <1>0, <1>2, <1>3, <2>1, <3>1 DEF Made
      <3>2. CASE i # n
        BY <1>0, <1>2, <2>1, <3>2 DEF OneOwner
      <3>. QED
        BY <3>1, <3>2
    <2>. QED
      BY <2>1
  <1>7. \A i \in Session!Ids : storage'[i] # 0 /\ storage'[i] \notin raced
                                 => id'[storage'[i]] = i
    <2>1. ASSUME NEW i \in Session!Ids, storage'[i] # 0, storage'[i] \notin raced
          PROVE  id'[storage'[i]] = i
      <3>1. CASE i = n
        BY <1>2, <3>1
      <3>2. CASE i # n
        <4>1. storage'[i] = storage[i] /\ id[storage[i]] = i /\ storage[i] \in Session!Sessions
          <5>1. storage'[i] = storage[i] /\ storage[i] \in 0..MaxSessions
            BY <1>2, <3>2
          <5>. QED
            BY <1>0, <2>1, <5>1 DEF StoredUnderItsId
        <4>2. storage[i] # s
          BY <1>1, <2>1, <3>2, <4>1
        <4>. QED
          BY <1>2, <4>1, <4>2
      <3>. QED
        BY <3>1, <3>2
    <2>. QED
      BY <2>1
  <1>8. s \notin raced => n \notin retired
    BY <1>0, <1>1, <1>2 DEF Made
  <1>9. \A i \in retired : storage'[i] # 0 => storage'[i] \in raced
    BY <1>0, <1>2, <1>8 DEF RetiredForGood
  <1>. QED
    BY <1>1, <1>2, <1>4, <1>5, <1>6, <1>7, <1>8, <1>9

\* Delete takes a session away, and what it was stored under without a race.
LEMMA RemovedIsGone ==
    ASSUME Session!SessionAssumption, SessionInv, NEW s \in Session!Sessions,
           storage' = Session!Removed(s)
    PROVE  /\ \A i \in Session!Ids : storage'[i] \in {0, storage[i]}
           /\ s \notin raced => \A i \in Session!Ids : storage'[i] # s
  <1>. USE DEF Session!SessionTypeOK, Session!Ids, Session!Sessions, Session!Removed
  <1>0. /\ MaxSessions \in Nat /\ id \in [Session!Sessions -> 0..MaxIds]
        /\ storage \in [Session!Ids -> 0..MaxSessions] /\ StoredUnderItsId
    BY SessionBounds DEF SessionInv
  <1>1. \A i \in Session!Ids : storage'[i] \in {0, storage[i]} /\ (i = id[s] => storage'[i] = 0)
    BY <1>0
  <1>2. \A i \in Session!Ids : storage[i] = s /\ s \notin raced => i = id[s]
    BY <1>0 DEF StoredUnderItsId
  <1>3. s # 0
    BY <1>0
  <1>. QED
    BY <1>1, <1>2, <1>3

\* A request saves the session it has refreshed.
LEMMA ResaveInv ==
    ASSUME Session!SessionAssumption, SessionInv, NEW r \in Requests,
           Session!RefreshSave(r) \/ Session!SaveToResponse(r)
    PROVE  Made' /\ OneOwner' /\ Alone' /\ StoredUnderItsId' /\ RetiredForGood'
  <1>0. /\ Session!SessionTypeOK /\ Made /\ OneOwner /\ Alone /\ StoredUnderItsId
        /\ RetiredForGood
    BY DEF SessionInv
  <1>b. /\ ids \in Nat /\ logins \in Nat /\ retired \subseteq Session!Ids
        /\ id \in [Session!Sessions -> Nat] /\ storage \in [Session!Ids -> Nat]
        /\ requestPc \in [Requests -> Session!Changing \cup {"idle", "served"}]
    BY <1>0 DEF Session!SessionTypeOK
  <1>a. \A q \in Requests : requestPc[q] # "idle" =>
            /\ session[q] \in Session!Sessions /\ cookie[q] \in Session!Ids
            /\ cookie[q] <= ids /\ session[q] <= logins
    BY <1>0, SessionBounds DEF Made, Session!SessionTypeOK, Session!Sessions, Session!Ids
  <1>1. /\ requestPc[r] \in {"save", "respond"} /\ Session!Save(session[r])
        /\ UNCHANGED <<expire, logins, session, cookie, raced>>
        /\ \/ /\ requestPc[r] = "save" /\ retired' = retired
              /\ requestPc' = [requestPc EXCEPT ![r] = "respond"]
           \/ /\ requestPc[r] = "respond" /\ retired' = retired \cup {cookie[r]}
              /\ requestPc' = [requestPc EXCEPT ![r] = "idle"]
    BY DEF Session!RefreshSave, Session!SaveToResponse, Session!history
  <1>. DEFINE s == session[r]
  <1>2. /\ s \in Session!Sessions /\ s # 0 /\ s <= logins /\ requestPc[r] \in Session!Changing
        /\ cookie[r] \in Session!Ids /\ cookie[r] <= ids /\ cookie[r] # 0
    BY <1>a, <1>1 DEF Session!Changing, Session!Sessions, Session!Ids
  <1>3. /\ requestPc[r] = "save" /\ s \notin raced => id[s] = 0 /\ \A i
             \in Session!Ids : storage[i] # s
        /\ requestPc[r] = "respond" /\ s \notin raced => id[s] \notin {0, cookie[r]}
    BY <1>0 DEF StoredUnderItsId
  <1>4. s \in raced \/ id[s] = 0 \/ id[s] \notin retired
    BY <1>0, <1>2 DEF RetiredForGood
  <1>5. s \in raced \/ id[s] # 0 \/ \A i \in Session!Ids : storage[i] # s
    BY <1>1, <1>3
  <1>6. logins' \in Nat /\ s <= logins' /\ logins <= logins'
    BY <1>1, <1>2, <1>b
  <1>. HIDE DEF s
  <1>7. Session!Save(s)
    BY <1>1 DEF s
  <1>8. /\ \A t \in Session!Sessions : id'[t] <= ids' /\ (t > logins' => id'[t] = 0)
        /\ \A i \in Session!Ids : storage'[i] <= logins' /\ (i > ids' => storage'[i] = 0)
        /\ ids <= ids' /\ id'[s] # 0
        /\ \A t, u \in Session!Sessions : t # u /\ id'[t] = id'[u] => id'[t] = 0
        /\ \A i \in Session!Ids : storage'[i] # 0 =>
              \A t \in Session!Sessions : id'[t] = i => t = storage'[i]
        /\ \A i \in Session!Ids : storage'[i] # 0 /\ storage'[i] \notin raced =>
              id'[storage'[i]] = i
        /\ \A i \in retired : storage'[i] # 0 => storage'[i] \in raced
    BY <1>2, <1>4, <1>5, <1>6, <1>7, SaveInv
  <1>9. /\ s \notin raced => id'[s] \notin retired
        /\ \A t \in Session!Sessions : t # s => id'[t] = id[t]
        /\ \A i \in Session!Ids : i <= ids /\ i # id[s] => storage'[i] = storage[i]
        /\ \A i \in Session!Ids : storage'[i] \in {storage[i], s}
        /\ id[s] # 0 => id'[s] = id[s]
        /\ id[s] = 0 => id'[s] > ids
    BY <1>2, <1>4, <1>5, <1>6, <1>7, SaveInv
  <1>10. ids' \in Nat
    BY <1>0, <1>2, <1>7, SaveTyped DEF Session!SessionTypeOK
  <1>11. /\ session[r] = s /\ requestPc'[r] \in {"respond", "idle"}
         /\ \A q \in Requests : q # r => requestPc'[q] = requestPc[q]
         /\ \A q \in Requests : requestPc'[q] # "idle" => requestPc[q] # "idle"
         /\ \A q \in Requests : requestPc'[q] \in Session!Changing => requestPc[q]
              \in Session!Changing
         /\ requestPc'[r] = "respond" => requestPc[r] = "save" /\ retired' = retired
         /\ requestPc'[r] = "idle" => requestPc[r] = "respond" /\ retired' = retired
              \cup {cookie[r]}
    BY <1>1, <1>2, <1>b DEF s
  <1>. USE <1>11
  <1>12. Made'
    <2>1. ASSUME NEW i \in retired' PROVE i <= ids'
      <3>1. i \in retired \/ i = cookie[r]
        BY <1>1
      <3>2. CASE i = cookie[r]
        BY <1>2, <1>8, <1>10, <1>b, <3>2 DEF Session!Ids
      <3>3. CASE i \in retired
        <4>1. i \in Nat /\ i <= ids
          BY <1>0, <1>b, <3>3 DEF Made, Session!Ids
        <4>. QED
          BY <1>8, <1>10, <1>b, <4>1
      <3>. QED
        BY <3>1, <3>2, <3>3
    <2>2. \A q \in Requests : requestPc'[q] # "idle" => session'[q] \in 1..logins'
                                /\ cookie'[q] \in 1..ids'
      BY <1>0, <1>1, <1>8, <1>10, <1>b DEF Made
    <2>. QED
      BY <1>8, <2>1, <2>2 DEF Made
  <1>13. OneOwner'
    <2>1. ASSUME NEW q \in Requests, requestPc'[q] \in Session!Changing
          PROVE  /\ storage'[cookie'[q]] \in {0, session'[q]}
                 /\ \A t \in Session!Sessions : id'[t] = cookie'[q] => t = session'[q]
      <3>1. /\ requestPc[q] \in Session!Changing /\ requestPc[q] # "idle"
            /\ storage[cookie[q]] \in {0, session[q]}
            /\ \A t \in Session!Sessions : id[t] = cookie[q] => t = session[q]
        BY <1>0, <2>1 DEF OneOwner, Session!Changing
      <3>2. id'[s] = cookie[q] => s = session[q]
        BY <1>2, <1>9, <1>a, <1>b, <3>1 DEF Session!Ids
      <3>3. storage'[cookie[q]] = s /\ storage[cookie[q]] # s => cookie[q] = id'[s]
        BY <1>2, <1>9, <1>a, <1>b, <3>1 DEF Session!Ids
      <3>. QED
        BY <1>1, <1>9, <1>a, <3>1, <3>2, <3>3
    <2>. QED
      BY <1>8, <2>1 DEF OneOwner
  <1>14. Alone'
    BY <1>0, <1>1 DEF Alone
  <1>15. StoredUnderItsId'
    <2>1. ASSUME NEW q \in Requests, session[q] \notin raced, requestPc[q]
                   \in Session!Changing, q # r
          PROVE  /\ session[q] \in Session!Sessions /\ session[q] # s
                      /\ id'[session[q]] = id[session[q]]
                 /\ \A i \in Session!Ids : storage[i] # session[q] => storage'[i] # session[q]
      <3>1. session[q] # s /\ session[q] \in Session!Sessions
        BY <1>0, <1>2, <1>a, <2>1 DEF Alone, Session!Changing
      <3>. QED
        BY <1>9, <3>1
    <2>2. s \notin raced /\ requestPc[r] = "save" => id'[s] \notin {0, cookie[r]}
      BY <1>2, <1>3, <1>8, <1>9, <1>b DEF Session!Ids
    <2>3. ASSUME NEW q \in Requests, session'[q] \notin raced'
          PROVE  /\ requestPc'[q] \in {"delete", "logout"} => id'[session'[q]] = cookie'[q]
                 /\ requestPc'[q] \in {"clear", "save"} =>
                       \A i \in Session!Ids : storage'[i] # session'[q]
                 /\ requestPc'[q] = "save" => id'[session'[q]] = 0
                 /\ requestPc'[q] = "respond" => id'[session'[q]] \notin {0, cookie'[q]}
      <3>1. CASE q = r
        BY <1>1, <2>2, <2>3, <3>1
      <3>2. CASE q # r
        BY <1>0, <1>1, <2>1, <2>3, <3>2 DEF StoredUnderItsId, Session!Changing
      <3>. QED
        BY <3>1, <3>2
    <2>. QED
      BY <1>1, <1>8, <2>3 DEF StoredUnderItsId
  <1>16. RetiredForGood'
    <2>1. requestPc[r] = "respond" /\ s \notin raced => id'[s] # cookie[r]
            /\ storage'[cookie[r]] # s
      BY <1>1, <1>2, <1>3, <1>8, <1>9
    <2>2. storage'[cookie[r]] \in {0, s}
      BY <1>0, <1>2, <1>9 DEF OneOwner
    <2>3. \A i \in retired' : storage'[i] # 0 => storage'[i] \in raced'
      BY <1>1, <1>8, <2>1, <2>2
    <2>4. ASSUME NEW t \in Session!Sessions, t \notin raced', id'[t] \in retired',
                 NEW q \in Requests, requestPc'[q] \in Session!Changing
          PROVE  session'[q] # t
      <3>1. t # s
        BY <1>1, <1>9, <2>1, <2>4
      <3>2. id'[t] = id[t] /\ id[t] # cookie[r]
        BY <1>0, <1>2, <1>9, <3>1 DEF OneOwner
      <3>3. id[t] \in retired
        BY <1>1, <2>4, <3>2
      <3>. QED
        BY <1>0, <1>1, <2>4, <3>3 DEF RetiredForGood
    <2>. QED
      BY <2>3, <2>4 DEF RetiredForGood
  <1>. QED
    BY <1>12, <1>13, <1>14, <1>15, <1>16

LEMMA SessionNextInv ==
    ASSUME Session!SessionAssumption, SessionInv, [Session!Next]_sessionVars
    PROVE  SessionInv'
  <1>0. /\ Session!SessionTypeOK /\ Made /\ OneOwner /\ Alone /\ StoredUnderItsId
        /\ RetiredForGood /\ Session!SessionTypeOK'
    BY SessionNextTypeOK DEF SessionInv
  <1>. SUFFICES Made' /\ OneOwner' /\ Alone' /\ StoredUnderItsId' /\ RetiredForGood'
    BY <1>0 DEF SessionInv
  <1>a. \A r \in Requests : requestPc[r] # "idle" =>
            session[r] \in Session!Sessions /\ cookie[r] \in Session!Ids /\ cookie[r] <= ids
    BY <1>0, SessionBounds DEF Made, Session!SessionTypeOK, Session!Sessions, Session!Ids
  <1>b. /\ ids \in Nat /\ logins \in Nat /\ retired \subseteq Session!Ids
        /\ id \in [Session!Sessions -> Nat] /\ storage \in [Session!Ids -> Nat]
        /\ requestPc \in [Requests -> Session!Changing \cup {"idle", "served"}]
    BY <1>0 DEF Session!SessionTypeOK
  <1>1. CASE Session!Tick
    BY <1>0, <1>1 DEF Made, OneOwner, Alone, StoredUnderItsId, RetiredForGood, Session!Tick,
       Session!sessions, Session!history
  <1>2. ASSUME NEW r \in Requests, Session!Login(r)
        PROVE  Made' /\ OneOwner' /\ Alone' /\ StoredUnderItsId' /\ RetiredForGood'
    <2>1. /\ logins + 1 \in Session!Sessions /\ logins' = logins + 1 /\ Session!Save(logins + 1)
          /\ expire' = [expire EXCEPT ![logins + 1] = sessionClock + Lifetime]
          /\ UNCHANGED <<requestPc, session, cookie, retired, raced>>
      BY <1>2, <1>0, SessionBounds DEF Session!Login, Session!Sessions, Session!SessionTypeOK
    <2>2. id[logins + 1] = 0 /\ \A i \in Session!Ids : storage[i] # logins + 1
      BY <1>0, <1>b, <2>1 DEF Made
    <2>3. /\ \A t \in Session!Sessions : id'[t] <= ids' /\ (t > logins' => id'[t] = 0)
          /\ \A i \in Session!Ids : storage'[i] <= logins' /\ (i > ids' => storage'[i] = 0)
          /\ ids <= ids' /\ ids' \in Nat
      BY <1>b, <2>1, <2>2, SaveInv, <1>0 DEF Session!SessionTypeOK
    <2>4. /\ \A t, u \in Session!Sessions : t # u /\ id'[t] = id'[u] => id'[t] = 0
          /\ \A i \in Session!Ids : storage'[i] # 0 =>
                 \A t \in Session!Sessions : id'[t] = i => t = storage'[i]
          /\ \A i \in Session!Ids : storage'[i] # 0 /\ storage'[i] \notin raced =>
                 id'[storage'[i]] = i
          /\ \A i \in retired : storage'[i] # 0 => storage'[i] \in raced
      BY <1>b, <2>1, <2>2, SaveInv
    <2>5. /\ logins + 1 \notin raced => id'[logins + 1] \notin retired
          /\ \A t \in Session!Sessions : t # logins + 1 => id'[t] = id[t]
          /\ \A i \in Session!Ids : i <= ids => storage'[i] = storage[i]
          /\ \A i \in Session!Ids : storage'[i] \in {storage[i], logins + 1}
          /\ id'[logins + 1] > ids
      <3>1. id[logins + 1] \notin 1..ids
        BY <2>2, <1>b
      <3>2. \A i \in Session!Ids : i <= ids => i # id[logins + 1]
        BY <2>2 DEF Session!Ids
      <3>. QED
        BY <1>b, <2>1, <2>2, <3>2, SaveInv
    <2>6. \A q \in Requests : requestPc[q] # "idle" => session[q] <= logins
                                /\ session[q] # logins + 1
      BY <1>0, <1>b DEF Made
    <2>7. Made'
      <3>1. ASSUME NEW i \in retired' PROVE i <= ids'
        <4>1. i \in retired /\ i \in Nat /\ i <= ids
          BY <1>0, <1>b, <2>1 DEF Made, Session!Ids
        <4>. QED
          BY <1>b, <2>3, <4>1
      <3>2. \A q \in Requests : requestPc'[q] # "idle" => session'[q] \in 1..logins'
                                  /\ cookie'[q] \in 1..ids'
        BY <1>0, <1>b, <2>1, <2>3 DEF Made
      <3>. QED
        BY <2>3, <3>1, <3>2 DEF Made
    <2>8. OneOwner'
      <3>1. ASSUME NEW q \in Requests, requestPc'[q] \in Session!Changing
            PROVE  /\ storage'[cookie'[q]] \in {0, session'[q]}
                   /\ \A t \in Session!Sessions : id'[t] = cookie'[q] => t = session'[q]
        <4>1. requestPc[q] \in Session!Changing /\ requestPc[q] # "idle"
          BY <2>1, <3>1 DEF Session!Changing
        <4>2. storage'[cookie[q]] = storage[cookie[q]] /\ cookie[q] # id'[logins + 1]
          BY <1>a, <1>b, <2>5, <4>1 DEF Session!Ids
        <4>. QED
          BY <1>0, <2>1, <2>5, <4>1, <4>2 DEF OneOwner
      <3>. QED
        BY <2>4, <3>1 DEF OneOwner
    <2>9. Alone'
      BY <1>0, <2>1 DEF Alone
    <2>10. StoredUnderItsId'
      <3>1. ASSUME NEW q \in Requests, session[q] \notin raced, requestPc[q] # "idle"
            PROVE  /\ id'[session[q]] = id[session[q]]
                   /\ \A i \in Session!Ids : storage[i] # session[q] => storage'[i] # session[q]
        BY <1>a, <2>5, <2>6, <3>1
      <3>. QED
        BY <1>0, <2>1, <2>4, <3>1 DEF StoredUnderItsId
    <2>11. RetiredForGood'
      <3>1. ASSUME NEW t \in Session!Sessions, t \notin raced', id'[t] \in retired',
                   NEW q \in Requests, requestPc'[q] \in Session!Changing
            PROVE  session'[q] # t
        <4>1. requestPc[q] \in Session!Changing /\ requestPc[q] # "idle"
          BY <2>1, <3>1 DEF Session!Changing
        <4>. QED
          BY <1>0, <2>1, <2>5, <2>6, <3>1, <4>1 DEF RetiredForGood
      <3>. QED
        BY <2>1, <2>4, <3>1 DEF RetiredForGood
    <2>. QED
      BY <2>7, <2>8, <2>9, <2>10, <2>11
  <1>3. ASSUME NEW r \in Requests, Session!Request(r)
        PROVE  Made' /\ OneOwner' /\ Alone' /\ StoredUnderItsId' /\ RetiredForGood'
    BY <1>0, <1>3, GetInv DEF Session!Request, Session!sessions, Made
  <1>4. ASSUME NEW r \in Requests, Session!Logout(r)
        PROVE  Made' /\ OneOwner' /\ Alone' /\ StoredUnderItsId' /\ RetiredForGood'
    BY <1>0, <1>4, GetInv DEF Session!Logout, Session!sessions, Made
  <1>5. ASSUME NEW r \in Requests, Session!Refresh(r)
        PROVE  Made' /\ OneOwner' /\ Alone' /\ StoredUnderItsId' /\ RetiredForGood'
    <2>1. PICK i \in Session!Ids :
              /\ Session!Get(r, i, "delete")
              /\ expire' = [expire EXCEPT ![storage[i]] = sessionClock + Lifetime]
              /\ UNCHANGED <<storage, id, logins, ids, retired>>
      BY <1>5 DEF Session!Refresh
    <2>. QED
      BY <2>1, GetInv
  <1>6. ASSUME NEW r \in Requests, Session!LogoutDelete(r)
        PROVE  Made' /\ OneOwner' /\ Alone' /\ StoredUnderItsId' /\ RetiredForGood'
    <2>1. /\ requestPc[r] = "logout" /\ storage' = Session!Removed(session[r])
          /\ retired' = retired \cup {cookie[r]}
               /\ requestPc' = [requestPc EXCEPT ![r] = "idle"]
          /\ UNCHANGED <<id, expire, logins, ids, session, cookie, raced>>
      BY <1>6 DEF Session!LogoutDelete
    <2>2. /\ \A i \in Session!Ids : storage'[i] \in {0, storage[i]}
          /\ session[r] \notin raced => \A i \in Session!Ids : storage'[i] # session[r]
      BY <1>a, <2>1, RemovedIsGone
    <2>3. \A q \in Requests : requestPc'[q] # "idle" => q # r /\ requestPc'[q] = requestPc[q]
      BY <1>b, <2>1
    <2>4. Made'
      BY <1>0, <1>a, <1>b, <2>1, <2>2, <2>3 DEF Made
    <2>5. OneOwner'
      BY <1>0, <1>a, <2>1, <2>2, <2>3 DEF OneOwner, Session!Changing
    <2>6. Alone'
      BY <1>0, <2>1, <2>3 DEF Alone, Session!Changing
    <2>7. StoredUnderItsId'
      <3>1. \A i \in Session!Ids : storage'[i] # 0 /\ storage'[i] \notin raced
                                     => id[storage'[i]] = i
        BY <1>0, <2>2 DEF StoredUnderItsId
      <3>2. \A q \in Requests : requestPc[q] # "idle" /\ (\A i
                                  \in Session!Ids : storage[i] # session[q])
                => \A i \in Session!Ids : storage'[i] # session[q]
        BY <1>a, <2>2 DEF Session!Sessions
      <3>. QED
        BY <1>0, <2>1, <2>3, <3>1, <3>2 DEF StoredUnderItsId
    <2>8. \A i \in retired' : storage'[i] # 0 => storage'[i] \in raced'
      BY <1>0, <1>a, <1>b, <2>1, <2>2 DEF RetiredForGood, OneOwner, Session!Changing
    <2>9. ASSUME NEW t \in Session!Sessions, t \notin raced', id'[t] \in retired',
                 NEW q \in Requests, requestPc'[q] \in Session!Changing
          PROVE  session'[q] # t
      <3>1. CASE id[t] \in retired
        BY <1>0, <2>1, <2>3, <2>9, <3>1 DEF RetiredForGood, Session!Changing
      <3>2. CASE id[t] = cookie[r]
        BY <1>0, <2>1, <2>3, <2>9, <3>2 DEF OneOwner, Alone, Session!Changing
      <3>. QED
        BY <2>1, <2>9, <3>1, <3>2
    <2>. QED
      BY <2>4, <2>5, <2>6, <2>7, <2>8, <2>9 DEF RetiredForGood
  <1>7. ASSUME NEW r \in Requests, Session!RefreshDelete(r)
        PROVE  Made' /\ OneOwner' /\ Alone' /\ StoredUnderItsId' /\ RetiredForGood'
    <2>1. /\ requestPc[r] = "delete" /\ storage' = Session!Removed(session[r])
          /\ requestPc' = [requestPc EXCEPT ![r] = "clear"]
          /\ UNCHANGED <<id, expire, logins, ids, session, cookie, retired, raced>>
      BY <1>7 DEF Session!RefreshDelete, Session!history
    <2>2. /\ \A i \in Session!Ids : storage'[i] \in {0, storage[i]}
          /\ session[r] \notin raced => \A i \in Session!Ids : storage'[i] # session[r]
      BY <1>a, <2>1, RemovedIsGone
    <2>3. /\ requestPc'[r] = "clear"
          /\ \A q \in Requests : q # r => requestPc'[q] = requestPc[q]
      BY <1>b, <2>1
    <2>4. Made'
      BY <1>0, <1>a, <1>b, <2>1, <2>2, <2>3 DEF Made
    <2>5. OneOwner'
      BY <1>0, <1>a, <2>1, <2>2, <2>3 DEF OneOwner, Session!Changing
    <2>6. Alone'
      BY <1>0, <2>1, <2>3 DEF Alone, Session!Changing
    <2>7. StoredUnderItsId'
      <3>1. \A i \in Session!Ids : storage'[i] # 0 /\ storage'[i] \notin raced
                                     => id[storage'[i]] = i
        BY <1>0, <2>2 DEF StoredUnderItsId
      <3>2. \A q \in Requests : requestPc[q] # "idle" /\ (\A i
                                  \in Session!Ids : storage[i] # session[q])
                => \A i \in Session!Ids : storage'[i] # session[q]
        BY <1>a, <2>2 DEF Session!Sessions
      <3>. QED
        BY <1>0, <2>1, <2>2, <2>3, <3>1, <3>2 DEF StoredUnderItsId
    <2>8. RetiredForGood'
      BY <1>0, <1>b, <2>1, <2>2, <2>3 DEF RetiredForGood, Session!Changing
    <2>. QED
      BY <2>4, <2>5, <2>6, <2>7, <2>8
  <1>8. ASSUME NEW r \in Requests, Session!RefreshClear(r)
        PROVE  Made' /\ OneOwner' /\ Alone' /\ StoredUnderItsId' /\ RetiredForGood'
    <2>1. /\ requestPc[r] = "clear" /\ id' = [id EXCEPT ![session[r]] = 0]
          /\ requestPc' = [requestPc EXCEPT ![r] = "save"]
          /\ UNCHANGED <<storage, expire, logins, ids, session, cookie, retired, raced>>
      BY <1>8 DEF Session!RefreshClear, Session!history
    <2>2. \A t \in Session!Sessions : id'[t] = IF t = session[r] THEN 0 ELSE id[t]
      BY <1>b, <2>1
    <2>3. /\ requestPc'[r] = "save"
          /\ \A q \in Requests : q # r => requestPc'[q] = requestPc[q]
      BY <1>b, <2>1
    <2>4. Made'
      BY <1>0, <1>a, <1>b, <2>1, <2>2, <2>3 DEF Made
    <2>5. OneOwner'
      BY <1>0, <1>a, <1>b, <2>1, <2>2, <2>3 DEF OneOwner, Session!Changing, Session!Ids
    <2>6. Alone'
      BY <1>0, <2>1, <2>3 DEF Alone, Session!Changing
    <2>7. StoredUnderItsId'
      BY <1>0, <1>a, <2>1, <2>2, <2>3 DEF StoredUnderItsId, Alone, Session!Changing
    <2>8. RetiredForGood'
      BY <1>0, <1>a, <1>b, <2>1, <2>2, <2>3 DEF RetiredForGood, Session!Changing, Session!Ids
    <2>. QED
      BY <2>4, <2>5, <2>6, <2>7, <2>8

  <1>9. ASSUME NEW r \in Requests, Session!RefreshSave(r) \/ Session!SaveToResponse(r)
        PROVE  Made' /\ OneOwner' /\ Alone' /\ StoredUnderItsId' /\ RetiredForGood'
    BY <1>9, ResaveInv
  <1>10. ASSUME NEW r \in Requests, Session!Respond(r)
        PROVE  Made' /\ OneOwner' /\ Alone' /\ StoredUnderItsId' /\ RetiredForGood'
    BY <1>0, <1>10, <1>b DEF Made, OneOwner, Alone, StoredUnderItsId, RetiredForGood,
       Session!Changing, Session!Respond, Session!sessions, Session!history
  <1>11. CASE UNCHANGED sessionVars
    BY <1>0, <1>11 DEF Made, OneOwner, Alone, StoredUnderItsId, RetiredForGood, sessionVars
  <1>. QED
    BY <1>1, <1>2, <1>3, <1>4, <1>5, <1>6, <1>7, <1>8, <1>9, <1>10, <1>11
    DEF Session!Next, Session!RequestStep

\* What the parts of the invariant say of ids that were replaced or ended.
LEMMA SessionInvImplies ==
    ASSUME Session!SessionAssumption, SessionInv
    PROVE  Session!RetiredIdIsDead
  <1>. SUFFICES ASSUME NEW i \in Session!Ids, storage[i] # 0
                PROVE  /\ storage[i] \notin raced =>
                            /\ i \notin retired
                            /\ \A j \in Session!Ids : storage[j] = storage[i] => j = i
                       /\ \A r \in Requests :
                            requestPc[r] \in Session!Changing /\ cookie[r] = i
                              => session[r] = storage[i]
    BY DEF Session!RetiredIdIsDead
  <1>1. storage[i] \notin raced => i \notin retired
    BY DEF SessionInv, RetiredForGood
  <1>2. ASSUME storage[i] \notin raced, NEW j \in Session!Ids, storage[j] = storage[i]
        PROVE  j = i
    BY <1>2 DEF SessionInv, StoredUnderItsId
  <1>3. ASSUME NEW r \in Requests, requestPc[r] \in Session!Changing, cookie[r] = i
        PROVE  session[r] = storage[i]
    BY <1>3 DEF SessionInv, OneOwner
  <1>. QED
    BY <1>1, <1>2, <1>3

-----------------------------------------------------------------------------
\* The policies.

MemberOf(P, g) ==
    \E m \in P : Pool[m].Subject = User /\ Pool[m].Resource = g

\* What a policy must be to be among those that a check finds.
Concerns(P) ==
    {p \in P : /\ Pool[p].Resource = Resource
               /\ \/ Pool[p].Subject = User /\ Resource \notin Groups
                  \/ Pool[p].Subject \in Groups /\ MemberOf(P, Pool[p].Subject)}

Held(s)  == {s[k] : k \in DOMAIN s}
Todo(c)  == Held(toFollow[c])
Found(c) == Held(found[c])
Ahead(c) == {array[k] : k \in reading[c]..length[c]}

\* A check begins with nothing.
BeginsClean(c) ==
    /\ checkPc[c] # "find" => toFollow[c] = <<>>
    /\ checkPc[c] = "idle" => subject[c] = User /\ reading[c] = 1 /\ found[c] = <<>>

\* A check that no RemovePolicy ran beside.
Undisturbed(c) == checkPc[c] = "find" /\ c \notin beside

\* What a check holds, and what it has yet to read, was there while it ran.
SeenByCheck(c) ==
    Undisturbed(c) =>
        /\ ~Policy!Removes
        /\ length[c] <= len
        /\ \A k \in 1..len : array[k] \in during[c]
        /\ \A p \in Todo(c) : p \in during[c] /\ Pool[p].Subject = User
        /\ Found(c) \subseteq Concerns(during[c])
        /\ subject[c] # User => subject[c] \in Groups /\ MemberOf(during[c], subject[c])

\* What was there all the while lies in what the check reads.
StaysInReach(c) ==
    Undisturbed(c) => \A p \in stable[c] : \E k \in 1..length[c] : array[k] = p

\* The check has followed the user's policy p: it has it, or those of the group.
Followed(c, p) ==
    IF Pool[p].Resource \in Groups
    THEN \A q \in stable[c] :
            Pool[q].Subject = Pool[p].Resource /\ Pool[q].Resource = Resource =>
                q \in Found(c) \/ (subject[c] = Pool[p].Resource /\ q \in Ahead(c))
    ELSE Pool[p].Resource = Resource => p \in Found(c)

\* A check forgets none of the user's policies.
NoneForgotten(c) ==
    Undisturbed(c) =>
        \A p \in stable[c] : Pool[p].Subject = User =>
            \/ p \in Todo(c)
            \/ subject[c] = User /\ p \in Ahead(c)
            \/ Followed(c, p)

Obeyed(c) ==
    checkPc[c] = "allowed" /\ c \notin beside =>
        \E q \in Policy!Applying(during[c]) :
            /\ Pool[q].Effect = "allow"
            /\ \A p \in Policy!Applying(stable[c]) :
                  Pool[p].Effect = "deny" => Pool[q].Priority <= Pool[p].Priority

CheckInv(c) ==
    /\ BeginsClean(c) /\ SeenByCheck(c) /\ StaysInReach(c) /\ NoneForgotten(c) /\ Obeyed(c)

PolicyInv == Policy!PolicyTypeOK /\ \A c \in Checkers : CheckInv(c)

LEMMA PolicyInitInv ==
    ASSUME Policy!PolicyAssumption
    PROVE  Policy!Init => PolicyInv
  <1>. SUFFICES ASSUME Policy!Init PROVE PolicyInv
    OBVIOUS
  <1>1. DOMAIN Pool = 1..Len(Pool) /\ Len(Pool) \in Nat
    BY DEF Policy!PolicyAssumption
  <1>2. Policy!PolicyTypeOK
    BY <1>1 DEF Policy!Init, Policy!PolicyTypeOK, Policy!Ids, Policy!NoOne
  <1>. QED
    BY <1>2 DEF PolicyInv, CheckInv, Policy!Init, BeginsClean, SeenByCheck, StaysInReach,
       NoneForgotten, Undisturbed, Obeyed

LEMMA PolicyNextTypeOK ==
    ASSUME Policy!PolicyAssumption, Policy!PolicyTypeOK, [Policy!Next]_policyVars
    PROVE  Policy!PolicyTypeOK'
  <1>0. DOMAIN Pool = 1..Len(Pool) /\ Len(Pool) \in Nat
    BY DEF Policy!PolicyAssumption
  <1>. USE DEF Policy!PolicyTypeOK, Policy!Ids
  <1>1. ASSUME NEW p \in Policy!Ids, Policy!AddPolicy(p) PROVE Policy!PolicyTypeOK'
    BY <1>0, <1>1 DEF Policy!AddPolicy, Policy!Noted, Policy!check
  <1>2. ASSUME NEW p \in Policy!Ids, Policy!UpdatePolicy(p) PROVE Policy!PolicyTypeOK'
    BY <1>0, <1>2 DEF Policy!UpdatePolicy, Policy!Noted, Policy!check
  <1>3. ASSUME NEW r \in Removers, Policy!RemovePolicy(r) PROVE Policy!PolicyTypeOK'
    <2>1. PICK k \in 1..len :
             /\ removing' = [removing EXCEPT ![r] = [at |-> k, len |-> len]]
             /\ stable' = [c \in Checkers |-> stable[c] \ {array[k]}]
      BY <1>3 DEF Policy!RemovePolicy
    <2>2. k \in 1..Len(Pool) /\ len \in 1..Len(Pool)
      BY <1>0
    <2>3. [at |-> k, len |-> len] \in [at : 1..Len(Pool), len : 1..Len(Pool)]
      BY <2>2
    <2>4. removing' \in [Removers -> {Policy!NoOne} \cup [at : 1..Len(Pool),
            len : 1..Len(Pool)]]
      BY <2>1, <2>3
    <2>5. beside' \subseteq Checkers
      BY <1>3 DEF Policy!RemovePolicy
    <2>. QED
      BY <1>3, <2>1, <2>4, <2>5 DEF Policy!RemovePolicy, Policy!check
  <1>4. ASSUME NEW r \in Removers, Policy!Shift(r) PROVE Policy!PolicyTypeOK'
    <2>. DEFINE k == removing[r].at
    <2>1. removing[r] \in [at : 1..Len(Pool), len : 1..Len(Pool)]
      BY <1>4 DEF Policy!Shift
    <2>2. k \in 1..Len(Pool) /\ removing[r].len \in 1..Len(Pool)
      BY <2>1
    <2>3. array' \in [Policy!Ids -> Policy!Ids] /\ len' \in 0..Len(Pool)
      <3>1. CASE k < removing[r].len
        <4>1. array' = [array EXCEPT ![k] = array[k + 1]] /\ len' = len
          BY <1>4, <3>1 DEF Policy!Shift
        <4>2. k \in Policy!Ids /\ k + 1 \in Policy!Ids
          BY <1>0, <2>2, <3>1
        <4>. QED
          BY <4>1, <4>2
      <3>2. CASE ~(k < removing[r].len)
        <4>1. array' = array /\ len' = k - 1
          BY <1>4, <3>2 DEF Policy!Shift
        <4>. QED
          BY <1>0, <2>2, <4>1
      <3>. QED
        BY <3>1, <3>2
    <2>4. CASE k < removing[r].len
      <3>1. removing' = [removing EXCEPT ![r].at = k + 1] /\ k + 1 \in 1..Len(Pool)
        BY <1>0, <1>4, <2>2, <2>4 DEF Policy!Shift
      <3>2. [removing[r] EXCEPT !.at = k + 1] \in [at : 1..Len(Pool), len : 1..Len(Pool)]
        BY <2>1, <3>1
      <3>3. removing' \in [Removers -> {Policy!NoOne} \cup [at : 1..Len(Pool),
              len : 1..Len(Pool)]]
        BY <3>1, <3>2
      <3>. QED
        BY <1>4, <2>3, <3>3 DEF Policy!Shift, Policy!check, Policy!history
    <2>5. CASE ~(k < removing[r].len)
      <3>1. removing' = [removing EXCEPT ![r] = Policy!NoOne]
        BY <1>4, <2>5 DEF Policy!Shift
      <3>. QED
        BY <1>4, <2>3, <3>1 DEF Policy!Shift, Policy!check, Policy!history
    <2>. QED
      BY <2>4, <2>5
  <1>5. ASSUME NEW c \in Checkers, Policy!Check(c) PROVE Policy!PolicyTypeOK'
    <2>1. Policy!List \subseteq Policy!Ids
      <3>1. len \in Nat /\ len <= Len(Pool)
        BY <1>0
      <3>2. \A k \in 1..len : k \in Policy!Ids
        BY <1>0, <3>1
      <3>3. \A k \in 1..len : array[k] \in Policy!Ids
        BY <3>2
      <3>. QED
        BY <3>3 DEF Policy!List
    <2>. QED
      BY <1>5, <2>1 DEF Policy!Check, Policy!memory
  <1>6. ASSUME NEW c \in Checkers, Policy!Read(c) PROVE Policy!PolicyTypeOK'
    <2>1. reading[c] \in Policy!Ids /\ array[reading[c]] \in Policy!Ids
      BY <1>0, <1>6 DEF Policy!Read
    <2>2. /\ \E s \in Seq(Policy!Ids) : toFollow' = [toFollow EXCEPT ![c] = s]
          /\ \E s \in Seq(Policy!Ids) : found' = [found EXCEPT ![c] = s]
      <3>1. /\ toFollow[c] \in Seq(Policy!Ids) /\ found[c] \in Seq(Policy!Ids)
            /\ Append(toFollow[c], array[reading[c]]) \in Seq(Policy!Ids)
            /\ Append(found[c], array[reading[c]]) \in Seq(Policy!Ids)
        BY <2>1
      <3>. QED
        BY <1>6, <3>1 DEF Policy!Read
    <2>3. reading' \in [Checkers -> Nat \ {0}]
      BY <1>6 DEF Policy!Read
    <2>4. toFollow' \in [Checkers -> Seq(Policy!Ids)]
      BY <2>2
    <2>5. found' \in [Checkers -> Seq(Policy!Ids)]
      BY <2>2
    <2>6. UNCHANGED <<array, len, added, removing, checkPc, subject, length, stable, during,
            beside>>
      BY <1>6 DEF Policy!Read, Policy!memory, Policy!history
    <2>. QED
      BY <2>3, <2>4, <2>5, <2>6
  <1>7. ASSUME NEW c \in Checkers, Policy!Follow(c) PROVE Policy!PolicyTypeOK'
    <2>1. toFollow[c] \in Seq(Policy!Ids) /\ toFollow[c] # <<>>
      BY <1>7 DEF Policy!Follow
    <2>2. Head(toFollow[c]) \in Policy!Ids /\ Tail(toFollow[c]) \in Seq(Policy!Ids)
      BY <2>1
    <2>3. /\ toFollow' = [toFollow EXCEPT ![c] = Tail(toFollow[c])]
          /\ \E s \in Seq(Policy!Ids) : found' = [found EXCEPT ![c] = s]
          /\ \E k \in Nat \ {0} : reading' = [reading EXCEPT ![c] = k]
          /\ \E k \in 0..Len(Pool) : length' = [length EXCEPT ![c] = k]
      <3>1. toFollow' = [toFollow EXCEPT ![c] = Tail(toFollow[c])]
        BY <1>7 DEF Policy!Follow
      <3>2. /\ found[c] \in Seq(Policy!Ids) /\ Append(found[c], Head(toFollow[c]))
                 \in Seq(Policy!Ids)
            /\ found = [found EXCEPT ![c] = found[c]]
                 /\ reading = [reading EXCEPT ![c] = reading[c]]
            /\ length = [length EXCEPT ![c] = length[c]] /\ reading[c] \in Nat \ {0}
            /\ length[c] \in 0..Len(Pool) /\ len \in 0..Len(Pool) /\ 1 \in Nat \ {0}
        BY <2>2
      <3>. HIDE DEF Policy!PolicyTypeOK, Policy!Ids
      <3>3. \E s \in Seq(Policy!Ids) : found' = [found EXCEPT ![c] = s]
        BY <1>7, <3>2 DEF Policy!Follow
      <3>4. \E k \in Nat \ {0} : reading' = [reading EXCEPT ![c] = k]
        BY <1>7, <3>2 DEF Policy!Follow
      <3>5. \E k \in 0..Len(Pool) : length' = [length EXCEPT ![c] = k]
        BY <1>7, <3>2 DEF Policy!Follow
      <3>. QED
        BY <3>1, <3>3, <3>4, <3>5
    <2>4. subject' \in [Checkers -> {User} \cup Groups]
      <3>1. \/ subject' = subject
            \/ /\ Pool[Head(toFollow[c])].Resource \in Groups
               /\ subject' = [subject EXCEPT ![c] = Pool[Head(toFollow[c])].Resource]
        BY <1>7 DEF Policy!Follow
      <3>. QED
        BY <3>1
    <2>5. toFollow' \in [Checkers -> Seq(Policy!Ids)]
      BY <2>2, <2>3
    <2>6. found' \in [Checkers -> Seq(Policy!Ids)]
      BY <2>3
    <2>7. reading' \in [Checkers -> Nat \ {0}] /\ length' \in [Checkers -> 0..Len(Pool)]
      BY <2>3
    <2>8. UNCHANGED <<array, len, added, removing, checkPc, stable, during, beside>>
      BY <1>7 DEF Policy!Follow, Policy!memory, Policy!history
    <2>. QED
      BY <2>4, <2>5, <2>6, <2>7, <2>8
  <1>8. ASSUME NEW c \in Checkers, Policy!Decide(c) PROVE Policy!PolicyTypeOK'
    BY <1>8 DEF Policy!Decide, Policy!memory, Policy!history
  <1>9. ASSUME NEW c \in Checkers, Policy!Return(c) PROVE Policy!PolicyTypeOK'
    BY <1>0, <1>9 DEF Policy!Return, Policy!memory
  <1>10. CASE UNCHANGED policyVars
    BY <1>10 DEF policyVars
  <1>. QED
    BY <1>1, <1>2, <1>3, <1>4, <1>5, <1>6, <1>7, <1>8, <1>9, <1>10 DEF Policy!Next

\* What a sequence holds after Append, and before Tail.
LEMMA HeldAfterAppend ==
    ASSUME NEW S, NEW s \in Seq(S), NEW e \in S
    PROVE  Held(Append(s, e)) = Held(s) \cup {e}
  <1>1. /\ DOMAIN s = 1..Len(s) /\ DOMAIN Append(s, e) = 1..(Len(s) + 1) /\ Len(s) \in Nat
        /\ \A k \in 1..Len(s) : Append(s, e)[k] = s[k]
        /\ Append(s, e)[Len(s) + 1] = e
    OBVIOUS
  <1>2. \A k \in DOMAIN Append(s, e) : k \in DOMAIN s \/ k = Len(s) + 1
    BY <1>1
  <1>3. DOMAIN s \subseteq DOMAIN Append(s, e) /\ Len(s) + 1 \in DOMAIN Append(s, e)
    BY <1>1
  <1>. QED
    BY <1>1, <1>2, <1>3 DEF Held

LEMMA HeldBeforeTail ==
    ASSUME NEW S, NEW s \in Seq(S), s # <<>>
    PROVE  Held(s) = {Head(s)} \cup Held(Tail(s))
  <1>1. /\ DOMAIN s = 1..Len(s) /\ DOMAIN Tail(s) = 1..(Len(s) - 1) /\ Len(s) \in Nat \ {0}
        /\ \A k \in 1..(Len(s) - 1) : Tail(s)[k] = s[k + 1]
        /\ Head(s) = s[1]
    OBVIOUS
  <1>2. \A k \in DOMAIN s : k = 1 \/ (k - 1 \in DOMAIN Tail(s) /\ Tail(s)[k - 1] = s[k])
    BY <1>1
  <1>3. \A k \in DOMAIN Tail(s) : k + 1 \in DOMAIN s /\ Tail(s)[k] = s[k + 1]
    BY <1>1
  <1>4. 1 \in DOMAIN s
    BY <1>1
  <1>5. ASSUME NEW x \in {s[k] : k \in DOMAIN s}
        PROVE  x \in {Head(s)} \cup {Tail(s)[k] : k \in DOMAIN Tail(s)}
    <2>1. PICK k \in DOMAIN s : x = s[k]
      OBVIOUS
    <2>. QED
      BY <1>1, <1>2, <2>1
  <1>6. ASSUME NEW x \in {Head(s)} \cup {Tail(s)[k] : k \in DOMAIN Tail(s)}
        PROVE  x \in {s[k] : k \in DOMAIN s}
    BY <1>1, <1>3, <1>4
  <1>. QED
    BY <1>5, <1>6 DEF Held

LEMMA MoreConcerns ==
    ASSUME NEW P, NEW Q, P \subseteq Q
    PROVE  Concerns(P) \subseteq Concerns(Q) /\ Policy!Applying(P) \subseteq Policy!Applying(Q)
  BY DEF Concerns, MemberOf, Policy!Applying

\* A step that is not the check's leaves it what it has.
LEMMA CheckStands ==
    ASSUME NEW c \in Checkers, CheckInv(c), Policy!PolicyTypeOK,
           checkPc'[c] = checkPc[c], subject'[c] = subject[c], reading'[c] = reading[c],
           length'[c] = length[c], toFollow'[c] = toFollow[c], found'[c] = found[c],
           stable'[c] \subseteq stable[c], during[c] \subseteq during'[c],
           c \in beside => c \in beside',
           Undisturbed(c)' =>
              /\ ~Policy!Removes' /\ len' \in Nat /\ len <= len'
              /\ \A k \in 1..len' : array'[k] \in during'[c]
              /\ \A k \in 1..len : array'[k] = array[k] \/ array[k] \notin stable'[c]
    PROVE  CheckInv(c)'
  <1>1. Todo(c)' = Todo(c) /\ Found(c)' = Found(c) /\ (Undisturbed(c)' => Undisturbed(c))
    BY DEF Todo, Found, Undisturbed
  <1>2. BeginsClean(c)'
    BY DEF CheckInv, BeginsClean
  <1>3. Concerns(during[c]) \subseteq Concerns(during'[c])
    BY MoreConcerns
  <1>4. SeenByCheck(c)'
    <2>1. \A g : MemberOf(during[c], g) => MemberOf(during'[c], g)
      BY DEF MemberOf
    <2>2. len \in Nat /\ length[c] \in Nat
      BY DEF Policy!PolicyTypeOK
    <2>. QED
      BY <1>1, <1>3, <2>1, <2>2 DEF CheckInv, SeenByCheck
  <1>5. ASSUME Undisturbed(c)', NEW p \in stable'[c], NEW k \in 1..length[c], array[k] = p
        PROVE  array'[k] = p
    <2>1. length[c] \in Nat /\ len \in Nat /\ length[c] <= len
      BY <1>1, <1>5 DEF CheckInv, SeenByCheck, Policy!PolicyTypeOK
    <2>. QED
      BY <1>5, <2>1
  <1>6. StaysInReach(c)'
    BY <1>1, <1>5 DEF CheckInv, StaysInReach
  <1>7. ASSUME Undisturbed(c)', NEW p \in stable'[c], p \in Ahead(c) PROVE p \in Ahead(c)'
    <2>1. PICK k \in reading[c]..length[c] : array[k] = p
      BY <1>7 DEF Ahead
    <2>2. k \in 1..length[c]
      BY DEF Policy!PolicyTypeOK
    <2>. QED
      BY <1>5, <1>7, <2>1, <2>2 DEF Ahead
  <1>8. NoneForgotten(c)'
    <2>. SUFFICES ASSUME Undisturbed(c)', NEW p \in stable'[c], Pool[p].Subject = User,
                         p \notin Todo(c)', ~(subject'[c] = User /\ p \in Ahead(c)')
                  PROVE  Followed(c, p)'
      BY DEF NoneForgotten
    <2>1. Followed(c, p)
      BY <1>1, <1>7 DEF CheckInv, NoneForgotten
    <2>. QED
      BY <1>1, <1>7, <2>1 DEF Followed
  <1>9. Obeyed(c)'
    <2>1. Policy!Applying(during[c]) \subseteq Policy!Applying(during'[c])
      BY MoreConcerns
    <2>2. Policy!Applying(stable'[c]) \subseteq Policy!Applying(stable[c])
      BY MoreConcerns
    <2>. QED
      BY <2>1, <2>2 DEF CheckInv, Obeyed
  <1>. QED
    BY <1>2, <1>4, <1>6, <1>8, <1>9 DEF CheckInv

LEMMA PolicyAddInv ==
    ASSUME Policy!PolicyAssumption, PolicyInv, NEW p \in Policy!Ids,
           Policy!AddPolicy(p) \/ Policy!UpdatePolicy(p), NEW c \in Checkers
    PROVE  CheckInv(c)'
  <1>1. /\ Policy!PolicyTypeOK /\ CheckInv(c)
        /\ DOMAIN Pool = 1..Len(Pool) /\ Len(Pool) \in Nat
    BY DEF PolicyInv, Policy!PolicyAssumption
  <1>2. /\ \A r \in Removers : removing'[r] = removing[r]
        /\ UNCHANGED <<checkPc, subject, reading, length, toFollow, found, beside>>
        /\ during'[c] = during[c] \cup {p}
    BY <1>1 DEF Policy!PolicyTypeOK, Policy!AddPolicy, Policy!UpdatePolicy, Policy!Noted,
       Policy!check
  <1>3. len \in Nat /\ array \in [1..Len(Pool) -> Policy!Ids] /\ len <= Len(Pool)
    BY <1>1 DEF Policy!PolicyTypeOK, Policy!Ids
  <1>4. ASSUME Undisturbed(c)' PROVE ~Policy!Removes' /\ \A k \in 1..len : array[k]
                 \in during[c]
    BY <1>1, <1>2, <1>4 DEF Undisturbed, CheckInv, SeenByCheck, Policy!Removes
  <1>5. CASE Policy!AddPolicy(p)
    <2>1. /\ array' = [array EXCEPT ![len + 1] = p] /\ len' = len + 1 /\ len + 1 <= Len(Pool)
          /\ stable'[c] = stable[c]
      BY <1>1, <1>3, <1>5 DEF Policy!PolicyTypeOK, Policy!AddPolicy, Policy!Noted
    <2>2. \A k \in 1..len' : array'[k] = IF k = len + 1 THEN p ELSE array[k]
      BY <1>3, <2>1
    <2>3. ASSUME Undisturbed(c)'
          PROVE  /\ ~Policy!Removes' /\ len' \in Nat /\ len <= len'
                 /\ \A k \in 1..len' : array'[k] \in during'[c]
                 /\ \A k \in 1..len : array'[k] = array[k] \/ array[k] \notin stable'[c]
      BY <1>2, <1>3, <1>4, <2>1, <2>2, <2>3
    <2>. QED
      BY <1>1, <1>2, <2>1, <2>3, CheckStands
  <1>6. CASE Policy!UpdatePolicy(p)
    <2>1. PICK j \in 1..len : /\ array' = [array EXCEPT ![j] = p] /\ len' = len
                              /\ stable'[c] = stable[c] \ {array[j]}
      BY <1>1, <1>6 DEF Policy!PolicyTypeOK, Policy!UpdatePolicy, Policy!Noted
    <2>2. \A k \in 1..len' : array'[k] = IF k = j THEN p ELSE array[k]
      BY <1>3, <2>1
    <2>3. ASSUME Undisturbed(c)'
          PROVE  /\ ~Policy!Removes' /\ len' \in Nat /\ len <= len'
                 /\ \A k \in 1..len' : array'[k] \in during'[c]
                 /\ \A k \in 1..len : array'[k] = array[k] \/ array[k] \notin stable'[c]
      BY <1>2, <1>3, <1>4, <2>1, <2>2, <2>3
    <2>. QED
      BY <1>1, <1>2, <2>1, <2>3, CheckStands
  <1>. QED
    BY <1>5, <1>6

LEMMA PolicyRemoveInv ==
    ASSUME Policy!PolicyAssumption, PolicyInv, NEW r \in Removers,
           Policy!RemovePolicy(r) \/ Policy!Shift(r), NEW c \in Checkers
    PROVE  CheckInv(c)'
  <1>1. Policy!PolicyTypeOK /\ CheckInv(c)
    BY DEF PolicyInv
  <1>2. /\ UNCHANGED <<checkPc, subject, reading, length, toFollow, found, during>>
        /\ stable'[c] \subseteq stable[c] /\ beside \subseteq beside'
    BY <1>1 DEF Policy!PolicyTypeOK, Policy!RemovePolicy, Policy!Shift, Policy!check,
       Policy!history
  <1>3. ~Undisturbed(c)'
    <2>1. CASE Policy!RemovePolicy(r)
      BY <2>1 DEF Policy!RemovePolicy, Policy!check, Undisturbed
    <2>2. CASE Policy!Shift(r)
      BY <1>1, <2>2 DEF Policy!Shift, Policy!check, Policy!history, Undisturbed, Policy!Removes,
         CheckInv, SeenByCheck
    <2>. QED
      BY <2>1, <2>2
  <1>. QED
    BY <1>1, <1>2, <1>3, CheckStands

LEMMA PolicyOtherInv ==
    ASSUME PolicyInv, NEW b \in Checkers, NEW c \in Checkers, b # c,
           Policy!Check(b) \/ Policy!Read(b) \/ Policy!Follow(b) \/ Policy!Decide(b)
              \/ Policy!Return(b)
    PROVE  CheckInv(c)'
  <1>1. Policy!PolicyTypeOK /\ CheckInv(c)
    BY DEF PolicyInv
  <1>2. /\ UNCHANGED <<array, len, removing>> /\ (c \in beside' <=> c \in beside)
        /\ checkPc'[c] = checkPc[c] /\ subject'[c] = subject[c] /\ reading'[c] = reading[c]
        /\ length'[c] = length[c] /\ toFollow'[c] = toFollow[c] /\ found'[c] = found[c]
        /\ stable'[c] = stable[c] /\ during'[c] = during[c]
    <2>. USE <1>1 DEF Policy!PolicyTypeOK, Policy!memory, Policy!check, Policy!history
    <2>1. CASE Policy!Check(b)
      BY <2>1 DEF Policy!Check
    <2>2. CASE Policy!Read(b)
      BY <2>2 DEF Policy!Read
    <2>3. CASE Policy!Follow(b)
      <3>1. /\ UNCHANGED <<array, len, removing, checkPc, stable, during, beside>>
            /\ toFollow'[c] = toFollow[c]
        BY <2>3 DEF Policy!Follow
      <3>2. CASE Pool[Head(toFollow[b])].Resource \in Groups
        <4>1. /\ subject' = [subject EXCEPT ![b] = Pool[Head(toFollow[b])].Resource]
              /\ reading' = [reading EXCEPT ![b] = 1] /\ length' = [length EXCEPT ![b] = len]
              /\ found' = found
          BY <2>3, <3>2 DEF Policy!Follow
        <4>. QED
          BY <3>1, <4>1
      <3>3. CASE Pool[Head(toFollow[b])].Resource \notin Groups
        BY <2>3, <3>1, <3>3 DEF Policy!Follow
      <3>. QED
        BY <3>2, <3>3
    <2>4. CASE Policy!Decide(b)
      BY <2>4 DEF Policy!Decide
    <2>5. CASE Policy!Return(b)
      BY <2>5 DEF Policy!Return
    <2>. QED
      BY <2>1, <2>2, <2>3, <2>4, <2>5
  <1>3. Undisturbed(c)' =>
              /\ ~Policy!Removes' /\ len' \in Nat /\ len <= len'
              /\ \A k \in 1..len' : array'[k] \in during'[c]
              /\ \A k \in 1..len : array'[k] = array[k] \/ array[k] \notin stable'[c]
    BY <1>1, <1>2 DEF Undisturbed, CheckInv, SeenByCheck, Policy!Removes, Policy!PolicyTypeOK
  <1>. QED
    BY <1>1, <1>2, <1>3, CheckStands

LEMMA PolicyReadInv ==
    ASSUME Policy!PolicyAssumption, PolicyInv, NEW c \in Checkers, Policy!Read(c)
    PROVE  CheckInv(c)'
  <1>1. Policy!PolicyTypeOK /\ CheckInv(c) /\ DOMAIN Pool = 1..Len(Pool) /\ Len(Pool) \in Nat
    BY DEF PolicyInv, Policy!PolicyAssumption
  <1>. DEFINE p == array[reading[c]]
              own == subject[c] = User /\ Pool[p].Subject = User
              hit == /\ subject[c] # User /\ Pool[p].Subject = subject[c]
                     /\ Pool[p].Resource = Resource
  <1>2. /\ UNCHANGED <<array, len, removing, checkPc, subject, length, stable, during, beside>>
        /\ checkPc[c] = "find" /\ reading[c] \in 1..length[c] /\ length[c] \in Nat
        /\ reading'[c] = reading[c] + 1
        /\ toFollow'[c] = IF own THEN Append(toFollow[c], p) ELSE toFollow[c]
        /\ found'[c] = IF hit THEN Append(found[c], p) ELSE found[c]
        /\ toFollow[c] \in Seq(Policy!Ids) /\ found[c] \in Seq(Policy!Ids)
    BY <1>1 DEF Policy!PolicyTypeOK, Policy!Read, Policy!memory, Policy!history
  <1>2p. p \in Policy!Ids
    BY <1>1, <1>2 DEF Policy!PolicyTypeOK, Policy!Ids
  <1>3. Todo(c)' = IF own THEN Todo(c) \cup {p} ELSE Todo(c)
    <2>1. Todo(c)' = Held(toFollow'[c])
      BY DEF Todo
    <2>2. CASE own
      BY <1>2, <1>2p, <2>1, <2>2, HeldAfterAppend DEF Todo
    <2>3. CASE ~own
      BY <1>2, <2>1, <2>3 DEF Todo
    <2>. QED
      BY <2>2, <2>3
  <1>4. Found(c)' = IF hit THEN Found(c) \cup {p} ELSE Found(c)
    <2>1. Found(c)' = Held(found'[c])
      BY DEF Found
    <2>2. CASE hit
      BY <1>2, <1>2p, <2>1, <2>2, HeldAfterAppend DEF Found
    <2>3. CASE ~hit
      BY <1>2, <2>1, <2>3 DEF Found
    <2>. QED
      BY <2>2, <2>3
  <1>5. /\ Ahead(c) = {p} \cup Ahead(c)'
        /\ Undisturbed(c)' = Undisturbed(c) /\ Policy!Removes' = Policy!Removes
    <2>1. Ahead(c) = {array[k] : k \in reading[c]..length[c]}
      BY DEF Ahead
    <2>2. Ahead(c)' = {array[k] : k \in (reading[c] + 1)..length[c]}
      BY <1>2 DEF Ahead
    <2>. QED
      BY <1>2, <2>1, <2>2 DEF Undisturbed, Policy!Removes
  <1>6. BeginsClean(c)' /\ Obeyed(c)' /\ StaysInReach(c)'
    BY <1>1, <1>2, <1>5 DEF CheckInv, BeginsClean, Obeyed, StaysInReach
  <1>7. SeenByCheck(c)'
    <2>. SUFFICES ASSUME Undisturbed(c) PROVE SeenByCheck(c)'
      BY <1>5 DEF SeenByCheck
    <2>1. p \in during[c] /\ reading[c] \in 1..len
      BY <1>1, <1>2 DEF CheckInv, SeenByCheck, Policy!PolicyTypeOK
    <2>2. hit => p \in Concerns(during[c])
      BY <1>1, <2>1 DEF CheckInv, SeenByCheck, Concerns
    <2>. QED
      BY <1>1, <1>2, <1>3, <1>4, <1>5, <2>1, <2>2 DEF CheckInv, SeenByCheck
  <1>8. NoneForgotten(c)'
    <2>. SUFFICES ASSUME Undisturbed(c), NEW q \in stable[c], Pool[q].Subject = User,
                         q \notin Todo(c)', ~(subject[c] = User /\ q \in Ahead(c)')
                  PROVE  Followed(c, q)'
      BY <1>2, <1>5 DEF NoneForgotten
    <2>1. Followed(c, q)
      BY <1>1, <1>3, <1>5 DEF CheckInv, NoneForgotten
    <2>2. User \notin Groups
      BY DEF Policy!PolicyAssumption
    <2>. QED
      BY <1>2, <1>4, <1>5, <2>1, <2>2 DEF Followed
  <1>. QED
    BY <1>6, <1>7, <1>8 DEF CheckInv

LEMMA PolicyFollowInv ==
    ASSUME Policy!PolicyAssumption, PolicyInv, NEW c \in Checkers, Policy!Follow(c)
    PROVE  CheckInv(c)'
  <1>1. Policy!PolicyTypeOK /\ CheckInv(c)
    BY DEF PolicyInv
  <1>. DEFINE p == Head(toFollow[c])
              member == Pool[p].Resource \in Groups
              hit == ~member /\ Pool[p].Resource = Resource
  <1>2. /\ UNCHANGED <<array, len, removing, checkPc, stable, during, beside>>
        /\ checkPc[c] = "find" /\ reading[c] > length[c]
        /\ subject'[c] = IF member THEN Pool[p].Resource ELSE subject[c]
        /\ reading'[c] = IF member THEN 1 ELSE reading[c]
        /\ length'[c] = IF member THEN len ELSE length[c]
        /\ toFollow'[c] = Tail(toFollow[c])
        /\ found'[c] = IF hit THEN Append(found[c], p) ELSE found[c]
    <2>. USE <1>1 DEF Policy!PolicyTypeOK, Policy!memory, Policy!history
    <2>1. CASE member
      <3>1. /\ subject' = [subject EXCEPT ![c] = Pool[p].Resource]
            /\ reading' = [reading EXCEPT ![c] = 1] /\ length' = [length EXCEPT ![c] = len]
            /\ found' = found /\ toFollow' = [toFollow EXCEPT ![c] = Tail(@)]
            /\ UNCHANGED <<array, len, removing, checkPc, stable, during, beside>>
            /\ checkPc[c] = "find" /\ reading[c] > length[c]
        BY <2>1 DEF Policy!Follow
      <3>. QED
        BY <2>1, <3>1
    <2>2. CASE ~member
      BY <2>2 DEF Policy!Follow
    <2>. QED
      BY <2>1, <2>2
  <1>3. /\ toFollow[c] \in Seq(Policy!Ids) /\ toFollow[c] # <<>> /\ found[c] \in Seq(Policy!Ids)
        /\ len \in Nat /\ length[c] \in Nat /\ reading[c] \in Nat
    BY <1>1 DEF Policy!PolicyTypeOK, Policy!Follow
  <1>4. Todo(c) = {p} \cup Todo(c)'
    <2>1. Todo(c)' = Held(toFollow'[c])
      BY DEF Todo
    <2>. QED
      BY <1>2, <1>3, <2>1, HeldBeforeTail DEF Todo
  <1>5. Found(c)' = IF hit THEN Found(c) \cup {p} ELSE Found(c)
    <2>1. p \in Policy!Ids
      BY <1>3
    <2>2. Found(c)' = Held(found'[c])
      BY DEF Found
    <2>3. CASE hit
      BY <1>2, <1>3, <2>1, <2>2, <2>3, HeldAfterAppend DEF Found
    <2>4. CASE ~hit
      BY <1>2, <2>2, <2>4 DEF Found
    <2>. QED
      BY <2>3, <2>4
  <1>6. /\ Ahead(c) = {} /\ Undisturbed(c)' = Undisturbed(c) /\ Policy!Removes' = Policy!Removes
    BY <1>2, <1>3 DEF Ahead, Undisturbed, Policy!Removes
  <1>7. BeginsClean(c)' /\ Obeyed(c)'
    BY <1>1, <1>2 DEF CheckInv, BeginsClean, Obeyed
  <1>8. StaysInReach(c)'
    BY <1>1, <1>2, <1>3, <1>6 DEF CheckInv, StaysInReach, SeenByCheck
  <1>9. SeenByCheck(c)'
    <2>. SUFFICES ASSUME Undisturbed(c) PROVE SeenByCheck(c)'
      BY <1>6 DEF SeenByCheck
    <2>1. p \in during[c] /\ Pool[p].Subject = User
      BY <1>1, <1>4 DEF CheckInv, SeenByCheck
    <2>2. hit => p \in Concerns(during[c])
      BY <2>1 DEF Concerns
    <2>3. MemberOf(during[c], Pool[p].Resource)
      BY <2>1 DEF MemberOf
    <2>4. Found(c)' \subseteq Concerns(during[c])
      BY <1>1, <1>5, <2>2 DEF CheckInv, SeenByCheck
    <2>5. subject'[c] # User => subject'[c] \in Groups /\ MemberOf(during[c], subject'[c])
      BY <1>1, <1>2, <2>3 DEF CheckInv, SeenByCheck
    <2>. QED
      BY <1>1, <1>2, <1>3, <1>4, <1>6, <2>4, <2>5 DEF CheckInv, SeenByCheck
  <1>10. NoneForgotten(c)'
    <2>. SUFFICES ASSUME Undisturbed(c), NEW q \in stable[c], Pool[q].Subject = User,
                         q \notin Todo(c)'
                  PROVE  Followed(c, q)'
      BY <1>2, <1>6 DEF NoneForgotten
    <2>1. CASE q = p
      <3>1. CASE member
        <4>1. \A s \in stable[c] : s \in Ahead(c)'
          BY <1>2, <1>6, <1>8, <3>1 DEF StaysInReach, Ahead
        <4>. QED
          BY <1>2, <2>1, <3>1, <4>1 DEF Followed
      <3>2. CASE ~member
        BY <1>5, <2>1, <3>2 DEF Followed
      <3>. QED
        BY <3>1, <3>2
    <2>2. CASE q # p
      <3>1. Followed(c, q)
        BY <1>1, <1>4, <1>6, <2>2 DEF CheckInv, NoneForgotten
      <3>. QED
        BY <1>2, <1>5, <1>6, <3>1 DEF Followed
    <2>. QED
      BY <2>1, <2>2
  <1>. QED
    BY <1>7, <1>8, <1>9, <1>10 DEF CheckInv

\* When a check decides it has found all that was there all the while.
LEMMA PolicyDecideInv ==
    ASSUME Policy!PolicyAssumption, PolicyInv, NEW c \in Checkers, Policy!Decide(c)
    PROVE  CheckInv(c)'
  <1>1. Policy!PolicyTypeOK /\ CheckInv(c)
    BY DEF PolicyInv
  <1>2. /\ UNCHANGED <<found, toFollow, stable, during, beside, subject, reading>>
        /\ checkPc[c] = "find" /\ reading[c] > length[c] /\ toFollow[c] = <<>>
        /\ checkPc'[c] = IF \E k \in Policy!Matched(c) :
                              Policy!First(c, k) /\ Pool[found[c][k]].Effect # "deny"
                         THEN "allowed" ELSE "denied"
    BY <1>1 DEF Policy!PolicyTypeOK, Policy!Decide, Policy!history
  <1>3. ~Undisturbed(c)' /\ BeginsClean(c)'
    BY <1>2 DEF Undisturbed, BeginsClean
  <1>4. Obeyed(c)'
    <2>. SUFFICES ASSUME c \notin beside, NEW k \in Policy!Matched(c), Policy!First(c, k),
                         Pool[found[c][k]].Effect # "deny"
                  PROVE  \E q \in Policy!Applying(during[c]) :
                            /\ Pool[q].Effect = "allow"
                            /\ \A p \in Policy!Applying(stable[c]) :
                                  Pool[p].Effect = "deny" => Pool[q].Priority
                                    <= Pool[p].Priority
      BY <1>2 DEF Obeyed
    <2>1. Undisturbed(c) /\ Todo(c) = {} /\ Ahead(c) = {}
      BY <1>1, <1>2 DEF Undisturbed, Todo, Held, Ahead, Policy!PolicyTypeOK
    <2>2. /\ found[c][k] \in Found(c) /\ Pool[found[c][k]].InAction
          /\ \A j \in DOMAIN found[c] : found[c][j] \in Policy!Ids
      BY <1>1 DEF Policy!Matched, Found, Held, Policy!PolicyTypeOK
    <2>3. found[c][k] \in Policy!Applying(during[c])
      BY <1>1, <2>1, <2>2 DEF CheckInv, SeenByCheck, Concerns, MemberOf, Policy!Applying
    <2>4. Pool[found[c][k]].Effect = "allow"
      BY <2>2 DEF Policy!PolicyAssumption, Policy!Ids, Policy!Matched
    <2>5. ASSUME NEW p \in Policy!Applying(stable[c]) PROVE p \in Found(c)
      <3>1. \A m \in stable[c] : Pool[m].Subject = User => Followed(c, m)
        BY <1>1, <2>1 DEF CheckInv, NoneForgotten
      <3>2. p \in stable[c] /\ Pool[p].Resource = Resource
        BY DEF Policy!Applying
      <3>3. CASE Pool[p].Subject = User /\ Resource \notin Groups
        BY <3>1, <3>2, <3>3 DEF Followed
      <3>4. CASE /\ Pool[p].Subject \in Groups
                 /\ \E m \in stable[c] : Pool[m].Subject = User
                      /\ Pool[m].Resource = Pool[p].Subject
        BY <2>1, <3>1, <3>2, <3>4 DEF Followed
      <3>. QED
        BY <3>3, <3>4 DEF Policy!Applying
    <2>6. ASSUME NEW p \in Policy!Applying(stable[c])
          PROVE  Pool[found[c][k]].Priority <= Pool[p].Priority
      <3>1. PICK j \in DOMAIN found[c] : found[c][j] = p
        BY <2>5 DEF Found, Held
      <3>2. j \in Policy!Matched(c)
        BY <3>1 DEF Policy!Matched, Policy!Applying
      <3>3. Pool[p].Priority \in Nat /\ Pool[found[c][k]].Priority \in Nat
        BY <2>2, <3>1 DEF Policy!PolicyAssumption, Policy!Ids, Policy!Matched
      <3>. QED
        BY <3>1, <3>2, <3>3 DEF Policy!First
    <2>. QED
      BY <2>3, <2>4, <2>6
  <1>. QED
    BY <1>3, <1>4 DEF CheckInv, SeenByCheck, StaysInReach, NoneForgotten

LEMMA PolicyNextInv ==
    ASSUME Policy!PolicyAssumption, PolicyInv, [Policy!Next]_policyVars
    PROVE  PolicyInv'
  <1>0. Policy!PolicyTypeOK /\ Policy!PolicyTypeOK' /\ \A c \in Checkers : CheckInv(c)
    BY PolicyNextTypeOK DEF PolicyInv
  <1>. SUFFICES ASSUME NEW c \in Checkers PROVE CheckInv(c)'
    BY <1>0 DEF PolicyInv
  <1>1. CASE UNCHANGED policyVars
    <2>1. UNCHANGED <<array, len, removing, checkPc, subject, reading, length, toFollow, found,
                      stable, during, beside>>
      BY <1>1 DEF policyVars
    <2>2. Undisturbed(c)' =>
              /\ ~Policy!Removes' /\ len' \in Nat /\ len <= len'
              /\ \A k \in 1..len' : array'[k] \in during'[c]
              /\ \A k \in 1..len : array'[k] = array[k] \/ array[k] \notin stable'[c]
      BY <1>0, <2>1 DEF CheckInv, SeenByCheck, Undisturbed, Policy!Removes, Policy!PolicyTypeOK
    <2>. QED
      BY <1>0, <2>1, <2>2, CheckStands
  <1>2. CASE Policy!Check(c)
    <2>1. /\ UNCHANGED <<array, len, removing, subject, reading, toFollow, found>>
          /\ checkPc[c] = "idle" /\ checkPc'[c] = "find" /\ length'[c] = len
          /\ stable'[c] = Policy!List /\ during'[c] = Policy!List
          /\ c \notin beside' => ~Policy!Removes
      BY <1>0, <1>2 DEF Policy!PolicyTypeOK, Policy!Check, Policy!memory
    <2>2. /\ toFollow[c] = <<>> /\ found[c] = <<>> /\ subject[c] = User /\ reading[c] = 1
          /\ len \in Nat
      BY <1>0, <2>1 DEF CheckInv, BeginsClean, Policy!PolicyTypeOK
    <2>3. Todo(c)' = {} /\ Found(c)' = {} /\ Ahead(c)' = Policy!List
      BY <2>1, <2>2 DEF Todo, Found, Held, Ahead, Policy!List
    <2>4. BeginsClean(c)' /\ Obeyed(c)'
      BY <2>1 DEF BeginsClean, Obeyed
    <2>5. SeenByCheck(c)'
      BY <2>1, <2>2, <2>3 DEF SeenByCheck, Undisturbed, Policy!List, Policy!Removes
    <2>6. StaysInReach(c)' /\ NoneForgotten(c)'
      BY <2>1, <2>2, <2>3 DEF StaysInReach, NoneForgotten, Policy!List
    <2>. QED
      BY <2>4, <2>5, <2>6 DEF CheckInv
  <1>3. CASE Policy!Return(c)
    <2>1. /\ toFollow' = toFollow /\ checkPc[c] # "find" /\ checkPc'[c] = "idle"
          /\ subject'[c] = User /\ reading'[c] = 1 /\ found'[c] = <<>>
      <3>1. /\ checkPc[c] \in {"denied", "allowed"} /\ checkPc' = [checkPc EXCEPT ![c] = "idle"]
            /\ subject' = [subject EXCEPT ![c] = User] /\ reading' = [reading EXCEPT ![c] = 1]
            /\ found' = [found EXCEPT ![c] = <<>>] /\ toFollow' = toFollow
        BY <1>3 DEF Policy!Return
      <3>. QED
        BY <1>0, <3>1 DEF Policy!PolicyTypeOK
    <2>2. toFollow'[c] = <<>>
      BY <1>0, <2>1 DEF CheckInv, BeginsClean
    <2>3. ~Undisturbed(c)'
      BY <2>1 DEF Undisturbed
    <2>. QED
      BY <2>2, <2>3, <1>0, <2>1 DEF CheckInv, BeginsClean, SeenByCheck, StaysInReach,
         NoneForgotten, Obeyed,
         Undisturbed
  <1>. QED
    BY <1>0, <1>1, <1>2, <1>3, PolicyAddInv, PolicyRemoveInv, PolicyOtherInv, PolicyReadInv,
       PolicyFollowInv, PolicyDecideInv DEF Policy!Next, PolicyInv

LEMMA PolicyInvImplies ==
    PolicyInv => Policy!DenyIsObeyed
  BY DEF PolicyInv, CheckInv, Obeyed, Policy!DenyIsObeyed

-----------------------------------------------------------------------------
\* The repositories.

\* As many elements as there are places in an enumeration without repetition.
LEMMA Enumerated ==
    ASSUME NEW k \in Nat, NEW S, NEW f \in [1..k -> S],
           \A i, j \in 1..k : f[i] = f[j] => i = j, \A s \in S : \E i \in 1..k : f[i] = s
    PROVE  IsFiniteSet(S) /\ Cardinality(S) = k
  <1>1. f \in Bijection(1..k, S)
    BY DEF Bijection, Injection, Surjection, IsInjective
  <1>2. ExistsBijection(1..k, S)
    BY <1>1 DEF ExistsBijection
  <1>3. IsFiniteSet(1..k) /\ Cardinality(1..k) = k
    <2>1. 1 \in Int /\ k \in Int
      OBVIOUS
    <2>. QED
      BY <2>1, FS_Interval
  <1>. QED
    BY <1>2, <1>3, FS_Bijection

\* An enumeration of a finite set's length without repetition leaves nothing out.
LEMMA NothingLeftOut ==
    ASSUME NEW S, IsFiniteSet(S), NEW o \in [1..Cardinality(S) -> S],
           \A i, j \in 1..Cardinality(S) : i # j => o[i] # o[j]
    PROVE  \A s \in S : \E i \in 1..Cardinality(S) : o[i] = s
  <1>1. o \in Injection(1..Cardinality(S), S)
    BY DEF Injection, IsInjective
  <1>2. Cardinality(S) \in Nat
    BY FS_CardinalityType
  <1>3. Cardinality(1..Cardinality(S)) = Cardinality(S)
    <2>1. 1 \in Int /\ Cardinality(S) \in Int
      BY <1>2
    <2>. QED
      BY <1>2, <2>1, FS_Interval
  <1>4. o \in Surjection(1..Cardinality(S), S)
    BY <1>1, <1>3, FS_Injection
  <1>. QED
    BY <1>4 DEF Surjection

\* In a descending list k numbers are not less than the k-th.
LEMMA RankInList ==
    ASSUME NEW N \in Nat, NEW S, S \subseteq Nat, NEW o \in [1..N -> S],
           \A s \in S : \E i \in 1..N : o[i] = s, \A i, j \in 1..N : i < j => o[i] > o[j],
           NEW k \in 1..N
    PROVE  Cardinality({s \in S : s >= o[k]}) = k
  <1>. DEFINE T == {s \in S : s >= o[k]}
              f == [i \in 1..k |-> o[i]]
  <1>1. k \in Nat /\ 1..k \subseteq 1..N
    OBVIOUS
  <1>2. \A i \in 1..N : o[i] \in Nat
    OBVIOUS
  <1>3. ASSUME NEW i \in 1..k PROVE o[i] \in T
    <2>1. i < k \/ i = k
      OBVIOUS
    <2>2. o[i] \in S /\ o[i] \in Nat /\ o[k] \in Nat
      BY <1>1, <1>2
    <2>3. o[i] >= o[k]
      BY <1>1, <2>1, <2>2
    <2>. QED
      BY <2>2, <2>3
  <1>4. ASSUME NEW s \in T PROVE \E i \in 1..k : o[i] = s
    <2>1. PICK i \in 1..N : o[i] = s
      OBVIOUS
    <2>2. ~(k < i)
      BY <1>2, <2>1
    <2>. QED
      BY <2>1, <2>2
  <1>5. ASSUME NEW i \in 1..k, NEW j \in 1..k, o[i] = o[j] PROVE i = j
    <2>1. ~(i < j) /\ ~(j < i)
      BY <1>1, <1>2, <1>5
    <2>. QED
      BY <2>1
  <1>6. f \in [1..k -> T] /\ \A i \in 1..k : f[i] = o[i]
    BY <1>3
  <1>. HIDE DEF T, f
  <1>7. \A i, j \in 1..k : f[i] = f[j] => i = j
    BY <1>5, <1>6
  <1>8. \A s \in T : \E i \in 1..k : f[i] = s
    BY <1>4, <1>6
  <1>9. Cardinality(T) = k
    BY <1>1, <1>6, <1>7, <1>8, Enumerated
  <1>. QED
    BY <1>9 DEF T

\* A row that was deleted, and that nobody had found before, is dead and nobody finds it.
FoundAgain ==
    \A id0 \in dead \ overlapped : ~rows[id0].active /\ \A c \in Callers : held[c] # id0
MongoKeepsDead == backend = "mongo" => Repo!Active \cap dead = {}

\* Later rows are not of an earlier second, and in a list of rows of different seconds a row
\* comes after those that are newer.  A row that is owed comes after the pages read.
InOrder  == \A i, j \in DOMAIN rows : i <= j => rows[i].second <= rows[j].second
Distinct == \A i, j \in DOMAIN rows : rows[i].second = rows[j].second => i = j
Newer(row) == {other \in Repo!Active : other >= row}
WalkInv == walk.asked \in Nat \ {0} /\ walk.from <= walk.page
OwedAhead ==
    Distinct /\ walk.from = 1 /\ walk.asked <= MaxSize =>
        /\ owed \subseteq Repo!Active
        /\ walk.at \in {"idle", "done"} => owed = {}
        /\ \A row \in owed : Cardinality(Newer(row)) > (walk.page - 1) * walk.asked
        /\ walk.at = "counted" => owed = {} \/ walk.total = Cardinality(Repo!Active)
RepoInv ==
    /\ Repo!RepositoryTypeOK /\ FoundAgain /\ MongoKeepsDead
    /\ InOrder /\ WalkInv /\ OwedAhead

\* The operators of FiniteSets and of FiniteSetsExt, as the instance has them.
LEMMA SameCardinality ==
    ASSUME NEW S
    PROVE  Repo!Cardinality(S) = Cardinality(S)
  BY DEF Repo!Cardinality, Cardinality

LEMMA LesserOfTwo ==
    ASSUME NEW x \in Nat, NEW y \in Nat
    PROVE  Repo!Min({x, y}) = IF x <= y THEN x ELSE y
  <1>. DEFINE m == IF x <= y THEN x ELSE y
              P(z) == z \in {x, y} /\ \A w \in {x, y} : z <= w
  <1>1. P(m)
    OBVIOUS
  <1>2. \A z : P(z) => z = m
    OBVIOUS
  <1>3. P(CHOOSE z : P(z))
    BY <1>1, Zenon
  <1>. HIDE DEF P, m
  <1>4. (CHOOSE z : P(z)) = m
    BY <1>2, <1>3
  <1>5. Repo!Min({x, y}) = CHOOSE z : P(z)
    BY DEF Repo!Min, P
  <1>. QED
    BY <1>4, <1>5 DEF m

\* What the rows of a repository are, and how many are newer when there are more of them.
LEMMA ActiveAreFinite ==
    ASSUME Repo!RepositoryTypeOK
    PROVE  /\ DOMAIN rows = 1..Len(rows) /\ Len(rows) \in Nat
                /\ Repo!Active \subseteq DOMAIN rows
           /\ IsFiniteSet(Repo!Active) /\ Cardinality(Repo!Active) \in Nat
           /\ \A row : IsFiniteSet(Newer(row)) /\ Cardinality(Newer(row)) \in Nat
  <1>1. DOMAIN rows = 1..Len(rows) /\ Len(rows) \in Nat
    BY DEF Repo!RepositoryTypeOK
  <1>2. Repo!Active \in SUBSET DOMAIN rows
    BY DEF Repo!Active
  <1>3. IsFiniteSet(DOMAIN rows)
    <2>1. 1 \in Int /\ Len(rows) \in Int
      BY <1>1
    <2>. QED
      BY <1>1, <2>1, FS_Interval
  <1>4. IsFiniteSet(Repo!Active)
    BY <1>2, <1>3, FS_Subset
  <1>5. ASSUME NEW row PROVE IsFiniteSet(Newer(row))
    <2>1. Newer(row) \in SUBSET Repo!Active
      BY DEF Newer
    <2>. QED
      BY <1>4, <2>1, FS_Subset
  <1>. QED
    BY <1>1, <1>2, <1>4, <1>5, FS_CardinalityType

LEMMA RowTyped ==
    ASSUME Repo!RepositoryTypeOK
    PROVE  \A k \in DOMAIN rows : rows[k].active \in BOOLEAN /\ rows[k].second \in Nat
  <1>. DEFINE Row == [active : BOOLEAN, second : Nat]
  <1>1. rows \in Seq(Row)
    BY DEF Repo!RepositoryTypeOK
  <1>. HIDE DEF Row
  <1>2. \A k \in DOMAIN rows : rows[k] \in Row
    BY <1>1
  <1>. QED
    BY <1>2 DEF Row

LEMMA NewerAreFinite ==
    ASSUME Repo!RepositoryTypeOK', NEW row
    PROVE  IsFiniteSet(Newer(row)') /\ Cardinality(Newer(row)') \in Nat
  <1>1. Newer(row)' \in SUBSET DOMAIN rows'
    BY DEF Newer, Repo!Active
  <1>2. DOMAIN rows' = 1..Len(rows') /\ 1 \in Int /\ Len(rows') \in Int
    BY DEF Repo!RepositoryTypeOK
  <1>. QED
    BY <1>1, <1>2, FS_Interval, FS_Subset, FS_CardinalityType

LEMMA MoreAreNewer ==
    ASSUME Repo!RepositoryTypeOK, Repo!RepositoryTypeOK', Repo!Active \subseteq Repo!Active',
             NEW row
    PROVE  Cardinality(Newer(row)) <= Cardinality(Newer(row)')
  <1>1. Newer(row) \in SUBSET Newer(row)'
    BY DEF Newer
  <1>. QED
    BY <1>1, NewerAreFinite, FS_Subset

\* The k-th row of a list of rows of different seconds has k rows from itself on that are
\* newer, and every row is in the list.
LEMMA ListedByRank ==
    ASSUME Repo!RepositoryTypeOK, InOrder, Distinct, NEW o \in Repo!Orders
    PROVE  /\ o \in Seq(Repo!Active) /\ Len(o) = Cardinality(Repo!Active)
           /\ \A k \in DOMAIN o : Cardinality(Newer(o[k])) = k
           /\ \A row \in Repo!Active : \E k \in DOMAIN o : o[k] = row
  <1>. DEFINE N == Cardinality(Repo!Active)
  <1>1. N \in Nat /\ IsFiniteSet(Repo!Active) /\ Repo!Active \subseteq Nat
        /\ Repo!Active \subseteq DOMAIN rows
    BY ActiveAreFinite
  <1>2. /\ o \in [1..N -> Repo!Active] /\ \A i, j \in 1..N : i # j => o[i] # o[j]
        /\ \A i, j \in DOMAIN o : i < j => rows[o[i]].second >= rows[o[j]].second
    BY SameCardinality DEF Repo!Orders, Repo!SetToSeqs
  <1>. HIDE DEF N
  <1>3. \A row \in Repo!Active : \E i \in 1..N : o[i] = row
    BY <1>1, <1>2, NothingLeftOut DEF N
  <1>4. \A i, j \in 1..N : i < j => o[i] > o[j]
    <2>. SUFFICES ASSUME NEW i \in 1..N, NEW j \in 1..N, i < j PROVE o[i] > o[j]
      OBVIOUS
    <2>1. o[i] \in DOMAIN rows /\ o[j] \in DOMAIN rows /\ o[i] \in Nat /\ o[j] \in Nat
      BY <1>1, <1>2
    <2>2. rows[o[i]].second \in Nat /\ rows[o[j]].second \in Nat
      BY <2>1, RowTyped
    <2>3. rows[o[i]].second >= rows[o[j]].second /\ o[i] # o[j]
      BY <1>2
    <2>4. ~(o[i] < o[j])
      BY <2>1, <2>2, <2>3 DEF InOrder, Distinct
    <2>. QED
      BY <2>1, <2>3, <2>4
  <1>5. ASSUME NEW k \in 1..N PROVE Cardinality(Newer(o[k])) = k
    <2>. DEFINE S == Repo!Active
    <2>1. /\ N \in Nat /\ S \subseteq Nat /\ o \in [1..N -> S] /\ \A s \in S : \E i
               \in 1..N : o[i] = s
          /\ \A i, j \in 1..N : i < j => o[i] > o[j]
      BY <1>1, <1>2, <1>3, <1>4
    <2>. HIDE DEF S
    <2>2. Cardinality({s \in S : s >= o[k]}) = k
      BY <2>1, RankInList
    <2>. QED
      BY <2>2 DEF Newer, S
  <1>6. o \in Seq(Repo!Active) /\ Len(o) = N /\ DOMAIN o = 1..N
    BY <1>1, <1>2
  <1>. QED
    BY <1>2, <1>3, <1>5, <1>6 DEF N

LEMMA RepoInitInv ==
    ASSUME Repo!RepositoryAssumption
    PROVE  Repo!Init => RepoInv
  <1>. SUFFICES ASSUME Repo!Init PROVE RepoInv
    OBVIOUS
  <1>1. /\ rows = <<>> /\ held = [c \in Callers |-> 0] /\ dead = {} /\ overlapped = {}
        /\ walk = [at |-> "idle", from |-> 1, page |-> 1, asked |-> 1, total |-> 0]
        /\ owed = {} /\ walks = 0 /\ backend \in {"gorm", "mongo"}
    BY DEF Repo!Init, Repo!NoWalk
  <1>2. DOMAIN rows = {} /\ Len(rows) = 0 /\ rows \in Seq([active : BOOLEAN, second : Nat])
    BY <1>1
  <1>3. /\ walk \in [at : {"idle", "asking", "counted", "done"}, from : {0, 1}, page : Nat,
                     asked : Nat, total : Nat]
        /\ walk.at = "idle" /\ walk.from = 1 /\ walk.page = 1 /\ walk.asked = 1
    BY <1>1
  <1>4. held \in [Callers -> 0..0] /\ walks \in 0..MaxWalks
    BY <1>1 DEF Repo!RepositoryAssumption
  <1>5. Repo!RepositoryTypeOK
    BY <1>1, <1>2, <1>3, <1>4 DEF Repo!RepositoryTypeOK
  <1>6. FoundAgain /\ MongoKeepsDead /\ InOrder
    BY <1>1, <1>2 DEF FoundAgain, MongoKeepsDead, InOrder
  <1>7. WalkInv /\ OwedAhead
    BY <1>1, <1>3 DEF WalkInv, OwedAhead
  <1>. QED
    BY <1>5, <1>6, <1>7 DEF RepoInv

LEMMA RowAppended ==
    ASSUME NEW s \in Seq([active : BOOLEAN, second : Nat]), NEW r \in [active : BOOLEAN,
             second : Nat]
    PROVE  /\ Append(s, r) \in Seq([active : BOOLEAN, second : Nat]) /\ Len(Append(s,
                r)) = Len(s) + 1
           /\ \A k \in DOMAIN s : Append(s, r)[k] = s[k] /\ k <= Len(s)
           /\ Append(s, r)[Len(s) + 1] = r
           /\ \A k \in DOMAIN Append(s, r) : k \in DOMAIN s \/ k = Len(s) + 1
           /\ DOMAIN s \subseteq DOMAIN Append(s, r) /\ Len(s) \in Nat
           /\ DOMAIN Append(s, r) = 1..(Len(s) + 1) /\ DOMAIN s = 1..Len(s)
  OBVIOUS

LEMMA RepoCreateInv ==
    ASSUME Repo!RepositoryAssumption, RepoInv, Repo!Create
    PROVE  RepoInv'
  <1>0. /\ Repo!RepositoryTypeOK /\ FoundAgain /\ MongoKeepsDead /\ InOrder /\ WalkInv
             /\ OwedAhead
    BY DEF RepoInv
  <1>. DEFINE Row == [active : BOOLEAN, second : Nat]
  <1>1. PICK s \in {0, 1} :
          rows' = Append(rows, [active |-> TRUE,
                                second |-> (IF rows = <<>> THEN 0 ELSE Repo!Last(rows).second) + s])
    BY DEF Repo!Create
  <1>. DEFINE last == IF rows = <<>> THEN 0 ELSE Repo!Last(rows).second
              r    == [active |-> TRUE, second |-> last + s]
              new  == Len(rows) + 1
  <1>2. /\ UNCHANGED <<backend, held, dead, overlapped, walk, walks>>
        /\ owed' = IF walk.at = "counted" THEN {} ELSE owed
    BY DEF Repo!Create
  <1>3. rows \in Seq(Row) /\ Len(rows) \in Nat /\ DOMAIN rows = 1..Len(rows)
    BY <1>0 DEF Repo!RepositoryTypeOK
  <1>4. last \in Nat /\ \A k \in DOMAIN rows : rows[k].second <= last
    <2>1. CASE rows = <<>>
      BY <2>1
    <2>2. CASE rows # <<>>
      <3>1. last = rows[Len(rows)].second /\ Len(rows) \in DOMAIN rows
        BY <1>3, <2>2 DEF Repo!Last
      <3>2. \A k \in DOMAIN rows : k <= Len(rows)
        BY <1>3
      <3>3. rows[Len(rows)].second \in Nat
        BY <1>0, <3>1, RowTyped
      <3>. QED
        BY <1>0, <3>1, <3>2, <3>3 DEF InOrder
    <2>. QED
      BY <2>1, <2>2
  <1>5. r \in Row /\ r.active = TRUE /\ r.second >= last
    <2>1. last + s \in Nat /\ last + s >= last
      BY <1>4
    <2>. QED
      BY <2>1
  <1>. HIDE DEF r
  <1>6. /\ rows' \in Seq(Row) /\ Len(rows') = new /\ DOMAIN rows' = 1..new
        /\ \A k \in DOMAIN rows : rows'[k] = rows[k] /\ k # new /\ k \in DOMAIN rows'
        /\ rows'[new] = r /\ \A k \in DOMAIN rows' : k \in DOMAIN rows \/ k = new
    <2>1. rows' = Append(rows, r)
      BY <1>1 DEF r
    <2>2. \A k \in DOMAIN rows : k # new
      BY <1>3
    <2>. QED
      BY <1>3, <1>5, <2>1, <2>2, RowAppended
  <1>7. Repo!Active' = Repo!Active \cup {new}
    <2>1. ASSUME NEW k PROVE k \in Repo!Active' <=> k \in Repo!Active \/ k = new
      <3>1. k \in Repo!Active' <=> k \in DOMAIN rows' /\ rows'[k].active
        BY DEF Repo!Active
      <3>2. k \in Repo!Active <=> k \in DOMAIN rows /\ rows[k].active
        BY DEF Repo!Active
      <3>3. new \in DOMAIN rows'
        BY <1>3, <1>6
      <3>. QED
        BY <1>5, <1>6, <3>1, <3>2, <3>3
    <2>. QED
      BY <2>1
  <1>8. Repo!RepositoryTypeOK'
    <2>1. held \in [Callers -> 0..new]
      BY <1>0, <1>3 DEF Repo!RepositoryTypeOK
    <2>2. dead \subseteq DOMAIN rows' /\ owed' \subseteq DOMAIN rows'
      BY <1>0, <1>2, <1>6 DEF Repo!RepositoryTypeOK
    <2>. QED
      BY <1>0, <1>2, <1>6, <2>1, <2>2 DEF Repo!RepositoryTypeOK
  <1>9. new \notin dead /\ dead \subseteq DOMAIN rows
    BY <1>0, <1>3 DEF Repo!RepositoryTypeOK
  <1>10. FoundAgain' /\ MongoKeepsDead'
    BY <1>0, <1>2, <1>6, <1>7, <1>9 DEF FoundAgain, MongoKeepsDead
  <1>11. InOrder'
    <2>. SUFFICES ASSUME NEW i \in DOMAIN rows', NEW j \in DOMAIN rows', i <= j
                  PROVE  rows'[i].second <= rows'[j].second
      BY DEF InOrder
    <2>1. CASE j \in DOMAIN rows
      <3>1. i \in DOMAIN rows
        BY <1>3, <1>6, <2>1
      <3>. QED
        BY <1>0, <1>6, <2>1, <3>1 DEF InOrder
    <2>2. CASE j = new /\ i \in DOMAIN rows
      <3>1. rows[i].second \in Nat /\ r.second \in Nat
        BY <1>0, <1>5, <2>2, RowTyped
      <3>. QED
        BY <1>4, <1>5, <1>6, <2>2, <3>1
    <2>3. CASE i = new /\ j = new
      <3>1. r.second \in Nat
        BY <1>5
      <3>. QED
        BY <1>6, <2>3, <3>1
    <2>. QED
      BY <1>6, <2>1, <2>2, <2>3
  <1>12. WalkInv'
    BY <1>0, <1>2 DEF WalkInv
  <1>13. OwedAhead'
    <2>. SUFFICES ASSUME Distinct', walk'.from = 1, walk'.asked <= MaxSize
                  PROVE  /\ owed' \subseteq Repo!Active'
                         /\ walk'.at \in {"idle", "done"} => owed' = {}
                         /\ \A row \in owed' : Cardinality(Newer(row)') > (walk'.page - 1) * walk'.asked
                         /\ walk'.at = "counted" => owed' = {}
      BY DEF OwedAhead
    <2>1. Distinct
      BY <1>6 DEF Distinct
    <2>2. /\ owed \subseteq Repo!Active /\ (walk.at \in {"idle", "done"} => owed = {})
          /\ \A row \in owed : Cardinality(Newer(row)) > (walk.page - 1) * walk.asked
      BY <1>0, <1>2, <2>1 DEF OwedAhead
    <2>3. owed' \subseteq owed
      BY <1>2
    <2>4. ASSUME NEW row \in owed'
                   PROVE Cardinality(Newer(row)') > (walk'.page - 1) * walk'.asked
      <3>1. Cardinality(Newer(row)) > (walk.page - 1) * walk.asked
        BY <2>2, <2>3
      <3>2. Cardinality(Newer(row)) <= Cardinality(Newer(row)')
        BY <1>0, <1>7, <1>8, MoreAreNewer
      <3>3. Cardinality(Newer(row)) \in Nat /\ Cardinality(Newer(row)') \in Nat
        BY <1>0, <1>8, ActiveAreFinite, NewerAreFinite
      <3>4. (walk.page - 1) * walk.asked \in Int
        BY <1>0 DEF Repo!RepositoryTypeOK
      <3>. QED
        BY <1>2, <3>1, <3>2, <3>3, <3>4
    <2>5. owed' \subseteq Repo!Active' /\ (walk'.at \in {"idle", "done"} => owed' = {})
      BY <1>2, <1>7, <2>2, <2>3
    <2>6. walk'.at = "counted" => owed' = {}
      BY <1>2
    <2>. QED
      BY <2>4, <2>5, <2>6
  <1>. QED
    BY <1>8, <1>10, <1>11, <1>12, <1>13 DEF RepoInv

LEMMA RepoFindInv ==
    ASSUME Repo!RepositoryAssumption, RepoInv, NEW c \in Callers, Repo!Find(c)
    PROVE  RepoInv'
  <1>0. /\ Repo!RepositoryTypeOK /\ FoundAgain /\ MongoKeepsDead /\ InOrder /\ WalkInv
             /\ OwedAhead
    BY DEF RepoInv
  <1>1. UNCHANGED <<backend, rows, dead, overlapped, walk, owed, walks>>
    BY DEF Repo!Find, Repo!walkVars
  <1>2. PICK row \in DOMAIN rows : held' = [held EXCEPT ![c] = IF rows[row].active THEN row ELSE 0]
    BY DEF Repo!Find
  <1>3. DOMAIN rows = 1..Len(rows) /\ Len(rows) \in Nat /\ held \in [Callers -> 0..Len(rows)]
    BY <1>0 DEF Repo!RepositoryTypeOK
  <1>4. held' \in [Callers -> 0..Len(rows)]
    BY <1>2, <1>3
  <1>5. Repo!RepositoryTypeOK'
    BY <1>0, <1>1, <1>4 DEF Repo!RepositoryTypeOK
  <1>6. FoundAgain'
    <2>. SUFFICES ASSUME NEW k \in dead \ overlapped
                  PROVE  ~rows[k].active /\ \A d \in Callers : held'[d] # k
      BY <1>1 DEF FoundAgain
    <2>1. k # 0
      BY <1>0, <1>3 DEF Repo!RepositoryTypeOK
    <2>. QED
      BY <1>0, <1>2, <1>3, <2>1 DEF FoundAgain
  <1>7. MongoKeepsDead' /\ InOrder' /\ WalkInv'
    BY <1>0, <1>1 DEF MongoKeepsDead, InOrder, WalkInv, Repo!Active
  <1>8. OwedAhead'
    BY <1>0, <1>1 DEF OwedAhead, Distinct, Newer, Repo!Active
  <1>. QED
    BY <1>5, <1>6, <1>7, <1>8 DEF RepoInv

\* The rows after one of them was made active or not.
LEMMA RowMarked ==
    ASSUME Repo!RepositoryTypeOK, NEW row \in DOMAIN rows, NEW active \in BOOLEAN,
           rows' = [rows EXCEPT ![row].active = active]
    PROVE  /\ rows' \in Seq([active : BOOLEAN, second : Nat]) /\ DOMAIN rows' = DOMAIN rows
           /\ Len(rows') = Len(rows)
           /\ \A k \in DOMAIN rows :
                /\ rows'[k].second = rows[k].second
                /\ rows'[k].active = IF k = row THEN active ELSE rows[k].active
  <1>. DEFINE Row == [active : BOOLEAN, second : Nat]
  <1>1. rows \in Seq(Row)
    BY DEF Repo!RepositoryTypeOK
  <1>. HIDE DEF Row
  <1>2. rows[row] \in Row
    BY <1>1
  <1>. USE DEF Row
  <1>3. /\ [rows[row] EXCEPT !.active = active] \in Row
        /\ [rows[row] EXCEPT !.active = active].active = active
        /\ [rows[row] EXCEPT !.active = active].second = rows[row].second
    BY <1>2
  <1>. DEFINE r == [rows[row] EXCEPT !.active = active]
  <1>4. rows' = [rows EXCEPT ![row] = r]
    OBVIOUS
  <1>. HIDE DEF r
  <1>5. r \in Row /\ r.active = active /\ r.second = rows[row].second
    BY <1>3 DEF r
  <1>. HIDE DEF Row
  <1>6. /\ rows' \in Seq(Row) /\ DOMAIN rows' = DOMAIN rows /\ Len(rows') = Len(rows)
        /\ \A k \in DOMAIN rows : rows'[k] = IF k = row THEN r ELSE rows[k]
    BY <1>1, <1>4, <1>5
  <1>. QED
    BY <1>5, <1>6 DEF Row

LEMMA RepoUpdateInv ==
    ASSUME Repo!RepositoryAssumption, RepoInv, NEW c \in Callers, Repo!Update(c)
    PROVE  RepoInv'
  <1>0. /\ Repo!RepositoryTypeOK /\ FoundAgain /\ MongoKeepsDead /\ InOrder /\ WalkInv
             /\ OwedAhead
    BY DEF RepoInv
  <1>. DEFINE row == held[c]
  <1>1. /\ row # 0 /\ held' = [held EXCEPT ![c] = 0]
        /\ rows' = IF Repo!Updates(row) THEN [rows EXCEPT ![row].active = TRUE] ELSE rows
        /\ owed' = IF walk.at = "counted" /\ ~rows[row].active
             /\ Repo!Updates(row) THEN {} ELSE owed
        /\ UNCHANGED <<backend, dead, overlapped, walk, walks>>
    BY DEF Repo!Update
  <1>2. DOMAIN rows = 1..Len(rows) /\ Len(rows) \in Nat /\ held \in [Callers -> 0..Len(rows)]
    BY <1>0 DEF Repo!RepositoryTypeOK
  <1>3. row \in DOMAIN rows
    BY <1>1, <1>2
  <1>. HIDE DEF row
  <1>4. /\ rows' \in Seq([active : BOOLEAN, second : Nat]) /\ DOMAIN rows' = DOMAIN rows
        /\ Len(rows') = Len(rows)
        /\ \A k \in DOMAIN rows :
             /\ rows'[k].second = rows[k].second
             /\ rows'[k].active <=> rows[k].active \/ (k = row /\ Repo!Updates(row))
    <2>1. CASE Repo!Updates(row)
      <3>1. rows' = [rows EXCEPT ![row].active = TRUE] /\ TRUE \in BOOLEAN
        BY <1>1, <2>1
      <3>2. /\ rows' \in Seq([active : BOOLEAN, second : Nat]) /\ DOMAIN rows' = DOMAIN rows
            /\ Len(rows') = Len(rows)
            /\ \A k \in DOMAIN rows :
                 /\ rows'[k].second = rows[k].second
                 /\ rows'[k].active = IF k = row THEN TRUE ELSE rows[k].active
        BY <1>0, <1>3, <3>1, RowMarked
      <3>. QED
        BY <2>1, <3>2
    <2>2. CASE ~Repo!Updates(row)
      BY <1>0, <1>1, <2>2 DEF Repo!RepositoryTypeOK
    <2>. QED
      BY <2>1, <2>2
  <1>5. held' \in [Callers -> 0..Len(rows')]
    BY <1>1, <1>2, <1>4
  <1>6. owed' \subseteq owed
    BY <1>1
  <1>7. Repo!RepositoryTypeOK'
    BY <1>0, <1>1, <1>4, <1>5, <1>6 DEF Repo!RepositoryTypeOK
  <1>8. Repo!Active' = Repo!Active \cup (IF Repo!Updates(row) THEN {row} ELSE {})
    BY <1>3, <1>4 DEF Repo!Active
  <1>9. FoundAgain'
    <2>. SUFFICES ASSUME NEW k \in dead \ overlapped
                  PROVE  ~rows'[k].active /\ \A d \in Callers : held'[d] # k
      BY <1>1 DEF FoundAgain
    <2>1. k \in DOMAIN rows /\ k # 0
      BY <1>0, <1>2 DEF Repo!RepositoryTypeOK
    <2>2. k # row
      BY <1>0 DEF FoundAgain, row
    <2>. QED
      BY <1>0, <1>1, <1>2, <1>4, <2>1, <2>2 DEF FoundAgain
  <1>10. MongoKeepsDead'
    <2>1. backend = "mongo" /\ Repo!Updates(row) => row \in Repo!Active
      BY <1>3 DEF Repo!Updates, Repo!Active
    <2>. QED
      BY <1>0, <1>1, <1>8, <2>1 DEF MongoKeepsDead
  <1>11. InOrder' /\ WalkInv'
    BY <1>0, <1>1, <1>4 DEF InOrder, WalkInv
  <1>12. OwedAhead'
    <2>. SUFFICES ASSUME Distinct', walk'.from = 1, walk'.asked <= MaxSize
                  PROVE  /\ owed' \subseteq Repo!Active'
                         /\ walk'.at \in {"idle", "done"} => owed' = {}
                         /\ \A k \in owed' : Cardinality(Newer(k)') > (walk'.page - 1) * walk'.asked
                         /\ walk'.at = "counted" =>
                              owed' = {} \/ walk'.total = Cardinality(Repo!Active')
      BY DEF OwedAhead
    <2>1. Distinct
      BY <1>4 DEF Distinct
    <2>2. /\ owed \subseteq Repo!Active /\ (walk.at \in {"idle", "done"} => owed = {})
          /\ \A k \in owed : Cardinality(Newer(k)) > (walk.page - 1) * walk.asked
          /\ walk.at = "counted" => owed = {} \/ walk.total = Cardinality(Repo!Active)
      BY <1>0, <1>1, <2>1 DEF OwedAhead
    <2>3. ASSUME NEW k \in owed' PROVE Cardinality(Newer(k)') > (walk'.page - 1) * walk'.asked
      <3>1. Cardinality(Newer(k)) > (walk.page - 1) * walk.asked
        BY <1>6, <2>2
      <3>2. Cardinality(Newer(k)) <= Cardinality(Newer(k)')
        BY <1>0, <1>7, <1>8, MoreAreNewer
      <3>3. Cardinality(Newer(k)) \in Nat /\ Cardinality(Newer(k)') \in Nat
        BY <1>0, <1>7, ActiveAreFinite, NewerAreFinite
      <3>4. (walk.page - 1) * walk.asked \in Int
        BY <1>0 DEF Repo!RepositoryTypeOK
      <3>. QED
        BY <1>1, <3>1, <3>2, <3>3, <3>4
    <2>4. owed' \subseteq Repo!Active' /\ (walk'.at \in {"idle", "done"} => owed' = {})
      BY <1>1, <1>6, <1>8, <2>2
    <2>5. walk'.at = "counted" => owed' = {} \/ walk'.total = Cardinality(Repo!Active')
      <3>. SUFFICES ASSUME walk.at = "counted", owed' # {}
                    PROVE  walk.total = Cardinality(Repo!Active')
        BY <1>1
      <3>1. rows[row].active \/ ~Repo!Updates(row)
        BY <1>1
      <3>2. Repo!Active' = Repo!Active
        BY <1>3, <1>8, <3>1 DEF Repo!Active
      <3>. QED
        BY <1>6, <2>2, <3>2
    <2>. QED
      BY <2>3, <2>4, <2>5
  <1>. QED
    BY <1>7, <1>9, <1>10, <1>11, <1>12 DEF RepoInv

LEMMA RepoDeleteInv ==
    ASSUME Repo!RepositoryAssumption, RepoInv, NEW row \in DOMAIN rows, Repo!Delete(row)
    PROVE  RepoInv'
  <1>0. /\ Repo!RepositoryTypeOK /\ FoundAgain /\ MongoKeepsDead /\ InOrder /\ WalkInv
             /\ OwedAhead
    BY DEF RepoInv
  <1>1. /\ rows' = [rows EXCEPT ![row].active = FALSE] /\ FALSE \in BOOLEAN
        /\ dead' = dead \cup {row}
        /\ overlapped' = IF \E c \in Callers : held[c] = row
                         THEN overlapped \cup {row} ELSE overlapped \ {row}
        /\ owed' = IF walk.at \in {"asking", "counted"} THEN {} ELSE owed
        /\ UNCHANGED <<backend, held, walk, walks>>
    BY DEF Repo!Delete
  <1>2. /\ rows' \in Seq([active : BOOLEAN, second : Nat]) /\ DOMAIN rows' = DOMAIN rows
        /\ Len(rows') = Len(rows)
        /\ \A k \in DOMAIN rows :
             /\ rows'[k].second = rows[k].second
             /\ rows'[k].active = IF k = row THEN FALSE ELSE rows[k].active
    BY <1>0, <1>1, RowMarked
  <1>3. Repo!Active' = Repo!Active \ {row}
    BY <1>2 DEF Repo!Active
  <1>4. owed' \subseteq owed /\ overlapped' \subseteq dead' /\ dead' \subseteq DOMAIN rows
    BY <1>0, <1>1 DEF Repo!RepositoryTypeOK
  <1>5. Repo!RepositoryTypeOK'
    BY <1>0, <1>1, <1>2, <1>4 DEF Repo!RepositoryTypeOK
  <1>6. FoundAgain'
    <2>. SUFFICES ASSUME NEW k \in dead' \ overlapped'
                  PROVE  ~rows'[k].active /\ \A d \in Callers : held[d] # k
      BY <1>1 DEF FoundAgain
    <2>1. CASE k = row
      BY <1>1, <1>2, <2>1
    <2>2. CASE k # row
      <3>1. k \in dead \ overlapped /\ k \in DOMAIN rows
        BY <1>1, <1>4, <2>2
      <3>. QED
        BY <1>0, <1>2, <2>2, <3>1 DEF FoundAgain
    <2>. QED
      BY <2>1, <2>2
  <1>7. MongoKeepsDead' /\ InOrder' /\ WalkInv'
    BY <1>0, <1>1, <1>2, <1>3 DEF MongoKeepsDead, InOrder, WalkInv
  <1>8. OwedAhead'
    <2>. SUFFICES ASSUME Distinct', walk'.from = 1, walk'.asked <= MaxSize
                  PROVE  owed' = {}
      BY DEF OwedAhead
    <2>1. Distinct
      BY <1>2 DEF Distinct
    <2>2. walk.at \in {"idle", "done"} => owed = {}
      BY <1>0, <1>1, <2>1 DEF OwedAhead
    <2>3. walk.at \in {"idle", "asking", "counted", "done"}
      BY <1>0 DEF Repo!RepositoryTypeOK
    <2>. QED
      BY <1>1, <2>2, <2>3
  <1>. QED
    BY <1>5, <1>6, <1>7, <1>8 DEF RepoInv

LEMMA RepoWalkInv ==
    ASSUME Repo!RepositoryAssumption, RepoInv, NEW from \in {0, 1}, NEW asked \in Asked,
           Repo!Walk(from, asked)
    PROVE  RepoInv'
  <1>0. /\ Repo!RepositoryTypeOK /\ FoundAgain /\ MongoKeepsDead /\ InOrder /\ WalkInv
             /\ OwedAhead
    BY DEF RepoInv
  <1>1. /\ walk' = [at |-> "asking", from |-> from, page |-> from, asked |-> asked, total |-> 0]
        /\ owed' = Repo!Active /\ walks' = walks + 1 /\ walks < MaxWalks
        /\ UNCHANGED <<backend, rows, held, dead, overlapped>>
    BY DEF Repo!Walk
  <1>2. /\ walk'.at = "asking" /\ walk'.from = from /\ walk'.page = from /\ walk'.asked = asked
        /\ asked \in Nat \ {0}
        /\ walk' \in [at : {"idle", "asking", "counted", "done"}, from : {0, 1}, page : Nat,
                      asked : Nat, total : Nat]
    BY <1>1 DEF Repo!RepositoryAssumption
  <1>3. walks' \in 0..MaxWalks
    BY <1>0, <1>1 DEF Repo!RepositoryTypeOK, Repo!RepositoryAssumption
  <1>4. Repo!Active \subseteq DOMAIN rows /\ Repo!Active' = Repo!Active
    BY <1>1 DEF Repo!Active
  <1>5. Repo!RepositoryTypeOK'
    BY <1>0, <1>1, <1>2, <1>3, <1>4 DEF Repo!RepositoryTypeOK
  <1>6. FoundAgain' /\ MongoKeepsDead' /\ InOrder'
    BY <1>0, <1>1, <1>4 DEF FoundAgain, MongoKeepsDead, InOrder
  <1>7. WalkInv'
    BY <1>2 DEF WalkInv
  <1>8. OwedAhead'
    <2>. SUFFICES ASSUME from = 1
                  PROVE  \A row \in Repo!Active :
                           Cardinality(Newer(row)') > (walk'.page - 1) * walk'.asked
      BY <1>1, <1>2, <1>4 DEF OwedAhead
    <2>1. (walk'.page - 1) * walk'.asked = 0
      BY <1>2
    <2>2. ASSUME NEW row \in Repo!Active PROVE Cardinality(Newer(row)') > 0
      <3>1. row \in Newer(row)'
        <4>1. row \in Nat
          BY <1>0, ActiveAreFinite
        <4>. QED
          BY <1>4, <4>1 DEF Newer
      <3>2. IsFiniteSet(Newer(row)') /\ Cardinality(Newer(row)') \in Nat
        BY <1>5, NewerAreFinite
      <3>3. Cardinality(Newer(row)') # 0
        BY <3>1, <3>2, FS_EmptySet
      <3>. QED
        BY <3>2, <3>3
    <2>. QED
      BY <2>1, <2>2
  <1>. QED
    BY <1>5, <1>6, <1>7, <1>8 DEF RepoInv

LEMMA RepoCountInv ==
    ASSUME Repo!RepositoryAssumption, RepoInv, Repo!Count
    PROVE  RepoInv'
  <1>0. /\ Repo!RepositoryTypeOK /\ FoundAgain /\ MongoKeepsDead /\ InOrder /\ WalkInv
             /\ OwedAhead
    BY DEF RepoInv
  <1>1. /\ walk.at = "asking"
        /\ walk' = [walk EXCEPT !.at = "counted", !.total = Cardinality(Repo!Active)]
        /\ UNCHANGED <<backend, rows, held, dead, overlapped, owed, walks>>
    BY SameCardinality DEF Repo!Count
  <1>2. Cardinality(Repo!Active) \in Nat
    BY <1>0, ActiveAreFinite
  <1>3. /\ walk'.at = "counted" /\ walk'.from = walk.from /\ walk'.page = walk.page
        /\ walk'.asked = walk.asked /\ walk'.total = Cardinality(Repo!Active)
        /\ walk' \in [at : {"idle", "asking", "counted", "done"}, from : {0, 1}, page : Nat,
                      asked : Nat, total : Nat]
    BY <1>0, <1>1, <1>2 DEF Repo!RepositoryTypeOK
  <1>4. Repo!RepositoryTypeOK'
    BY <1>0, <1>1, <1>3 DEF Repo!RepositoryTypeOK
  <1>5. Repo!Active' = Repo!Active /\ \A row : Newer(row)' = Newer(row)
    BY <1>1 DEF Repo!Active, Newer
  <1>6. FoundAgain' /\ MongoKeepsDead' /\ InOrder' /\ WalkInv'
    BY <1>0, <1>1, <1>3, <1>5 DEF FoundAgain, MongoKeepsDead, InOrder, WalkInv
  <1>7. OwedAhead'
    <2>1. Distinct' <=> Distinct
      BY <1>1 DEF Distinct
    <2>2. \A row : Cardinality(Newer(row)') = Cardinality(Newer(row))
      BY <1>5
    <2>. QED
      BY <1>0, <1>1, <1>3, <1>5, <2>1, <2>2 DEF OwedAhead
  <1>. QED
    BY <1>4, <1>6, <1>7 DEF RepoInv

LEMMA ShownPart ==
    ASSUME NEW S, NEW o \in Seq(S), NEW m \in Nat, NEW n \in Nat, n <= Len(o)
    PROVE  Repo!Range(SubSeq(o, m + 1, n)) = {o[i] : i \in (m + 1)..n}
  <1>1. SubSeq(o, m + 1, n) = [i \in 1..(n - m) |-> o[i + m]]
    OBVIOUS
  <1>2. Repo!Range(SubSeq(o, m + 1, n)) = {o[i + m] : i \in 1..(n - m)}
    BY <1>1 DEF Repo!Range
  <1>3. \A i \in (m + 1)..n : i - m \in 1..(n - m) /\ i = (i - m) + m
    OBVIOUS
  <1>4. \A i \in 1..(n - m) : i + m \in (m + 1)..n
    OBVIOUS
  <1>. QED
    BY <1>2, <1>3, <1>4

\* What a page leaves owed comes after it.
LEMMA PageShowsItsPart ==
    ASSUME Repo!RepositoryAssumption, RepoInv, Distinct, walk.from = 1, walk.asked <= MaxSize,
           NEW o \in Repo!Orders, NEW row \in owed,
           LET first == Repo!Offset(walk.page, walk.asked) + 1
           IN row \notin Repo!Range(SubSeq(o, first,
                            Repo!Min({Len(o), first + Repo!Size(walk.asked) - 1})))
    PROVE  Cardinality(Newer(row)) > walk.page * walk.asked
  <1>0. Repo!RepositoryTypeOK /\ InOrder /\ WalkInv /\ OwedAhead
    BY DEF RepoInv
  <1>1. walk.page \in Nat \ {0} /\ walk.asked \in Nat \ {0}
    BY <1>0 DEF WalkInv, Repo!RepositoryTypeOK
  <1>. DEFINE before == (walk.page - 1) * walk.asked
              end    == before + walk.asked
              last   == IF Len(o) <= end THEN Len(o) ELSE end
  <1>2. Repo!Offset(walk.page, walk.asked) = before /\ Repo!Size(walk.asked) = walk.asked
    <2>1. Repo!Size(walk.asked) = walk.asked
      BY <1>1 DEF Repo!Size, Repo!RepositoryAssumption
    <2>2. Repo!PageNumber(walk.page) = walk.page
      BY <1>1 DEF Repo!PageNumber
    <2>. QED
      BY <2>1, <2>2 DEF Repo!Offset
  <1>3. before \in Nat /\ end \in Nat /\ end = walk.page * walk.asked
    BY <1>1
  <1>. HIDE DEF before
  <1>4. /\ o \in Seq(Repo!Active) /\ Len(o) = Cardinality(Repo!Active)
        /\ \A k \in DOMAIN o : Cardinality(Newer(o[k])) = k
        /\ \A other \in Repo!Active : \E k \in DOMAIN o : o[k] = other
    BY <1>0, ListedByRank
  <1>5. Repo!Min({Len(o), before + 1 + Repo!Size(walk.asked) - 1}) = last
    <2>1. before + 1 + Repo!Size(walk.asked) - 1 = end
      BY <1>1, <1>2, <1>3
    <2>. QED
      BY <1>3, <1>4, <2>1, LesserOfTwo
  <1>6. row \notin Repo!Range(SubSeq(o, before + 1, last))
    BY <1>2, <1>5
  <1>7. PICK k \in DOMAIN o : o[k] = row
    BY <1>0, <1>4 DEF OwedAhead
  <1>8. k \in Nat /\ k <= Len(o) /\ Cardinality(Newer(row)) = k /\ Len(o) \in Nat
    BY <1>4, <1>7
  <1>9. k > before
    BY <1>0, <1>8 DEF OwedAhead, before
  <1>10. ~(k <= last)
    <2>. SUFFICES ASSUME k <= last PROVE FALSE
      OBVIOUS
    <2>1. last <= Len(o) /\ last \in Nat
      BY <1>3, <1>8
    <2>. HIDE DEF last
    <2>2. k \in (before + 1)..last
      BY <1>3, <1>8, <1>9, <2>1
    <2>3. Repo!Range(SubSeq(o, before + 1, last)) = {o[i] : i \in (before + 1)..last}
      <3>1. \A m, n \in Nat : n <= Len(o) =>
              Repo!Range(SubSeq(o, m + 1, n)) = {o[i] : i \in (m + 1)..n}
        BY <1>4, ShownPart
      <3>. QED
        BY <1>3, <2>1, <3>1, Zenon
    <2>. QED
      BY <1>6, <1>7, <2>2, <2>3
  <1>. QED
    BY <1>3, <1>8, <1>10

LEMMA RepoListInv ==
    ASSUME Repo!RepositoryAssumption, RepoInv, Repo!List
    PROVE  RepoInv'
  <1>0. /\ Repo!RepositoryTypeOK /\ FoundAgain /\ MongoKeepsDead /\ InOrder /\ WalkInv
             /\ OwedAhead
    BY DEF RepoInv
  <1>1. /\ walk.at = "counted" /\ UNCHANGED <<backend, rows, held, dead, overlapped, walks>>
        /\ walk' = IF (walk.page - walk.from + 1) * walk.asked < walk.total
                   THEN [walk EXCEPT !.at = "asking", !.page = @ + 1]
                   ELSE [walk EXCEPT !.at = "done", !.total = 0]
    BY DEF Repo!List
  <1>2. PICK o \in Repo!Orders :
          LET first == Repo!Offset(walk.page, walk.asked) + 1
          IN owed' = owed \ Repo!Range(SubSeq(o, first,
                               Repo!Min({Len(o), first + Repo!Size(walk.asked) - 1})))
    BY DEF Repo!List
  <1>3. walk \in [at : {"idle", "asking", "counted", "done"}, from : {0, 1}, page : Nat,
                  asked : Nat, total : Nat]
    BY <1>0 DEF Repo!RepositoryTypeOK
  <1>4. owed' \subseteq owed
    BY <1>2
  <1>. DEFINE more == (walk.page - walk.from + 1) * walk.asked < walk.total
  <1>5. /\ walk' \in [at : {"idle", "asking", "counted", "done"}, from : {0, 1}, page : Nat,
                      asked : Nat, total : Nat]
        /\ walk'.from = walk.from /\ walk'.asked = walk.asked
        /\ more => walk'.at = "asking" /\ walk'.page = walk.page + 1
        /\ ~more => walk'.at = "done" /\ walk'.page = walk.page
    <2>1. CASE more
      <3>1. walk' = [walk EXCEPT !.at = "asking", !.page = @ + 1]
        BY <1>1, <2>1
      <3>2. walk.page + 1 \in Nat
        BY <1>3
      <3>. HIDE DEF more
      <3>. QED
        BY <1>3, <2>1, <3>1, <3>2
    <2>2. CASE ~more
      <3>1. walk' = [walk EXCEPT !.at = "done", !.total = 0]
        BY <1>1, <2>2
      <3>. HIDE DEF more
      <3>. QED
        BY <1>3, <2>2, <3>1
    <2>. QED
      BY <2>1, <2>2
  <1>6. Repo!RepositoryTypeOK'
    BY <1>0, <1>1, <1>4, <1>5 DEF Repo!RepositoryTypeOK
  <1>7. Repo!Active' = Repo!Active /\ (Distinct' <=> Distinct)
          /\ \A row : Newer(row)' = Newer(row)
    BY <1>1 DEF Repo!Active, Newer, Distinct
  <1>8. FoundAgain' /\ MongoKeepsDead' /\ InOrder'
    BY <1>0, <1>1, <1>7 DEF FoundAgain, MongoKeepsDead, InOrder
  <1>9. WalkInv'
    BY <1>0, <1>3, <1>5 DEF WalkInv
  <1>10. OwedAhead'
    <2>. SUFFICES ASSUME Distinct, walk.from = 1, walk.asked <= MaxSize
                  PROVE  /\ owed' \subseteq Repo!Active
                         /\ ~more => owed' = {}
                         /\ \A row \in owed' : Cardinality(Newer(row)) > (walk'.page - 1) * walk'.asked
      <3>1. \A row : Cardinality(Newer(row)') = Cardinality(Newer(row))
        BY <1>7
      <3>. QED
        BY <1>5, <1>7, <3>1 DEF OwedAhead
    <2>1. owed \subseteq Repo!Active /\ (owed = {} \/ walk.total = Cardinality(Repo!Active))
      BY <1>0, <1>1 DEF OwedAhead
    <2>2. \A row \in owed' : Cardinality(Newer(row)) > walk.page * walk.asked
      <3>. SUFFICES ASSUME NEW row \in owed'
                             PROVE Cardinality(Newer(row)) > walk.page * walk.asked
        OBVIOUS
      <3>1. row \in owed
        BY <1>4
      <3>. QED
        BY <1>2, <3>1, PageShowsItsPart
    <2>3. ASSUME ~more PROVE owed' = {}
      <3>. SUFFICES ASSUME NEW row \in owed' PROVE FALSE
        OBVIOUS
      <3>1. walk.total = Cardinality(Repo!Active) /\ walk.page * walk.asked >= walk.total
        BY <1>3, <1>4, <2>1, <2>3
      <3>2. Cardinality(Newer(row)) <= Cardinality(Repo!Active)
        <4>1. Newer(row) \in SUBSET Repo!Active
          BY DEF Newer
        <4>. QED
          BY <1>0, <4>1, ActiveAreFinite, FS_Subset
      <3>3. Cardinality(Newer(row)) > walk.page * walk.asked
        BY <2>2
      <3>4. /\ Cardinality(Newer(row)) \in Nat /\ Cardinality(Repo!Active) \in Nat
            /\ walk.page * walk.asked \in Nat
        BY <1>0, <1>3, ActiveAreFinite
      <3>. QED
        BY <3>1, <3>2, <3>3, <3>4
    <2>4. ASSUME more, NEW row \in owed'
          PROVE  Cardinality(Newer(row)) > (walk'.page - 1) * walk'.asked
      <3>1. walk'.page - 1 = walk.page
        BY <1>3, <1>5, <2>4
      <3>. QED
        BY <1>5, <2>2, <3>1
    <2>. QED
      BY <1>4, <2>1, <2>3, <2>4
  <1>. QED
    BY <1>6, <1>8, <1>9, <1>10 DEF RepoInv

LEMMA RepoNextInv ==
    ASSUME Repo!RepositoryAssumption, RepoInv, [Repo!Next]_repoVars
    PROVE  RepoInv'
  <1>1. CASE UNCHANGED repoVars
    <2>1. UNCHANGED <<backend, rows, held, dead, overlapped, walk, owed, walks>>
      BY <1>1 DEF repoVars
    <2>2. Repo!Active' = Repo!Active /\ (Distinct' <=> Distinct)
            /\ \A row : Newer(row)' = Newer(row)
      BY <2>1 DEF Repo!Active, Newer, Distinct
    <2>3. \A row : Cardinality(Newer(row)') = Cardinality(Newer(row))
      BY <2>2
    <2>4. Repo!RepositoryTypeOK' /\ FoundAgain' /\ MongoKeepsDead' /\ InOrder' /\ WalkInv'
      BY <2>1, <2>2 DEF RepoInv, Repo!RepositoryTypeOK, FoundAgain, MongoKeepsDead, InOrder,
         WalkInv
    <2>5. OwedAhead'
      BY <2>1, <2>2, <2>3 DEF RepoInv, OwedAhead
    <2>. QED
      BY <2>4, <2>5 DEF RepoInv
  <1>. QED
    BY <1>1, RepoCreateInv, RepoFindInv, RepoUpdateInv, RepoDeleteInv, RepoWalkInv,
       RepoCountInv,
       RepoListInv DEF Repo!Next

LEMMA RepoInvImplies ==
    ASSUME RepoInv
    PROVE  Repo!RepositoryTypeOK /\ Repo!PagesShowTheLiving
  <1>1. /\ Repo!RepositoryTypeOK /\ FoundAgain /\ MongoKeepsDead /\ OwedAhead
    BY DEF RepoInv
  <1>2. Repo!Active \cap dead \subseteq (IF backend = "gorm" THEN overlapped ELSE {})
    <2>1. backend \in {"gorm", "mongo"}
      BY <1>1 DEF Repo!RepositoryTypeOK
    <2>2. CASE backend = "mongo"
      BY <1>1, <2>2 DEF MongoKeepsDead
    <2>3. CASE backend = "gorm"
      BY <1>1, <2>3 DEF FoundAgain, Repo!Active
    <2>. QED
      BY <2>1, <2>2, <2>3
  <1>. QED
    BY <1>1, <1>2 DEF Repo!PagesShowTheLiving, OwedAhead, Distinct

-----------------------------------------------------------------------------
\* A step is a step of one part, or of none.
LEMMA StepOfOnePart ==
    [Next]_vars => /\ [Migrate!Next]_migrateVars /\ [Cache!Next]_cacheVars
                   /\ [Session!Next]_sessionVars /\ [Policy!Next]_policyVars
                   /\ [Repo!Next]_repoVars
  BY DEF Next, vars

LEMMA PartsAssume ==
    /\ Migrate!MigrateAssumption /\ Cache!CacheAssumption
    /\ Session!SessionAssumption /\ Policy!PolicyAssumption /\ Repo!RepositoryAssumption
  BY DataAssumption

\* The parts keep their invariants side by side.
DataInv == MigrateInv /\ CacheInv /\ SessionInv /\ PolicyInv /\ RepoInv

LEMMA DataKeepsInv == Spec => []DataInv
  <1>1. Init => DataInv
    <2>1. Init => Migrate!Init /\ Cache!Init /\ Session!Init /\ Policy!Init /\ Repo!Init
      BY DEF Init
    <2>. QED
      BY <2>1, PartsAssume, MigrateInitInv, CacheInitInv, SessionInitInv, PolicyInitInv, RepoInitInv
      DEF DataInv
  <1>2. ASSUME DataInv, [Next]_vars
        PROVE  DataInv'
    <2>1. MigrateInv' /\ CacheInv'
      BY <1>2, StepOfOnePart, PartsAssume, MigrateNextInv, CacheNextInv DEF DataInv
    <2>2. SessionInv' /\ PolicyInv' /\ RepoInv'
      BY <1>2, StepOfOnePart, PartsAssume, SessionNextInv, PolicyNextInv, RepoNextInv DEF DataInv
    <2>. QED
      BY <2>1, <2>2 DEF DataInv
  <1>. QED
    BY <1>1, <1>2, PTL DEF Spec

\* However many instances of however many versions start together, fail and die: the records
\* are the first migrations in their order, none runs before the one before it is recorded, and
\* a program that goes on has all those it knows.
THEOREM MigrationsStayInOrder == Spec => []MigrationsInOrder
  <1>1. DataInv => MigrationsInOrder
    BY DEF DataInv, MigrateInv, MigrationsInOrder
  <1>. QED
    BY <1>1, DataKeepsInv, PTL

\* However many readers load while the database changes, whichever writes of the cache fail:
\* who begins after a key was invalidated gets data at least as new as the update, unless it
\* was read before the update by a fill that read or made its version after it.
THEOREM InvalidKeyIsReloaded == Spec => []FreshAfterInvalidKey
  <1>1. DataInv => FreshAfterInvalidKey
    BY PartsAssume, CacheInvImplies DEF DataInv, FreshAfterInvalidKey
  <1>. QED
    BY <1>1, DataKeepsInv, PTL

\* However many requests carry cookies of sessions that others renew, end or let expire at the
\* same time: an identifier that was retired gives nobody a session again, unless two renewals
\* or logouts raced for one session object, and none outlives the time to live of its login.
THEOREM RetiredIdStaysDead == Spec => []RetiredIdIsDead
  <1>1. DataInv => RetiredIdIsDead
    BY PartsAssume, SessionInvImplies DEF DataInv, RetiredIdIsDead
  <1>. QED
    BY <1>1, DataKeepsInv, PTL

\* However many checks follow whatever policies through whatever groups while others are added
\* and removed: unless a RemovePolicy ran beside it, a check lets through only by a policy that
\* applied while it looked and that comes before every denying one that was there all the while.
THEOREM DenyStaysObeyed == Spec => []DenyIsObeyed
  <1>1. DataInv => DenyIsObeyed
    BY PolicyInvImplies DEF DataInv, DenyIsObeyed
  <1>. QED
    BY <1>1, DataKeepsInv, PTL

\* However many callers find and write back rows that others create and delete, from whichever
\* page size they list: a row whose Delete has returned is in no page, unless gorm brings it
\* back for one who had found it before; and who has read all the pages has seen every row that
\* was there throughout, under the conditions that the property names.
THEOREM PagesStayTrue == Spec => []PagesShowTheLiving
  <1>1. DataInv => PagesShowTheLiving
    BY RepoInvImplies DEF DataInv, PagesShowTheLiving
  <1>. QED
    BY <1>1, DataKeepsInv, PTL
=============================================================================
