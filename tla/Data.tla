-------------------------------- MODULE Data --------------------------------
(***************************************************************************)
(* The parts that keep data consistent: rate limits, the cache with        *)
(* dependencies, migrations, memory sessions, policies, rows, and the      *)
(* tools that read the declaration of an API.  They share no state, so     *)
(* that one run checks them side by side: a behaviour is a behaviour of    *)
(* one of them, chosen in its first state, while the others stay where     *)
(* they are.                                                               *)
(***************************************************************************)
EXTENDS Naturals, Sequences

CONSTANTS
  Threads, Limits, Period, Quota, Slack, CleanEvery,
  MaxTime, MaxCalls, MaxStall, MaxFaults,                              \* PeriodLimit
  Readers, Writers, Keys, MaxUpdates, MaxVersions, MaxStoreFaults,     \* DependCache
  Instances, Known, HasPre, MaxStarts,                                 \* MongoMigrate
  Requests, Lifetime, MaxSessions, MaxIds, MaxSessionTime,             \* MemorySession
  Checkers, Removers, Pool, User, Resource, Groups,                \* PolicyStore
  Callers, MaxSize, DefaultSize, Asked, MaxRows, MaxWalks,             \* Repository
  RequestTypes, Declarations, ProperPrefixes,                          \* ApiContract
  Types, Name, Sources, RootSets,                                      \* SwaggerDefs
  Generated, Accessor, MaxEdits, MaxKills,                             \* Generator
  MaxRuns, MaxRewrites,                                                \* TableGen
  Methods                                                              \* MethodText

VARIABLES
  which,
  clock, store, ttl, cleanups, limitPc, call, limit, now, count, taken,
  admitted, failed, slipped, faults,
  db, confirmed, dep, versions, entry, cachePc, key, seen, data, floor, revision, storeFaults,
  records, indexed, applied, at, next, starts,
  sessionClock, storage, id, expire, logins, ids, requestPc, session, cookie,
  retired, raced,
  array, len, added, removing, checkPc, subject, reading, found, length, toFollow,
  stable, during, beside,
  decl, routes, panicked, docs, problems, todo,
  backend, rows, held, dead, overlapped, walk, owed, walks,
  source, roots, stack, defs, status, written,
  declared, ctrl, impl, mentioned, comments, iface, struct, run, fresh, cut, edits, kills,
  columns, entity, repository, command, outcome, broken, runs, rewrites,
  method, text

limitVars   == <<clock, store, ttl, cleanups, limitPc, call, limit, now, count, taken,
                 admitted, failed, slipped, faults>>
cacheVars   == <<db, confirmed, dep, versions, entry, cachePc, key, seen, data, floor,
                 revision, storeFaults>>
migrateVars == <<records, indexed, applied, at, next, starts>>
sessionVars == <<sessionClock, storage, id, expire, logins, ids, requestPc, session, cookie,
                 retired, raced>>
policyVars  == <<array, len, added, removing, checkPc, subject, reading, found, length,
                 toFollow, stable, during, beside>>
repoVars    == <<backend, rows, held, dead, overlapped, walk, owed, walks>>
apiVars     == <<decl, routes, panicked, docs, problems, todo>>
defsVars    == <<source, roots, stack, defs, status, written>>
genVars     == <<declared, ctrl, impl, mentioned, comments, iface, struct, run, fresh, cut,
                 edits, kills>>
tableVars   == <<columns, entity, repository, command, outcome, broken, runs, rewrites>>
textVars    == <<method, text>>
vars == <<which, limitVars, cacheVars, migrateVars, sessionVars, policyVars, repoVars,
          apiVars, defsVars, genVars, tableVars, textVars>>

-----------------------------------------------------------------------------
Limit   == INSTANCE PeriodLimit WITH pc <- limitPc
Cache   == INSTANCE DependCache WITH
             MaxFaults <- MaxStoreFaults, pc <- cachePc, faults <- storeFaults
Migrate == INSTANCE MongoMigrate
Session == INSTANCE MemorySession WITH
             MaxTime <- MaxSessionTime, clock <- sessionClock, pc <- requestPc
Policy  == INSTANCE PolicyStore WITH
             pc <- checkPc, i <- reading, n <- length, todo <- toFollow, seen <- during,
             raced <- beside
Repo    == INSTANCE Repository
Api     == INSTANCE ApiContract WITH Requests <- RequestTypes
Defs    == INSTANCE SwaggerDefs
Gen     == INSTANCE Generator WITH Requests <- Generated
Table   == INSTANCE TableGen WITH MaxEdits <- MaxRewrites, run <- command, edits <- rewrites
Text    == INSTANCE MethodText

\* The assumptions of the parts.
ASSUME DataAssumption ==
  /\ Limit!LimitAssumption /\ Cache!CacheAssumption /\ Migrate!MigrateAssumption
  /\ Session!SessionAssumption /\ Policy!PolicyAssumption /\ Repo!RepositoryAssumption
  /\ Api!ApiContractAssumption /\ Defs!SwaggerDefsAssumption /\ Gen!GeneratorAssumption
  /\ Table!TableGenAssumption /\ Text!MethodTextAssumption

-----------------------------------------------------------------------------
Parts == {"limit", "cache", "migrate", "session", "policy", "repo", "api", "defs", "gen",
          "table", "text"}

Init ==
  /\ which \in Parts
  /\ Limit!Init /\ Cache!Init /\ Migrate!Init /\ Session!Init /\ Policy!Init /\ Repo!Init
  /\ Api!Init /\ Defs!Init /\ Gen!Init /\ Table!Init /\ Text!Init

Next ==
  /\ UNCHANGED which
  /\ \/ which = "limit" /\ Limit!Next
        /\ UNCHANGED <<cacheVars, migrateVars, sessionVars, policyVars, repoVars,
                       apiVars, defsVars, genVars, tableVars, textVars>>
     \/ which = "cache" /\ Cache!Next
        /\ UNCHANGED <<limitVars, migrateVars, sessionVars, policyVars, repoVars,
                       apiVars, defsVars, genVars, tableVars, textVars>>
     \/ which = "migrate" /\ Migrate!Next
        /\ UNCHANGED <<limitVars, cacheVars, sessionVars, policyVars, repoVars,
                       apiVars, defsVars, genVars, tableVars, textVars>>
     \/ which = "session" /\ Session!Next
        /\ UNCHANGED <<limitVars, cacheVars, migrateVars, policyVars, repoVars,
                       apiVars, defsVars, genVars, tableVars, textVars>>
     \/ which = "policy" /\ Policy!Next
        /\ UNCHANGED <<limitVars, cacheVars, migrateVars, sessionVars, repoVars,
                       apiVars, defsVars, genVars, tableVars, textVars>>
     \/ which = "repo" /\ Repo!Next
        /\ UNCHANGED <<limitVars, cacheVars, migrateVars, sessionVars, policyVars,
                       apiVars, defsVars, genVars, tableVars, textVars>>
     \/ which = "api" /\ Api!Next
        /\ UNCHANGED <<limitVars, cacheVars, migrateVars, sessionVars, policyVars,
                       repoVars, defsVars, genVars, tableVars, textVars>>
     \/ which = "defs" /\ Defs!Next
        /\ UNCHANGED <<limitVars, cacheVars, migrateVars, sessionVars, policyVars,
                       repoVars, apiVars, genVars, tableVars, textVars>>
     \/ which = "gen" /\ Gen!Next
        /\ UNCHANGED <<limitVars, cacheVars, migrateVars, sessionVars, policyVars,
                       repoVars, apiVars, defsVars, tableVars, textVars>>
     \/ which = "table" /\ Table!Next
        /\ UNCHANGED <<limitVars, cacheVars, migrateVars, sessionVars, policyVars,
                       repoVars, apiVars, defsVars, genVars, textVars>>
     \/ which = "text" /\ Text!Next
        /\ UNCHANGED <<limitVars, cacheVars, migrateVars, sessionVars, policyVars,
                       repoVars, apiVars, defsVars, genVars, tableVars>>

Spec == Init /\ [][Next]_vars

-----------------------------------------------------------------------------
\* Every variable of the part at work holds a value of its type.
TypeOK ==
  /\ which = "limit"   => Limit!LimitTypeOK
  /\ which = "cache"   => Cache!CacheTypeOK
  /\ which = "migrate" => Migrate!MigrateTypeOK
  /\ which = "session" => Session!SessionTypeOK
  /\ which = "policy"  => Policy!PolicyTypeOK
  /\ which = "repo"    => Repo!RepositoryTypeOK
  /\ which = "api"     => Api!ApiTypeOK
  /\ which = "defs"    => Defs!DefsTypeOK
  /\ which = "gen"     => Gen!GeneratorTypeOK
  /\ which = "table"   => Table!TableGenTypeOK
  /\ which = "text"    => Text!MethodTextTypeOK

\* The properties of the parts, under their names: see there.
QuotaIsKept          == which = "limit"   => Limit!WindowQuota /\ Limit!CountedAsDecided
FreshAfterInvalidKey == which = "cache"   => Cache!FreshAfterInvalidKey
MigrationsInOrder    == which = "migrate" => Migrate!MigrationsInOrder
RetiredIdIsDead      == which = "session" => Session!RetiredIdIsDead
DenyIsObeyed         == which = "policy"  => Policy!DenyIsObeyed
PagesShowTheLiving   == which = "repo"    => Repo!PagesShowTheLiving
ReadersAgree         == which = "api"     => Api!ReadersAgree
RefsResolve          == which = "defs"    => Defs!RefsResolve
FinishedIsComplete   ==
  /\ which = "gen"   => Gen!FinishedIsComplete
  /\ which = "table" => Table!PairIsWhole
  /\ which = "text"  => Text!MethodBuilds
=============================================================================
