---------------------------- MODULE DependCache ----------------------------
(***************************************************************************)
(* Cache entries that depend on a key: an entry is stored with the version *)
(* the key had, and is valid while the key still has it.  InvalidKey makes *)
(* the version invalid; who meets no version makes a new random one.  The  *)
(* entries, the key and the database are read and written in steps that    *)
(* those of other goroutines and processes come between.                   *)
(***************************************************************************)
EXTENDS Integers

CONSTANTS
    Readers,     \* goroutines that call GetOrSet or Get
    Writers,     \* goroutines that update the database and call InvalidKey
    Keys,        \* cache keys whose entries depend on the one key
    MaxUpdates,  \* bound: revisions of the database
    MaxVersions, \* bound: versions made
    MaxFaults    \* bound: calls to the store that fail

CacheAssumption == MaxUpdates \in Nat /\ MaxVersions \in Nat /\ MaxFaults \in Nat

Invalid == -1
Missing == 0

VARIABLES
    db,         \* the revision of the data in the database
    confirmed,  \* the highest revision whose InvalidKey has returned
    dep,        \* store: the version under the dependency's key, Invalid or Missing
    versions,   \* how many random versions were made
    entry,      \* store: the entry of each key, or None
    pc,         \* where each goroutine is
    key,        \* the key of the reader's call
    seen,       \* the version it has read from an entry, read or made
    data,       \* the revision it holds, and the confirmed one it may stand for
    floor,      \* history: what was confirmed when the reader's call began
    revision,   \* the revision each writer wrote
    faults      \* bound counter

store  == <<dep, entry>>
locals == <<pc, key, seen, data, floor, revision>>
vars   == <<db, confirmed, versions, store, locals, faults>>

\* A revision, and the confirmed revision up to which it may be served: its own, or one
\* whose InvalidKey came while a fill was between the database and the version.
Datum == [rev : 0..MaxUpdates, good : 0..MaxUpdates]
None  == [version |-> Missing]
NoDatum == [rev |-> 0, good |-> 0]
Fault == faults < MaxFaults /\ faults' = faults + 1
-----------------------------------------------------------------------------
Init ==
    /\ db = 0 /\ confirmed = 0 /\ versions = 0
    /\ dep = Missing
    /\ entry = [k \in Keys |-> None]
    /\ pc = [t \in Readers \cup Writers |-> "idle"]
    /\ key \in [Readers -> Keys]
    /\ seen = [r \in Readers |-> Missing]
    /\ data = [r \in Readers |-> NoDatum]
    /\ floor = [r \in Readers |-> 0]
    /\ revision = [w \in Writers |-> 0]
    /\ faults = 0

Goto(t, to) == pc' = [pc EXCEPT ![t] = to]

\* The database is updated; then InvalidKey is called.
Update(w) ==
    /\ pc[w] = "idle" /\ db < MaxUpdates
    /\ db' = db + 1
    /\ revision' = [revision EXCEPT ![w] = db + 1]
    /\ Goto(w, "invalidate")
    /\ UNCHANGED <<confirmed, versions, store, key, seen, data, floor, faults>>

\* Mutant: InvalidKey stores a version of its own.
InvalidVersion == versions

\* InvalidKey stores -1.
InvalidDep == Invalid

\* A fill between the database and the version stands for what is confirmed now.
InvalidKey(w) ==
    /\ pc[w] = "invalidate"
    /\ dep' = InvalidDep
    /\ confirmed' = IF confirmed < revision[w] THEN revision[w] ELSE confirmed
    /\ data' = [r \in Readers |->
          IF pc[r] \in {"version", "versionSet"} /\ data[r].good < confirmed'
          THEN [data[r] EXCEPT !.good = confirmed'] ELSE data[r]]
    /\ Goto(w, "idle")
    /\ UNCHANGED <<db, versions, entry, key, seen, floor, revision, faults>>

InvalidKeyFails(w) ==
    /\ pc[w] = "invalidate" /\ Fault
    /\ Goto(w, "idle")
    /\ UNCHANGED <<db, confirmed, versions, store, key, seen, data, floor, revision>>

\* The time to live of an entry or of the version runs out, or Del is called.
Expire ==
    /\ \/ dep' = Missing /\ UNCHANGED entry
       \/ \E k \in Keys : entry' = [entry EXCEPT ![k] = None] /\ UNCHANGED dep
    /\ store' # store
    /\ UNCHANGED <<db, confirmed, versions, locals, faults>>

\* GetOrSet goes on to the database without a valid entry; Get returns an error.
Missed == {"set", "error"}

\* GetOrSet's or Get's call: the entry is read; any error of the read counts as a miss.
Get(r) ==
    /\ pc[r] = "idle"
    /\ \E k \in Keys :
          /\ key' = [key EXCEPT ![r] = k]
          /\ floor' = [floor EXCEPT ![r] = confirmed]
          /\ \/ /\ entry[k] # None
                /\ seen' = [seen EXCEPT ![r] = entry[k].version]
                /\ data' = [data EXCEPT ![r] = entry[k].datum]
                /\ Goto(r, "valid") /\ UNCHANGED faults
             \/ /\ Fault \/ (entry[k] = None /\ UNCHANGED faults)
                /\ \E to \in Missed : Goto(r, to)
                /\ UNCHANGED <<seen, data>>
    /\ UNCHANGED <<db, confirmed, versions, store, revision>>

\* Val: the version that is stored, or a new one.
HasVersion == dep \notin {Missing, Invalid}

NewVersion(r, to) ==
    /\ versions < MaxVersions /\ versions' = versions + 1
    /\ seen' = [seen EXCEPT ![r] = versions + 1]
    /\ Goto(r, to)

\* Equate
Matches(r) == dep = seen[r]

\* Valid: the entry is valid if it has the dependency's version.
Valid(r) ==
    /\ pc[r] = "valid"
    /\ \/ /\ HasVersion
          /\ \E to \in IF Matches(r) THEN {"hit"} ELSE Missed : Goto(r, to)
          /\ UNCHANGED <<versions, seen, faults>>
       \/ /\ Fault \/ (~HasVersion /\ UNCHANGED faults)
          /\ NewVersion(r, "validSet")
    /\ UNCHANGED <<db, confirmed, store, key, data, floor, revision>>

\* GetOrSet's function reads the database; one that fails ends the call.
Load(r) ==
    /\ pc[r] = "set"
    /\ data' = [data EXCEPT ![r] = [rev |-> db, good |-> db]]
    /\ \/ Goto(r, "version") /\ UNCHANGED faults
       \/ Goto(r, "error") /\ Fault
    /\ UNCHANGED <<db, confirmed, versions, store, key, seen, floor, revision>>

\* Marshal: the version to store the data with.
Version(r) ==
    /\ pc[r] = "version"
    /\ \/ /\ HasVersion
          /\ seen' = [seen EXCEPT ![r] = dep]
          /\ Goto(r, "store")
          /\ UNCHANGED <<versions, faults>>
       \/ /\ Fault \/ (~HasVersion /\ UNCHANGED faults)
          /\ NewVersion(r, "versionSet")
    /\ UNCHANGED <<db, confirmed, store, key, data, floor, revision>>

\* Val stores the version it made; it ignores whether that worked.
SetVersion(r) ==
    /\ pc[r] \in {"validSet", "versionSet"}
    /\ \/ dep' = seen[r] /\ UNCHANGED faults
       \/ Fault /\ UNCHANGED dep
    /\ \E to \in IF pc[r] = "versionSet" THEN {"store"} ELSE Missed : Goto(r, to)
    /\ UNCHANGED <<db, confirmed, versions, entry, key, seen, data, floor, revision>>

\* Set: the entry is stored, and returned without another check (NilDep).
Store(r) ==
    /\ pc[r] = "store"
    /\ \/ /\ entry' = [entry EXCEPT ![key[r]] = [version |-> seen[r], datum |-> data[r]]]
          /\ Goto(r, "hit") /\ UNCHANGED faults
       \/ Fault /\ Goto(r, "error") /\ UNCHANGED entry
    /\ UNCHANGED <<db, confirmed, versions, dep, key, seen, data, floor, revision>>

\* The caller has its data or an error.
Return(r) ==
    /\ pc[r] \in {"hit", "error"}
    /\ Goto(r, "idle")
    /\ seen' = [seen EXCEPT ![r] = Missing]
    /\ data' = [data EXCEPT ![r] = NoDatum]
    /\ floor' = [floor EXCEPT ![r] = 0]
    /\ UNCHANGED <<db, confirmed, versions, store, key, revision, faults>>

ReaderStep(r) ==
    Get(r) \/ Valid(r) \/ Load(r) \/ Version(r) \/ SetVersion(r) \/ Store(r) \/ Return(r)

Next ==
    \/ \E w \in Writers : Update(w) \/ InvalidKey(w) \/ InvalidKeyFails(w)
    \/ \E r \in Readers : ReaderStep(r)
    \/ Expire

Spec == Init /\ [][Next]_vars
-----------------------------------------------------------------------------
\* Every variable holds a value of its type.
CacheTypeOK ==
    /\ db \in 0..MaxUpdates /\ confirmed \in 0..MaxUpdates
    /\ versions \in 0..MaxVersions /\ dep \in Invalid..MaxVersions
    /\ entry \in [Keys -> {None} \cup [version : 1..MaxVersions, datum : Datum]]
    /\ pc \in [Readers \cup Writers ->
          {"idle", "invalidate", "valid", "validSet", "set", "version", "versionSet", "store", "hit", "error"}]
    /\ key \in [Readers -> Keys]
    /\ seen \in [Readers -> 0..MaxVersions] /\ data \in [Readers -> Datum]
    /\ floor \in [Readers -> 0..MaxUpdates] /\ revision \in [Writers -> 0..MaxUpdates]
    /\ faults \in Nat

\* A call that begins after InvalidKey returned gets data at least as new as that update,
\* unless what it gets was read from the database before the update by a fill that read
\* or made its version after it; and such an entry dies at the next InvalidKey, although
\* readers make versions at the same time, store them late, or fail to (Val, Valid, Marshal).
FreshAfterInvalidKey ==
    \A r \in Readers : pc[r] = "hit" => data[r].good >= floor[r]
=============================================================================
