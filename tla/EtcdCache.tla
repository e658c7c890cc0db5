----------------------------- MODULE EtcdCache -----------------------------
(***************************************************************************)
(* The caching etcd client and the configuration source on top of it, for  *)
(* one key: goroutines that call Get, Scan, Put and Delete on clients, the *)
(* goroutine behind each client's Watch that applies events to the cache   *)
(* before it passes them on, and other programs that write the key.        *)
(*                                                                         *)
(* A value is named by the revision that wrote it; 0 is the absent value.  *)
(* sync.RWMutex is held by at most one writer; a reader's critical section *)
(* is one step that needs no writer.                                       *)
(***************************************************************************)
EXTENDS Integers

CONSTANTS
    Clients,     \* caching clients (one per process)
    Callers,     \* goroutines that use them
    ClientOf,    \* the client each goroutine uses
    MaxRev,      \* bound: writes of the key
    MaxCalls,    \* bound: calls per goroutine
    MaxFaults,   \* bound: etcd calls that fail
    Nobody       \* the holder of a mutex that is not locked

ASSUME EtcdAssumption ==
    /\ ClientOf \in [Callers -> Clients]
    /\ MaxRev \in Nat /\ MaxCalls \in Nat /\ MaxFaults \in Nat
    /\ Nobody \notin Callers

VARIABLES
    rev,        \* etcd: the revision of the last write of the key
    deleted,    \* etcd: the revisions that delete the key
    cache,      \* client: the revision whose value the cache holds, 0 for no entry
    mutex,      \* client: the goroutine that has locked c.mu
    pc, op,     \* caller: where it is in which call
    answer,     \* caller: the revision its call was answered with
    calls,      \* bound counter: calls made by each goroutine
    watch,      \* watch goroutine: "off", "recv", "apply", "send" or "closed"
    started,    \* watch goroutine: the revision the watch started at
    applied,    \* watch goroutine: the last event applied to the cache
    last,       \* watch goroutine: the last event of the response it works on
    delivered,  \* the last event the consumer of the watch has received
    quit,       \* clients whose consumer has stopped receiving
    ownPut,     \* history: the last revision a successful Put of the client wrote
    overtaken,  \* history: clients where a Get filled the cache with a value older
                \* than an event that was applied meanwhile
    faults      \* bound counter

etcd    == <<rev, deleted>>
caching == <<cache, mutex>>
caller  == <<pc, op, answer, calls>>
watcher == <<watch, started, applied, last, delivered, quit>>
history == <<ownPut, overtaken>>
vars    == <<etcd, caching, caller, watcher, history, faults>>

Revs == 0..MaxRev
Ops == {"get", "scan", "put", "delete"}
\* Mutants: the calls do not exclude each other; a call returns without unlocking.
NoMutex(c) == TRUE
KeepLocked(k) == mutex

Unlocked(c) == mutex[c] = Nobody
Unlock(k) == [c \in Clients |-> IF mutex[c] = k THEN Nobody ELSE mutex[c]]
Current == IF rev \in deleted THEN 0 ELSE rev
Fault == faults < MaxFaults /\ faults' = faults + 1
-----------------------------------------------------------------------------
Init ==
    /\ rev = 0 /\ deleted = {}
    /\ cache = [c \in Clients |-> 0]
    /\ mutex = [c \in Clients |-> Nobody]
    /\ pc = [k \in Callers |-> "idle"]
    /\ op = [k \in Callers |-> "get"]
    /\ answer = [k \in Callers |-> 0]
    /\ calls = [k \in Callers |-> 0]
    /\ watch = [c \in Clients |-> "off"]
    /\ started = [c \in Clients |-> 0]
    /\ applied = [c \in Clients |-> 0]
    /\ last = [c \in Clients |-> 0]
    /\ delivered = [c \in Clients |-> 0]
    /\ quit = {}
    /\ ownPut = [c \in Clients |-> 0]
    /\ overtaken = {}
    /\ faults = 0

\* Another program writes or deletes the key.
Write(del) ==
    /\ rev < MaxRev
    /\ rev' = rev + 1
    /\ deleted' = IF del THEN deleted \cup {rev'} ELSE deleted

ExternalWrite ==
    /\ \E del \in BOOLEAN : Write(del)
    /\ UNCHANGED <<caching, caller, watcher, history, faults>>
-----------------------------------------------------------------------------
Call(k, o) ==
    /\ pc[k] = "idle" /\ calls[k] < MaxCalls
    /\ calls' = [calls EXCEPT ![k] = @ + 1]
    /\ op' = [op EXCEPT ![k] = o]
    /\ pc' = [pc EXCEPT ![k] = IF o \in {"get", "scan"} THEN "lookup" ELSE "lock"]
    /\ UNCHANGED <<etcd, caching, answer, watcher, history, faults>>

\* Get: the cache is read under RLock; a hit is returned.
Lookup(k) ==
    /\ pc[k] = "lookup" /\ Unlocked(ClientOf[k])
    /\ pc' = [pc EXCEPT ![k] = IF cache[ClientOf[k]] # 0 THEN "idle" ELSE "read"]
    /\ UNCHANGED <<etcd, caching, op, answer, calls, watcher, history, faults>>

\* A miss reads etcd without the mutex.  Scan puts its default when the key is absent.
Read(k) ==
    /\ pc[k] = "read"
    /\ answer' = [answer EXCEPT ![k] = Current]
    /\ pc' = [pc EXCEPT ![k] = IF Current # 0 THEN "fill"
                               ELSE IF op[k] = "scan" THEN "lock" ELSE "idle"]
    /\ UNCHANGED <<etcd, caching, op, calls, watcher, history, faults>>

\* The answer is put into the cache.
Fill(k) ==
    /\ pc[k] = "fill" /\ Unlocked(ClientOf[k])
    /\ cache' = [cache EXCEPT ![ClientOf[k]] = answer[k]]
    /\ overtaken' = IF answer[k] < applied[ClientOf[k]]
                    THEN overtaken \cup {ClientOf[k]} ELSE overtaken
    /\ pc' = [pc EXCEPT ![k] = "idle"]
    /\ UNCHANGED <<etcd, mutex, op, answer, calls, watcher, ownPut, faults>>

\* Put and Delete lock the mutex for the whole call.
Lock(k) ==
    /\ pc[k] = "lock" /\ Unlocked(ClientOf[k])
    /\ mutex' = [mutex EXCEPT ![ClientOf[k]] = k]
    /\ pc' = [pc EXCEPT ![k] = "write"]
    /\ UNCHANGED <<etcd, cache, op, answer, calls, watcher, history, faults>>

\* The write in etcd; the deletion of an absent key writes no revision.
WriteEtcd(k) ==
    /\ pc[k] = "write"
    /\ \/ Write(op[k] = "delete") /\ (op[k] = "delete" => Current # 0)
       \/ op[k] = "delete" /\ Current = 0 /\ UNCHANGED etcd
    /\ answer' = [answer EXCEPT ![k] = IF op[k] = "delete" THEN 0 ELSE rev']
    /\ pc' = [pc EXCEPT ![k] = "store"]
    /\ UNCHANGED <<caching, op, calls, watcher, history, faults>>

\* The cache follows, and the mutex is unlocked.
Store(k) ==
    /\ pc[k] = "store"
    /\ cache' = [cache EXCEPT ![ClientOf[k]] = answer[k]]
    /\ mutex' = Unlock(k)
    /\ ownPut' = IF op[k] = "delete" THEN ownPut
                 ELSE [ownPut EXCEPT ![ClientOf[k]] = answer[k]]
    /\ pc' = [pc EXCEPT ![k] = "idle"]
    /\ UNCHANGED <<etcd, op, answer, calls, watcher, overtaken, faults>>

\* A call of etcd fails in the client: an error is returned, the cache stays as it is;
\* a write that failed may have been done.
CallFails(k) ==
    /\ pc[k] \in {"read", "write"}
    /\ Fault \/ (pc[k] = "write" /\ rev = MaxRev /\ UNCHANGED faults)
    /\ \/ UNCHANGED etcd
       \/ pc[k] = "write" /\ Write(op[k] = "delete") /\ (op[k] = "delete" => Current # 0)
    /\ mutex' = Unlock(k)
    /\ pc' = [pc EXCEPT ![k] = "idle"]
    /\ UNCHANGED <<cache, op, answer, calls, watcher, history>>
-----------------------------------------------------------------------------
\* Watch starts at the present revision.
StartWatch(c) ==
    /\ watch[c] = "off"
    /\ watch' = [watch EXCEPT ![c] = "recv"]
    /\ started' = [started EXCEPT ![c] = rev]
    /\ applied' = [applied EXCEPT ![c] = rev]
    /\ last' = [last EXCEPT ![c] = rev]
    /\ delivered' = [delivered EXCEPT ![c] = 0]
    /\ UNCHANGED <<etcd, caching, caller, quit, history, faults>>

\* origCh hands over a response with the next events, one or several.
ReceiveEvents(c) ==
    /\ watch[c] = "recv" /\ applied[c] < rev
    /\ \E r \in applied[c]+1..rev : last' = [last EXCEPT ![c] = r]
    /\ watch' = [watch EXCEPT ![c] = "apply"]
    /\ UNCHANGED <<etcd, caching, caller, started, applied, delivered, quit, history, faults>>

\* Mutants: a delete event is stored like a put; the loop passes the last event.
EventStored(r) == r
PastLast(c) == applied[c] = last[c]

EventValue(r) == IF r \in deleted THEN 0 ELSE r
IsLast(c) == applied[c] + 1 = last[c]

\* Each event is applied to the cache under the mutex.
ApplyEvent(c) ==
    /\ watch[c] = "apply" /\ Unlocked(c)
    /\ applied' = [applied EXCEPT ![c] = @ + 1]
    /\ cache' = [cache EXCEPT ![c] = EventValue(applied'[c])]
    /\ watch' = [watch EXCEPT ![c] = IF IsLast(c) THEN "send" ELSE "apply"]
    /\ UNCHANGED <<etcd, mutex, caller, started, last, delivered, quit, history, faults>>

\* proxyCh <- resp: the channel has no buffer, the consumer takes the response.
Deliver(c) ==
    /\ watch[c] = "send" /\ c \notin quit
    /\ delivered' = [delivered EXCEPT ![c] = last[c]]
    /\ watch' = [watch EXCEPT ![c] = "recv"]
    /\ UNCHANGED <<etcd, caching, caller, started, applied, last, quit, history, faults>>

\* The consumer stops receiving although the watch goes on.
Quit(c) ==
    /\ watch[c] \notin {"off", "closed"}
    /\ Fault
    /\ quit' = quit \cup {c}
    /\ UNCHANGED <<etcd, caching, caller, watch, started, applied, last, delivered, history>>

\* origCh is closed: the watch failed or its context was cancelled.
WatchEnds(c) ==
    /\ watch[c] = "recv"
    /\ Fault
    /\ watch' = [watch EXCEPT ![c] = "closed"]
    /\ UNCHANGED <<etcd, caching, caller, started, applied, last, delivered, quit, history>>

CallerStep(k) ==
    Lookup(k) \/ Read(k) \/ Fill(k) \/ Lock(k) \/ WriteEtcd(k) \/ Store(k) \/ CallFails(k)
WatcherStep(c) == ReceiveEvents(c) \/ ApplyEvent(c) \/ Deliver(c)

Next ==
    \/ ExternalWrite
    \/ \E k \in Callers : CallerStep(k) \/ \E o \in Ops : Call(k, o)
    \/ \E c \in Clients : WatcherStep(c) \/ StartWatch(c) \/ Quit(c) \/ WatchEnds(c)

Spec == Init /\ [][Next]_vars

\* Goroutines are scheduled and calls return; sync.RWMutex starves nobody.
FairSpec ==
    /\ Spec
    /\ \A k \in Callers : SF_vars(CallerStep(k))
    /\ \A c \in Clients : SF_vars(WatcherStep(c))
-----------------------------------------------------------------------------
\* Every variable holds a value of its type.
TypeOK ==
    /\ rev \in Revs /\ deleted \subseteq Revs
    /\ cache \in [Clients -> Revs]
    /\ mutex \in [Clients -> Callers \cup {Nobody}]
    /\ pc \in [Callers -> {"idle", "lookup", "read", "fill", "lock", "write", "store"}]
    /\ op \in [Callers -> Ops]
    /\ answer \in [Callers -> Revs] /\ calls \in [Callers -> Nat]
    /\ watch \in [Clients -> {"off", "recv", "apply", "send", "closed"}]
    /\ started \in [Clients -> Revs] /\ applied \in [Clients -> Revs]
    /\ last \in [Clients -> Revs] /\ delivered \in [Clients -> Revs]
    /\ quit \subseteq Clients
    /\ ownPut \in [Clients -> Revs] /\ overtaken \subseteq Clients
    /\ faults \in Nat

\* When an event of the watch reaches its consumer, the cache never falls back behind
\* that event, however Puts, Deletes and later events interleave: the consumer's next
\* Get sees at least what it was told of.  The only exception is a Get that missed
\* before the event and filled the cache after it (Watch, Put, Delete).
NeverBehindDelivered ==
    \A c \in Clients \ overtaken : cache[c] = 0 \/ delivered[c] <= cache[c]

\* With a watch the cache follows etcd: after the last write it holds the present value
\* or none, unless no event came since the watch started, a Get overtook an event, or
\* the consumer stopped receiving (Watch).
CacheFollows ==
    \A c \in Clients :
        <>[](\/ watch[c] \in {"off", "closed"} \/ c \in quit \cup overtaken
             \/ rev = started[c]
             \/ cache[c] \in {0, Current})

\* Every call returns: no goroutine keeps the mutex, not even a watch goroutine whose
\* consumer has stopped receiving.
CallsReturn == \A k \in Callers : pc[k] # "idle" ~> pc[k] = "idle"

\* Put writes etcd and the cache under one lock, so the cache of the client never holds
\* a value older than its last successful Put.
PutIsConsistent ==
    \A c \in Clients : watch[c] = "off" => cache[c] = 0 \/ ownPut[c] <= cache[c]
=============================================================================
