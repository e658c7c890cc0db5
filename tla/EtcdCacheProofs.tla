-------------------------- MODULE EtcdCacheProofs --------------------------
(***************************************************************************)
(* Proofs about EtcdCache, for every number of clients, goroutines, writes *)
(* and calls.                                                              *)
(***************************************************************************)
EXTENDS EtcdCache, TLAPS

\* The watch goroutine works its way from the start of the watch to the last write.
WatchInOrder ==
    \A c \in Clients :
        /\ started[c] <= applied[c] /\ applied[c] <= last[c] /\ last[c] <= rev
        /\ watch[c] = "off" => applied[c] = started[c]
        /\ watch[c] = "apply" => applied[c] < last[c]
        /\ watch[c] = "send" => applied[c] = last[c] /\ started[c] < applied[c]

\* The last event that the watch put into the cache, 0 before the first.
Seen(c) == IF applied[c] = started[c] THEN 0 ELSE applied[c]

\* A goroutine is inside Put or Delete exactly while it holds its client's mutex.
Exclusive ==
    \A k \in Callers : pc[k] \in {"write", "store"} <=> mutex[ClientOf[k]] = k

\* What a goroutine is about to store is newer than all the watch has applied.
StoreIsNew ==
    \A k \in Callers : pc[k] = "store" => answer[k] = 0 \/ Seen(ClientOf[k]) <= answer[k]

CacheIsNew ==
    \A c \in Clients :
        /\ delivered[c] <= Seen(c)
        /\ c \notin overtaken => cache[c] = 0 \/ Seen(c) <= cache[c]

Inv == TypeOK /\ WatchInOrder /\ Exclusive /\ StoreIsNew /\ CacheIsNew

LEMMA InitInv == Init => Inv
  BY EtcdAssumption DEF Init, Inv, TypeOK, WatchInOrder, Exclusive, StoreIsNew, CacheIsNew,
     Seen, Revs, Ops
-----------------------------------------------------------------------------
LEMMA WriteType ==
    ASSUME TypeOK, NEW del \in BOOLEAN, Write(del)
    PROVE  rev' = rev + 1 /\ rev' \in Revs /\ deleted' \subseteq Revs
  BY EtcdAssumption DEF TypeOK, Write, Revs

LEMMA CurrentType == TypeOK => Current \in Revs
  BY EtcdAssumption DEF TypeOK, Current, Revs

LEMMA UnlockType ==
    ASSUME TypeOK, NEW k \in Callers
    PROVE  Unlock(k) \in [Clients -> Callers \cup {Nobody}]
  BY DEF TypeOK, Unlock

LEMMA NextTypeOK == TypeOK /\ WatchInOrder /\ [Next]_vars => TypeOK'
  <1>. SUFFICES ASSUME TypeOK, WatchInOrder, [Next]_vars
               PROVE  TypeOK'
    OBVIOUS
  <1>. USE EtcdAssumption DEF etcd, caching, caller, watcher, history
  <1>1. CASE ExternalWrite
    BY <1>1, WriteType DEF ExternalWrite, TypeOK
  <1>2. ASSUME NEW k \in Callers, NEW o \in Ops, Call(k, o) PROVE TypeOK'
    BY <1>2 DEF Call, TypeOK
  <1>3. ASSUME NEW k \in Callers, Lookup(k) PROVE TypeOK'
    BY <1>3 DEF Lookup, TypeOK
  <1>4. ASSUME NEW k \in Callers, Read(k) PROVE TypeOK'
    BY <1>4, CurrentType DEF Read, TypeOK
  <1>5. ASSUME NEW k \in Callers, Fill(k) PROVE TypeOK'
    BY <1>5 DEF Fill, TypeOK
  <1>6. ASSUME NEW k \in Callers, Lock(k) PROVE TypeOK'
    BY <1>6 DEF Lock, TypeOK
  <1>7. ASSUME NEW k \in Callers, WriteEtcd(k) PROVE TypeOK'
    <2>1. rev' \in Revs /\ deleted' \subseteq Revs
      BY <1>7, WriteType DEF WriteEtcd, TypeOK
    <2>2. 0 \in Revs
      BY DEF Revs
    <2>. QED
      BY <1>7, <2>1, <2>2 DEF WriteEtcd, TypeOK
  <1>8. ASSUME NEW k \in Callers, Store(k) PROVE TypeOK'
    BY <1>8, UnlockType DEF Store, TypeOK
  <1>9. ASSUME NEW k \in Callers, CallFails(k) PROVE TypeOK'
    <2>1. rev' \in Revs /\ deleted' \subseteq Revs
      BY <1>9, WriteType DEF CallFails, TypeOK
    <2>2. faults' \in Nat
      BY <1>9 DEF CallFails, Fault, TypeOK
    <2>. QED
      BY <1>9, <2>1, <2>2, UnlockType DEF CallFails, TypeOK
  <1>10. ASSUME NEW c \in Clients, StartWatch(c) PROVE TypeOK'
    <2>1. 0 \in Revs
      BY DEF Revs
    <2>. QED
      BY <1>10, <2>1 DEF StartWatch, TypeOK
  <1>11. ASSUME NEW c \in Clients, ReceiveEvents(c) PROVE TypeOK'
    <2>1. \A r \in applied[c]+1..rev : r \in Revs
      BY DEF TypeOK, Revs
    <2>. QED
      BY <1>11, <2>1 DEF ReceiveEvents, TypeOK
  <1>12. ASSUME NEW c \in Clients, ApplyEvent(c) PROVE TypeOK'
    <2>1. applied[c] + 1 \in Revs /\ 0 \in Revs
      BY <1>12 DEF ApplyEvent, TypeOK, WatchInOrder, Revs
    <2>2. applied'[c] = applied[c] + 1
      BY <1>12 DEF ApplyEvent, TypeOK
    <2>. QED
      BY <1>12, <2>1, <2>2 DEF ApplyEvent, EventValue, TypeOK
  <1>13. ASSUME NEW c \in Clients, Deliver(c) PROVE TypeOK'
    BY <1>13 DEF Deliver, TypeOK
  <1>14. ASSUME NEW c \in Clients, Quit(c) \/ WatchEnds(c) PROVE TypeOK'
    BY <1>14 DEF Quit, WatchEnds, Fault, TypeOK
  <1>15. CASE UNCHANGED vars
    BY <1>15 DEF vars, TypeOK
  <1>. QED
    BY <1>1, <1>2, <1>3, <1>4, <1>5, <1>6, <1>7, <1>8, <1>9, <1>10, <1>11, <1>12, <1>13,
       <1>14, <1>15 DEF Next, CallerStep, WatcherStep
-----------------------------------------------------------------------------
\* rev only grows, so what has been received stays behind it.
LEMMA NextWatchInOrder == TypeOK /\ WatchInOrder /\ [Next]_vars => WatchInOrder'
  <1>. SUFFICES ASSUME TypeOK, WatchInOrder, [Next]_vars, NEW c \in Clients
               PROVE  (/\ started[c] <= applied[c] /\ applied[c] <= last[c] /\ last[c] <= rev
                       /\ watch[c] = "off" => applied[c] = started[c]
                       /\ watch[c] = "apply" => applied[c] < last[c]
                       /\ watch[c] = "send" => applied[c] = last[c] /\ started[c] < applied[c])'
    BY DEF WatchInOrder
  <1>. USE DEF etcd, caching, caller, watcher, history
  <1>1. rev \in Int /\ started[c] \in Int /\ applied[c] \in Int /\ last[c] \in Int
    BY EtcdAssumption DEF TypeOK, Revs
  <1>2. CASE UNCHANGED <<watch, started, applied, last>>
    <2>1. rev' = rev \/ rev' = rev + 1
      BY DEF Next, CallerStep, WatcherStep, vars, ExternalWrite, Write, Call, Lookup, Read, Fill,
          Lock, WriteEtcd, Store, CallFails, StartWatch, ReceiveEvents, ApplyEvent, Deliver,
          Quit, WatchEnds
    <2>. QED
      BY <1>1, <1>2, <2>1 DEF WatchInOrder
  <1>3. ASSUME NEW d \in Clients, StartWatch(d) PROVE UNCHANGED <<watch, started, applied, last>>
               \/ (/\ watch'[c] = "recv" /\ rev' = rev
                   /\ started'[c] = rev /\ applied'[c] = rev /\ last'[c] = rev)
               \/ (rev' = rev /\ watch'[c] = watch[c] /\ started'[c] = started[c]
                   /\ applied'[c] = applied[c] /\ last'[c] = last[c])
    BY <1>3 DEF StartWatch, TypeOK
  <1>4. ASSUME NEW d \in Clients, ReceiveEvents(d), c = d
        PROVE  /\ rev' = rev /\ started'[c] = started[c] /\ applied'[c] = applied[c]
               /\ watch'[c] = "apply" /\ last'[c] \in applied[c]+1..rev
    BY <1>4 DEF ReceiveEvents, TypeOK
  <1>5. ASSUME NEW d \in Clients, ApplyEvent(d), c = d
        PROVE  /\ rev' = rev /\ started'[c] = started[c] /\ last'[c] = last[c]
               /\ watch[c] = "apply" /\ applied'[c] = applied[c] + 1
               /\ watch'[c] = IF applied[c] + 1 = last[c] THEN "send" ELSE "apply"
    BY <1>5 DEF ApplyEvent, IsLast, TypeOK
  <1>6. ASSUME NEW d \in Clients, Deliver(d) \/ WatchEnds(d), c = d
        PROVE  /\ rev' = rev /\ started'[c] = started[c] /\ last'[c] = last[c]
               /\ applied'[c] = applied[c] /\ watch'[c] \in {"recv", "closed"}
    BY <1>6 DEF Deliver, WatchEnds, TypeOK
  <1>7. ASSUME NEW d \in Clients, WatcherStep(d) \/ WatchEnds(d), c # d
        PROVE  /\ rev' = rev /\ started'[c] = started[c] /\ last'[c] = last[c]
               /\ applied'[c] = applied[c] /\ watch'[c] = watch[c]
    BY <1>7 DEF WatcherStep, ReceiveEvents, ApplyEvent, Deliver, WatchEnds, TypeOK
  <1>8. UNCHANGED <<watch, started, applied, last>>
        \/ \E d \in Clients : WatcherStep(d) \/ WatchEnds(d) \/ StartWatch(d)
    BY DEF Next, CallerStep, vars, ExternalWrite, Call, Lookup, Read, Fill,
        Lock, WriteEtcd, Store, CallFails, Quit
  <1>. QED
    BY <1>1, <1>2, <1>3, <1>4, <1>5, <1>6, <1>7, <1>8 DEF WatcherStep, WatchInOrder
-----------------------------------------------------------------------------
\* Whoever unlocks was inside; whoever gets in found the mutex unlocked.
LEMMA NextExclusive == TypeOK /\ Exclusive /\ [Next]_vars => Exclusive'
  <1>. SUFFICES ASSUME TypeOK, Exclusive, [Next]_vars, NEW j \in Callers
               PROVE  (pc[j] \in {"write", "store"} <=> mutex[ClientOf[j]] = j)'
    BY DEF Exclusive
  <1>. USE EtcdAssumption DEF etcd, caching, caller, watcher, history
  <1>1. ASSUME NEW k \in Callers, NEW o \in Ops, Call(k, o) PROVE Exclusive'
    BY <1>1 DEF Call, TypeOK, Exclusive
  <1>2. ASSUME NEW k \in Callers, Lookup(k) \/ Read(k) \/ Fill(k) PROVE Exclusive'
    BY <1>2 DEF Lookup, Read, Fill, TypeOK, Exclusive
  <1>3. ASSUME NEW k \in Callers, Lock(k) PROVE Exclusive'
    BY <1>3 DEF Lock, Unlocked, TypeOK, Exclusive
  <1>4. ASSUME NEW k \in Callers, WriteEtcd(k) PROVE Exclusive'
    BY <1>4 DEF WriteEtcd, TypeOK, Exclusive
  <1>5. ASSUME NEW k \in Callers, Store(k) \/ CallFails(k) PROVE Exclusive'
    BY <1>5 DEF Store, CallFails, Unlock, TypeOK, Exclusive
  <1>6. CASE UNCHANGED <<pc, mutex>>
    BY <1>6 DEF Exclusive
  <1>7. \/ UNCHANGED <<pc, mutex>>
        \/ \E k \in Callers : CallerStep(k) \/ \E o \in Ops : Call(k, o)
    BY DEF Next, vars, ExternalWrite, WatcherStep, ReceiveEvents, ApplyEvent, Deliver,
        StartWatch, Quit, WatchEnds
  <1>. QED
    BY <1>1, <1>2, <1>3, <1>4, <1>5, <1>6, <1>7 DEF CallerStep, Exclusive

\* Only an event that is applied, under the mutex, moves Seen away from 0 or on.
LEMMA SeenStep ==
    ASSUME TypeOK, WatchInOrder, [Next]_vars, NEW c \in Clients
    PROVE  \/ Seen(c)' = Seen(c) /\ applied'[c] = applied[c]
           \/ Seen(c)' = 0 /\ StartWatch(c)
           \/ ApplyEvent(c) /\ Seen(c)' = applied'[c] /\ applied'[c] = applied[c] + 1
  <1>. USE DEF etcd, caching, caller, watcher, history
  <1>1. ASSUME NEW d \in Clients, StartWatch(d), c # d PROVE Seen(c)' = Seen(c) /\ applied'[c] = applied[c]
    BY <1>1 DEF StartWatch, Seen, TypeOK
  <1>2. ASSUME StartWatch(c) PROVE Seen(c)' = 0
    BY <1>2 DEF StartWatch, Seen, TypeOK
  <1>3. ASSUME NEW d \in Clients, ApplyEvent(d), c # d PROVE Seen(c)' = Seen(c) /\ applied'[c] = applied[c]
    BY <1>3 DEF ApplyEvent, Seen, TypeOK
  <1>4. ASSUME ApplyEvent(c) PROVE Seen(c)' = applied'[c] /\ applied'[c] = applied[c] + 1
    BY <1>4, EtcdAssumption DEF ApplyEvent, Seen, TypeOK, WatchInOrder, Revs
  <1>5. CASE UNCHANGED <<started, applied>>
    BY <1>5 DEF Seen
  <1>6. UNCHANGED <<started, applied>> \/ \E d \in Clients : ApplyEvent(d) \/ StartWatch(d)
    BY DEF Next, CallerStep, WatcherStep, vars, ExternalWrite, Call, Lookup, Read, Fill,
        Lock, WriteEtcd, Store, CallFails, ReceiveEvents, Deliver, Quit, WatchEnds
  <1>. QED
    BY <1>1, <1>2, <1>3, <1>4, <1>5, <1>6

LEMMA SeenBound ==
    ASSUME TypeOK, WatchInOrder, NEW c \in Clients
    PROVE  Seen(c) \in Nat /\ Seen(c) <= applied[c] /\ applied[c] <= rev
           /\ applied[c] \in Nat /\ rev \in Nat
  BY EtcdAssumption DEF TypeOK, WatchInOrder, Seen, Revs

\* What is written under the mutex gets a new revision, and until it is stored no event
\* is applied.
LEMMA NextStoreIsNew ==
    TypeOK /\ WatchInOrder /\ Exclusive /\ StoreIsNew /\ [Next]_vars => StoreIsNew'
  <1>. SUFFICES ASSUME TypeOK, WatchInOrder, Exclusive, StoreIsNew, [Next]_vars,
                      NEW j \in Callers, pc'[j] = "store"
               PROVE  answer'[j] = 0 \/ Seen(ClientOf[j])' <= answer'[j]
    BY DEF StoreIsNew
  <1>. DEFINE c == ClientOf[j]
  <1>. USE DEF etcd, caching, caller, watcher, history
  <1>0. c \in Clients /\ answer[j] \in Nat /\ answer'[j] \in Nat
    BY EtcdAssumption, NextTypeOK DEF TypeOK, Revs
  <1>1. CASE WriteEtcd(j)
    <2>1. answer'[j] = 0 \/ answer'[j] = rev + 1
      BY <1>1 DEF WriteEtcd, Write, TypeOK
    <2>2. Seen(c)' = Seen(c)
      BY <1>1 DEF WriteEtcd, Seen
    <2>3. Seen(c) \in Nat /\ Seen(c) <= rev /\ rev \in Nat
      BY <1>0, SeenBound
    <2>. QED
      BY <2>1, <2>2, <2>3
  <1>2. CASE ~WriteEtcd(j)
    <2>1. pc[j] = "store" /\ answer'[j] = answer[j]
      BY <1>2 DEF Next, CallerStep, WatcherStep, vars, ExternalWrite, Call, Lookup, Read, Fill,
          Lock, WriteEtcd, Store, CallFails, StartWatch, ReceiveEvents, ApplyEvent, Deliver,
          Quit, WatchEnds, TypeOK
    <2>2. ~ApplyEvent(c)
      BY <2>1, EtcdAssumption DEF Exclusive, ApplyEvent, Unlocked
    <2>3. Seen(c)' = Seen(c) \/ Seen(c)' = 0
      BY <1>0, <2>2, SeenStep
    <2>. QED
      BY <1>0, <2>1, <2>3 DEF StoreIsNew
  <1>. QED
    BY <1>1, <1>2

LEMMA NextCacheIsNew == Inv /\ [Next]_vars => CacheIsNew'
  <1>. SUFFICES ASSUME Inv, [Next]_vars, NEW c \in Clients
               PROVE  /\ delivered'[c] <= Seen(c)'
                      /\ c \notin overtaken' => cache'[c] = 0 \/ Seen(c)' <= cache'[c]
    BY DEF CacheIsNew
  <1>. USE DEF Inv, etcd, caching, caller, watcher, history
  <1>0. /\ cache[c] \in Nat /\ delivered[c] \in Nat /\ applied[c] \in Nat
        /\ \A k \in Callers : answer[k] \in Nat
    BY DEF TypeOK, Revs
  <1>1. delivered'[c] <= Seen(c)'
    <2>1. \/ delivered'[c] = delivered[c] \/ delivered'[c] = 0
          \/ Deliver(c) /\ delivered'[c] = last[c]
      BY DEF Next, CallerStep, WatcherStep, vars, ExternalWrite, Call, Lookup, Read, Fill,
          Lock, WriteEtcd, Store, CallFails, StartWatch, ReceiveEvents, ApplyEvent, Deliver,
          Quit, WatchEnds, TypeOK
    <2>2. StartWatch(c) => delivered'[c] = 0
      BY DEF StartWatch, TypeOK
    <2>3. Deliver(c) => last[c] = Seen(c) /\ Seen(c)' = Seen(c)
      <3>1. SUFFICES ASSUME Deliver(c)
                     PROVE  last[c] = Seen(c) /\ Seen(c)' = Seen(c)
        OBVIOUS
      <3>2. applied[c] = last[c] /\ started[c] < applied[c]
        BY <3>1 DEF Deliver, WatchInOrder
      <3>. QED
        BY <3>1, <3>2, SeenBound DEF Deliver, Seen, TypeOK, Revs
    <2>4. Seen(c) <= Seen(c)' \/ StartWatch(c)
      BY SeenStep, SeenBound
    <2>. QED
      BY <1>0, <2>1, <2>2, <2>3, <2>4, SeenBound, SeenStep DEF CacheIsNew
  <1>2. ASSUME c \notin overtaken' PROVE cache'[c] = 0 \/ Seen(c)' <= cache'[c]
    <2>1. c \notin overtaken
      BY <1>2 DEF Next, CallerStep, WatcherStep, vars, ExternalWrite, Call, Lookup, Read, Fill,
          Lock, WriteEtcd, Store, CallFails, StartWatch, ReceiveEvents, ApplyEvent, Deliver,
          Quit, WatchEnds
    <2>2. CASE ApplyEvent(c)
      <3>1. cache'[c] = 0 \/ cache'[c] = applied'[c]
        BY <2>2 DEF ApplyEvent, EventValue, TypeOK
      <3>. QED
        BY <2>2, <3>1, <1>0, SeenStep, SeenBound DEF ApplyEvent, Seen, TypeOK, Revs
    <2>3. ASSUME NEW k \in Callers, Fill(k), ClientOf[k] = c
          PROVE  Seen(c)' = Seen(c) /\ cache'[c] = answer[k] /\ applied[c] <= answer[k]
      <3>1. Seen(c)' = Seen(c)
        BY <2>3 DEF Fill, Seen
      <3>2. cache'[c] = answer[k] /\ ~(answer[k] < applied[c])
        BY <2>3, <1>2 DEF Fill, TypeOK
      <3>. QED
        BY <1>0, <3>1, <3>2
    <2>4. ASSUME NEW k \in Callers, Store(k), ClientOf[k] = c
          PROVE  /\ Seen(c)' = Seen(c) /\ cache'[c] = answer[k]
                 /\ answer[k] = 0 \/ Seen(c) <= answer[k]
      <3>1. Seen(c)' = Seen(c)
        BY <2>4 DEF Store, Seen
      <3>. QED
        BY <2>4, <3>1 DEF Store, TypeOK, StoreIsNew
    <2>5. \/ cache'[c] = cache[c]
          \/ ApplyEvent(c)
          \/ \E k \in Callers : (Fill(k) \/ Store(k)) /\ ClientOf[k] = c
      BY DEF Next, CallerStep, WatcherStep, vars, ExternalWrite, Call, Lookup, Read, Fill,
          Lock, WriteEtcd, Store, CallFails, StartWatch, ReceiveEvents, ApplyEvent, Deliver,
          Quit, WatchEnds, TypeOK
    <2>6. CASE cache'[c] = cache[c] /\ ~ApplyEvent(c)
      BY <2>1, <2>6, <1>0, SeenStep, SeenBound DEF CacheIsNew
    <2>. QED
      BY <1>0, <2>2, <2>3, <2>4, <2>5, <2>6, SeenBound
  <1>. QED
    BY <1>1, <1>2

LEMMA InvInductive == Spec => []Inv
  <1>1. Inv /\ [Next]_vars => Inv'
    BY NextTypeOK, NextWatchInOrder, NextExclusive, NextStoreIsNew, NextCacheIsNew DEF Inv
  <1>. QED
    BY InitInv, <1>1, PTL DEF Spec

\* The client's variables never leave their types.
THEOREM TypeCorrect == Spec => []TypeOK
  <1>1. Inv => TypeOK
    BY DEF Inv
  <1>. QED
    BY InvInductive, <1>1, PTL

\* Whatever goroutines read, write and watch the key: the cache does not fall behind an
\* event that the consumer of the watch has received, unless a Get overtook an event.
THEOREM NotBehindTheWatch == Spec => []NeverBehindDelivered
  <1>1. Inv => NeverBehindDelivered
    <2>. SUFFICES ASSUME Inv, NEW c \in Clients \ overtaken
                 PROVE  cache[c] = 0 \/ delivered[c] <= cache[c]
      BY DEF NeverBehindDelivered
    <2>1. cache[c] \in Nat /\ delivered[c] \in Nat /\ Seen(c) \in Nat
      BY SeenBound DEF Inv, TypeOK, Revs
    <2>. QED
      BY <2>1 DEF Inv, CacheIsNew
  <1>. QED
    BY InvInductive, <1>1, PTL
=============================================================================
