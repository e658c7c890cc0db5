---------------------------- MODULE LimitProofs ----------------------------
(***************************************************************************)
(* Safety of the rate limits.  The invariant follows an entry from the     *)
(* count that lets it in to the cleanup that may take it out; the quota    *)
(* holds because each call counts all that others have added, and misses   *)
(* no more than one entry of each other goroutine.                         *)
(***************************************************************************)
EXTENDS Data, FiniteSetTheorems, TLAPS

-----------------------------------------------------------------------------
\* Sets, and the calls.

\* The operators of FiniteSets, as the instance has them.
LEMMA SameFiniteSets ==
    ASSUME NEW S
    PROVE  /\ Limit!Cardinality(S) = Cardinality(S)
           /\ Limit!IsFiniteSet(S) <=> IsFiniteSet(S)
  <1>1. Limit!Cardinality(S) = Cardinality(S)
    BY DEF Limit!Cardinality, Cardinality
  <1>2. Limit!IsFiniteSet(S) <=> IsFiniteSet(S)
    BY DEF Limit!IsFiniteSet, IsFiniteSet
  <1>. QED
    BY <1>1, <1>2

LEMMA ThreadsAreFinite ==
    ASSUME Limit!LimitAssumption
    PROVE  IsFiniteSet(Threads) /\ Cardinality(Threads) \in Nat \ {0}
  <1>1. IsFiniteSet(Threads) /\ Threads # {}
    BY SameFiniteSets DEF Limit!LimitAssumption
  <1>2. Cardinality(Threads) \in Nat
    BY <1>1, FS_CardinalityType
  <1>3. Cardinality(Threads) # 0
    BY <1>1, FS_EmptySet
  <1>. QED
    BY <1>1, <1>2, <1>3

LEMMA EntriesAreFinite ==
    ASSUME Limit!LimitAssumption, NEW S \in SUBSET Limit!Entries
    PROVE  IsFiniteSet(S) /\ Cardinality(S) \in Nat
  <1>1. IsFiniteSet(1..MaxCalls) /\ IsFiniteSet(0..MaxTime)
    <2>1. MaxCalls \in Int /\ MaxTime \in Int /\ 0 \in Int /\ 1 \in Int
      BY DEF Limit!LimitAssumption
    <2>. QED
      BY <2>1, FS_Interval
  <1>2. IsFiniteSet(Limit!Entries)
    BY <1>1, FS_Product DEF Limit!Entries, Limit!CallIds
  <1>3. IsFiniteSet(S)
    BY <1>2, FS_Subset
  <1>. QED
    BY <1>3, FS_CardinalityType

\* A new call's number is greater than the others'.
LEMMA CallsAreCounted ==
    ASSUME Limit!LimitAssumption, Limit!LimitTypeOK
    PROVE  Limit!Calls \in Nat /\ \A t \in Threads : call[t] <= Limit!Calls
  <1>. DEFINE U == UNION {{i \in Limit!CallIds : i <= call[u]} : u \in Threads}
  <1>1. MaxCalls \in Nat /\ IsFiniteSet(1..MaxCalls)
    BY FS_Interval DEF Limit!LimitAssumption
  <1>2. IsFiniteSet(U)
    <2>1. U \in SUBSET (1..MaxCalls)
      BY DEF Limit!CallIds
    <2>. QED
      BY <1>1, <2>1, FS_Subset
  <1>3. Limit!Calls = Cardinality(U) /\ Cardinality(U) \in Nat
    BY <1>2, FS_CardinalityType, SameFiniteSets DEF Limit!Calls
  <1>4. ASSUME NEW t \in Threads PROVE call[t] <= Cardinality(U)
    <2>1. call[t] \in Nat /\ 1..call[t] \subseteq {i \in Limit!CallIds : i <= call[t]}
      BY <1>1 DEF Limit!LimitTypeOK, Limit!CallIds
    <2>2. 1..call[t] \in SUBSET U
      BY <2>1
    <2>3. Cardinality(1..call[t]) <= Cardinality(U)
      BY <1>2, <2>2, FS_Subset
    <2>4. Cardinality(1..call[t]) = call[t]
      BY <2>1, FS_Interval
    <2>. QED
      BY <2>3, <2>4
  <1>. QED
    BY <1>3, <1>4

-----------------------------------------------------------------------------
\* The invariant.

\* The entry a call that is in the sorted set of l, or that comes to it, has there.
Settled(l, e) ==
    \/ e \in admitted[l]
    \/ \E t \in Threads : call[t] = e[1] /\ <<l, e[2]>> \in taken[t]
Taking(t, l, e) == limit[t] = l /\ call[t] = e[1] /\ now[t] = e[2]
Adding(l, e)  == \E t \in Threads : limitPc[t] = "expire" /\ Taking(t, l, e)
Waiting(l, e) ==
    \E t \in Threads :
        /\ Taking(t, l, e)
        /\ limitPc[t] = "add" \/ (limitPc[t] = "card" /\ count[t] < Quota[l])
Taken == {"count", "card", "add", "expire"}

\* A call is one thread's, and what is admitted is nobody's any more.
CallsApart ==
    /\ \A t \in Threads : limitPc[t] # "idle" => call[t] \in 1..MaxCalls
    /\ \A t, u \in Threads : t # u /\ call[t] = call[u] => call[t] = 0
    /\ \A t \in Threads : limitPc[t] = "idle" => taken[t] = {}
    /\ \A t \in Threads : \A k \in taken[t] : limitPc[t] \in Taken => k[1] < limit[t]
    /\ \A t \in Threads : \A j, k \in taken[t] : j[1] = k[1] => j = k
    /\ \A l \in Limit!LimitIds : \A e \in admitted[l] :
          /\ \E t \in Threads : e[1] <= call[t]
          /\ \A t \in Threads : call[t] = e[1] => limitPc[t] = "idle"

\* No time is later than the clock; a Take stalls only so long; a cleanup removes only
\* what is nearly two periods old.
NotInTheFuture ==
    /\ \A t \in Threads : /\ now[t] <= clock
                          /\ limitPc[t] \in Taken => clock - now[t] <= MaxStall
                          /\ \A k \in taken[t] : k[2] <= clock
    /\ \A l \in Limit!LimitIds : \A e \in admitted[l] : e[2] <= clock
    /\ \A c \in cleanups : c[2] <= clock - 2 * Period[c[1]] + Slack

\* What was added stays until it is old: for the cleanup, or for the time to live.
IsOld(l, e) ==
    clock >= e[2] + 2 * Period[l] - Slack \/ clock >= e[2] + Period[l] + Slack
StillThere ==
    \A l \in Limit!LimitIds : \A e \in Limit!Entries :
        e[1] \notin slipped /\ (Settled(l, e) \/ Adding(l, e)) => e \in store[l] \/ IsOld(l, e)
ExpiresLate ==
    \A l \in Limit!LimitIds : \A e \in store[l] :
        e[1] \notin slipped /\ Settled(l, e) => ttl[l] >= e[2] + Period[l] + Slack

\* Nothing else is there, but what failing commands left.
AccountedFor ==
    \A l \in Limit!LimitIds : \A e \in store[l] :
        Settled(l, e) \/ Adding(l, e) \/ e[1] \in failed

\* What is counted or may still be: at no time does a window hold too much of it.
Claims(l) ==
    {e \in Limit!Entries :
        e[1] \notin slipped /\ (Settled(l, e) \/ Adding(l, e) \/ Waiting(l, e))}
InWindow(S, l, w) == {e \in S : e[2] \in (w - Period[l])..w}
ClaimsBounded ==
    \A l \in Limit!LimitIds : Period[l] > Slack + MaxStall => \A w \in Nat :
        Cardinality(InWindow(Claims(l), l, w)) <= Quota[l] + Cardinality(Threads) - 1

LimitInv ==
    /\ Limit!LimitTypeOK /\ CallsApart /\ NotInTheFuture /\ StillThere /\ ExpiresLate
    /\ AccountedFor /\ ClaimsBounded

LEMMA LimitInitInv ==
    ASSUME Limit!LimitAssumption
    PROVE  Limit!Init => LimitInv
  <1>. SUFFICES ASSUME Limit!Init PROVE LimitInv
    OBVIOUS
  <1>1. Limit!LimitTypeOK
    BY DEF Limit!LimitAssumption, Limit!Init, Limit!LimitTypeOK, Limit!LimitIds, Limit!Never
  <1>2. CallsApart /\ NotInTheFuture /\ AccountedFor
    BY DEF Limit!Init, CallsApart, NotInTheFuture, AccountedFor, Taken
  <1>3. \A l \in Limit!LimitIds : \A e \in Limit!Entries : ~Settled(l, e) /\ ~Adding(l, e)
                                    /\ ~Waiting(l, e)
    BY DEF Limit!Init, Settled, Adding, Waiting
  <1>4. StillThere /\ ExpiresLate
    BY <1>3 DEF StillThere, ExpiresLate, Limit!Init
  <1>5. ClaimsBounded
    <2>. SUFFICES ASSUME NEW l \in Limit!LimitIds, NEW w \in Nat
                  PROVE  Cardinality(InWindow(Claims(l), l, w))
                           <= Quota[l] + Cardinality(Threads) - 1
      BY DEF ClaimsBounded
    <2>1. InWindow(Claims(l), l, w) = {}
      BY <1>3 DEF InWindow, Claims
    <2>2. Cardinality(Threads) \in Nat \ {0}
      BY ThreadsAreFinite
    <2>3. Quota[l] \in Nat
      BY DEF Limit!LimitAssumption, Limit!LimitIds
    <2>. QED
      BY <2>1, <2>2, <2>3, FS_EmptySet
  <1>. QED
    BY <1>1, <1>2, <1>4, <1>5 DEF LimitInv

LEMMA LimitNextTypeOK ==
    ASSUME Limit!LimitAssumption, Limit!LimitTypeOK, CallsApart, [Limit!Next]_limitVars
    PROVE  Limit!LimitTypeOK'
  <1>0. /\ Limits \in Nat \ {0} /\ MaxTime \in Nat /\ MaxCalls \in Nat /\ Slack \in Nat
        /\ Period \in [Limit!LimitIds -> Nat] /\ Limit!Never \in Int
        /\ Limit!LimitIds = 1..Limits
    BY DEF Limit!LimitAssumption, Limit!LimitIds, Limit!Never
  <1>1. ASSUME NEW l \in Limit!LimitIds, NEW S \in SUBSET Limit!Entries, Limit!Leave(l, S)
        PROVE  store' \in [Limit!LimitIds -> SUBSET Limit!Entries] /\ ttl'
                 \in [Limit!LimitIds -> Int]
    BY <1>0, <1>1 DEF Limit!Leave, Limit!LimitTypeOK
  <1>2. CASE Limit!Tick
    <2>1. clock' \in 0..MaxTime /\ store' \in [Limit!LimitIds -> SUBSET Limit!Entries]
      BY <1>0, <1>2 DEF Limit!Tick, Limit!LimitTypeOK
    <2>2. ttl' \in [Limit!LimitIds -> Int]
      BY <1>0, <1>2 DEF Limit!Tick, Limit!LimitTypeOK
    <2>3. slipped' \subseteq Limit!CallIds
      <3>1. \A t \in Threads : limitPc[t] = "expire" => call[t] \in Limit!CallIds
        BY DEF CallsApart, Limit!CallIds
      <3>2. slipped' = slipped \cup {call[t] : t \in {t \in Threads : limitPc[t] = "expire"
                                                     /\ ttl[limit[t]] = clock + 1}}
        BY <1>2 DEF Limit!Tick
      <3>. QED
        BY <3>1, <3>2 DEF Limit!LimitTypeOK
    <2>. QED
      BY <1>2, <2>1, <2>2, <2>3 DEF Limit!Tick, Limit!LimitTypeOK, Limit!locals
  <1>3. CASE Limit!Cleanup
    <2>1. PICK c \in cleanups : /\ Limit!Leave(c[1], {e \in store[c[1]] : e[2] > c[2]})
                                /\ cleanups' = cleanups \ {c}
                                /\ UNCHANGED <<clock, limitPc, call, limit, now, count, taken,
                                               admitted, failed, slipped, faults>>
      BY <1>3 DEF Limit!Cleanup, Limit!locals, Limit!history
    <2>2. c[1] \in Limit!LimitIds /\ {e \in store[c[1]] : e[2] > c[2]} \in SUBSET Limit!Entries
      BY DEF Limit!LimitTypeOK
    <2>3. store' \in [Limit!LimitIds -> SUBSET Limit!Entries] /\ ttl'
            \in [Limit!LimitIds -> Int]
      BY <1>1, <2>1, <2>2
    <2>. QED
      BY <2>1, <2>3 DEF Limit!LimitTypeOK
  <1>4. ASSUME NEW t \in Threads, Limit!FuncTake(t) PROVE Limit!LimitTypeOK'
    <2>1. Limit!Calls + 1 \in 0..MaxCalls
      <3>1. Limit!Calls \in Nat
        BY CallsAreCounted
      <3>. QED
        BY <1>0, <1>4, <3>1 DEF Limit!FuncTake
    <2>. QED
      <3>1. /\ limitPc' = [limitPc EXCEPT ![t] = "count"]
            /\ call' = [call EXCEPT ![t] = Limit!Calls + 1]
            /\ limit' = [limit EXCEPT ![t] = 1] /\ now' = [now EXCEPT ![t] = clock]
            /\ UNCHANGED <<clock, store, ttl, cleanups, count, taken, admitted, failed,
                 slipped, faults>>
        BY <1>4 DEF Limit!FuncTake, Limit!redis, Limit!history
      <3>2. 1 \in Limit!LimitIds
        BY <1>0
      <3>. QED
        BY <2>1, <3>1, <3>2 DEF Limit!LimitTypeOK
  <1>5. ASSUME NEW t \in Threads, Limit!Count(t) PROVE Limit!LimitTypeOK'
    <2>. DEFINE window == Limit!Window(limit[t], now[t] - Period[limit[t]])
    <2>1. Limit!Cardinality(window) \in Nat
      <3>1. window \in SUBSET Limit!Entries
        BY DEF Limit!Window, Limit!LimitTypeOK
      <3>. QED
        BY <3>1, EntriesAreFinite, SameFiniteSets
    <2>2. /\ count' = [count EXCEPT ![t] = Limit!Cardinality(window)]
          /\ limitPc' = [limitPc EXCEPT ![t] = "card"]
          /\ UNCHANGED <<clock, store, ttl, cleanups, call, limit, now, taken, admitted, failed,
                         slipped, faults>>
      BY <1>5 DEF Limit!Count, Limit!redis, Limit!history
    <2>. HIDE DEF window
    <2>. QED
      BY <2>1, <2>2 DEF Limit!LimitTypeOK
  <1>6. ASSUME NEW t \in Threads, NEW to \in {"cancel", "work"}, Limit!TakeEnds(t, to),
               Limit!LimitTypeOK
        PROVE  /\ limitPc' \in [Threads -> {"idle", "count", "card", "add", "expire", "work",
                    "cancel"}]
               /\ limit' \in [Threads -> Limit!LimitIds] /\ now' \in [Threads -> 0..MaxTime]
               /\ count' \in [Threads -> Nat]
    BY <1>0, <1>6 DEF Limit!TakeEnds, Limit!LimitTypeOK
  <1>7. ASSUME NEW t \in Threads, Limit!Card(t) PROVE Limit!LimitTypeOK'
    <2>1. cleanups' \subseteq Limit!LimitIds \X Int
      <3>1. limit[t] \in Limit!LimitIds /\ now[t] \in Nat /\ Period[limit[t]] \in Nat
        BY <1>0 DEF Limit!LimitTypeOK
      <3>2. <<limit[t], Limit!CleanupBound(t)>> \in Limit!LimitIds \X Int
        BY <1>0, <3>1 DEF Limit!CleanupBound
      <3>. QED
        BY <1>7, <3>2 DEF Limit!Card, Limit!LimitTypeOK
    <2>2. CASE count[t] < Quota[limit[t]]
      BY <1>7, <2>1, <2>2 DEF Limit!Card, Limit!LimitTypeOK, Limit!redis, Limit!history
    <2>3. CASE ~(count[t] < Quota[limit[t]])
      <3>1. Limit!TakeEnds(t, "cancel")
        BY <1>7, <2>3 DEF Limit!Card
      <3>. QED
        BY <1>6, <1>7, <2>1, <3>1 DEF Limit!Card, Limit!LimitTypeOK, Limit!redis, Limit!history
    <2>. QED
      BY <2>2, <2>3
  <1>8. ASSUME NEW t \in Threads, limitPc[t] # "idle", store' = Limit!Added(t)
        PROVE  store' \in [Limit!LimitIds -> SUBSET Limit!Entries]
    <2>1. <<call[t], now[t]>> \in Limit!Entries /\ limit[t] \in Limit!LimitIds
      BY <1>8 DEF Limit!Entries, Limit!CallIds, CallsApart, Limit!LimitTypeOK
    <2>. QED
      BY <1>8, <2>1 DEF Limit!Added, Limit!LimitTypeOK
  <1>9. ASSUME NEW t \in Threads, ttl' = Limit!Expiring(t) PROVE ttl'
                 \in [Limit!LimitIds -> Int]
    <2>1. clock + Period[limit[t]] + Slack \in Int
      BY <1>0 DEF Limit!LimitTypeOK
    <2>. QED
      BY <1>9, <2>1 DEF Limit!Expiring, Limit!LimitTypeOK
  <1>10. ASSUME NEW t \in Threads, Limit!ZAdd(t) PROVE Limit!LimitTypeOK'
    BY <1>8, <1>10 DEF Limit!ZAdd, Limit!LimitTypeOK, Limit!history
  <1>11. ASSUME NEW t \in Threads, Limit!Expire(t) PROVE Limit!LimitTypeOK'
    <2>1. /\ ttl' \in [Limit!LimitIds -> Int]
          /\ taken' \in [Threads -> SUBSET (Limit!LimitIds \X (0..MaxTime))]
      BY <1>9, <1>11 DEF Limit!Expire, Limit!LimitTypeOK
    <2>2. CASE limit[t] < Limits
      <3>1. /\ limit' = [limit EXCEPT ![t] = limit[t] + 1] /\ now' = [now EXCEPT ![t] = clock]
            /\ limitPc' = [limitPc EXCEPT ![t] = "count"] /\ count' = count
            /\ UNCHANGED <<clock, store, cleanups, call, admitted, failed, slipped, faults>>
        BY <1>11, <2>2 DEF Limit!Expire, Limit!history
      <3>2. limit[t] + 1 \in Limit!LimitIds
        BY <1>0, <2>2 DEF Limit!LimitTypeOK
      <3>. QED
        BY <2>1, <3>1, <3>2 DEF Limit!LimitTypeOK
    <2>3. CASE ~(limit[t] < Limits)
      <3>1. Limit!TakeEnds(t, "work")
        BY <1>11, <2>3 DEF Limit!Expire
      <3>. QED
        BY <1>6, <1>11, <2>1, <3>1 DEF Limit!Expire, Limit!LimitTypeOK, Limit!history
    <2>. QED
      BY <2>2, <2>3
  <1>12. ASSUME NEW t \in Threads, Limit!TakeFails(t) PROVE Limit!LimitTypeOK'
    <2>1. Limit!TakeEnds(t, "cancel") /\ limitPc[t] # "idle"
      BY <1>12 DEF Limit!TakeFails
    <2>2. store' \in [Limit!LimitIds -> SUBSET Limit!Entries]
      BY <1>8, <1>12, <2>1 DEF Limit!TakeFails, Limit!redis, Limit!LimitTypeOK
    <2>3. ttl' \in [Limit!LimitIds -> Int]
      BY <1>9, <1>12 DEF Limit!TakeFails, Limit!redis, Limit!LimitTypeOK
    <2>4. failed' \subseteq Limit!CallIds /\ faults' \in Nat
      <3>1. call[t] \in Limit!CallIds
        BY <2>1 DEF CallsApart, Limit!CallIds
      <3>. QED
        BY <1>12, <3>1 DEF Limit!TakeFails, Limit!LimitTypeOK
    <2>. QED
      BY <1>6, <1>12, <2>1, <2>2, <2>3, <2>4 DEF Limit!TakeFails, Limit!LimitTypeOK
  <1>13. ASSUME NEW t \in Threads, Limit!Work(t) PROVE Limit!LimitTypeOK'
    <2>1. call[t] \in Limit!CallIds
      BY <1>13 DEF Limit!Work, CallsApart, Limit!CallIds
    <2>2. admitted' \in [Limit!LimitIds -> SUBSET Limit!Entries]
      <3>1. \A l \in Limit!LimitIds :
               {<<call[t], k[2]>> : k \in {k \in taken[t] : k[1] = l}} \subseteq Limit!Entries
        BY <2>1 DEF Limit!LimitTypeOK, Limit!Entries
      <3>2. CASE admitted' = [l \in Limit!LimitIds |-> admitted[l] \cup
                {<<call[t], k[2]>> : k \in {k \in taken[t] : k[1] = l}}]
        BY <3>1, <3>2 DEF Limit!LimitTypeOK
      <3>. QED
        BY <1>13, <3>2 DEF Limit!Work, Limit!LimitTypeOK
    <2>. QED
      BY <1>13, <2>2 DEF Limit!Work, Limit!LimitTypeOK, Limit!redis
  <1>14. ASSUME NEW t \in Threads, Limit!Cancel(t) PROVE Limit!LimitTypeOK'
    <2>1. CASE taken[t] = {}
      BY <1>14, <2>1 DEF Limit!Cancel, Limit!LimitTypeOK
    <2>2. CASE taken[t] # {}
      <3>1. PICK first \in taken[t] :
               /\ taken' = [taken EXCEPT ![t] = @ \ {first}]
               /\ \/ /\ Limit!Leave(first[1], {e \in store[first[1]] : e[1] # call[t]})
                     /\ UNCHANGED <<failed, faults>>
                  \/ /\ faults' = faults + 1
                     /\ failed' = failed \cup {call[t]}
                     /\ UNCHANGED <<store, ttl>>
               /\ UNCHANGED <<limitPc, clock, cleanups, call, limit, now, count, admitted,
                    slipped>>
        BY <1>14, <2>2 DEF Limit!Cancel, Limit!redis
      <3>2. /\ first[1] \in Limit!LimitIds /\ call[t] \in Limit!CallIds
            /\ {e \in store[first[1]] : e[1] # call[t]} \in SUBSET Limit!Entries
        BY <1>14 DEF Limit!LimitTypeOK, CallsApart, Limit!CallIds, Limit!Cancel
      <3>3. store' \in [Limit!LimitIds -> SUBSET Limit!Entries] /\ ttl'
              \in [Limit!LimitIds -> Int]
        BY <1>1, <3>1, <3>2 DEF Limit!LimitTypeOK
      <3>4. failed' \subseteq Limit!CallIds /\ faults' \in Nat
        BY <3>1, <3>2 DEF Limit!LimitTypeOK
      <3>. QED
        BY <3>1, <3>3, <3>4 DEF Limit!LimitTypeOK
    <2>. QED
      BY <2>1, <2>2
  <1>15. CASE UNCHANGED limitVars
    BY <1>15 DEF limitVars, Limit!LimitTypeOK
  <1>. QED
    BY <1>2, <1>3, <1>4, <1>5, <1>7, <1>10, <1>11, <1>12, <1>13, <1>14, <1>15
    DEF Limit!Next, Limit!ThreadStep

-----------------------------------------------------------------------------
\* The steps of a call.

Unmoved(u) ==
    /\ limitPc'[u] = limitPc[u] /\ call'[u] = call[u] /\ limit'[u] = limit[u]
    /\ now'[u] = now[u] /\ count'[u] = count[u] /\ taken'[u] = taken[u]

\* A window holds no more when no call comes to be counted.
LEMMA ClaimsShrink ==
    ASSUME Limit!LimitAssumption, ClaimsBounded,
           NEW l \in Limit!LimitIds, Period[l] > Slack + MaxStall, NEW w \in Nat,
           InWindow(Claims(l)', l, w) \subseteq InWindow(Claims(l), l, w)
    PROVE  Cardinality(InWindow(Claims(l)', l, w)) <= Quota[l] + Cardinality(Threads) - 1
  <1>1. InWindow(Claims(l), l, w) \in SUBSET Limit!Entries
    BY DEF InWindow, Claims
  <1>2. IsFiniteSet(InWindow(Claims(l), l, w)) /\ Cardinality(InWindow(Claims(l), l, w)) \in Nat
    BY <1>1, EntriesAreFinite
  <1>3. /\ Cardinality(InWindow(Claims(l)', l, w)) <= Cardinality(InWindow(Claims(l), l, w))
        /\ IsFiniteSet(InWindow(Claims(l)', l, w))
    BY <1>2, FS_Subset
  <1>4. Cardinality(InWindow(Claims(l)', l, w)) \in Nat
    BY <1>3, FS_CardinalityType
  <1>5. Quota[l] \in Nat /\ Cardinality(Threads) \in Nat
    BY ThreadsAreFinite DEF Limit!LimitAssumption, Limit!LimitIds
  <1>6. Cardinality(InWindow(Claims(l), l, w)) <= Quota[l] + Cardinality(Threads) - 1
    BY DEF ClaimsBounded
  <1>. QED
    BY <1>2, <1>3, <1>4, <1>5, <1>6

LEMMA ClaimsStayBounded ==
    ASSUME Limit!LimitAssumption, ClaimsBounded,
           \A l \in Limit!LimitIds : Claims(l)' \subseteq Claims(l)
    PROVE  ClaimsBounded'
  <1>. SUFFICES ASSUME NEW l \in Limit!LimitIds, Period[l] > Slack + MaxStall, NEW w \in Nat
                PROVE  Cardinality(InWindow(Claims(l)', l, w))
                         <= Quota[l] + Cardinality(Threads) - 1
    BY DEF ClaimsBounded, InWindow
  <1>1. InWindow(Claims(l)', l, w) \subseteq InWindow(Claims(l), l, w)
    BY DEF InWindow
  <1>. QED
    BY <1>1, ClaimsShrink

\* What every step of a call leaves when it changes neither the sets nor what is settled.
LEMMA SetsStand ==
    ASSUME LimitInv, UNCHANGED <<clock, store, ttl, slipped>>, failed \subseteq failed',
           \A l \in Limit!LimitIds : \A e \in Limit!Entries : Settled(l, e)' <=> Settled(l, e),
           \A l \in Limit!LimitIds : \A e \in Limit!Entries : Adding(l, e)' <=> Adding(l, e)
    PROVE  StillThere' /\ ExpiresLate' /\ AccountedFor'
  <1>1. \A l \in Limit!LimitIds : \A e \in store[l] : e \in Limit!Entries
    BY DEF LimitInv, Limit!LimitTypeOK
  <1>2. Limit!Entries' = Limit!Entries
    BY DEF Limit!Entries
  <1>3. StillThere'
    BY DEF LimitInv, StillThere, IsOld
  <1>4. ExpiresLate'
    BY <1>1 DEF LimitInv, ExpiresLate
  <1>5. AccountedFor'
    BY <1>1 DEF LimitInv, AccountedFor
  <1>. QED
    BY <1>3, <1>4, <1>5

LEMMA FuncTakeInv ==
    ASSUME Limit!LimitAssumption, LimitInv, NEW t \in Threads, Limit!FuncTake(t),
             Limit!LimitTypeOK'
    PROVE  LimitInv'
  <1>0. /\ Limit!LimitTypeOK /\ CallsApart /\ NotInTheFuture /\ ClaimsBounded
        /\ Limit!Calls \in Nat /\ \A u \in Threads : call[u] <= Limit!Calls
    BY CallsAreCounted DEF LimitInv
  <1>1. /\ limitPc[t] = "idle" /\ limitPc'[t] = "count" /\ call'[t] = Limit!Calls + 1
        /\ limit'[t] = 1 /\ now'[t] = clock /\ taken' = taken /\ Limit!Calls < MaxCalls
        /\ UNCHANGED <<clock, store, ttl, cleanups, admitted, failed, slipped, faults>>
        /\ \A u \in Threads : u # t => Unmoved(u)
    BY <1>0 DEF Limit!FuncTake, Limit!redis, Limit!history, Unmoved, Limit!LimitTypeOK
  <1>2. taken[t] = {}
    BY <1>0, <1>1 DEF CallsApart
  <1>3. \A u \in Threads : call[u] \in Nat
    BY <1>0 DEF Limit!LimitTypeOK
  <1>4. /\ \A l, e : Settled(l, e)' <=> Settled(l, e)
        /\ \A l, e : Adding(l, e)' <=> Adding(l, e)
        /\ \A l, e : Waiting(l, e)' <=> Waiting(l, e)
    <2>1. \A l, e : Settled(l, e)' <=> Settled(l, e)
      BY <1>1, <1>2 DEF Settled, Unmoved
    <2>2. \A l, e : Adding(l, e)' <=> Adding(l, e)
      BY <1>1 DEF Adding, Taking, Unmoved
    <2>3. \A l, e : Waiting(l, e)' <=> Waiting(l, e)
      BY <1>1 DEF Waiting, Taking, Unmoved
    <2>. QED
      BY <2>1, <2>2, <2>3
  <1>5. CallsApart'
    <2>1. \A u \in Threads : limitPc'[u] # "idle" => call'[u] \in 1..MaxCalls
      <3>1. call'[t] \in 1..MaxCalls
        <4>1. MaxCalls \in Nat /\ Limit!Calls \in Nat /\ Limit!Calls < MaxCalls
          BY <1>0, <1>1 DEF Limit!LimitAssumption
        <4>. QED
          BY <1>1, <4>1
      <3>2. ASSUME NEW u \in Threads, u # t, limitPc'[u] # "idle"
            PROVE  call'[u] \in 1..MaxCalls
        BY <1>0, <1>1, <3>2 DEF CallsApart, Unmoved
      <3>. QED
        BY <3>1, <3>2
    <2>2. \A u \in Threads : call'[u] >= call[u] /\ (u # t => call'[u] # call'[t])
      BY <1>0, <1>1, <1>3 DEF Unmoved
    <2>3. \A u, v \in Threads : u # v /\ call'[u] = call'[v] => call'[u] = 0
      BY <1>0, <1>1, <2>2 DEF CallsApart, Unmoved
    <2>4. \A u \in Threads : limitPc'[u] = "idle" => taken'[u] = {}
      BY <1>0, <1>1 DEF CallsApart, Unmoved
    <2>5. /\ \A u \in Threads : \A k \in taken'[u] : limitPc'[u] \in Taken => k[1] < limit'[u]
          /\ \A u \in Threads : \A j, k \in taken'[u] : j[1] = k[1] => j = k
      BY <1>0, <1>1, <1>2 DEF CallsApart, Unmoved
    <2>6. ASSUME NEW l \in Limit!LimitIds, NEW e \in admitted[l]
          PROVE  /\ \E u \in Threads : e[1] <= call'[u]
                 /\ \A u \in Threads : call'[u] = e[1] => limitPc'[u] = "idle"
      <3>1. e[1] \in Nat
        BY <1>0 DEF Limit!LimitTypeOK, Limit!Entries, Limit!CallIds
      <3>2. PICK u \in Threads : e[1] <= call[u]
        BY <1>0 DEF CallsApart
      <3>3. e[1] <= call'[t] /\ e[1] # call'[t]
        BY <1>0, <1>1, <1>3, <3>1, <3>2
      <3>. QED
        BY <1>0, <1>1, <3>3 DEF CallsApart, Unmoved
    <2>. QED
      BY <1>1, <2>1, <2>3, <2>4, <2>5, <2>6 DEF CallsApart
  <1>6. NotInTheFuture'
    <2>1. clock \in Nat /\ MaxStall \in Nat
      BY <1>0 DEF Limit!LimitTypeOK, Limit!LimitAssumption
    <2>2. now'[t] <= clock /\ clock - now'[t] <= MaxStall
      BY <1>1, <2>1
    <2>. QED
      BY <1>0, <1>1, <1>2, <2>2 DEF NotInTheFuture, Unmoved
  <1>7. StillThere' /\ ExpiresLate' /\ AccountedFor'
    BY <1>1, <1>4, SetsStand
  <1>8. ClaimsBounded'
    BY <1>0, <1>1, <1>4, ClaimsStayBounded DEF Claims
  <1>. QED
    BY <1>5, <1>6, <1>7, <1>8 DEF LimitInv

\* Those that wait to be added are no more than the threads.
LEMMA FewWait ==
    ASSUME Limit!LimitAssumption, NEW c, NEW n, NEW W,
           \A e \in W : \E t \in Threads : e = <<c[t], n[t]>>
    PROVE  IsFiniteSet(W) /\ Cardinality(W) <= Cardinality(Threads) /\ Cardinality(W) \in Nat
  <1>. DEFINE T == {t \in Threads : <<c[t], n[t]>> \in W}
              f == [t \in T |-> <<c[t], n[t]>>]
  <1>1. IsFiniteSet(T) /\ Cardinality(T) <= Cardinality(Threads) /\ Cardinality(T) \in Nat
    <2>1. T \in SUBSET Threads
      OBVIOUS
    <2>. QED
      BY <2>1, ThreadsAreFinite, FS_Subset, FS_CardinalityType
  <1>2. f \in Surjection(T, W)
    <2>1. f \in [T -> W]
      OBVIOUS
    <2>2. \A e \in W : \E t \in T : f[t] = e
      OBVIOUS
    <2>. QED
      BY <2>1, <2>2 DEF Surjection
  <1>3. IsFiniteSet(W) /\ Cardinality(W) <= Cardinality(T)
    BY <1>1, <1>2, FS_Surjection
  <1>4. Cardinality(W) \in Nat /\ Cardinality(Threads) \in Nat
    BY <1>3, ThreadsAreFinite, FS_CardinalityType
  <1>. QED
    BY <1>1, <1>3, <1>4

\* What a call counts: all of its window that is settled or has been added.
LEMMA CountInv ==
    ASSUME Limit!LimitAssumption, LimitInv, NEW t \in Threads, Limit!Count(t),
             Limit!LimitTypeOK'
    PROVE  LimitInv'
  <1>. DEFINE lim == limit[t]
              counted == Limit!Window(lim, now[t] - Period[lim])
  <1>0. /\ Limit!LimitTypeOK /\ CallsApart /\ NotInTheFuture /\ ClaimsBounded /\ StillThere
        /\ lim \in Limit!LimitIds /\ clock \in Nat /\ now[t] \in Nat
        /\ MaxStall \in Nat /\ Slack \in Nat \ {0}
    <2>1. /\ Limit!LimitTypeOK /\ CallsApart /\ NotInTheFuture /\ ClaimsBounded /\ StillThere
      BY DEF LimitInv
    <2>2. MaxStall \in Nat /\ Slack \in Nat \ {0} /\ MaxTime \in Nat
      BY DEF Limit!LimitAssumption
    <2>3. limit[t] \in Limit!LimitIds /\ clock \in 0..MaxTime /\ now[t] \in 0..MaxTime
      BY <2>1 DEF Limit!LimitTypeOK
    <2>. QED
      BY <2>1, <2>2, <2>3
  <1>1. /\ limitPc[t] = "count" /\ limitPc'[t] = "card"
             /\ count'[t] = Limit!Cardinality(counted)
        /\ UNCHANGED <<clock, store, ttl, cleanups, admitted, failed, slipped, faults, call,
             limit,
                       now, taken>>
        /\ \A u \in Threads : u # t => Unmoved(u)
    <2>. HIDE DEF counted
    <2>1. Limit!Window(limit[t], now[t] - Period[limit[t]]) = counted
      BY DEF counted
    <2>. QED
      BY <1>0, <2>1 DEF Limit!Count, Limit!redis, Limit!history, Unmoved, Limit!LimitTypeOK
  <1>2. counted \in SUBSET Limit!Entries
    BY <1>0 DEF Limit!Window, Limit!LimitTypeOK
  <1>3. /\ count'[t] = Cardinality(counted) /\ IsFiniteSet(counted) /\ Cardinality(counted)
             \in Nat
    BY <1>1, <1>2, SameFiniteSets, EntriesAreFinite
  <1>4. \A e : e \in counted <=> e \in store[lim] /\ e[2] >= now[t] - Period[lim]
    BY DEF Limit!Window
  <1>. HIDE DEF counted
  <1>5. /\ \A l, e : Settled(l, e)' <=> Settled(l, e)
        /\ \A l, e : Adding(l, e)' <=> Adding(l, e)
    BY <1>1 DEF Settled, Adding, Taking, Unmoved
  <1>6. CallsApart'
    BY <1>0, <1>1 DEF CallsApart, Unmoved, Taken
  <1>7. NotInTheFuture'
    BY <1>0, <1>1 DEF NotInTheFuture, Unmoved, Taken
  <1>8. StillThere' /\ ExpiresLate' /\ AccountedFor'
    BY <1>1, <1>5, SetsStand
  <1>9. ClaimsBounded'
    <2>. SUFFICES ASSUME NEW l \in Limit!LimitIds, Period[l] > Slack + MaxStall, NEW w \in Nat
                  PROVE  Cardinality(InWindow(Claims(l)', l, w))
                           <= Quota[l] + Cardinality(Threads) - 1
      BY DEF ClaimsBounded, InWindow
    <2>0. Period[l] \in Nat /\ Quota[l] \in Nat /\ Cardinality(Threads) \in Nat
      BY ThreadsAreFinite DEF Limit!LimitAssumption, Limit!LimitIds
    <2>1. CASE l = lim /\ count'[t] < Quota[l] /\ now[t] \in (w - Period[l])..w
      <3>. DEFINE B == {e \in InWindow(Claims(l)', l, w) : \E u \in Threads : e = <<call[u],
             now[u]>>}
                  all == InWindow(Claims(l)', l, w)
      <3>1. all \subseteq counted \cup B
        <4>. SUFFICES ASSUME NEW e \in all, e \notin B PROVE e \in counted
          OBVIOUS
        <4>1. /\ e \in Limit!Entries /\ e[1] \notin slipped /\ e = <<e[1], e[2]>>
              /\ Settled(l, e) \/ Adding(l, e) \/ Waiting(l, e)'
              /\ e[2] \in (w - Period[l])..w /\ e[2] \in Nat
          BY <1>1, <1>5 DEF InWindow, Claims, Limit!Entries
        <4>2. ~Waiting(l, e)'
          BY <1>1, <4>1 DEF Waiting, Taking
        <4>3. e \in store[l] \/ IsOld(l, e)
          BY <1>0, <4>1, <4>2 DEF StillThere
        <4>4. clock - now[t] <= MaxStall /\ (MaxStall < Slack \/ MaxStall = 0)
          BY <1>0, <1>1 DEF NotInTheFuture, Taken, Limit!LimitAssumption
        <4>5. ~IsOld(l, e)
          BY <1>0, <2>0, <2>1, <4>1, <4>4 DEF IsOld
        <4>. QED
          BY <1>0, <1>4, <2>0, <2>1, <4>1, <4>3, <4>5
      <3>2. IsFiniteSet(B) /\ Cardinality(B) <= Cardinality(Threads) /\ Cardinality(B) \in Nat
        BY FewWait
      <3>. HIDE DEF B, all
      <3>3. /\ IsFiniteSet(counted \cup B)
            /\ Cardinality(counted \cup B) <= Cardinality(counted) + Cardinality(B)
            /\ Cardinality(counted \cup B) \in Nat
        <4>1. /\ IsFiniteSet(counted \cup B)
              /\ Cardinality(counted \cup B)
                    = Cardinality(counted) + Cardinality(B) - Cardinality(counted \cap B)
          BY <1>3, <3>2, FS_Union
        <4>2. IsFiniteSet(counted \cap B)
          BY <1>3, FS_Intersection
        <4>3. Cardinality(counted \cap B) \in Nat /\ Cardinality(counted \cup B) \in Nat
          BY <4>1, <4>2, FS_CardinalityType
        <4>. QED
          BY <1>3, <3>2, <4>1, <4>3
      <3>4. IsFiniteSet(all) /\ Cardinality(all) <= Cardinality(counted \cup B)
        BY <3>1, <3>3, FS_Subset
      <3>5. Cardinality(all) \in Nat
        BY <3>4, FS_CardinalityType
      <3>6. Cardinality(all) <= Quota[l] + Cardinality(Threads) - 1
        BY <1>3, <2>0, <2>1, <3>2, <3>3, <3>4, <3>5
      <3>. QED
        BY <3>6 DEF all
    <2>2. CASE ~(l = lim /\ count'[t] < Quota[l] /\ now[t] \in (w - Period[l])..w)
      <3>1. ASSUME NEW e \in InWindow(Claims(l)', l, w) PROVE e \in InWindow(Claims(l), l, w)
        <4>1. /\ e \in Limit!Entries /\ e[1] \notin slipped
              /\ Settled(l, e) \/ Adding(l, e) \/ Waiting(l, e)'
              /\ e[2] \in (w - Period[l])..w
          BY <1>1, <1>5 DEF InWindow, Claims, Limit!Entries
        <4>2. ASSUME Waiting(l, e)' PROVE Waiting(l, e)
          BY <1>1, <2>2, <4>1, <4>2 DEF Waiting, Taking, Unmoved
        <4>. QED
          BY <4>1, <4>2 DEF InWindow, Claims
      <3>. QED
        BY <1>0, <3>1, ClaimsShrink
    <2>. QED
      BY <2>1, <2>2
  <1>. QED
    BY <1>6, <1>7, <1>8, <1>9 DEF LimitInv

\* The types the proofs below use.
LEMMA LimitFacts ==
    ASSUME Limit!LimitAssumption, LimitInv
    PROVE  /\ Limit!LimitTypeOK /\ CallsApart /\ NotInTheFuture /\ ClaimsBounded
           /\ StillThere /\ ExpiresLate /\ AccountedFor
           /\ clock \in Nat /\ \A t \in Threads : now[t] \in Nat /\ call[t] \in Nat
                                                 /\ limit[t] \in Limit!LimitIds
           /\ \A l \in Limit!LimitIds : Period[l] \in Nat /\ Quota[l] \in Nat
           /\ Slack \in Nat \ {0} /\ MaxStall \in Nat /\ Limits \in Nat \ {0}
           /\ Limit!LimitIds = 1..Limits
  <1>1. /\ Limit!LimitTypeOK /\ CallsApart /\ NotInTheFuture /\ ClaimsBounded
        /\ StillThere /\ ExpiresLate /\ AccountedFor
    BY DEF LimitInv
  <1>2. /\ MaxStall \in Nat /\ Slack \in Nat \ {0} /\ MaxTime \in Nat /\ MaxCalls \in Nat
        /\ \A l \in Limit!LimitIds : Period[l] \in Nat /\ Quota[l] \in Nat
        /\ Limits \in Nat \ {0} /\ Limit!LimitIds = 1..Limits
    BY DEF Limit!LimitAssumption, Limit!LimitIds
  <1>3. clock \in 0..MaxTime /\ \A t \in Threads : now[t] \in 0..MaxTime /\ call[t]
          \in 0..MaxCalls
                                                  /\ limit[t] \in Limit!LimitIds
    BY <1>1 DEF Limit!LimitTypeOK
  <1>. QED
    BY <1>1, <1>2, <1>3

LEMMA CardInv ==
    ASSUME Limit!LimitAssumption, LimitInv, NEW t \in Threads, Limit!Card(t), Limit!LimitTypeOK'
    PROVE  LimitInv'
  <1>. DEFINE bound == Limit!CleanupBound(t)
  <1>0. /\ Limit!LimitTypeOK /\ CallsApart /\ NotInTheFuture /\ ClaimsBounded /\ clock \in Nat
        /\ now[t] \in Nat /\ limit[t] \in Limit!LimitIds /\ Period[limit[t]] \in Nat
        /\ Slack \in Nat \ {0}
    BY LimitFacts
  <1>1. /\ limitPc[t] = "card"
        /\ UNCHANGED <<clock, store, ttl, admitted, failed, slipped, faults, call, taken>>
        /\ cleanups' \subseteq cleanups \cup {<<limit[t], bound>>}
    BY DEF Limit!Card, Limit!redis, Limit!history
  <1>2. /\ \A u \in Threads : u # t => Unmoved(u)
        /\ \/ /\ limitPc'[t] = "add" /\ count[t] < Quota[limit[t]] /\ limit'[t] = limit[t]
              /\ now'[t] = now[t]
           \/ limitPc'[t] = "cancel" /\ now'[t] = 0
    <2>1. CASE count[t] < Quota[limit[t]]
      BY <1>0, <1>1, <2>1 DEF Limit!Card, Unmoved, Limit!LimitTypeOK
    <2>2. CASE ~(count[t] < Quota[limit[t]])
      BY <1>0, <1>1, <2>2 DEF Limit!Card, Limit!TakeEnds, Unmoved, Limit!LimitTypeOK
    <2>. QED
      BY <2>1, <2>2
  <1>3. bound <= clock - 2 * Period[limit[t]] + Slack
    <2>1. now[t] <= clock
      BY <1>0 DEF NotInTheFuture
    <2>. QED
      BY <1>0, <2>1 DEF Limit!CleanupBound
  <1>. HIDE DEF bound
  <1>4. /\ \A l, e : Settled(l, e)' <=> Settled(l, e)
        /\ \A l, e : Adding(l, e)' <=> Adding(l, e)
        /\ \A l, e : Waiting(l, e)' => Waiting(l, e)
    <2>1. \A l, e : Settled(l, e)' <=> Settled(l, e)
      BY <1>1 DEF Settled
    <2>2. \A l, e : Adding(l, e)' <=> Adding(l, e)
      BY <1>1, <1>2 DEF Adding, Taking, Unmoved
    <2>3. \A l, e : Waiting(l, e)' => Waiting(l, e)
      BY <1>1, <1>2 DEF Waiting, Taking, Unmoved
    <2>. QED
      BY <2>1, <2>2, <2>3
  <1>5. CallsApart'
    BY <1>0, <1>1, <1>2 DEF CallsApart, Unmoved, Taken
  <1>6. NotInTheFuture'
    <2>1. \A c \in cleanups' : c[2] <= clock - 2 * Period[c[1]] + Slack
      BY <1>0, <1>1, <1>3 DEF NotInTheFuture
    <2>2. \A u \in Threads : /\ now'[u] <= clock
                             /\ limitPc'[u] \in Taken => clock - now'[u] <= MaxStall
                             /\ \A k \in taken'[u] : k[2] <= clock
      BY <1>0, <1>1, <1>2 DEF NotInTheFuture, Unmoved, Taken
    <2>. QED
      BY <1>0, <1>1, <2>1, <2>2 DEF NotInTheFuture
  <1>7. StillThere' /\ ExpiresLate' /\ AccountedFor'
    BY <1>1, <1>4, SetsStand
  <1>8. ClaimsBounded'
    BY <1>0, <1>1, <1>4, ClaimsStayBounded DEF Claims
  <1>. QED
    BY <1>5, <1>6, <1>7, <1>8 DEF LimitInv

\* ZADD: the call's entry was waited for, and is in the set.
LEMMA ZAddInv ==
    ASSUME Limit!LimitAssumption, LimitInv, NEW t \in Threads, Limit!ZAdd(t), Limit!LimitTypeOK'
    PROVE  LimitInv'
  <1>. DEFINE lim == limit[t]
              own == <<call[t], now[t]>>
  <1>0. /\ Limit!LimitTypeOK /\ CallsApart /\ NotInTheFuture /\ ClaimsBounded /\ StillThere
        /\ ExpiresLate /\ AccountedFor /\ lim \in Limit!LimitIds
    BY LimitFacts
  <1>1. /\ limitPc[t] = "add" /\ limitPc'[t] = "expire"
        /\ UNCHANGED <<clock, ttl, cleanups, admitted, failed, slipped, faults, call, limit,
             now,
                       count, taken>>
        /\ \A u \in Threads : u # t => Unmoved(u)
    BY <1>0 DEF Limit!ZAdd, Limit!history, Unmoved, Limit!LimitTypeOK
  <1>2. \A l \in Limit!LimitIds : /\ store[l] \subseteq store'[l]
                                  /\ \A e \in store'[l] : e \in store[l] \/ (l = lim /\ e = own)
                                  /\ l = lim => own \in store'[l]
    BY <1>0 DEF Limit!ZAdd, Limit!Added, Limit!LimitTypeOK
  <1>3. /\ \A l, e : Settled(l, e)' <=> Settled(l, e)
        /\ \A l, e : Adding(l, e)' <=> Adding(l, e) \/ Taking(t, l, e)
        /\ \A l, e : Waiting(l, e)' => Waiting(l, e)
        /\ \A l, e : Taking(t, l, e) => Waiting(l, e)
    <2>1. \A l, e : Settled(l, e)' <=> Settled(l, e)
      BY <1>1 DEF Settled
    <2>2. \A l, e : Adding(l, e)' <=> Adding(l, e) \/ Taking(t, l, e)
      BY <1>1 DEF Adding, Taking, Unmoved
    <2>3. \A l, e : Waiting(l, e)' => Waiting(l, e)
      BY <1>1 DEF Waiting, Taking, Unmoved
    <2>4. \A l, e : Taking(t, l, e) => Waiting(l, e)
      BY <1>1 DEF Waiting
    <2>. QED
      BY <2>1, <2>2, <2>3, <2>4
  <1>4. ASSUME NEW l \in Limit!LimitIds, NEW e \in Limit!Entries, Taking(t, l, e)
        PROVE  l = lim /\ e = own
    BY <1>4 DEF Taking, Limit!Entries
  <1>5. ~Settled(lim, own)
    <2>1. call[t] # 0 /\ \A k \in taken[t] : k[1] < lim
      BY <1>0, <1>1 DEF CallsApart, Taken
    <2>2. own \notin admitted[lim]
      BY <1>0, <1>1 DEF CallsApart
    <2>3. lim \in Int
      BY LimitFacts
    <2>4. <<lim, now[t]>> \notin taken[t]
      BY <2>1, <2>3
    <2>. QED
      BY <1>0, <2>1, <2>2, <2>4 DEF Settled, CallsApart
  <1>6. CallsApart'
    BY <1>0, <1>1 DEF CallsApart, Unmoved, Taken
  <1>7. NotInTheFuture'
    BY <1>0, <1>1 DEF NotInTheFuture, Unmoved, Taken
  <1>8. \A l \in Limit!LimitIds : \A e \in store'[l] : e \in Limit!Entries
    BY DEF Limit!LimitTypeOK, Limit!Entries
  <1>9. StillThere'
    <2>. SUFFICES ASSUME NEW l \in Limit!LimitIds, NEW e \in Limit!Entries, e[1] \notin slipped,
                         Settled(l, e) \/ Adding(l, e) \/ Taking(t, l, e)
                  PROVE  e \in store'[l] \/ IsOld(l, e)
      BY <1>1, <1>3 DEF StillThere, IsOld, Limit!Entries
    <2>. QED
      BY <1>0, <1>2, <1>4 DEF StillThere
  <1>10. ExpiresLate'
    <2>. SUFFICES ASSUME NEW l \in Limit!LimitIds, NEW e \in store'[l], e[1] \notin slipped,
                         Settled(l, e)
                  PROVE  ttl[l] >= e[2] + Period[l] + Slack
      BY <1>1, <1>3 DEF ExpiresLate
    <2>. QED
      BY <1>0, <1>2, <1>5 DEF ExpiresLate
  <1>11. AccountedFor'
    <2>. SUFFICES ASSUME NEW l \in Limit!LimitIds, NEW e \in store'[l]
                  PROVE  Settled(l, e) \/ Adding(l, e) \/ Taking(t, l, e) \/ e[1] \in failed
      BY <1>1, <1>3 DEF AccountedFor
    <2>. QED
      BY <1>0, <1>2 DEF AccountedFor, Taking
  <1>12. ClaimsBounded'
    <2>1. Limit!Entries' = Limit!Entries
      BY DEF Limit!Entries
    <2>. QED
      BY <1>0, <1>1, <1>3, <2>1, ClaimsStayBounded DEF Claims
  <1>. QED
    BY <1>6, <1>7, <1>9, <1>10, <1>11, <1>12 DEF LimitInv

\* What a call is about to add is not settled; what is settled or added is of the past.
LEMMA OwnIsNotSettled ==
    ASSUME Limit!LimitAssumption, LimitInv, NEW t \in Threads, limitPc[t] \in Taken
    PROVE  ~Settled(limit[t], <<call[t], now[t]>>)
  <1>1. CallsApart /\ limit[t] \in Int
    BY LimitFacts
  <1>2. call[t] # 0 /\ limitPc[t] # "idle" /\ \A k \in taken[t] : k[1] < limit[t]
    BY <1>1 DEF CallsApart, Taken
  <1>3. limit[t] \in Limit!LimitIds
    BY LimitFacts
  <1>4. <<call[t], now[t]>> \notin admitted[limit[t]]
    BY <1>1, <1>2, <1>3 DEF CallsApart
  <1>5. <<limit[t], now[t]>> \notin taken[t]
    BY <1>1, <1>2
  <1>. QED
    BY <1>1, <1>2, <1>4, <1>5 DEF Settled, CallsApart

LEMMA AddedIsPast ==
    ASSUME NotInTheFuture, NEW l \in Limit!LimitIds, NEW e, Settled(l, e) \/ Adding(l, e)
    PROVE  e[2] <= clock
  <1>1. CASE e \in admitted[l]
    BY <1>1 DEF NotInTheFuture
  <1>2. CASE \E t \in Threads : call[t] = e[1] /\ <<l, e[2]>> \in taken[t]
    BY <1>2 DEF NotInTheFuture
  <1>3. CASE Adding(l, e)
    BY <1>3 DEF NotInTheFuture, Adding, Taking
  <1>. QED
    BY <1>1, <1>2, <1>3 DEF Settled

\* EXPIRE: the call's entry is settled, and the set lives for a period and a minute.
LEMMA ExpireInv ==
    ASSUME Limit!LimitAssumption, LimitInv, NEW t \in Threads, Limit!Expire(t),
             Limit!LimitTypeOK'
    PROVE  LimitInv'
  <1>. DEFINE lim == limit[t]
  <1>0. /\ Limit!LimitTypeOK /\ CallsApart /\ NotInTheFuture /\ ClaimsBounded /\ StillThere
        /\ ExpiresLate /\ AccountedFor /\ lim \in Limit!LimitIds /\ clock \in Nat
        /\ now[t] \in Nat /\ Slack \in Nat \ {0} /\ MaxStall \in Nat
        /\ \A l \in Limit!LimitIds : Period[l] \in Nat
        /\ \A u \in Threads : limit[u] \in Int
    BY LimitFacts
  <1>1. /\ limitPc[t] = "expire"
        /\ UNCHANGED <<clock, store, cleanups, admitted, failed, slipped, faults, call>>
        /\ taken'[t] = taken[t] \cup {<<lim, now[t]>>}
    BY <1>0 DEF Limit!Expire, Limit!history, Limit!LimitTypeOK
  <1>2. /\ \A u \in Threads : u # t => Unmoved(u)
        /\ \/ limitPc'[t] = "count" /\ limit'[t] = lim + 1 /\ now'[t] = clock
           \/ limitPc'[t] = "work" /\ now'[t] = 0
    <2>1. CASE lim < Limits
      BY <1>0, <1>1, <2>1 DEF Limit!Expire, Unmoved, Limit!LimitTypeOK
    <2>2. CASE ~(lim < Limits)
      BY <1>0, <1>1, <2>2 DEF Limit!Expire, Limit!TakeEnds, Unmoved, Limit!LimitTypeOK
    <2>. QED
      BY <2>1, <2>2
  <1>3. \A l \in Limit!LimitIds :
           ttl'[l] = IF l = lim /\ store[l] # {} THEN clock + Period[l] + Slack ELSE ttl[l]
    BY <1>0 DEF Limit!Expire, Limit!Expiring, Limit!LimitTypeOK
  <1>4. /\ \A l, e : Settled(l, e)' <=> Settled(l, e) \/ Taking(t, l, e)
        /\ \A l, e : Adding(l, e)' => Adding(l, e)
        /\ \A l, e : Adding(l, e) => Adding(l, e)' \/ Taking(t, l, e)
        /\ \A l, e : Taking(t, l, e) => Adding(l, e)
        /\ \A l, e : Waiting(l, e)' => Waiting(l, e)
    <2>1. \A l, e : <<l, e[2]>> \in taken'[t] <=>
                       <<l, e[2]>> \in taken[t] \/ (l = limit[t] /\ e[2] = now[t])
      BY <1>1
    <2>2. \A l, e : Settled(l, e)' <=> Settled(l, e) \/ Taking(t, l, e)
      BY <1>1, <1>2, <2>1 DEF Settled, Taking, Unmoved
    <2>3. /\ \A l, e : Adding(l, e)' => Adding(l, e)
          /\ \A l, e : Adding(l, e) => Adding(l, e)' \/ Taking(t, l, e)
      BY <1>1, <1>2 DEF Adding, Taking, Unmoved
    <2>4. \A l, e : Waiting(l, e)' => Waiting(l, e)
      BY <1>1, <1>2 DEF Waiting, Taking, Unmoved
    <2>5. \A l, e : Taking(t, l, e) => Adding(l, e)
      BY <1>1 DEF Adding
    <2>. QED
      BY <2>2, <2>3, <2>4, <2>5
  <1>5. CallsApart'
    <2>1. /\ \A u \in Threads : limitPc'[u] # "idle" => call'[u] \in 1..MaxCalls
          /\ \A u, v \in Threads : u # v /\ call'[u] = call'[v] => call'[u] = 0
          /\ \A u \in Threads : limitPc'[u] = "idle" => taken'[u] = {}
      BY <1>0, <1>1, <1>2 DEF CallsApart, Unmoved
    <2>2. \A k \in taken[t] : k[1] < lim /\ k[1] \in Int
      BY <1>0, <1>1 DEF CallsApart, Taken, Limit!LimitTypeOK, Limit!LimitIds
    <2>3. \A u \in Threads : \A k \in taken'[u] : limitPc'[u] \in Taken => k[1] < limit'[u]
      BY <1>0, <1>1, <1>2, <2>2 DEF CallsApart, Unmoved, Taken
    <2>4. \A u \in Threads : \A j, k \in taken'[u] : j[1] = k[1] => j = k
      BY <1>0, <1>1, <1>2, <2>2 DEF CallsApart, Unmoved
    <2>5. \A l \in Limit!LimitIds : \A e \in admitted'[l] :
             /\ \E u \in Threads : e[1] <= call'[u]
             /\ \A u \in Threads : call'[u] = e[1] => limitPc'[u] = "idle"
      BY <1>0, <1>1, <1>2 DEF CallsApart, Unmoved
    <2>. QED
      BY <2>1, <2>3, <2>4, <2>5 DEF CallsApart
  <1>6. NotInTheFuture'
    <2>1. \A u \in Threads : now'[u] <= clock
      BY <1>0, <1>2 DEF NotInTheFuture, Unmoved
    <2>2. \A u \in Threads : limitPc'[u] \in Taken => clock - now'[u] <= MaxStall
      BY <1>0, <1>2 DEF NotInTheFuture, Unmoved, Taken
    <2>3. \A u \in Threads : \A k \in taken'[u] : k[2] <= clock
      BY <1>0, <1>1, <1>2 DEF NotInTheFuture, Unmoved
    <2>. QED
      BY <1>0, <1>1, <2>1, <2>2, <2>3 DEF NotInTheFuture
  <1>7. StillThere'
    <2>1. Limit!Entries' = Limit!Entries
      BY DEF Limit!Entries
    <2>. QED
      BY <1>0, <1>1, <1>4, <2>1 DEF StillThere, IsOld
  <1>8. ExpiresLate'
    <2>. SUFFICES ASSUME NEW l \in Limit!LimitIds, NEW e \in store[l], e[1] \notin slipped,
                         Settled(l, e) \/ Taking(t, l, e)
                  PROVE  ttl'[l] >= e[2] + Period[l] + Slack
      BY <1>1, <1>4 DEF ExpiresLate
    <2>1. e[2] <= clock /\ e[2] \in Nat
      BY <1>0, <1>4, AddedIsPast DEF Limit!LimitTypeOK, Limit!Entries
    <2>2. CASE l = lim
      BY <1>0, <1>3, <2>1, <2>2
    <2>3. CASE l # lim
      <3>1. Settled(l, e) /\ ttl'[l] = ttl[l]
        BY <1>3, <2>3 DEF Taking
      <3>. QED
        BY <1>0, <3>1 DEF ExpiresLate
    <2>. QED
      BY <2>2, <2>3
  <1>9. AccountedFor'
    BY <1>0, <1>1, <1>4 DEF AccountedFor
  <1>10. ClaimsBounded'
    <2>1. Limit!Entries' = Limit!Entries
      BY DEF Limit!Entries
    <2>. QED
      BY <1>0, <1>1, <1>4, <2>1, ClaimsStayBounded DEF Claims
  <1>. QED
    BY <1>5, <1>6, <1>7, <1>8, <1>9, <1>10 DEF LimitInv

\* A command that fails may leave the call's entry, which nothing accounts for.
LEMMA TakeFailsInv ==
    ASSUME Limit!LimitAssumption, LimitInv, NEW t \in Threads, Limit!TakeFails(t),
           Limit!LimitTypeOK'
    PROVE  LimitInv'
  <1>. DEFINE lim == limit[t]
              own == <<call[t], now[t]>>
  <1>0. /\ Limit!LimitTypeOK /\ CallsApart /\ NotInTheFuture /\ ClaimsBounded /\ StillThere
        /\ ExpiresLate /\ AccountedFor /\ lim \in Limit!LimitIds /\ clock \in Nat
        /\ Slack \in Nat \ {0}
        /\ \A l \in Limit!LimitIds : Period[l] \in Nat
    BY LimitFacts
  <1>1. /\ limitPc[t] \in Taken /\ limitPc'[t] = "cancel" /\ now'[t] = 0
        /\ UNCHANGED <<clock, cleanups, admitted, slipped, call, taken>>
        /\ failed' = failed \cup {call[t]}
        /\ \A u \in Threads : u # t => Unmoved(u)
    BY <1>0 DEF Limit!TakeFails, Limit!TakeEnds, Unmoved, Limit!LimitTypeOK, Taken
  <1>2. /\ store' = store \/ store' = Limit!Added(t)
        /\ ttl' = ttl \/ (store' = store /\ ttl' = Limit!Expiring(t))
    BY DEF Limit!TakeFails, Limit!redis
  <1>3. \A l \in Limit!LimitIds : /\ store[l] \subseteq store'[l]
                                  /\ \A e \in store'[l] : e \in store[l] \/ (l = lim /\ e = own)
    BY <1>0, <1>2 DEF Limit!Added, Limit!LimitTypeOK
  <1>4. \A l \in Limit!LimitIds : \/ ttl'[l] = ttl[l]
                                  \/ ttl'[l] = clock + Period[l] + Slack
    BY <1>0, <1>2 DEF Limit!Expiring, Limit!LimitTypeOK
  <1>5. /\ \A l, e : Settled(l, e)' <=> Settled(l, e)
        /\ \A l, e : Adding(l, e)' => Adding(l, e)
        /\ \A l, e : Adding(l, e) => Adding(l, e)' \/ Taking(t, l, e)
        /\ \A l, e : Waiting(l, e)' => Waiting(l, e)
    <2>1. \A l, e : Settled(l, e)' <=> Settled(l, e)
      BY <1>1 DEF Settled
    <2>2. /\ \A l, e : Adding(l, e)' => Adding(l, e)
          /\ \A l, e : Adding(l, e) => Adding(l, e)' \/ Taking(t, l, e)
      BY <1>1 DEF Adding, Taking, Unmoved
    <2>3. \A l, e : Waiting(l, e)' => Waiting(l, e)
      BY <1>1 DEF Waiting, Taking, Unmoved
    <2>. QED
      BY <2>1, <2>2, <2>3
  <1>6. CallsApart'
    BY <1>0, <1>1 DEF CallsApart, Unmoved, Taken
  <1>7. NotInTheFuture'
    BY <1>0, <1>1 DEF NotInTheFuture, Unmoved, Taken
  <1>8. StillThere'
    <2>1. Limit!Entries' = Limit!Entries
      BY DEF Limit!Entries
    <2>. QED
      BY <1>0, <1>1, <1>3, <1>5, <2>1 DEF StillThere, IsOld
  <1>9. ExpiresLate'
    <2>. SUFFICES ASSUME NEW l \in Limit!LimitIds, NEW e \in store'[l], e[1] \notin slipped,
                         Settled(l, e)
                  PROVE  ttl'[l] >= e[2] + Period[l] + Slack
      BY <1>1, <1>5 DEF ExpiresLate
    <2>1. e \in store[l]
      BY <1>1, <1>3, OwnIsNotSettled
    <2>2. e[2] <= clock /\ e[2] \in Nat
      BY <1>0, <2>1, AddedIsPast DEF Limit!LimitTypeOK, Limit!Entries
    <2>3. ttl[l] >= e[2] + Period[l] + Slack
      BY <1>0, <2>1 DEF ExpiresLate
    <2>4. CASE ttl'[l] = clock + Period[l] + Slack
      BY <1>0, <2>2, <2>4
    <2>. QED
      BY <1>4, <2>3, <2>4
  <1>10. AccountedFor'
    BY <1>0, <1>1, <1>3, <1>5 DEF AccountedFor, Taking
  <1>11. ClaimsBounded'
    <2>1. Limit!Entries' = Limit!Entries
      BY DEF Limit!Entries
    <2>. QED
      BY <1>0, <1>1, <1>5, <2>1, ClaimsStayBounded DEF Claims
  <1>. QED
    BY <1>6, <1>7, <1>8, <1>9, <1>10, <1>11 DEF LimitInv

\* The function's success settles what was taken for good.
LEMMA WorkInv ==
    ASSUME Limit!LimitAssumption, LimitInv, NEW t \in Threads, Limit!Work(t), Limit!LimitTypeOK'
    PROVE  LimitInv'
  <1>0. /\ Limit!LimitTypeOK /\ CallsApart /\ NotInTheFuture /\ ClaimsBounded
        /\ \A u \in Threads : call[u] \in Nat
    BY LimitFacts
  <1>1. /\ limitPc[t] = "work" /\ limitPc'[t] \in {"idle", "cancel"}
        /\ UNCHANGED <<clock, store, ttl, cleanups, failed, slipped, call, limit, now>>
        /\ \A u \in Threads : u # t => Unmoved(u)
    BY <1>0 DEF Limit!Work, Limit!redis, Unmoved, Limit!LimitTypeOK
  <1>2. \/ /\ \A l \in Limit!LimitIds : admitted'[l] = admitted[l] \cup
                 {<<call[t], k[2]>> : k \in {k \in taken[t] : k[1] = l}}
           /\ taken'[t] = {} /\ limitPc'[t] = "idle"
        \/ /\ admitted' = admitted /\ taken' = taken /\ limitPc'[t] = "cancel"
    BY <1>0, <1>1 DEF Limit!Work, Limit!LimitTypeOK
  <1>3. ASSUME NEW l \in Limit!LimitIds, NEW e \in admitted'[l]
        PROVE  e \in admitted[l] \/ (e[1] = call[t] /\ <<l, e[2]>> \in taken[t]
                 /\ limitPc'[t] = "idle")
    <2>1. CASE e \in {<<call[t], k[2]>> : k \in {k \in taken[t] : k[1] = l}}
                 /\ limitPc'[t] = "idle"
      <3>1. PICK k \in taken[t] : k[1] = l /\ e = <<call[t], k[2]>>
        BY <2>1
      <3>2. k = <<l, e[2]>>
        BY <1>0, <3>1 DEF Limit!LimitTypeOK
      <3>. QED
        BY <2>1, <3>1, <3>2
    <2>. QED
      BY <1>2, <2>1
  <1>4. \A l \in Limit!LimitIds : \A e \in Limit!Entries : Settled(l, e)' <=> Settled(l, e)
    <2>. SUFFICES ASSUME NEW l \in Limit!LimitIds, NEW e \in Limit!Entries
                  PROVE  Settled(l, e)' <=> Settled(l, e)
      OBVIOUS
    <2>1. ASSUME Settled(l, e)' PROVE Settled(l, e)
      BY <1>1, <1>2, <1>3, <2>1 DEF Settled, Unmoved
    <2>2. ASSUME Settled(l, e) PROVE Settled(l, e)'
      <3>1. CASE e[1] = call[t] /\ <<l, e[2]>> \in taken[t] /\ limitPc'[t] = "idle"
        <4>1. e = <<call[t], <<l, e[2]>>[2]>>
          BY <3>1 DEF Limit!Entries
        <4>2. e \in admitted'[l]
          BY <1>2, <3>1, <4>1
        <4>. QED
          BY <4>2 DEF Settled
      <3>2. CASE ~(e[1] = call[t] /\ <<l, e[2]>> \in taken[t] /\ limitPc'[t] = "idle")
        BY <1>1, <1>2, <2>2, <3>2 DEF Settled, Unmoved
      <3>. QED
        BY <3>1, <3>2
    <2>. QED
      BY <2>1, <2>2
  <1>5. /\ \A l, e : Adding(l, e)' <=> Adding(l, e)
        /\ \A l, e : Waiting(l, e)' <=> Waiting(l, e)
    <2>1. \A l, e : Adding(l, e)' <=> Adding(l, e)
      BY <1>1 DEF Adding, Taking, Unmoved
    <2>2. \A l, e : Waiting(l, e)' <=> Waiting(l, e)
      BY <1>1 DEF Waiting, Taking, Unmoved
    <2>. QED
      BY <2>1, <2>2
  <1>6. CallsApart'
    <2>1. /\ \A u \in Threads : limitPc'[u] # "idle" => call'[u] \in 1..MaxCalls
          /\ \A u, v \in Threads : u # v /\ call'[u] = call'[v] => call'[u] = 0
          /\ \A u \in Threads : limitPc'[u] = "idle" => taken'[u] = {}
      BY <1>0, <1>1, <1>2 DEF CallsApart, Unmoved
    <2>2. /\ \A u \in Threads : \A k \in taken'[u] : limitPc'[u] \in Taken => k[1] < limit'[u]
          /\ \A u \in Threads : \A j, k \in taken'[u] : j[1] = k[1] => j = k
      BY <1>0, <1>1, <1>2 DEF CallsApart, Unmoved, Taken
    <2>3. ASSUME NEW l \in Limit!LimitIds, NEW e \in admitted'[l]
          PROVE  /\ \E u \in Threads : e[1] <= call'[u]
                 /\ \A u \in Threads : call'[u] = e[1] => limitPc'[u] = "idle"
      <3>1. CASE e \in admitted[l]
        BY <1>0, <1>1, <3>1 DEF CallsApart, Unmoved
      <3>2. CASE e[1] = call[t] /\ limitPc'[t] = "idle"
        <4>1. call[t] # 0
          BY <1>0, <1>1 DEF CallsApart
        <4>2. \A u \in Threads : call[u] = call[t] => u = t
          BY <1>0, <4>1 DEF CallsApart
        <4>. QED
          BY <1>0, <1>1, <3>2, <4>2
      <3>. QED
        BY <1>3, <3>1, <3>2
    <2>. QED
      BY <2>1, <2>2, <2>3 DEF CallsApart
  <1>7. NotInTheFuture'
    <2>1. \A u \in Threads : /\ now'[u] <= clock
                             /\ limitPc'[u] \in Taken => clock - now'[u] <= MaxStall
                             /\ \A k \in taken'[u] : k[2] <= clock
      BY <1>0, <1>1, <1>2 DEF NotInTheFuture, Unmoved, Taken
    <2>2. \A l \in Limit!LimitIds : \A e \in admitted'[l] : e[2] <= clock
      BY <1>0, <1>3 DEF NotInTheFuture
    <2>. QED
      BY <1>0, <1>1, <2>1, <2>2 DEF NotInTheFuture
  <1>8. StillThere' /\ ExpiresLate' /\ AccountedFor'
    BY <1>1, <1>4, <1>5, SetsStand
  <1>9. ClaimsBounded'
    <2>1. Limit!Entries' = Limit!Entries
      BY DEF Limit!Entries
    <2>. QED
      BY <1>0, <1>1, <1>4, <1>5, <2>1, ClaimsStayBounded DEF Claims
  <1>. QED
    BY <1>6, <1>7, <1>8, <1>9 DEF LimitInv

\* What a cancel removes is its own call's, which is then no longer settled.
LEMMA CancelInv ==
    ASSUME Limit!LimitAssumption, LimitInv, NEW t \in Threads, Limit!Cancel(t),
             Limit!LimitTypeOK'
    PROVE  LimitInv'
  <1>0. /\ Limit!LimitTypeOK /\ CallsApart /\ NotInTheFuture /\ ClaimsBounded /\ StillThere
        /\ ExpiresLate /\ AccountedFor
    BY LimitFacts
  <1>1. /\ limitPc[t] = "cancel" /\ call[t] # 0
        /\ UNCHANGED <<clock, cleanups, call, limit, now, count, admitted, slipped>>
        /\ \A u \in Threads : u # t => Unmoved(u)
    <2>1. /\ limitPc[t] = "cancel"
          /\ UNCHANGED <<clock, cleanups, call, limit, now, count, admitted, slipped>>
      BY DEF Limit!Cancel
    <2>2. \A u \in Threads : u # t => limitPc'[u] = limitPc[u] /\ taken'[u] = taken[u]
      <3>1. CASE taken[t] = {}
        BY <1>0, <3>1 DEF Limit!Cancel, Limit!LimitTypeOK
      <3>2. CASE taken[t] # {}
        BY <1>0, <3>2 DEF Limit!Cancel, Limit!LimitTypeOK
      <3>. QED
        BY <3>1, <3>2
    <2>3. call[t] # 0
      BY <1>0, <2>1 DEF CallsApart
    <2>. QED
      BY <2>1, <2>2, <2>3 DEF Unmoved
  <1>2. /\ \A l, e : Adding(l, e)' <=> Adding(l, e)
        /\ \A l, e : Adding(l, e) => e[1] # call[t]
        /\ \A l, e : Waiting(l, e)' <=> Waiting(l, e)
    <2>1. limitPc'[t] \in {"idle", "cancel"}
      <3>1. CASE taken[t] = {}
        BY <1>0, <3>1 DEF Limit!Cancel, Limit!LimitTypeOK
      <3>2. CASE taken[t] # {}
        BY <1>1, <3>2 DEF Limit!Cancel
      <3>. QED
        BY <3>1, <3>2
    <2>2. \A l, e : Adding(l, e)' <=> Adding(l, e)
      BY <1>1, <2>1 DEF Adding, Taking, Unmoved
    <2>3. \A l, e : Adding(l, e) => e[1] # call[t]
      BY <1>0, <1>1 DEF Adding, Taking, CallsApart
    <2>4. \A l, e : Waiting(l, e)' <=> Waiting(l, e)
      BY <1>1, <2>1 DEF Waiting, Taking, Unmoved
    <2>. QED
      BY <2>2, <2>3, <2>4
  <1>3. CASE taken[t] = {}
    <2>1. /\ limitPc'[t] = "idle" /\ UNCHANGED <<store, ttl, taken, failed, faults>>
      BY <1>0, <1>3 DEF Limit!Cancel, Limit!LimitTypeOK
    <2>2. \A l, e : Settled(l, e)' <=> Settled(l, e)
      BY <1>1, <2>1 DEF Settled
    <2>3. CallsApart'
      BY <1>0, <1>1, <1>3, <2>1 DEF CallsApart, Unmoved, Taken
    <2>4. NotInTheFuture'
      BY <1>0, <1>1, <2>1 DEF NotInTheFuture, Unmoved, Taken
    <2>5. StillThere' /\ ExpiresLate' /\ AccountedFor'
      BY <1>1, <1>2, <2>1, <2>2, SetsStand
    <2>6. ClaimsBounded'
      <3>1. Limit!Entries' = Limit!Entries
        BY DEF Limit!Entries
      <3>. QED
        BY <1>0, <1>1, <1>2, <2>2, <3>1, ClaimsStayBounded DEF Claims
    <2>. QED
      BY <2>3, <2>4, <2>5, <2>6 DEF LimitInv
  <1>4. CASE taken[t] # {}
    <2>1. PICK first \in taken[t] :
             /\ taken' = [taken EXCEPT ![t] = @ \ {first}]
             /\ \/ /\ Limit!Leave(first[1], {e \in store[first[1]] : e[1] # call[t]})
                   /\ UNCHANGED <<failed, faults>>
                \/ /\ failed' = failed \cup {call[t]}
                   /\ UNCHANGED <<store, ttl>>
             /\ UNCHANGED limitPc
      BY <1>4 DEF Limit!Cancel, Limit!redis
    <2>. DEFINE lim == first[1]
    <2>2. lim \in Limit!LimitIds /\ first = <<lim, first[2]>> /\ taken'[t] = taken[t] \ {first}
      BY <1>0, <2>1 DEF Limit!LimitTypeOK
    <2>3. /\ failed \subseteq failed'
          /\ \A l \in Limit!LimitIds :
                /\ store'[l] \subseteq store[l]
                /\ \A e \in store[l] : e \in store'[l] \/ (l = lim /\ e[1] = call[t])
                /\ \A e \in store'[l] : l = lim /\ e[1] = call[t] => e[1] \in failed'
                /\ ttl'[l] = ttl[l] \/ store'[l] = {}
      <3>1. CASE failed' = failed \cup {call[t]} /\ UNCHANGED <<store, ttl>>
        BY <3>1
      <3>2. CASE Limit!Leave(lim, {e \in store[lim] : e[1] # call[t]}) /\ UNCHANGED failed
        <4>1. \A l \in Limit!LimitIds :
                 /\ store'[l] = IF l = lim THEN {e
                      \in store[lim] : e[1] # call[t]} ELSE store[l]
                 /\ ttl'[l] = ttl[l] \/ store'[l] = {}
          BY <1>0, <2>2, <3>2 DEF Limit!Leave, Limit!LimitTypeOK
        <4>2. \A l \in Limit!LimitIds : \A e :
                 e \in store'[l] <=> e \in store[l] /\ ~(l = lim /\ e[1] = call[t])
          <5>. SUFFICES ASSUME NEW l \in Limit!LimitIds, NEW e
                        PROVE  e \in store'[l] <=> e \in store[l] /\ ~(l = lim
                                 /\ e[1] = call[t])
            OBVIOUS
          <5>1. CASE l = lim
            <6>1. store'[l] = {d \in store[l] : d[1] # call[t]}
              BY <4>1, <5>1
            <6>. QED
              BY <5>1, <6>1
          <5>2. CASE l # lim
            BY <4>1, <5>2
          <5>. QED
            BY <5>1, <5>2
        <4>3. failed \subseteq failed'
          BY <3>2
        <4>. HIDE DEF lim
        <4>. QED
          BY <4>1, <4>2, <4>3
      <3>. QED
        BY <2>1, <3>1, <3>2
    <2>4. ASSUME NEW l \in Limit!LimitIds, NEW e \in Limit!Entries
          PROVE  /\ Settled(l, e)' => Settled(l, e) /\ ~(l = lim /\ e[1] = call[t])
                 /\ Settled(l, e) => Settled(l, e)' \/ (l = lim /\ e[1] = call[t])
      <3>1. Settled(l, e)' => Settled(l, e)
        BY <1>1, <2>2 DEF Settled, Unmoved
      <3>2. ASSUME Settled(l, e)', l = lim, e[1] = call[t] PROVE FALSE
        <4>1. e \notin admitted'[l]
          BY <1>0, <1>1, <3>2 DEF CallsApart
        <4>2. PICK u \in Threads : call[u] = e[1] /\ <<l, e[2]>> \in taken'[u]
          BY <1>1, <3>2, <4>1 DEF Settled
        <4>3. u = t
          BY <1>0, <1>1, <3>2, <4>2 DEF CallsApart
        <4>4. <<l, e[2]>> \in taken[t] /\ <<l, e[2]>> # first
          BY <2>2, <4>2, <4>3
        <4>. QED
          BY <1>0, <2>1, <3>2, <4>4 DEF CallsApart
      <3>3. ASSUME Settled(l, e), ~Settled(l, e)' PROVE l = lim /\ e[1] = call[t]
        <4>1. PICK u \in Threads : call[u] = e[1] /\ <<l, e[2]>> \in taken[u]
          BY <1>1, <3>3 DEF Settled
        <4>2. <<l, e[2]>> \notin taken'[u]
          BY <1>1, <3>3, <4>1 DEF Settled
        <4>3. u = t /\ <<l, e[2]>> = first
          BY <1>1, <2>2, <4>1, <4>2 DEF Unmoved
        <4>. QED
          BY <4>1, <4>3
      <3>. QED
        BY <3>1, <3>2, <3>3
    <2>. HIDE DEF lim
    <2>5. CallsApart'
      BY <1>0, <1>1, <2>1, <2>2 DEF CallsApart, Unmoved, Taken
    <2>6. NotInTheFuture'
      BY <1>0, <1>1, <2>1, <2>2 DEF NotInTheFuture, Unmoved, Taken
    <2>7. Limit!Entries' = Limit!Entries
      BY DEF Limit!Entries
    <2>8. \A l \in Limit!LimitIds : \A e \in store[l] : e \in Limit!Entries
      BY <1>0 DEF Limit!LimitTypeOK
    <2>9. StillThere'
      <3>. SUFFICES ASSUME NEW l \in Limit!LimitIds, NEW e \in Limit!Entries,
                             e[1] \notin slipped,
                           Settled(l, e)' \/ Adding(l, e)
                    PROVE  e \in store'[l] \/ IsOld(l, e)
        BY <1>1, <1>2, <2>7 DEF StillThere, IsOld
      <3>1. e \in store[l] \/ IsOld(l, e)
        BY <1>0, <2>4 DEF StillThere
      <3>. QED
        BY <1>2, <2>3, <2>4, <3>1
    <2>10. ExpiresLate'
      <3>. SUFFICES ASSUME NEW l \in Limit!LimitIds, NEW e \in store'[l], e[1] \notin slipped,
                           Settled(l, e)'
                    PROVE  ttl'[l] >= e[2] + Period[l] + Slack
        BY <1>1 DEF ExpiresLate
      <3>1. e \in store[l] /\ e \in Limit!Entries /\ ttl'[l] = ttl[l]
        BY <2>3, <2>8
      <3>. QED
        BY <1>0, <2>4, <3>1 DEF ExpiresLate
    <2>11. AccountedFor'
      <3>. SUFFICES ASSUME NEW l \in Limit!LimitIds, NEW e \in store'[l]
                    PROVE  Settled(l, e)' \/ Adding(l, e) \/ e[1] \in failed'
        BY <1>2 DEF AccountedFor
      <3>1. e \in store[l] /\ e \in Limit!Entries
        BY <2>3, <2>8
      <3>. QED
        BY <1>0, <2>3, <2>4, <3>1 DEF AccountedFor
    <2>12. ClaimsBounded'
      BY <1>0, <1>1, <1>2, <2>4, <2>7, ClaimsStayBounded DEF Claims
    <2>. QED
      BY <2>5, <2>6, <2>9, <2>10, <2>11, <2>12 DEF LimitInv
  <1>. QED
    BY <1>3, <1>4

-----------------------------------------------------------------------------
\* The clock and the cleanups.

\* The clock goes on: what expires with its set is old, or slipped.
LEMMA LimitTickInv ==
    ASSUME Limit!LimitAssumption, LimitInv, Limit!Tick, Limit!LimitTypeOK'
    PROVE  LimitInv'
  <1>0. /\ Limit!LimitTypeOK /\ CallsApart /\ NotInTheFuture /\ ClaimsBounded /\ StillThere
        /\ ExpiresLate /\ AccountedFor /\ clock \in Nat /\ Slack \in Nat \ {0} /\ MaxStall
             \in Nat
        /\ \A l \in Limit!LimitIds : Period[l] \in Nat
        /\ \A t \in Threads : now[t] \in Nat
    BY LimitFacts
  <1>1. /\ clock' = clock + 1
        /\ UNCHANGED <<cleanups, limitPc, call, limit, now, count, taken, admitted, failed>>
        /\ \A t \in Threads : limitPc[t] \in Taken => clock - now[t] < MaxStall
    BY DEF Limit!Tick, Limit!locals, Taken
  <1>2. /\ slipped \subseteq slipped'
        /\ \A t \in Threads :
              limitPc[t] = "expire" /\ ttl[limit[t]] = clock + 1 => call[t] \in slipped'
    BY DEF Limit!Tick
  <1>3. \A l \in Limit!LimitIds :
           \/ ttl[l] = clock + 1 /\ store'[l] = {}
           \/ ttl[l] # clock + 1 /\ store'[l] = store[l] /\ ttl'[l] = ttl[l]
    BY DEF Limit!Tick
  <1>4. /\ \A l, e : Settled(l, e)' <=> Settled(l, e)
        /\ \A l, e : Adding(l, e)' <=> Adding(l, e)
        /\ \A l, e : Waiting(l, e)' <=> Waiting(l, e)
    BY <1>1 DEF Settled, Adding, Waiting, Taking
  <1>5. Limit!Entries' = Limit!Entries
    BY DEF Limit!Entries
  <1>6. CallsApart'
    BY <1>0, <1>1 DEF CallsApart
  <1>7. NotInTheFuture'
    <2>1. \A t \in Threads : /\ now'[t] <= clock'
                             /\ limitPc'[t] \in Taken => clock' - now'[t] <= MaxStall
      BY <1>0, <1>1 DEF NotInTheFuture
    <2>2. \A t \in Threads : \A k \in taken'[t] : k[2] <= clock'
      <3>1. \A t \in Threads : \A k \in taken[t] : k[2] <= clock /\ k[2] \in Nat
        BY <1>0 DEF NotInTheFuture, Limit!LimitTypeOK
      <3>. QED
        BY <1>0, <1>1, <3>1
    <2>3. \A l \in Limit!LimitIds : \A e \in admitted'[l] : e[2] <= clock'
      <3>1. \A l \in Limit!LimitIds : \A e \in admitted[l] : e[2] <= clock /\ e[2] \in Nat
        BY <1>0 DEF NotInTheFuture, Limit!LimitTypeOK, Limit!Entries
      <3>. QED
        BY <1>0, <1>1, <3>1
    <2>4. \A c \in cleanups' : c[2] <= clock' - 2 * Period[c[1]] + Slack
      <3>1. \A c \in cleanups : /\ c[2] <= clock - 2 * Period[c[1]] + Slack /\ c[2] \in Int
                                /\ Period[c[1]] \in Nat
        BY <1>0 DEF NotInTheFuture, Limit!LimitTypeOK
      <3>. QED
        BY <1>0, <1>1, <3>1
    <2>. QED
      BY <2>1, <2>2, <2>3, <2>4 DEF NotInTheFuture
  <1>8. StillThere'
    <2>. SUFFICES ASSUME NEW l \in Limit!LimitIds, NEW e \in Limit!Entries,
                           e[1] \notin slipped',
                         Settled(l, e) \/ Adding(l, e)
                  PROVE  e \in store'[l] \/ IsOld(l, e)'
      BY <1>4, <1>5 DEF StillThere
    <2>1. e[2] \in Nat /\ e[1] \notin slipped
      BY <1>2 DEF Limit!Entries
    <2>2. CASE IsOld(l, e)
      BY <1>0, <1>1, <2>1, <2>2 DEF IsOld
    <2>3. CASE e \in store[l] /\ ttl[l] # clock + 1
      BY <1>3, <2>3
    <2>4. CASE e \in store[l] /\ ttl[l] = clock + 1
      <3>1. ~Adding(l, e)
        BY <1>2, <2>4 DEF Adding, Taking
      <3>2. ttl[l] >= e[2] + Period[l] + Slack
        BY <1>0, <2>1, <2>4, <3>1 DEF ExpiresLate
      <3>. QED
        BY <1>0, <1>1, <2>1, <2>4, <3>2 DEF IsOld
    <2>. QED
      BY <1>0, <2>1, <2>2, <2>3, <2>4 DEF StillThere
  <1>9. ExpiresLate'
    <2>. SUFFICES ASSUME NEW l \in Limit!LimitIds, NEW e \in store'[l], e[1] \notin slipped',
                         Settled(l, e)
                  PROVE  ttl'[l] >= e[2] + Period[l] + Slack
      BY <1>4 DEF ExpiresLate
    <2>. QED
      BY <1>0, <1>2, <1>3 DEF ExpiresLate
  <1>10. AccountedFor'
    BY <1>0, <1>1, <1>3, <1>4 DEF AccountedFor
  <1>11. ClaimsBounded'
    BY <1>0, <1>2, <1>4, <1>5, ClaimsStayBounded DEF Claims
  <1>. QED
    BY <1>6, <1>7, <1>8, <1>9, <1>10, <1>11 DEF LimitInv

\* A cleanup removes what is old.
LEMMA CleanupInv ==
    ASSUME Limit!LimitAssumption, LimitInv, Limit!Cleanup, Limit!LimitTypeOK'
    PROVE  LimitInv'
  <1>0. /\ Limit!LimitTypeOK /\ CallsApart /\ NotInTheFuture /\ ClaimsBounded /\ StillThere
        /\ ExpiresLate /\ AccountedFor /\ clock \in Nat /\ Slack \in Nat \ {0}
        /\ \A l \in Limit!LimitIds : Period[l] \in Nat
    BY LimitFacts
  <1>1. PICK c \in cleanups : /\ Limit!Leave(c[1], {e \in store[c[1]] : e[2] > c[2]})
                              /\ cleanups' = cleanups \ {c}
                              /\ UNCHANGED <<clock, limitPc, call, limit, now, count, taken,
                                             admitted, failed, slipped, faults>>
    BY DEF Limit!Cleanup, Limit!locals, Limit!history
  <1>2. c[1] \in Limit!LimitIds /\ c[2] \in Int /\ c[2] <= clock - 2 * Period[c[1]] + Slack
    BY <1>0 DEF Limit!LimitTypeOK, NotInTheFuture
  <1>3. \A l \in Limit!LimitIds :
           /\ store'[l] = IF l = c[1] THEN {e \in store[l] : e[2] > c[2]} ELSE store[l]
           /\ ttl'[l] = ttl[l] \/ store'[l] = {}
    BY <1>0, <1>1, <1>2 DEF Limit!Leave, Limit!LimitTypeOK
  <1>4. \A l \in Limit!LimitIds : /\ store'[l] \subseteq store[l]
                                  /\ \A e \in store[l] : e \in store'[l] \/ (l = c[1]
                                       /\ ~(e[2] > c[2]))
    <2>. SUFFICES ASSUME NEW l \in Limit!LimitIds
                  PROVE  /\ store'[l] \subseteq store[l]
                         /\ \A e \in store[l] : e \in store'[l] \/ (l = c[1] /\ ~(e[2] > c[2]))
      OBVIOUS
    <2>1. CASE l = c[1]
      <3>1. store'[l] = {e \in store[l] : e[2] > c[2]}
        BY <1>3, <2>1
      <3>. QED
        BY <2>1, <3>1
    <2>2. CASE l # c[1]
      BY <1>3, <2>2
    <2>. QED
      BY <2>1, <2>2
  <1>5. /\ \A l, e : Settled(l, e)' <=> Settled(l, e)
        /\ \A l, e : Adding(l, e)' <=> Adding(l, e)
        /\ \A l, e : Waiting(l, e)' <=> Waiting(l, e)
    BY <1>1 DEF Settled, Adding, Waiting, Taking
  <1>6. Limit!Entries' = Limit!Entries
    BY DEF Limit!Entries
  <1>7. CallsApart'
    BY <1>0, <1>1 DEF CallsApart
  <1>8. NotInTheFuture'
    BY <1>0, <1>1 DEF NotInTheFuture
  <1>9. StillThere'
    <2>. SUFFICES ASSUME NEW l \in Limit!LimitIds, NEW e \in Limit!Entries, e[1] \notin slipped,
                         Settled(l, e) \/ Adding(l, e)
                  PROVE  e \in store'[l] \/ IsOld(l, e)
      BY <1>1, <1>5, <1>6 DEF StillThere, IsOld
    <2>1. e \in store[l] \/ IsOld(l, e)
      BY <1>0 DEF StillThere
    <2>2. e[2] \in Nat
      BY DEF Limit!Entries
    <2>3. CASE l = c[1] /\ ~(e[2] > c[2])
      BY <1>0, <1>2, <2>2, <2>3 DEF IsOld
    <2>. QED
      BY <1>4, <2>1, <2>3
  <1>10. ExpiresLate'
    <2>. SUFFICES ASSUME NEW l \in Limit!LimitIds, NEW e \in store'[l], e[1] \notin slipped,
                         Settled(l, e)
                  PROVE  ttl'[l] >= e[2] + Period[l] + Slack
      BY <1>1, <1>5 DEF ExpiresLate
    <2>1. e \in store[l] /\ ttl'[l] = ttl[l]
      BY <1>3, <1>4
    <2>. QED
      BY <1>0, <2>1 DEF ExpiresLate
  <1>11. AccountedFor'
    BY <1>0, <1>1, <1>4, <1>5 DEF AccountedFor
  <1>12. ClaimsBounded'
    BY <1>0, <1>1, <1>5, <1>6, ClaimsStayBounded DEF Claims
  <1>. QED
    BY <1>7, <1>8, <1>9, <1>10, <1>11, <1>12 DEF LimitInv

LEMMA LimitNextInv ==
    ASSUME Limit!LimitAssumption, LimitInv, [Limit!Next]_limitVars
    PROVE  LimitInv'
  <1>1. Limit!LimitTypeOK'
    BY LimitFacts, LimitNextTypeOK
  <1>2. CASE Limit!Tick
    BY <1>1, <1>2, LimitTickInv
  <1>3. CASE Limit!Cleanup
    BY <1>1, <1>3, CleanupInv
  <1>4. ASSUME NEW t \in Threads, Limit!ThreadStep(t) PROVE LimitInv'
    BY <1>1, <1>4, FuncTakeInv, CountInv, CardInv, ZAddInv, ExpireInv, TakeFailsInv, WorkInv,
       CancelInv DEF Limit!ThreadStep
  <1>5. CASE UNCHANGED limitVars
    <2>1. UNCHANGED <<clock, store, ttl, cleanups, limitPc, call, limit, now, count, taken,
                      admitted, failed, slipped, faults>>
      BY <1>5 DEF limitVars
    <2>2. /\ \A l, e : Settled(l, e)' <=> Settled(l, e)
          /\ \A l, e : Adding(l, e)' <=> Adding(l, e)
          /\ \A l, e : Waiting(l, e)' <=> Waiting(l, e)
      BY <2>1 DEF Settled, Adding, Waiting, Taking
    <2>3. StillThere' /\ ExpiresLate' /\ AccountedFor'
      BY <2>1, <2>2, SetsStand
    <2>4. ClaimsBounded'
      <3>1. Limit!Entries' = Limit!Entries
        BY DEF Limit!Entries
      <3>. QED
        BY <2>1, <2>2, <3>1, LimitFacts, ClaimsStayBounded DEF Claims
    <2>5. CallsApart' /\ NotInTheFuture'
      BY <2>1, LimitFacts DEF CallsApart, NotInTheFuture
    <2>. QED
      BY <1>1, <2>3, <2>4, <2>5 DEF LimitInv
  <1>. QED
    BY <1>2, <1>3, <1>4, <1>5 DEF Limit!Next

LEMMA LimitInvImplies ==
    ASSUME Limit!LimitAssumption, LimitInv
    PROVE  Limit!WindowQuota /\ Limit!CountedAsDecided
  <1>0. /\ Limit!LimitTypeOK /\ CallsApart /\ NotInTheFuture /\ ClaimsBounded /\ StillThere
        /\ ExpiresLate /\ AccountedFor /\ clock \in Nat /\ Slack \in Nat \ {0}
        /\ \A l \in Limit!LimitIds : Period[l] \in Nat /\ Quota[l] \in Nat
        /\ \A t \in Threads : call[t] \in Nat
    BY LimitFacts
  <1>1. Limit!WindowQuota
    <2>. SUFFICES ASSUME NEW l \in Limit!LimitIds, Period[l] > Slack + MaxStall, NEW w
                           \in 0..clock
                  PROVE  Limit!Cardinality({e \in admitted[l] :
                                               e[1] \notin slipped /\ e[2]
                                                 \in (w - Period[l])..w})
                            <= Quota[l] + Limit!Cardinality(Threads) - 1
      BY DEF Limit!WindowQuota
    <2>. DEFINE got == {e \in admitted[l] : e[1] \notin slipped /\ e[2] \in (w - Period[l])..w}
                all == InWindow(Claims(l), l, w)
    <2>1. got \subseteq all
      BY <1>0 DEF InWindow, Claims, Settled, Limit!LimitTypeOK
    <2>2. all \in SUBSET Limit!Entries
      BY DEF InWindow, Claims
    <2>3. Cardinality(all) <= Quota[l] + Cardinality(Threads) - 1
      BY <1>0 DEF ClaimsBounded
    <2>. HIDE DEF got, all
    <2>4. IsFiniteSet(all) /\ Cardinality(all) \in Nat
      BY <2>2, EntriesAreFinite
    <2>5. Cardinality(got) <= Cardinality(all) /\ IsFiniteSet(got)
      BY <2>1, <2>4, FS_Subset
    <2>6. Cardinality(got) \in Nat /\ Cardinality(Threads) \in Nat
      BY <2>5, FS_CardinalityType, ThreadsAreFinite
    <2>7. Cardinality(got) <= Quota[l] + Cardinality(Threads) - 1
      BY <1>0, <2>3, <2>4, <2>5, <2>6
    <2>8. Limit!Cardinality(got) = Cardinality(got)
            /\ Limit!Cardinality(Threads) = Cardinality(Threads)
      BY SameFiniteSets
    <2>. QED
      BY <2>7, <2>8 DEF got
  <1>2. Limit!AdmittedIsCounted
    <2>. SUFFICES ASSUME NEW l \in Limit!LimitIds, Period[l] > Slack, NEW e \in admitted[l],
                         clock - e[2] <= Period[l], e[1] \notin slipped
                  PROVE  e \in store[l]
      BY DEF Limit!AdmittedIsCounted
    <2>1. e \in Limit!Entries /\ e[2] \in Nat /\ Settled(l, e)
      BY <1>0 DEF Limit!LimitTypeOK, Limit!Entries, Settled
    <2>2. ~IsOld(l, e)
      BY <1>0, <2>1 DEF IsOld
    <2>. QED
      BY <1>0, <2>1, <2>2 DEF StillThere
  <1>3. Limit!RefusedTakesNothing
    <2>. SUFFICES ASSUME NEW t \in Threads, NEW l \in Limit!LimitIds, limitPc[t] = "idle",
                         call[t] \notin failed, NEW e \in store[l], e[1] = call[t]
                  PROVE  e \in admitted[l]
      BY DEF Limit!RefusedTakesNothing
    <2>1. e[1] # 0
      BY <1>0 DEF Limit!LimitTypeOK, Limit!Entries, Limit!CallIds
    <2>2. \A u \in Threads : call[u] = e[1] => u = t
      BY <1>0, <2>1 DEF CallsApart
    <2>3. taken[t] = {}
      BY <1>0 DEF CallsApart
    <2>4. ~Adding(l, e)
      BY <2>2 DEF Adding, Taking
    <2>5. Settled(l, e)
      BY <1>0, <2>4 DEF AccountedFor
    <2>. QED
      BY <2>2, <2>3, <2>5 DEF Settled
  <1>. QED
    BY <1>1, <1>2, <1>3 DEF Limit!CountedAsDecided

-----------------------------------------------------------------------------
LEMMA LimitKeepsInv == Spec => []LimitInv
  <1>0. Limit!LimitAssumption
    BY DataAssumption
  <1>1. Init => LimitInv
    BY <1>0, LimitInitInv DEF Init
  <1>2. LimitInv /\ [Next]_vars => LimitInv'
    <2>1. [Next]_vars => [Limit!Next]_limitVars
      BY DEF Next, vars
    <2>. QED
      BY <1>0, <2>1, LimitNextInv
  <1>. QED
    BY <1>1, <1>2, PTL DEF Spec

\* However many goroutines take from however many limits at once, whatever cleanups, times to
\* live, cancels and failing commands do between the commands of a Take: no window of a limit
\* whose period is longer than a minute and a stall admits more than its quota and one for each
\* other goroutine, a call that was admitted counts for a whole period, and one that was refused
\* counts in none of the limits.
THEOREM QuotaStaysKept == Spec => []QuotaIsKept
  <1>1. LimitInv => QuotaIsKept
    BY DataAssumption, LimitInvImplies DEF QuotaIsKept
  <1>. QED
    BY <1>1, LimitKeepsInv, PTL
=============================================================================
