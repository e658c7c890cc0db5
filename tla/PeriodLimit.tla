---------------------------- MODULE PeriodLimit ----------------------------
(***************************************************************************)
(* CombinationLimit.FuncTake over several PeriodLimits: sliding windows in *)
(* Redis sorted sets, whose members are the calls and whose scores are     *)
(* seconds.  Counting and adding are separate commands; a cleanup that one *)
(* call starts runs beside the others.                                     *)
(***************************************************************************)
EXTENDS Integers, FiniteSets

CONSTANTS
    Threads,     \* goroutines that call FuncTake with one key
    Limits,      \* the limits are 1..Limits
    Period,      \* PeriodLimit.period of each limit, in seconds
    Quota,       \* PeriodLimit.quota of each limit
    Slack,       \* the 60 seconds of Take
    CleanEvery,  \* the 500 members of Take
    MaxTime,     \* bound: the clock
    MaxCalls,    \* bound: calls of FuncTake
    MaxStall,    \* bound: seconds from the reading of the clock to the end of a Take,
                 \* fewer than the 60
    MaxFaults    \* bound: commands that fail

LimitAssumption ==
    /\ IsFiniteSet(Threads) /\ Threads # {} /\ Limits \in Nat \ {0}
    /\ Slack \in Nat \ {0} /\ CleanEvery \in Nat \ {0}
    /\ Period \in [1..Limits -> Nat] /\ Quota \in [1..Limits -> Nat]
    /\ MaxTime \in Nat /\ MaxCalls \in Nat /\ MaxFaults \in Nat
    /\ MaxStall \in Nat /\ MaxStall < Slack

VARIABLES
    clock,      \* seconds
    store,      \* Redis: the members of each sorted set with their scores
    ttl,        \* Redis: when each sorted set expires, or Never
    cleanups,   \* the cleanups that run: <<limit, highest score they remove>>
    pc,         \* where each thread is
    call,       \* the call it makes: how many were made before and this one
    limit,      \* the limit it is at
    now,        \* the second its Take began in
    count,      \* what ZCOUNT returned to it
    taken,      \* the limits whose cancel functions it has, with the scores added
    admitted,   \* history: the calls whose function succeeded, with their scores
    failed,     \* history: the calls in which a command failed
    slipped,    \* history: the calls whose set expired between their ZADD and EXPIRE
    faults      \* bound counter

redis   == <<store, ttl>>
locals  == <<pc, call, limit, now, count, taken>>
history == <<admitted, failed, slipped>>
vars    == <<clock, redis, cleanups, locals, history, faults>>

Never   == -1
LimitIds == 1..Limits
CallIds == 1..MaxCalls
Calls   == Cardinality(UNION {{i \in CallIds : i <= call[t]} : t \in Threads})
-----------------------------------------------------------------------------
Init ==
    /\ clock = 0
    /\ store = [l \in LimitIds |-> {}] /\ ttl = [l \in LimitIds |-> Never]
    /\ cleanups = {}
    /\ pc = [t \in Threads |-> "idle"]
    /\ call = [t \in Threads |-> 0]
    /\ limit = [t \in Threads |-> 1]
    /\ now = [t \in Threads |-> 0] /\ count = [t \in Threads |-> 0]
    /\ taken = [t \in Threads |-> {}]
    /\ admitted = [l \in LimitIds |-> {}] /\ failed = {} /\ slipped = {} /\ faults = 0

\* The clock goes on; a sorted set whose time to live has run out is gone.
Tick ==
    /\ clock < MaxTime /\ clock' = clock + 1
    /\ \A t \in Threads : pc[t] \in {"count", "card", "add", "expire"} =>
          clock - now[t] < MaxStall
    /\ store' = [l \in LimitIds |-> IF ttl[l] = clock + 1 THEN {} ELSE store[l]]
    /\ ttl' = [l \in LimitIds |-> IF ttl[l] = clock + 1 THEN Never ELSE ttl[l]]
    /\ slipped' = slipped \cup
          {call[t] : t \in {t \in Threads : pc[t] = "expire" /\ ttl[limit[t]] = clock + 1}}
    /\ UNCHANGED <<cleanups, locals, admitted, failed, faults>>

\* FuncTake: the first limit's Take reads the clock.
FuncTake(t) ==
    /\ pc[t] = "idle" /\ Calls < MaxCalls
    /\ pc' = [pc EXCEPT ![t] = "count"]
    /\ call' = [call EXCEPT ![t] = Calls + 1]
    /\ limit' = [limit EXCEPT ![t] = 1]
    /\ now' = [now EXCEPT ![t] = clock]
    /\ UNCHANGED <<clock, redis, cleanups, count, taken, history, faults>>

\* ZCOUNT from a second to +inf.
Window(l, from) == {e \in store[l] : e[2] >= from}

Count(t) ==
    /\ pc[t] = "count"
    /\ count' = [count EXCEPT ![t] =
          Cardinality(Window(limit[t], now[t] - Period[limit[t]]))]
    /\ pc' = [pc EXCEPT ![t] = "card"]
    /\ UNCHANGED <<clock, redis, cleanups, call, limit, now, taken, history, faults>>

CleanupBound(t) == now[t] - 2 * Period[limit[t]] + Slack

\* The call's last Take ends: its local variables are gone.
TakeEnds(t, to) ==
    /\ pc' = [pc EXCEPT ![t] = to]
    /\ limit' = [limit EXCEPT ![t] = 1]
    /\ now' = [now EXCEPT ![t] = 0] /\ count' = [count EXCEPT ![t] = 0]

\* ZCARD starts a cleanup at a multiple of CleanEvery; then the count decides.
Card(t) ==
    /\ pc[t] = "card"
    /\ LET total == Cardinality(store[limit[t]])
       IN cleanups' = IF total > CleanEvery /\ total % CleanEvery = 0
                      THEN cleanups \cup {<<limit[t], CleanupBound(t)>>} ELSE cleanups
    /\ IF count[t] < Quota[limit[t]]
       THEN /\ pc' = [pc EXCEPT ![t] = "add"] /\ count' = [count EXCEPT ![t] = 0]
            /\ UNCHANGED <<limit, now>>
       ELSE TakeEnds(t, "cancel")
    /\ UNCHANGED <<clock, redis, call, taken, history, faults>>

\* A sorted set is what is left of it; an empty one is gone with its time to live.
Leave(l, members) ==
    /\ store' = [store EXCEPT ![l] = members]
    /\ ttl' = [ttl EXCEPT ![l] = IF members = {} THEN Never ELSE @]

Cleanup ==
    \E c \in cleanups :
        /\ Leave(c[1], {e \in store[c[1]] : e[2] > c[2]})
        /\ cleanups' = cleanups \ {c}
        /\ UNCHANGED <<clock, locals, history, faults>>

Added(t) == [store EXCEPT ![limit[t]] = @ \cup {<<call[t], now[t]>>}]

ZAdd(t) ==
    /\ pc[t] = "add"
    /\ store' = Added(t)
    /\ pc' = [pc EXCEPT ![t] = "expire"]
    /\ UNCHANGED <<clock, ttl, cleanups, call, limit, now, count, taken, history, faults>>

\* EXPIRE of a sorted set that a cleanup emptied does nothing.
Expiring(t) ==
    [ttl EXCEPT ![limit[t]] = IF store[limit[t]] = {} THEN @ ELSE clock + Period[limit[t]] + Slack]

\* EXPIRE ends the Take; the next limit's begins, or the function runs.
Expire(t) ==
    /\ pc[t] = "expire"
    /\ ttl' = Expiring(t)
    /\ taken' = [taken EXCEPT ![t] = @ \cup {<<limit[t], now[t]>>}]
    /\ IF limit[t] < Limits
       THEN /\ limit' = [limit EXCEPT ![t] = @ + 1]
            /\ now' = [now EXCEPT ![t] = clock]
            /\ pc' = [pc EXCEPT ![t] = "count"] /\ UNCHANGED count
       ELSE TakeEnds(t, "work")
    /\ UNCHANGED <<clock, store, cleanups, call, history, faults>>

\* A command of Take fails, with or without an effect: Take returns no cancel function.
TakeFails(t) ==
    /\ pc[t] \in {"count", "card", "add", "expire"}
    /\ faults < MaxFaults /\ faults' = faults + 1
    /\ \/ pc[t] = "add" /\ store' = Added(t) /\ UNCHANGED ttl
       \/ pc[t] = "expire" /\ ttl' = Expiring(t) /\ UNCHANGED store
       \/ UNCHANGED redis
    /\ failed' = failed \cup {call[t]}
    /\ TakeEnds(t, "cancel")
    /\ UNCHANGED <<clock, cleanups, call, taken, admitted, slipped>>

\* The function returns; when it fails, what was taken is cancelled.
Work(t) ==
    /\ pc[t] = "work"
    /\ \/ /\ admitted' = [l \in LimitIds |-> admitted[l] \cup
                {<<call[t], k[2]>> : k \in {k \in taken[t] : k[1] = l}}]
          /\ taken' = [taken EXCEPT ![t] = {}]
          /\ pc' = [pc EXCEPT ![t] = "idle"]
       \/ /\ pc' = [pc EXCEPT ![t] = "cancel"]
          /\ UNCHANGED <<admitted, taken>>
    /\ UNCHANGED <<clock, redis, cleanups, call, limit, now, count, failed, slipped, faults>>

\* Mutant: what was taken is kept when a limit refuses.
CancelKeep(t) ==
    /\ pc[t] = "cancel"
    /\ pc' = [pc EXCEPT ![t] = "idle"]
    /\ taken' = [taken EXCEPT ![t] = {}]
    /\ UNCHANGED <<clock, redis, cleanups, call, limit, now, count, history, faults>>

\* cancels: ZREM in each of the limits taken; a failing one does not stop the others.
Cancel(t) ==
    /\ pc[t] = "cancel"
    /\ IF taken[t] = {}
       THEN pc' = [pc EXCEPT ![t] = "idle"] /\ UNCHANGED <<store, ttl, taken, failed, faults>>
       ELSE \E first \in taken[t] :
               /\ \A k \in taken[t] : first[1] <= k[1]
               /\ taken' = [taken EXCEPT ![t] = @ \ {first}]
               /\ \/ /\ Leave(first[1], {e \in store[first[1]] : e[1] # call[t]})
                     /\ UNCHANGED <<failed, faults>>
                  \/ /\ faults < MaxFaults /\ faults' = faults + 1
                     /\ failed' = failed \cup {call[t]}
                     /\ UNCHANGED redis
               /\ UNCHANGED pc
    /\ UNCHANGED <<clock, cleanups, call, limit, now, count, admitted, slipped>>

ThreadStep(t) ==
    \/ FuncTake(t) \/ Count(t) \/ Card(t) \/ ZAdd(t) \/ Expire(t)
    \/ TakeFails(t) \/ Work(t) \/ Cancel(t)

Next == Tick \/ Cleanup \/ \E t \in Threads : ThreadStep(t)

Spec == Init /\ [][Next]_vars
-----------------------------------------------------------------------------
Entries == CallIds \X (0..MaxTime)

\* Every variable holds a value of its type.
LimitTypeOK ==
    /\ clock \in 0..MaxTime
    /\ store \in [LimitIds -> SUBSET Entries] /\ ttl \in [LimitIds -> Int]
    /\ cleanups \subseteq LimitIds \X Int
    /\ pc \in [Threads -> {"idle", "count", "card", "add", "expire", "work", "cancel"}]
    /\ call \in [Threads -> 0..MaxCalls]
    /\ limit \in [Threads -> LimitIds] /\ now \in [Threads -> 0..MaxTime]
    /\ count \in [Threads -> Nat] /\ taken \in [Threads -> SUBSET (LimitIds \X (0..MaxTime))]
    /\ admitted \in [LimitIds -> SUBSET Entries]
    /\ failed \subseteq CallIds /\ slipped \subseteq CallIds /\ faults \in Nat

\* Counting and adding are not atomic: each other goroutine can exceed the quota of a
\* window by one, and no more, whatever cleanups, time to live and cancels do, if the
\* period is longer than that minute and a stall together: a cleanup of a later call could
\* otherwise take away what a stalled one has to count (Take).
WindowQuota ==
    \A l \in LimitIds : Period[l] > Slack + MaxStall => \A t \in 0..clock :
        Cardinality({e \in admitted[l] : e[1] \notin slipped /\ e[2] \in (t - Period[l])..t})
            <= Quota[l] + Cardinality(Threads) - 1

\* A call that was admitted counts for a whole period: neither the cleanup, whose bound
\* is two periods back plus a minute, nor the time to live of the set, which later calls
\* move, takes it out before, if the period is longer than that minute and the set does not expire in
\* the moment between the call's ZADD and its EXPIRE (Take).
AdmittedIsCounted ==
    \A l \in LimitIds : Period[l] > Slack =>
        \A e \in admitted[l] : clock - e[2] <= Period[l] /\ e[1] \notin slipped => e \in store[l]

\* A call that a limit refused, or whose function failed, counts in none of the limits,
\* unless a command failed (FuncTake and cancels of CombinationLimit).
RefusedTakesNothing ==
    \A t \in Threads : \A l \in LimitIds :
        pc[t] = "idle" /\ call[t] \notin failed =>
            \A e \in store[l] : e[1] = call[t] => e \in admitted[l]

\* So what the sorted sets hold is what was decided.
CountedAsDecided == AdmittedIsCounted /\ RefusedTakesNothing
=============================================================================
