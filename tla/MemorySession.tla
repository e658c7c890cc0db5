--------------------------- MODULE MemorySession ---------------------------
(***************************************************************************)
(* Sessions in memory, with a cookie and a time to live: login, requests,  *)
(* refresh and logout of authn.  Get returns the stored object itself, so  *)
(* the calls of several requests change one object, step by step.          *)
(***************************************************************************)
EXTENDS Naturals

CONSTANTS
    Requests,    \* HTTP requests in progress at a time
    Lifetime,    \* expireDuration
    MaxSessions, \* bound: logins
    MaxIds,      \* bound: session ids made
    MaxTime      \* bound: the clock

SessionAssumption ==
    Lifetime \in Nat /\ MaxSessions \in Nat /\ MaxIds \in Nat /\ MaxTime \in Nat

VARIABLES
    clock,
    storage,  \* memorySessionManager.storage: the session under each id, or 0
    id,       \* Session.ID of each session, 0 when it is empty
    expire,   \* its Metadata["expire"], or 0
    logins,   \* how many sessions there are
    ids,      \* how many ids were made
    pc,       \* where each request is
    session,  \* the session it works on
    cookie,   \* the id it came with
    retired,  \* history: ids whose session was refreshed or logged out
    raced     \* history: sessions of which a refresh or logout began during another one

sessions == <<storage, id, expire, logins, ids>>
history  == <<retired, raced>>
vars     == <<clock, sessions, pc, session, cookie, history>>

Sessions == 1..MaxSessions
Ids      == 1..MaxIds
Changing == {"delete", "clear", "save", "respond", "logout"}
-----------------------------------------------------------------------------
Init ==
    /\ clock = 0
    /\ storage = [i \in Ids |-> 0]
    /\ id = [s \in Sessions |-> 0] /\ expire = [s \in Sessions |-> 0]
    /\ logins = 0 /\ ids = 0
    /\ pc = [r \in Requests |-> "idle"]
    /\ session = [r \in Requests |-> 0] /\ cookie = [r \in Requests |-> 0]
    /\ retired = {} /\ raced = {}

Tick ==
    /\ clock < MaxTime /\ clock' = clock + 1
    /\ UNCHANGED <<sessions, pc, session, cookie, history>>

\* Save: an empty ID becomes a new random one; the session is stored under its ID.
Save(s) ==
    IF id[s] # 0
    THEN storage' = [storage EXCEPT ![id[s]] = s] /\ UNCHANGED <<id, ids>>
    ELSE /\ ids < MaxIds /\ ids' = ids + 1
         /\ id' = [id EXCEPT ![s] = ids + 1]
         /\ storage' = [storage EXCEPT ![ids + 1] = s]

\* LoginBy: a new session, which nobody else sees yet, is saved with a time to live.
Login(r) ==
    /\ pc[r] = "idle" /\ logins < MaxSessions
    /\ logins' = logins + 1
    /\ expire' = [expire EXCEPT ![logins + 1] = clock + Lifetime]
    /\ Save(logins + 1)
    /\ UNCHANGED <<clock, pc, session, cookie, retired, raced>>

\* Get of the expiring manager.
Valid(i) == storage[i] # 0 /\ clock <= expire[storage[i]]

\* GetFromRequest, with the id of the request's cookie, which may be an old one.
Get(r, i, to) ==
    /\ pc[r] = "idle" /\ i <= ids
    /\ Valid(i)
    /\ pc' = [pc EXCEPT ![r] = to]
    /\ session' = [session EXCEPT ![r] = storage[i]]
    /\ cookie' = [cookie EXCEPT ![r] = i]
    /\ raced' = IF to \in Changing /\ \E q \in Requests : pc[q] \in Changing
                                                        /\ session[q] = storage[i]
                THEN raced \cup {storage[i]} ELSE raced

\* The middleware lets a request through to its handler.
Request(r) ==
    /\ \E i \in Ids : Get(r, i, "served")
    /\ UNCHANGED <<clock, sessions, retired>>

Logout(r) ==
    /\ \E i \in Ids : Get(r, i, "logout")
    /\ UNCHANGED <<clock, sessions, retired>>

\* RefreshSession: the time to live begins anew first.
Refresh(r) ==
    /\ \E i \in Ids :
          Get(r, i, "delete") /\ expire' = [expire EXCEPT ![storage[i]] = clock + Lifetime]
    /\ UNCHANGED <<clock, storage, id, logins, ids, retired>>

\* Mutant: a refresh leaves the old id.
RemovedNothing(s) == storage

\* Delete of the id that the session has now.
Removed(s) == IF id[s] = 0 THEN storage ELSE [storage EXCEPT ![id[s]] = 0]

LogoutDelete(r) ==
    /\ pc[r] = "logout"
    /\ storage' = Removed(session[r])
    /\ retired' = retired \cup {cookie[r]}
    /\ pc' = [pc EXCEPT ![r] = "idle"]
    /\ UNCHANGED <<clock, id, expire, logins, ids, session, cookie, raced>>

RefreshDelete(r) ==
    /\ pc[r] = "delete"
    /\ storage' = Removed(session[r])
    /\ pc' = [pc EXCEPT ![r] = "clear"]
    /\ UNCHANGED <<clock, id, expire, logins, ids, session, cookie, history>>

RefreshClear(r) ==
    /\ pc[r] = "clear"
    /\ id' = [id EXCEPT ![session[r]] = 0]
    /\ pc' = [pc EXCEPT ![r] = "save"]
    /\ UNCHANGED <<clock, storage, expire, logins, ids, session, cookie, history>>

RefreshSave(r) ==
    /\ pc[r] = "save"
    /\ Save(session[r])
    /\ pc' = [pc EXCEPT ![r] = "respond"]
    /\ UNCHANGED <<clock, expire, logins, session, cookie, history>>

\* SaveToResponse saves once more, and sets the cookie.  Save gives a time to live to a
\* session that has none, and does not begin it anew (expire.go:20 says that it does).
SaveToResponse(r) ==
    /\ pc[r] = "respond"
    /\ Save(session[r])
    /\ retired' = retired \cup {cookie[r]}
    /\ pc' = [pc EXCEPT ![r] = "idle"]
    /\ UNCHANGED <<clock, expire, logins, session, cookie, raced>>

\* The handler of a request that was let through returns.
Respond(r) ==
    /\ pc[r] = "served"
    /\ pc' = [pc EXCEPT ![r] = "idle"]
    /\ UNCHANGED <<clock, sessions, session, cookie, history>>

RequestStep(r) ==
    \/ Login(r) \/ Request(r) \/ Logout(r) \/ Refresh(r) \/ LogoutDelete(r)
    \/ RefreshDelete(r) \/ RefreshClear(r) \/ RefreshSave(r) \/ SaveToResponse(r) \/ Respond(r)

Next == Tick \/ \E r \in Requests : RequestStep(r)

Spec == Init /\ [][Next]_vars
-----------------------------------------------------------------------------
\* Every variable holds a value of its type.
SessionTypeOK ==
    /\ clock \in 0..MaxTime /\ storage \in [Ids -> 0..MaxSessions]
    /\ id \in [Sessions -> 0..MaxIds] /\ expire \in [Sessions -> Nat]
    /\ logins \in 0..MaxSessions /\ ids \in 0..MaxIds
    /\ pc \in [Requests -> Changing \cup {"idle", "served"}]
    /\ session \in [Requests -> 0..MaxSessions] /\ cookie \in [Requests -> 0..MaxIds]
    /\ retired \subseteq Ids /\ raced \subseteq Sessions

\* A session that was refreshed and logged out by one request at a time is found under one
\* id at most, and not under one that a refresh replaced or a logout ended.  Where two of
\* them race for the one object an old id may live on, but the id that a request came with
\* still leads to the session it found, or nowhere: never to somebody else's (Get, Save,
\* Delete and Refresh of memory.go, RefreshSession and Logout).
RetiredIdIsDead ==
    \A i \in Ids : storage[i] # 0 =>
        /\ storage[i] \notin raced =>
              i \notin retired /\ \A j \in Ids : storage[j] = storage[i] => j = i
        /\ \A r \in Requests : pc[r] \in Changing /\ cookie[r] = i => session[r] = storage[i]
=============================================================================
