-------------------------- MODULE RefreshSession --------------------------
(***************************************************************************)
(* Sessions with two tokens: login, refresh and logout of one user agent   *)
(* whose requests are served concurrently.  The access sessions, the       *)
(* refresh sessions and the access-token mapping are three stores; every   *)
(* call of one of them is a step of its own, between which other requests, *)
(* expiry and failures come.                                               *)
(*                                                                         *)
(* A token is a number drawn in order (the code draws 32 random            *)
(* characters).  Of a refresh session only the access token it names       *)
(* matters.  A call that the store carried out but that the server saw     *)
(* fail, and a server that dies after a call, end the request like a       *)
(* failure of the next call, so only failures without effect are steps.    *)
(***************************************************************************)
EXTENDS Integers

CONSTANTS
    Threads,      \* goroutines that serve the user agent's requests
    NoId,         \* no token
    Expiring,     \* bound: whether what is stored may expire during the run
    MaxId,        \* bound: tokens drawn
    MaxRequests,  \* bound: requests
    MaxFaults     \* bound: failed calls of a store, lost replies, dead servers

ASSUME SessionAssumption ==
    /\ Expiring \in BOOLEAN
    /\ MaxId \in Nat
    /\ MaxRequests \in Nat
    /\ MaxFaults \in Nat
    /\ NoId \notin Nat

VARIABLES
    mapped,     \* RefreshHTTPSessionManagerOptions.AccessTokenMapping is set
    access,     \* the store of access sessions
    refresh,    \* the store of refresh sessions: the access token each one names
    mapping,    \* the access-token mapping
    lastId,     \* the last token drawn
    held,       \* the pair of tokens the user agent has
    pc,         \* where each goroutine is
    op, cookie, form,  \* the request it serves: its kind and the tokens it came with
    sess,       \* the id of its session
    old,        \* the id that session had before Refresh
    rid,        \* the id of its refresh session
    delivered,  \* history: pairs that were sent to the user agent
    spent,      \* history: pairs that a successful refresh or logout ended
    login,      \* history: the last token drawn before the latest login
    loggedOut,  \* history: a logout has succeeded since the latest login
    crowded,    \* history: two requests were served at once
    requests, faults  \* bound counters

request == <<op, cookie, form>>
session == <<sess, old, rid>>
stores  == <<access, refresh, mapping>>
history == <<delivered, spent, login, loggedOut, crowded>>
bounds  == <<requests, faults>>
vars    == <<mapped, stores, lastId, held, pc, request, session, history, bounds>>

Ids    == 1..MaxId
Token  == Ids \cup {NoId}
NoPair == <<NoId, NoId>>
Ops    == {"login", "refresh", "renew", "logout"}

\* Where a goroutine can be: the next call it makes, or "reply".
Calls == {"find", "findRefresh", "dropFirst", "makeFirst", "check", "drop", "make",
          "dropRefresh", "makeRefresh", "unlink", "link", "confirm", "lookup"}
Labels == Calls \cup {"idle", "reply"}

---------------------------------------------------------------------------
(* "refresh" is SaveToResponse on the session of the request; "renew" is    *)
(* Authn.RefreshSession, which refreshes the access session before it       *)
(* calls SaveToResponse.                                                    *)

Goto(t, label) == pc' = [pc EXCEPT ![t] = label]

\* What the goroutine serves: the request, without a session yet.
Serving(t, o, a, f) ==
    /\ op' = [op EXCEPT ![t] = o]
    /\ cookie' = [cookie EXCEPT ![t] = a]
    /\ form' = [form EXCEPT ![t] = f]
    /\ sess' = [sess EXCEPT ![t] = NoId]
    /\ old' = [old EXCEPT ![t] = NoId]
    /\ rid' = [rid EXCEPT ![t] = NoId]

Finish(t) == Goto(t, "idle") /\ Serving(t, "login", NoId, NoId)
Refuse(t) == Finish(t) /\ UNCHANGED <<mapped, stores, lastId, held, history, bounds>>

---------------------------------------------------------------------------
Init ==
    /\ mapped \in BOOLEAN
    /\ access = {} /\ refresh = [r \in Ids |-> NoId] /\ mapping = [a \in Ids |-> NoId]
    /\ lastId = 0 /\ held = NoPair
    /\ pc = [t \in Threads |-> "idle"]
    /\ op = [t \in Threads |-> "login"]
    /\ cookie = [t \in Threads |-> NoId] /\ form = [t \in Threads |-> NoId]
    /\ sess = [t \in Threads |-> NoId] /\ old = [t \in Threads |-> NoId]
    /\ rid = [t \in Threads |-> NoId]
    /\ delivered = {} /\ spent = {} /\ login = 0 /\ loggedOut = FALSE /\ crowded = FALSE
    /\ requests = 0 /\ faults = 0

Begin(t, label) ==
    /\ pc[t] = "idle" /\ requests < MaxRequests
    /\ requests' = requests + 1
    /\ Goto(t, label)
    /\ crowded' = (crowded \/ \E u \in Threads : pc[u] # "idle")
    /\ UNCHANGED <<mapped, stores, lastId, held, delivered, spent, faults>>

\* LoginBy: a new session without an id goes to SaveToResponse.
Login(t) ==
    /\ Begin(t, "make") /\ Serving(t, "login", NoId, NoId)
    /\ login' = lastId /\ loggedOut' = FALSE

\* A request with the cookie and, perhaps, the refresh token in its form.
Request(t) ==
    /\ held # NoPair
    /\ Begin(t, "find")
    /\ \E o \in Ops \ {"login"}, f \in {held[2], NoId} : Serving(t, o, held[1], f)
    /\ UNCHANGED <<login, loggedOut>>

\* Mutant: the session made from a refresh session does not get the cookie's id.
SessionIdNone(t) == IF pc[t] = "find" THEN cookie[t] ELSE NoId

\* session.ID = id, also for the session made from a refresh session.
SessionId(t) == cookie[t]

\* What the caller of GetFromRequest does with the session.
WithSession(t) ==
    IF op[t] = "refresh" THEN "check" ELSE IF op[t] = "renew" THEN "dropFirst" ELSE "confirm"

Found(t) ==
    /\ Goto(t, WithSession(t))
    /\ sess' = [sess EXCEPT ![t] = SessionId(t)]
    /\ UNCHANGED <<mapped, stores, lastId, held, request, old, rid, history, bounds>>

\* GetFromRequest: the access session, or else the refresh session of the form.
Find(t) ==
    /\ pc[t] = "find"
    /\ \/ cookie[t] \in access /\ Found(t)
       \/ /\ cookie[t] \notin access /\ form[t] # NoId
          /\ Goto(t, "findRefresh")
          /\ UNCHANGED <<mapped, stores, lastId, held, request, session, history, bounds>>
       \/ cookie[t] \notin access /\ form[t] = NoId /\ Refuse(t)

\* GetFromRequest turns to the refresh token after any error of Get.
FindFails(t) ==
    /\ pc[t] = "find" /\ form[t] # NoId
    /\ faults < MaxFaults /\ faults' = faults + 1
    /\ Goto(t, "findRefresh")
    /\ UNCHANGED <<mapped, stores, lastId, held, request, session, history, requests>>

FindRefresh(t) ==
    /\ pc[t] = "findRefresh"
    /\ IF refresh[form[t]] = cookie[t] THEN Found(t) ELSE Refuse(t)

---------------------------------------------------------------------------
(* SaveToResponse and Delete, one call of a store at a time                *)

\* The refresh token must be given and its session must exist.
Check(t) ==
    /\ pc[t] = "check"
    /\ IF form[t] # NoId /\ refresh[form[t]] # NoId
       THEN /\ Goto(t, "drop")
            /\ rid' = [rid EXCEPT ![t] = form[t]]
            /\ UNCHANGED <<mapped, stores, lastId, held, request, sess, old, history, bounds>>
       ELSE Refuse(t)

\* Delete of an access session, alone or in Refresh.
DropAccess(t) ==
    /\ pc[t] \in {"dropFirst", "drop"}
    /\ access' = access \ {sess[t]}
    /\ Goto(t, IF pc[t] = "dropFirst" THEN "makeFirst"
               ELSE IF op[t] = "logout" THEN "reply" ELSE "make")
    /\ UNCHANGED <<mapped, refresh, mapping, lastId, held, request, session, history, bounds>>

\* Mutant: Refresh saves the session under the id it has.
NewIdKept(id) == IF id = NoId THEN lastId + 1 ELSE id

\* Save draws an id; Refresh has cleared the one the session had.
NewId(id) == lastId + 1

MakeAccess(t) ==
    /\ pc[t] \in {"makeFirst", "make"} /\ lastId < MaxId
    /\ access' = access \cup {NewId(sess[t])}
    /\ sess' = [sess EXCEPT ![t] = NewId(sess[t])]
    /\ old' = [old EXCEPT ![t] = sess[t]]
    /\ lastId' = lastId + 1
    /\ Goto(t, IF pc[t] = "makeFirst" THEN "check"
               ELSE IF op[t] = "login" THEN "makeRefresh" ELSE "dropRefresh")
    /\ UNCHANGED <<mapped, refresh, mapping, held, request, rid, history, bounds>>

DropRefresh(t) ==
    /\ pc[t] = "dropRefresh"
    /\ refresh' = [refresh EXCEPT ![rid[t]] = NoId]
    /\ Goto(t, IF op[t] = "logout" THEN "unlink" ELSE "makeRefresh")
    /\ UNCHANGED <<mapped, access, mapping, lastId, held, request, session, history, bounds>>

\* Mutant: the refresh session names the access token that the request came with.
NamedAccessOld(t) == IF op[t] = "login" THEN sess[t] ELSE old[t]

\* refreshSession.Values["access_token"]
NamedAccess(t) == sess[t]

MakeRefresh(t) ==
    /\ pc[t] = "makeRefresh" /\ lastId < MaxId
    /\ refresh' = [refresh EXCEPT ![NewId(rid[t])] = NamedAccess(t)]
    /\ rid' = [rid EXCEPT ![t] = NewId(rid[t])]
    /\ lastId' = lastId + 1
    /\ Goto(t, IF ~mapped THEN "reply" ELSE IF op[t] = "login" THEN "link" ELSE "unlink")
    /\ UNCHANGED <<mapped, access, mapping, held, request, sess, old, history, bounds>>

\* SaveToResponse unlinks the id it started with, Delete the id it deletes.
UnlinkedId(t) == IF op[t] = "logout" THEN sess[t] ELSE old[t]

Unlink(t) ==
    /\ pc[t] = "unlink"
    /\ mapping' = [mapping EXCEPT ![UnlinkedId(t)] = NoId]
    /\ Goto(t, IF op[t] = "logout" THEN "drop" ELSE "link")
    /\ UNCHANGED <<mapped, access, refresh, lastId, held, request, session, history, bounds>>

Link(t) ==
    /\ pc[t] = "link"
    /\ mapping' = [mapping EXCEPT ![sess[t]] = rid[t]]
    /\ Goto(t, "reply")
    /\ UNCHANGED <<mapped, access, refresh, lastId, held, request, session, history, bounds>>

\* Mutant: Delete leaves the mapping and the refresh session alone.
AfterConfirmDrop == "drop"

AfterConfirm == IF mapped THEN "lookup" ELSE "drop"

\* Delete begins with a Get of the access session ...
Confirm(t) ==
    /\ pc[t] = "confirm"
    /\ IF sess[t] \in access
       THEN /\ Goto(t, AfterConfirm)
            /\ UNCHANGED <<mapped, stores, lastId, held, request, session, history, bounds>>
       ELSE Refuse(t)

\* ... and the mapping must have the refresh token.
Lookup(t) ==
    /\ pc[t] = "lookup"
    /\ IF mapping[sess[t]] # NoId
       THEN /\ Goto(t, "dropRefresh")
            /\ rid' = [rid EXCEPT ![t] = mapping[sess[t]]]
            /\ UNCHANGED <<mapped, stores, lastId, held, request, sess, old, history, bounds>>
       ELSE Refuse(t)

\* ResponseFunc, or the end of Logout.  The user agent keeps its tokens after a logout.
Reply(t) ==
    /\ pc[t] = "reply"
    /\ IF op[t] = "logout"
       THEN /\ spent' = spent \cup {<<sess[t], rid[t]>>}
            /\ loggedOut' = TRUE
            /\ UNCHANGED <<held, delivered>>
       ELSE /\ held' = <<sess[t], rid[t]>>
            /\ delivered' = delivered \cup {held'}
            /\ spent' = IF op[t] = "login" THEN spent
                        ELSE spent \cup {<<cookie[t], form[t]>>}
            /\ UNCHANGED loggedOut
    /\ Finish(t)
    /\ UNCHANGED <<mapped, stores, lastId, login, crowded, bounds>>

\* A call fails, its context is cancelled, the reply is lost or the server dies.
Fail(t) ==
    /\ pc[t] # "idle" /\ faults < MaxFaults
    /\ faults' = faults + 1
    /\ Finish(t)
    /\ UNCHANGED <<mapped, stores, lastId, held, history, requests>>

---------------------------------------------------------------------------
(* The time to live of what is stored.  An entry of the mapping is set     *)
(* after its refresh session and with the same duration.                   *)

ExpireAccess(a) ==
    /\ a \in access
    /\ access' = access \ {a}
    /\ UNCHANGED <<mapped, refresh, mapping, lastId, held, pc, request, session, history, bounds>>

ExpireRefresh(r) ==
    /\ refresh[r] # NoId
    /\ refresh' = [refresh EXCEPT ![r] = NoId]
    /\ UNCHANGED <<mapped, access, mapping, lastId, held, pc, request, session, history, bounds>>

ExpireLink(a) ==
    /\ mapping[a] # NoId /\ refresh[mapping[a]] = NoId
    /\ mapping' = [mapping EXCEPT ![a] = NoId]
    /\ UNCHANGED <<mapped, access, refresh, lastId, held, pc, request, session, history, bounds>>

Save(t)   == Check(t) \/ DropAccess(t) \/ MakeAccess(t) \/ DropRefresh(t) \/ MakeRefresh(t)
                \/ Unlink(t) \/ Link(t)
Serve(t)  == Find(t) \/ FindFails(t) \/ FindRefresh(t) \/ Save(t)
                \/ Confirm(t) \/ Lookup(t) \/ Reply(t) \/ Fail(t)
Expire(i) == ExpireAccess(i) \/ ExpireRefresh(i) \/ ExpireLink(i)

Next ==
    \/ \E t \in Threads : Login(t) \/ Request(t) \/ Serve(t)
    \/ Expiring /\ \E i \in Ids : Expire(i)

Spec == Init /\ [][Next]_vars

---------------------------------------------------------------------------
(* Properties                                                              *)

\* Types; a request past GetFromRequest has a session with an id.
TypeOK ==
    /\ mapped \in BOOLEAN /\ loggedOut \in BOOLEAN /\ crowded \in BOOLEAN
    /\ access \subseteq Ids
    /\ refresh \in [Ids -> Token] /\ mapping \in [Ids -> Token]
    /\ lastId \in 0..MaxId /\ login \in 0..MaxId
    /\ held \in Token \X Token
    /\ pc \in [Threads -> Labels] /\ op \in [Threads -> Ops]
    /\ cookie \in [Threads -> Token] /\ form \in [Threads -> Token]
    /\ sess \in [Threads -> Token] /\ old \in [Threads -> Token] /\ rid \in [Threads -> Token]
    /\ delivered \subseteq Ids \X Ids /\ spent \subseteq Ids \X Token
    /\ requests \in 0..MaxRequests /\ faults \in 0..MaxFaults
    /\ \A t \in Threads : (pc[t] \notin {"idle", "find", "findRefresh"} /\ op[t] # "login")
                          => sess[t] # NoId

\* As long as a refresh token works, its session names the access token it was sent with,
\* so the check in GetFromRequest lets an expired access token be refreshed, and the
\* mapping leads from the one to the other, so a logout finds it: whatever refreshes and
\* logouts run at once and wherever one of them stops half-way.
LivingPairIsLinked ==
    \A p \in delivered :
        refresh[p[2]] # NoId => /\ refresh[p[2]] = p[1]
                                /\ mapped => mapping[p[1]] = p[2]

\* Once a refresh or a logout has succeeded, neither token it was made with works again,
\* although other requests with the same tokens are under way.
SpentStaysDead ==
    \A p \in spent : p[1] \notin access /\ (p[2] # NoId => refresh[p[2]] = NoId)

\* After a logout no token that the user agent was sent since its login works, if its
\* requests came one at a time: each refresh has ended the pair it replaced, whichever of
\* them failed and was sent again, and Delete has ended the last one.
LogoutEndsLogin ==
    (mapped /\ loggedOut /\ ~crowded) =>
        \A p \in delivered : p[1] > login => p[1] \notin access /\ refresh[p[2]] = NoId

\* "If there is a refresh token, do one refresh" (SaveToResponse): a refresh that is
\* refused for want of a refresh token has left the access session of its cookie alone.
RefusedRefreshKeepsSession ==
    \A t \in Threads : (pc[t] = "check" /\ form[t] = NoId) => sess[t] = cookie[t]
=============================================================================
