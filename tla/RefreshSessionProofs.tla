------------------------ MODULE RefreshSessionProofs ------------------------
(***************************************************************************)
(* Proofs about RefreshSession, for any number of goroutines and requests: *)
(* types, and that a refresh token that works is linked with the access    *)
(* token it was sent with (LivingPairIsLinked), that the tokens of a       *)
(* finished refresh or logout never work again (SpentStaysDead), and that  *)
(* a logout ends the login it is part of (LogoutEndsLogin).                *)
(*                                                                         *)
(* The argument.  A token that a request has drawn is its own until its    *)
(* reply (Private): no other request writes under it.  What a request      *)
(* takes away is either its own or was sent to the user agent, in the one  *)
(* pair that its cookie is part of (PairsApart), and of that pair the      *)
(* refresh session is gone before the mapping is (RefreshStage,            *)
(* LogoutStage).  So the mapping of a pair that still works stays.         *)
(*                                                                         *)
(* While requests come one at a time, each comes with the tokens that the  *)
(* user agent holds now, and no others work: whatever call of a refresh    *)
(* fails, the pair before it was not sent again or was taken away.         *)
(***************************************************************************)
EXTENDS RefreshSession, TLAPS

Drawn      == 1..lastId
MaybeDrawn == Drawn \cup {NoId}

\* Whatever is stored or remembered has been drawn.
Bounded ==
    /\ access \subseteq Drawn
    /\ \A r \in Ids : refresh[r] # NoId => r \in Drawn
    /\ \A a \in Ids : mapping[a] \in MaybeDrawn
    /\ delivered \subseteq Drawn \X Drawn
    /\ spent \subseteq Drawn \X MaybeDrawn
    /\ \A t \in Threads : /\ sess[t] \in MaybeDrawn
                          /\ old[t] \in MaybeDrawn
                          /\ rid[t] \in MaybeDrawn

\* An access token is sent once.
PairsApart == \A p, q \in delivered : p[1] = q[1] => p = q

HeldDelivered == held # NoPair => held \in delivered

\* Requests come with the tokens of a pair that was sent.
CameWithPair ==
    \A t \in Threads : op[t] # "login" =>
        \E p \in delivered : cookie[t] = p[1] /\ form[t] \in {p[2], NoId}

Closing == {"makeRefresh", "unlink", "link", "reply"}

\* The calls of each kind of request.
OnItsWay ==
    \A t \in Threads :
        /\ op[t] = "login"   => pc[t] \in {"idle", "make", "makeRefresh", "link", "reply"}
        /\ op[t] = "refresh" => pc[t] \in {"find", "findRefresh", "check", "drop", "make",
                                               "dropRefresh"} \cup Closing
        /\ op[t] = "renew"   => pc[t] \in {"find", "findRefresh", "dropFirst", "makeFirst",
                                               "check", "drop", "make", "dropRefresh"} \cup Closing
        /\ op[t] = "logout"  => pc[t] \in {"find", "findRefresh", "confirm", "lookup",
                                               "dropRefresh", "unlink", "drop", "reply"}

\* The access tokens that a request has drawn.
Made(t) ==
    IF op[t] = "logout" THEN {}
    ELSE (IF pc[t] \in Closing \/ (pc[t] = "dropRefresh")
              \/ (op[t] = "renew" /\ pc[t] \in {"check", "drop", "make"})
          THEN {sess[t]} ELSE {})
         \cup (IF op[t] = "renew" /\ pc[t] \in Closing \cup {"dropRefresh"}
               THEN {old[t]} ELSE {})

\* They are no other request's, and have not been sent.
Private ==
    \A t \in Threads : \A i \in Made(t) :
        /\ i \in Drawn
        /\ \A p \in delivered : p[1] # i
        /\ \A u \in Threads \ {t} : i \notin Made(u)

\* A refresh takes the pair it came with away before it makes the new one.
RefreshStage(t) ==
    op[t] \in {"refresh", "renew"} =>
        /\ (pc[t] \in {"dropFirst", "makeFirst"}
              \/ (op[t] = "refresh" /\ pc[t] \in {"check", "drop", "make"}))
              => sess[t] = cookie[t]
        /\ (op[t] = "refresh" /\ pc[t] \in Closing \cup {"dropRefresh"})
              => old[t] = cookie[t]
        /\ (pc[t] \in Closing \cup {"make", "makeFirst", "dropRefresh"}
              \/ (op[t] = "renew" /\ pc[t] \in {"check", "drop"}))
              => cookie[t] \notin access
        /\ pc[t] \in {"drop", "make", "dropRefresh"}
              => form[t] # NoId /\ rid[t] = form[t]
        /\ pc[t] \in Closing => form[t] # NoId /\ refresh[form[t]] = NoId

\* The pair that a request has stored, before it is sent.
MadeStage(t) ==
    (op[t] # "logout" /\ pc[t] \in {"unlink", "link", "reply"}) =>
        /\ rid[t] \in Drawn
        /\ refresh[rid[t]] \in {sess[t], NoId}
        /\ (pc[t] = "reply" /\ mapped /\ refresh[rid[t]] # NoId)
              => mapping[sess[t]] = rid[t]

\* A logout takes the refresh session away before it takes the mapping away.
LogoutStage(t) ==
    op[t] = "logout" =>
        /\ pc[t] \notin {"find", "findRefresh"} => sess[t] = cookie[t]
        /\ pc[t] \in {"find", "findRefresh", "confirm", "lookup"} => rid[t] = NoId
        /\ pc[t] \in {"lookup", "dropRefresh", "unlink"} => mapped
        /\ pc[t] = "dropRefresh" =>
              /\ rid[t] # NoId
              /\ \A p \in delivered :
                    (p[1] = sess[t] /\ refresh[p[2]] # NoId) => rid[t] = p[2]
        /\ pc[t] = "unlink" => \A p \in delivered : p[1] = sess[t] => refresh[p[2]] = NoId
        /\ (pc[t] \in {"unlink", "drop", "reply"} /\ rid[t] # NoId)
              => refresh[rid[t]] = NoId
        /\ pc[t] = "reply" => sess[t] \notin access

Stages == \A t \in Threads : RefreshStage(t) /\ MadeStage(t) /\ LogoutStage(t)

Inv == /\ TypeOK /\ Bounded /\ PairsApart /\ HeldDelivered /\ CameWithPair /\ OnItsWay
       /\ Private /\ Stages /\ LivingPairIsLinked /\ SpentStaysDead

LEMMA InitInv == Init => Inv
  <1>. SUFFICES ASSUME Init
               PROVE  Inv
    OBVIOUS
  <1>. USE SessionAssumption DEF Init, Ids, Token, Ops
  <1>1. TypeOK
    <2>1. mapped \in BOOLEAN /\ loggedOut \in BOOLEAN /\ crowded \in BOOLEAN
      OBVIOUS
    <2>2. held \in Token \X Token
      BY DEF NoPair
    <2>. QED
      BY <2>1, <2>2 DEF TypeOK, Labels, Calls
  <1>2. Bounded
    BY DEF Bounded, Drawn, MaybeDrawn
  <1>3. PairsApart /\ HeldDelivered /\ CameWithPair /\ OnItsWay
    BY DEF PairsApart, HeldDelivered, CameWithPair, OnItsWay
  <1>4. Private
    BY DEF Private, Made, Closing
  <1>5. Stages
    BY DEF Stages, RefreshStage, MadeStage, LogoutStage
  <1>6. LivingPairIsLinked /\ SpentStaysDead
    BY DEF LivingPairIsLinked, SpentStaysDead
  <1>. QED
    BY <1>1, <1>2, <1>3, <1>4, <1>5, <1>6 DEF Inv

-----------------------------------------------------------------------------
(* The kinds of steps: a request that ends without an answer, and the calls *)
(* that find what they look for.                                            *)

Ends(t) == /\ Finish(t)
           /\ UNCHANGED <<mapped, stores, lastId, held, history, requests>>
           /\ faults' \in 0..MaxFaults

Turns(t) == /\ pc[t] = "find" /\ form[t] # NoId
            /\ Goto(t, "findRefresh")
            /\ UNCHANGED <<mapped, stores, lastId, held, request, session, history, requests>>
            /\ faults' \in 0..MaxFaults

Finds(t) == /\ pc[t] \in {"find", "findRefresh"} /\ Found(t)
            /\ cookie[t] \in access \/ (pc[t] = "findRefresh" /\ refresh[form[t]] = cookie[t])

Checks(t) == /\ pc[t] = "check" /\ form[t] # NoId
             /\ Goto(t, "drop")
             /\ rid' = [rid EXCEPT ![t] = form[t]]
             /\ UNCHANGED <<mapped, stores, lastId, held, request, sess, old, history, bounds>>

Confirms(t) == /\ pc[t] = "confirm"
               /\ Goto(t, AfterConfirm)
               /\ UNCHANGED <<mapped, stores, lastId, held, request, session, history, bounds>>

Looks(t) == /\ pc[t] = "lookup" /\ mapping[sess[t]] # NoId
            /\ Goto(t, "dropRefresh")
            /\ rid' = [rid EXCEPT ![t] = mapping[sess[t]]]
            /\ UNCHANGED <<mapped, stores, lastId, held, request, sess, old, history, bounds>>

LEMMA Steps ==
    ASSUME TypeOK, Next
    PROVE  \/ \E t \in Threads :
                \/ Login(t) \/ Request(t) \/ Ends(t) \/ Turns(t) \/ Finds(t) \/ Checks(t)
                \/ DropAccess(t) \/ MakeAccess(t) \/ DropRefresh(t) \/ MakeRefresh(t)
                \/ Unlink(t) \/ Link(t) \/ Confirms(t) \/ Looks(t) \/ Reply(t)
           \/ \E i \in Ids : Expire(i)
  <1>1. faults \in 0..MaxFaults /\ (faults < MaxFaults => faults + 1 \in 0..MaxFaults)
    BY SessionAssumption DEF TypeOK
  <1>2. \A t \in Threads : Refuse(t) => Ends(t)
    BY <1>1 DEF Refuse, Ends, bounds
  <1>3. \A t \in Threads : Fail(t) => Ends(t)
    BY <1>1 DEF Fail, Ends
  <1>4. \A t \in Threads : Find(t) \/ FindRefresh(t) => Finds(t) \/ Turns(t) \/ Ends(t)
    BY <1>1, <1>2 DEF Find, FindRefresh, Finds, Turns, bounds
  <1>5. \A t \in Threads : FindFails(t) => Turns(t)
    BY <1>1 DEF FindFails, Turns
  <1>6. \A t \in Threads : Check(t) => Checks(t) \/ Ends(t)
    BY <1>2 DEF Check, Checks
  <1>7. \A t \in Threads : Confirm(t) => Confirms(t) \/ Ends(t)
    BY <1>2 DEF Confirm, Confirms
  <1>8. \A t \in Threads : Lookup(t) => Looks(t) \/ Ends(t)
    BY <1>2 DEF Lookup, Looks
  <1>. QED
    BY <1>3, <1>4, <1>5, <1>6, <1>7, <1>8 DEF Next, Serve, Save

\* Where a request and its tokens come from.
LEMMA Came ==
    ASSUME Inv, NEW t \in Threads, op[t] # "login"
    PROVE  /\ cookie[t] \in Drawn /\ form[t] \in MaybeDrawn
           /\ \E p \in delivered : p[1] = cookie[t] /\ form[t] \in {p[2], NoId}
  <1>1. PICK p \in delivered : cookie[t] = p[1] /\ form[t] \in {p[2], NoId}
    BY DEF Inv, CameWithPair
  <1>2. p[1] \in Drawn /\ p[2] \in Drawn
    BY DEF Inv, Bounded
  <1>. QED
    BY <1>1, <1>2 DEF MaybeDrawn

LEMMA DrawnAreIds == TypeOK => Drawn \subseteq Ids /\ NoId \notin Drawn
  BY SessionAssumption DEF TypeOK, Drawn, Ids

\* What a request has when it is answered.
LEMMA Answered ==
    ASSUME Inv, NEW t \in Threads, pc[t] = "reply"
    PROVE  /\ sess[t] \in Drawn
           /\ op[t] # "logout" => rid[t] \in Drawn /\ sess[t] \in Made(t)
           /\ rid[t] \in MaybeDrawn
  <1>1. CASE op[t] = "logout"
    <2>1. sess[t] = cookie[t]
      BY <1>1 DEF Inv, Stages, LogoutStage
    <2>. QED
      BY <1>1, <2>1, Came DEF Inv, Bounded
  <1>2. CASE op[t] # "logout"
    <2>1. sess[t] \in Made(t)
      BY <1>2 DEF Made, Closing
    <2>2. sess[t] \in Drawn
      BY <2>1 DEF Inv, Private
    <2>3. rid[t] \in Drawn
      BY <1>2 DEF Inv, Stages, MadeStage
    <2>. QED
      BY <1>2, <2>1, <2>2, <2>3 DEF MaybeDrawn
  <1>. QED
    BY <1>1, <1>2

LEMMA NotLogin ==
    ASSUME Inv, NEW t \in Threads, pc[t] \notin {"idle", "make", "makeRefresh", "link", "reply"}
    PROVE  op[t] # "login"
  BY DEF Inv, OnItsWay

LEMMA NextTypeOK == Inv /\ [Next]_vars => TypeOK'
  <1>. SUFFICES ASSUME Inv, TypeOK, [Next]_vars
               PROVE  TypeOK'
    BY DEF Inv
  <1>. USE SessionAssumption DEF request, session, stores, history, bounds, Goto, Labels,
           Calls, Token, Ids, Ops
  <1>1. ASSUME NEW t \in Threads, Login(t) PROVE TypeOK'
    <2>1. crowded' \in BOOLEAN /\ loggedOut' \in BOOLEAN
      BY <1>1, Zenon DEF Login, Begin
    <2>2. login' \in 0..MaxId /\ UNCHANGED <<mapped, stores, lastId, held, delivered, spent, faults>>
      BY <1>1 DEF Login, Begin, TypeOK
    <2>3. requests' \in 0..MaxRequests /\ pc' = [pc EXCEPT ![t] = "make"]
      BY <1>1 DEF Login, Begin, TypeOK
    <2>. QED
      BY <1>1, <2>1, <2>2, <2>3 DEF Login, Serving, TypeOK
  <1>2. ASSUME NEW t \in Threads, Request(t) PROVE TypeOK'
    <2>1. crowded' \in BOOLEAN
      BY <1>2, Zenon DEF Request, Begin
    <2>. QED
      BY <1>2, <2>1 DEF Request, Begin, Serving, TypeOK
  <1>3. ASSUME NEW t \in Threads, Ends(t) PROVE TypeOK'
    BY <1>3 DEF Ends, Finish, Serving, TypeOK
  <1>4. ASSUME NEW t \in Threads, Turns(t) PROVE TypeOK'
    BY <1>4 DEF Turns, TypeOK
  <1>5. ASSUME NEW t \in Threads, Finds(t) PROVE TypeOK'
    <2>1. op[t] # "login"
      BY <1>5 DEF Inv, OnItsWay, Finds
    <2>2. cookie[t] # NoId
      BY <2>1, Came, DrawnAreIds DEF Inv
    <2>. QED
      BY <1>5, <2>2 DEF Finds, Found, WithSession, SessionId, Inv, TypeOK
  <1>6. ASSUME NEW t \in Threads, Checks(t) PROVE TypeOK'
    BY <1>6 DEF Checks, TypeOK
  <1>7. ASSUME NEW t \in Threads, DropAccess(t) PROVE TypeOK'
    BY <1>7 DEF DropAccess, TypeOK
  <1>8. ASSUME NEW t \in Threads, MakeAccess(t) PROVE TypeOK'
    BY <1>8 DEF MakeAccess, NewId, TypeOK
  <1>9. ASSUME NEW t \in Threads, DropRefresh(t) PROVE TypeOK'
    BY <1>9 DEF DropRefresh, TypeOK
  <1>10. ASSUME NEW t \in Threads, MakeRefresh(t) PROVE TypeOK'
    BY <1>10 DEF MakeRefresh, NewId, NamedAccess, TypeOK
  <1>11. ASSUME NEW t \in Threads, Unlink(t) PROVE TypeOK'
    BY <1>11 DEF Unlink, UnlinkedId, TypeOK
  <1>12. ASSUME NEW t \in Threads, Link(t) PROVE TypeOK'
    BY <1>12 DEF Link, TypeOK
  <1>13. ASSUME NEW t \in Threads, Confirms(t) PROVE TypeOK'
    BY <1>13 DEF Confirms, AfterConfirm, TypeOK
  <1>14. ASSUME NEW t \in Threads, Looks(t) PROVE TypeOK'
    <2>1. op[t] # "login"
      BY <1>14 DEF Inv, OnItsWay, Looks
    <2>. QED
      BY <1>14, <2>1 DEF Looks, TypeOK
  <1>15. ASSUME NEW t \in Threads, Reply(t) PROVE TypeOK'
    <2>1. sess[t] \in Ids /\ (op[t] # "logout" => rid[t] \in Ids)
      BY <1>15, Answered, DrawnAreIds DEF Reply, Inv
    <2>2. op[t] # "login" => cookie[t] \in Ids
      BY Came, DrawnAreIds DEF Inv
    <2>3. delivered' \subseteq Ids \X Ids /\ spent' \subseteq Ids \X Token /\ held' \in Token \X Token
      BY <1>15, <2>1, <2>2 DEF Reply, Inv, TypeOK
    <2>. QED
      BY <1>15, <2>3 DEF Reply, Finish, Serving, Inv, TypeOK
  <1>16. ASSUME NEW i \in Ids, Expire(i) PROVE TypeOK'
    BY <1>16 DEF Expire, ExpireAccess, ExpireRefresh, ExpireLink, TypeOK
  <1>17. CASE UNCHANGED vars
    BY <1>17 DEF vars, TypeOK
  <1>. QED
    BY <1>1, <1>2, <1>3, <1>4, <1>5, <1>6, <1>7, <1>8,
       <1>9, <1>10, <1>11, <1>12, <1>13, <1>14, <1>15, <1>16, <1>17, Steps

LEMMA NextBounded == Inv /\ [Next]_vars => Bounded'
  <1>. SUFFICES ASSUME Inv, TypeOK, [Next]_vars
               PROVE  Bounded'
    BY DEF Inv
  <1>. USE SessionAssumption DEF request, session, stores, history, bounds, Goto, Ids, Token
  <1>1. ASSUME NEW t \in Threads, Login(t) PROVE Bounded'
    BY <1>1 DEF Login, Begin, Serving, Inv, TypeOK, Bounded, Drawn, MaybeDrawn
  <1>2. ASSUME NEW t \in Threads, Request(t) PROVE Bounded'
    BY <1>2 DEF Request, Begin, Serving, Inv, TypeOK, Bounded, Drawn, MaybeDrawn
  <1>3. ASSUME NEW t \in Threads, Ends(t) PROVE Bounded'
    BY <1>3 DEF Ends, Finish, Serving, Inv, TypeOK, Bounded, Drawn, MaybeDrawn
  <1>4. ASSUME NEW t \in Threads, Turns(t) PROVE Bounded'
    BY <1>4 DEF Turns, Inv, TypeOK, Bounded, Drawn, MaybeDrawn
  <1>5. ASSUME NEW t \in Threads, Finds(t) PROVE Bounded'
    <2>1. cookie[t] \in Drawn
      BY <1>5, NotLogin, Came DEF Finds
    <2>. QED
      BY <1>5, <2>1 DEF Finds, Found, SessionId, Inv, TypeOK, Bounded, Drawn, MaybeDrawn
  <1>6. ASSUME NEW t \in Threads, Checks(t) PROVE Bounded'
    <2>1. form[t] \in MaybeDrawn
      BY <1>6, NotLogin, Came DEF Checks
    <2>. QED
      BY <1>6, <2>1 DEF Checks, Inv, TypeOK, Bounded, Drawn, MaybeDrawn
  <1>7. ASSUME NEW t \in Threads, DropAccess(t) PROVE Bounded'
    BY <1>7 DEF DropAccess, Inv, TypeOK, Bounded, Drawn, MaybeDrawn
  <1>8. ASSUME NEW t \in Threads, MakeAccess(t) PROVE Bounded'
    BY <1>8 DEF MakeAccess, NewId, Inv, TypeOK, Bounded, Drawn, MaybeDrawn
  <1>9. ASSUME NEW t \in Threads, DropRefresh(t) PROVE Bounded'
    BY <1>9 DEF DropRefresh, Inv, TypeOK, Bounded, Drawn, MaybeDrawn
  <1>10. ASSUME NEW t \in Threads, MakeRefresh(t) PROVE Bounded'
    BY <1>10 DEF MakeRefresh, NewId, NamedAccess, Inv, TypeOK, Bounded, Drawn, MaybeDrawn
  <1>11. ASSUME NEW t \in Threads, Unlink(t) PROVE Bounded'
    BY <1>11 DEF Unlink, UnlinkedId, Inv, TypeOK, Bounded, Drawn, MaybeDrawn
  <1>12. ASSUME NEW t \in Threads, Link(t) PROVE Bounded'
    BY <1>12 DEF Link, Inv, TypeOK, Bounded, Drawn, MaybeDrawn
  <1>13. ASSUME NEW t \in Threads, Confirms(t) PROVE Bounded'
    BY <1>13 DEF Confirms, AfterConfirm, Inv, TypeOK, Bounded, Drawn, MaybeDrawn
  <1>14. ASSUME NEW t \in Threads, Looks(t) PROVE Bounded'
    <2>1. mapping[sess[t]] \in MaybeDrawn
      BY <1>14, NotLogin DEF Looks, Inv, TypeOK, Bounded
    <2>. QED
      BY <1>14, <2>1 DEF Looks, Inv, TypeOK, Bounded, Drawn, MaybeDrawn
  <1>15. ASSUME NEW t \in Threads, Reply(t) PROVE Bounded'
    <2>1. op[t] # "login" => cookie[t] \in Drawn /\ form[t] \in MaybeDrawn
      BY Came
    <2>2. delivered' \subseteq Drawn \X Drawn /\ spent' \subseteq Drawn \X MaybeDrawn
      BY <1>15, Answered, <2>1 DEF Reply, Inv, Bounded
    <2>. QED
      BY <1>15, <2>2 DEF Reply, Finish, Serving, Inv, TypeOK, Bounded, Drawn, MaybeDrawn
  <1>16. ASSUME NEW i \in Ids, Expire(i) PROVE Bounded'
    BY <1>16 DEF Expire, ExpireAccess, ExpireRefresh, ExpireLink, Inv, TypeOK, Bounded, Drawn, MaybeDrawn
  <1>17. CASE UNCHANGED vars
    BY <1>17 DEF vars, Inv, TypeOK, Bounded, Drawn, MaybeDrawn
  <1>. QED
    BY <1>1, <1>2, <1>3, <1>4, <1>5, <1>6, <1>7, <1>8,
       <1>9, <1>10, <1>11, <1>12, <1>13, <1>14, <1>15, <1>16, <1>17, Steps

LEMMA NextPairsApart == Inv /\ [Next]_vars => (PairsApart /\ HeldDelivered)'
  <1>. SUFFICES ASSUME Inv, TypeOK, [Next]_vars
               PROVE  (PairsApart /\ HeldDelivered)'
    BY DEF Inv
  <1>1. ASSUME NEW t \in Threads, Reply(t) PROVE (PairsApart /\ HeldDelivered)'
    <2>1. op[t] # "logout" => \A p \in delivered : p[1] # sess[t]
      BY <1>1, Answered DEF Reply, Inv, Private
    <2>. QED
      BY <1>1, <2>1 DEF Reply, Inv, PairsApart, HeldDelivered, TypeOK
  <1>2. CASE UNCHANGED <<held, delivered>>
    BY <1>2 DEF Inv, PairsApart, HeldDelivered
  <1>3. UNCHANGED <<held, delivered>> \/ \E t \in Threads : Reply(t)
    BY Steps DEF Login, Begin, Request, Ends, Turns, Finds, Found, Checks, DropAccess, MakeAccess,
       DropRefresh, MakeRefresh, Unlink, Link, Confirms, Looks, Expire, ExpireAccess,
       ExpireRefresh, ExpireLink, history, vars
  <1>. QED
    BY <1>1, <1>2, <1>3

LEMMA NextCameWithPair == Inv /\ [Next]_vars => CameWithPair'
  <1>. SUFFICES ASSUME Inv, TypeOK, [Next]_vars
               PROVE  CameWithPair'
    BY DEF Inv
  <1>0. delivered \subseteq delivered'
    BY Steps DEF Login, Begin, Request, Ends, Turns, Finds, Found, Checks, DropAccess, MakeAccess,
       DropRefresh, MakeRefresh, Unlink, Link, Confirms, Looks, Reply, Expire, ExpireAccess,
       ExpireRefresh, ExpireLink, history, vars
  <1>1. ASSUME NEW t \in Threads, Request(t) PROVE CameWithPair'
    BY <1>1 DEF Request, Begin, Serving, Inv, TypeOK, CameWithPair, HeldDelivered
  <1>2. ASSUME NEW t \in Threads, Serving(t, "login", NoId, NoId) PROVE CameWithPair'
    BY <1>0, <1>2 DEF Serving, Inv, TypeOK, CameWithPair
  <1>3. CASE UNCHANGED <<request, delivered>>
    BY <1>3 DEF request, Inv, CameWithPair
  <1>4. \/ UNCHANGED <<request, delivered>>
        \/ \E t \in Threads : Request(t) \/ Serving(t, "login", NoId, NoId)
    BY Steps DEF Login, Ends, Finish, Turns, Finds, Found, Checks, DropAccess, MakeAccess,
       DropRefresh, MakeRefresh, Unlink, Link, Confirms, Looks, Reply, Expire, ExpireAccess,
       ExpireRefresh, ExpireLink, history, vars
  <1>. QED
    BY <1>1, <1>2, <1>3, <1>4

LEMMA NextOnItsWay == Inv /\ [Next]_vars => OnItsWay'
  <1>. SUFFICES ASSUME Inv, TypeOK, [Next]_vars
               PROVE  OnItsWay'
    BY DEF Inv
  <1>. USE SessionAssumption DEF request, session, stores, history, bounds, Goto, Inv,
           TypeOK, Ops, Closing
  <1>1. ASSUME NEW t \in Threads, Login(t) PROVE OnItsWay'
    BY <1>1 DEF Login, Begin, Serving, OnItsWay
  <1>2. ASSUME NEW t \in Threads, Request(t) PROVE OnItsWay'
    BY <1>2 DEF Request, Begin, Serving, OnItsWay
  <1>3. ASSUME NEW t \in Threads, Ends(t) PROVE OnItsWay'
    BY <1>3 DEF Ends, Finish, Serving, OnItsWay
  <1>4. ASSUME NEW t \in Threads, Turns(t) PROVE OnItsWay'
    BY <1>4 DEF Turns, OnItsWay
  <1>5. ASSUME NEW t \in Threads, Finds(t) PROVE OnItsWay'
    BY <1>5 DEF Finds, Found, WithSession, SessionId, OnItsWay
  <1>6. ASSUME NEW t \in Threads, Checks(t) PROVE OnItsWay'
    BY <1>6 DEF Checks, OnItsWay
  <1>7. ASSUME NEW t \in Threads, DropAccess(t) PROVE OnItsWay'
    BY <1>7 DEF DropAccess, OnItsWay
  <1>8. ASSUME NEW t \in Threads, MakeAccess(t) PROVE OnItsWay'
    BY <1>8 DEF MakeAccess, NewId, OnItsWay
  <1>9. ASSUME NEW t \in Threads, DropRefresh(t) PROVE OnItsWay'
    BY <1>9 DEF DropRefresh, OnItsWay
  <1>10. ASSUME NEW t \in Threads, MakeRefresh(t) PROVE OnItsWay'
    BY <1>10 DEF MakeRefresh, NewId, NamedAccess, OnItsWay
  <1>11. ASSUME NEW t \in Threads, Unlink(t) PROVE OnItsWay'
    BY <1>11 DEF Unlink, UnlinkedId, OnItsWay
  <1>12. ASSUME NEW t \in Threads, Link(t) PROVE OnItsWay'
    BY <1>12 DEF Link, OnItsWay
  <1>13. ASSUME NEW t \in Threads, Confirms(t) PROVE OnItsWay'
    BY <1>13 DEF Confirms, AfterConfirm, OnItsWay
  <1>14. ASSUME NEW t \in Threads, Looks(t) PROVE OnItsWay'
    BY <1>14 DEF Looks, OnItsWay
  <1>15. ASSUME NEW t \in Threads, Reply(t) PROVE OnItsWay'
    BY <1>15 DEF Reply, Finish, Serving, OnItsWay
  <1>16. ASSUME NEW i \in Ids, Expire(i) PROVE OnItsWay'
    BY <1>16 DEF Expire, ExpireAccess, ExpireRefresh, ExpireLink, OnItsWay
  <1>17. CASE UNCHANGED vars
    BY <1>17 DEF vars, OnItsWay
  <1>. QED
    BY <1>1, <1>2, <1>3, <1>4, <1>5, <1>6, <1>7, <1>8,
       <1>9, <1>10, <1>11, <1>12, <1>13, <1>14, <1>15, <1>16, <1>17, Steps

LEMMA NextSpent == Inv /\ [Next]_vars => SpentStaysDead'
  <1>. SUFFICES ASSUME Inv, TypeOK, [Next]_vars
               PROVE  SpentStaysDead'
    BY DEF Inv
  <1>. USE SessionAssumption DEF request, session, stores, history, bounds, Goto, Inv,
           TypeOK, Ids, Token, Ops
  <1>1. ASSUME NEW t \in Threads, Login(t) PROVE SpentStaysDead'
    BY <1>1 DEF Login, Begin, Serving, SpentStaysDead
  <1>2. ASSUME NEW t \in Threads, Request(t) PROVE SpentStaysDead'
    BY <1>2 DEF Request, Begin, Serving, SpentStaysDead
  <1>3. ASSUME NEW t \in Threads, Ends(t) PROVE SpentStaysDead'
    BY <1>3 DEF Ends, Finish, Serving, SpentStaysDead
  <1>4. ASSUME NEW t \in Threads, Turns(t) PROVE SpentStaysDead'
    BY <1>4 DEF Turns, SpentStaysDead
  <1>5. ASSUME NEW t \in Threads, Finds(t) PROVE SpentStaysDead'
    BY <1>5 DEF Finds, Found, WithSession, SessionId, SpentStaysDead
  <1>6. ASSUME NEW t \in Threads, Checks(t) PROVE SpentStaysDead'
    BY <1>6 DEF Checks, SpentStaysDead
  <1>7. ASSUME NEW t \in Threads, DropAccess(t) PROVE SpentStaysDead'
    BY <1>7 DEF DropAccess, SpentStaysDead
  <1>8. ASSUME NEW t \in Threads, MakeAccess(t) PROVE SpentStaysDead'
    <2>1. lastId + 1 \notin Drawn /\ spent \subseteq Drawn \X MaybeDrawn
      BY DEF Inv, TypeOK, Bounded, Drawn
    <2>. QED
      BY <1>8, <2>1 DEF MakeAccess, NewId, Inv, SpentStaysDead
  <1>9. ASSUME NEW t \in Threads, DropRefresh(t) PROVE SpentStaysDead'
    BY <1>9 DEF DropRefresh, SpentStaysDead
  <1>10. ASSUME NEW t \in Threads, MakeRefresh(t) PROVE SpentStaysDead'
    <2>1. lastId + 1 \notin Drawn /\ lastId + 1 # NoId /\ spent \subseteq Drawn \X MaybeDrawn
      BY SessionAssumption DEF Inv, TypeOK, Bounded, Drawn
    <2>2. \A p \in spent : p[2] # NoId => p[2] # lastId + 1 /\ p[2] \in Ids
      BY <2>1, DrawnAreIds DEF Inv, MaybeDrawn
    <2>. QED
      BY <1>10, <2>2 DEF MakeRefresh, NewId, Inv, TypeOK, SpentStaysDead
  <1>11. ASSUME NEW t \in Threads, Unlink(t) PROVE SpentStaysDead'
    BY <1>11 DEF Unlink, UnlinkedId, SpentStaysDead
  <1>12. ASSUME NEW t \in Threads, Link(t) PROVE SpentStaysDead'
    BY <1>12 DEF Link, SpentStaysDead
  <1>13. ASSUME NEW t \in Threads, Confirms(t) PROVE SpentStaysDead'
    BY <1>13 DEF Confirms, AfterConfirm, SpentStaysDead
  <1>14. ASSUME NEW t \in Threads, Looks(t) PROVE SpentStaysDead'
    BY <1>14 DEF Looks, SpentStaysDead
  <1>15. ASSUME NEW t \in Threads, Reply(t) PROVE SpentStaysDead'
    <2>1. CASE op[t] = "logout"
      <3>1. sess[t] \notin access /\ (rid[t] # NoId => refresh[rid[t]] = NoId)
        BY <1>15, <2>1 DEF Reply, Inv, Stages, LogoutStage
      <3>. QED
        BY <1>15, <2>1, <3>1 DEF Reply, Inv, SpentStaysDead
    <2>2. CASE op[t] \in {"refresh", "renew"}
      <3>1. cookie[t] \notin access /\ refresh[form[t]] = NoId
        BY <1>15, <2>2 DEF Reply, Inv, Stages, RefreshStage, Closing
      <3>. QED
        BY <1>15, <2>2, <3>1 DEF Reply, Inv, SpentStaysDead
    <2>3. CASE op[t] = "login"
      BY <1>15, <2>3 DEF Reply, Inv, SpentStaysDead
    <2>. QED
      BY <2>1, <2>2, <2>3 DEF Ops
  <1>16. ASSUME NEW i \in Ids, Expire(i) PROVE SpentStaysDead'
    BY <1>16 DEF Expire, ExpireAccess, ExpireRefresh, ExpireLink, SpentStaysDead
  <1>17. CASE UNCHANGED vars
    BY <1>17 DEF vars, SpentStaysDead
  <1>. QED
    BY <1>1, <1>2, <1>3, <1>4, <1>5, <1>6, <1>7, <1>8,
       <1>9, <1>10, <1>11, <1>12, <1>13, <1>14, <1>15, <1>16, <1>17, Steps

LEMMA NextLinked == Inv /\ [Next]_vars => LivingPairIsLinked'
  <1>. SUFFICES ASSUME Inv, TypeOK, [Next]_vars
               PROVE  LivingPairIsLinked'
    BY DEF Inv
  <1>. USE SessionAssumption DEF request, session, stores, history, bounds, Goto, Inv,
           TypeOK, Ids, Token, Ops
  <1>1. ASSUME NEW t \in Threads, Login(t) PROVE LivingPairIsLinked'
    BY <1>1 DEF Login, Begin, Serving, LivingPairIsLinked
  <1>2. ASSUME NEW t \in Threads, Request(t) PROVE LivingPairIsLinked'
    BY <1>2 DEF Request, Begin, Serving, LivingPairIsLinked
  <1>3. ASSUME NEW t \in Threads, Ends(t) PROVE LivingPairIsLinked'
    BY <1>3 DEF Ends, Finish, Serving, LivingPairIsLinked
  <1>4. ASSUME NEW t \in Threads, Turns(t) PROVE LivingPairIsLinked'
    BY <1>4 DEF Turns, LivingPairIsLinked
  <1>5. ASSUME NEW t \in Threads, Finds(t) PROVE LivingPairIsLinked'
    BY <1>5 DEF Finds, Found, WithSession, SessionId, LivingPairIsLinked
  <1>6. ASSUME NEW t \in Threads, Checks(t) PROVE LivingPairIsLinked'
    BY <1>6 DEF Checks, LivingPairIsLinked
  <1>7. ASSUME NEW t \in Threads, DropAccess(t) PROVE LivingPairIsLinked'
    BY <1>7 DEF DropAccess, LivingPairIsLinked
  <1>8. ASSUME NEW t \in Threads, MakeAccess(t) PROVE LivingPairIsLinked'
    BY <1>8 DEF MakeAccess, NewId, LivingPairIsLinked
  <1>9. ASSUME NEW t \in Threads, DropRefresh(t) PROVE LivingPairIsLinked'
    BY <1>9 DEF DropRefresh, LivingPairIsLinked
  <1>10. ASSUME NEW t \in Threads, MakeRefresh(t) PROVE LivingPairIsLinked'
    <2>1. \A p \in delivered : p[2] \in Ids /\ p[2] # lastId + 1
      BY DrawnAreIds DEF Inv, TypeOK, Bounded, Drawn
    <2>. QED
      BY <1>10, <2>1 DEF MakeRefresh, NewId, LivingPairIsLinked
  <1>11. ASSUME NEW t \in Threads, Unlink(t) PROVE LivingPairIsLinked'
    <2>. SUFFICES ASSUME NEW p \in delivered, refresh[p[2]] # NoId, p[1] = UnlinkedId(t)
                 PROVE  FALSE
      BY <1>11 DEF Unlink, LivingPairIsLinked
    <2>1. CASE op[t] = "logout"
      BY <1>11, <2>1 DEF Unlink, UnlinkedId, Stages, LogoutStage
    <2>2. CASE op[t] = "renew"
      <3>1. old[t] \in Made(t)
        BY <1>11, <2>2 DEF Unlink, Made, Closing
      <3>. QED
        BY <2>2, <3>1 DEF UnlinkedId, Private
    <2>3. CASE op[t] = "refresh"
      <3>1. old[t] = cookie[t] /\ form[t] # NoId /\ refresh[form[t]] = NoId
        BY <1>11, <2>3 DEF Unlink, Stages, RefreshStage, Closing
      <3>2. PICK q \in delivered : q[1] = cookie[t] /\ form[t] \in {q[2], NoId}
        BY <2>3, Came
      <3>. QED
        BY <2>3, <3>1, <3>2 DEF UnlinkedId, PairsApart
    <2>. QED
      BY <1>11, <2>1, <2>2, <2>3, NotLogin DEF Unlink
  <1>12. ASSUME NEW t \in Threads, Link(t) PROVE LivingPairIsLinked'
    <2>1. op[t] # "logout"
      BY <1>12 DEF Link, OnItsWay
    <2>2. sess[t] \in Made(t)
      BY <1>12, <2>1 DEF Link, Made, Closing
    <2>3. \A p \in delivered : p[1] # sess[t]
      BY <2>2 DEF Private
    <2>. QED
      BY <1>12, <2>3 DEF Link, LivingPairIsLinked
  <1>13. ASSUME NEW t \in Threads, Confirms(t) PROVE LivingPairIsLinked'
    BY <1>13 DEF Confirms, AfterConfirm, LivingPairIsLinked
  <1>14. ASSUME NEW t \in Threads, Looks(t) PROVE LivingPairIsLinked'
    BY <1>14 DEF Looks, LivingPairIsLinked
  <1>15. ASSUME NEW t \in Threads, Reply(t) PROVE LivingPairIsLinked'
    <2>1. CASE op[t] = "logout"
      BY <1>15, <2>1 DEF Reply, LivingPairIsLinked
    <2>2. CASE op[t] # "logout"
      <3>1. /\ refresh[rid[t]] \in {sess[t], NoId}
            /\ (mapped /\ refresh[rid[t]] # NoId) => mapping[sess[t]] = rid[t]
        BY <1>15, <2>2 DEF Reply, Stages, MadeStage
      <3>. QED
        BY <1>15, <2>2, <3>1 DEF Reply, LivingPairIsLinked
    <2>. QED
      BY <2>1, <2>2
  <1>16. ASSUME NEW i \in Ids, Expire(i) PROVE LivingPairIsLinked'
    BY <1>16 DEF Expire, ExpireAccess, ExpireRefresh, ExpireLink, LivingPairIsLinked
  <1>17. CASE UNCHANGED vars
    BY <1>17 DEF vars, LivingPairIsLinked
  <1>. QED
    BY <1>1, <1>2, <1>3, <1>4, <1>5, <1>6, <1>7, <1>8,
       <1>9, <1>10, <1>11, <1>12, <1>13, <1>14, <1>15, <1>16, <1>17, Steps

\* Requests that draw nothing and answer nothing keep what they have drawn to themselves.
LEMMA PrivateKept ==
    ASSUME Inv, \A u \in Threads : Made(u)' \subseteq Made(u), delivered' = delivered,
           Drawn \subseteq Drawn'
    PROVE  Private'
  BY DEF Inv, Private

LEMMA NextPrivate == Inv /\ [Next]_vars => Private'
  <1>. SUFFICES ASSUME Inv, TypeOK, [Next]_vars
               PROVE  Private'
    BY DEF Inv
  <1>. USE SessionAssumption DEF request, session, stores, history, bounds, Goto, TypeOK,
           Inv, Ops
  <1>1. ASSUME NEW t \in Threads, Login(t) PROVE Private'
    <2>1. \A u \in Threads : Made(u)' \subseteq Made(u)
      BY <1>1 DEF Login, Begin, Serving, OnItsWay, Made, Closing
    <2>2. delivered' = delivered /\ Drawn \subseteq Drawn'
      BY <1>1 DEF Login, Begin, Serving, Drawn
    <2>. QED
      BY <2>1, <2>2, PrivateKept
  <1>2. ASSUME NEW t \in Threads, Request(t) PROVE Private'
    <2>1. \A u \in Threads : Made(u)' \subseteq Made(u)
      BY <1>2 DEF Request, Begin, Serving, OnItsWay, Made, Closing
    <2>2. delivered' = delivered /\ Drawn \subseteq Drawn'
      BY <1>2 DEF Request, Begin, Serving, Drawn
    <2>. QED
      BY <2>1, <2>2, PrivateKept
  <1>3. ASSUME NEW t \in Threads, Ends(t) PROVE Private'
    <2>1. \A u \in Threads : Made(u)' \subseteq Made(u)
      BY <1>3 DEF Ends, Finish, Serving, OnItsWay, Made, Closing
    <2>2. delivered' = delivered /\ Drawn \subseteq Drawn'
      BY <1>3 DEF Ends, Finish, Serving, Drawn
    <2>. QED
      BY <2>1, <2>2, PrivateKept
  <1>4. ASSUME NEW t \in Threads, Turns(t) PROVE Private'
    <2>1. \A u \in Threads : Made(u)' \subseteq Made(u)
      BY <1>4 DEF Turns, OnItsWay, Made, Closing
    <2>2. delivered' = delivered /\ Drawn \subseteq Drawn'
      BY <1>4 DEF Turns, Drawn
    <2>. QED
      BY <2>1, <2>2, PrivateKept
  <1>5. ASSUME NEW t \in Threads, Finds(t) PROVE Private'
    <2>1. \A u \in Threads : Made(u)' \subseteq Made(u)
      BY <1>5 DEF Finds, Found, WithSession, SessionId, OnItsWay, Made, Closing
    <2>2. delivered' = delivered /\ Drawn \subseteq Drawn'
      BY <1>5 DEF Finds, Found, WithSession, SessionId, Drawn
    <2>. QED
      BY <2>1, <2>2, PrivateKept
  <1>6. ASSUME NEW t \in Threads, Checks(t) PROVE Private'
    <2>1. \A u \in Threads : Made(u)' \subseteq Made(u)
      BY <1>6 DEF Checks, OnItsWay, Made, Closing
    <2>2. delivered' = delivered /\ Drawn \subseteq Drawn'
      BY <1>6 DEF Checks, Drawn
    <2>. QED
      BY <2>1, <2>2, PrivateKept
  <1>7. ASSUME NEW t \in Threads, DropAccess(t) PROVE Private'
    <2>1. \A u \in Threads : Made(u)' \subseteq Made(u)
      BY <1>7 DEF DropAccess, OnItsWay, Made, Closing
    <2>2. delivered' = delivered /\ Drawn \subseteq Drawn'
      BY <1>7 DEF DropAccess, Drawn
    <2>. QED
      BY <2>1, <2>2, PrivateKept
  <1>8. ASSUME NEW t \in Threads, MakeAccess(t) PROVE Private'
    <2>1. /\ lastId + 1 \notin Drawn /\ lastId + 1 \in Drawn' /\ Drawn \subseteq Drawn'
          /\ delivered' = delivered
      BY <1>8 DEF MakeAccess, Drawn
    <2>2. Made(t)' \subseteq Made(t) \cup {lastId + 1}
      BY <1>8 DEF MakeAccess, NewId, OnItsWay, Made, Closing
    <2>3. \A u \in Threads \ {t} : Made(u)' = Made(u)
      BY <1>8 DEF MakeAccess, Made
    <2>4. \A p \in delivered : p[1] # lastId + 1
      BY <2>1 DEF Bounded
    <2>. QED
      BY <2>1, <2>2, <2>3, <2>4 DEF Private
  <1>9. ASSUME NEW t \in Threads, DropRefresh(t) PROVE Private'
    <2>1. \A u \in Threads : Made(u)' \subseteq Made(u)
      BY <1>9 DEF DropRefresh, OnItsWay, Made, Closing
    <2>2. delivered' = delivered /\ Drawn \subseteq Drawn'
      BY <1>9 DEF DropRefresh, Drawn
    <2>. QED
      BY <2>1, <2>2, PrivateKept
  <1>10. ASSUME NEW t \in Threads, MakeRefresh(t) PROVE Private'
    <2>1. \A u \in Threads : Made(u)' \subseteq Made(u)
      BY <1>10 DEF MakeRefresh, NewId, NamedAccess, OnItsWay, Made, Closing
    <2>2. delivered' = delivered /\ Drawn \subseteq Drawn'
      BY <1>10 DEF MakeRefresh, NewId, NamedAccess, Drawn
    <2>. QED
      BY <2>1, <2>2, PrivateKept
  <1>11. ASSUME NEW t \in Threads, Unlink(t) PROVE Private'
    <2>1. \A u \in Threads : Made(u)' \subseteq Made(u)
      BY <1>11 DEF Unlink, UnlinkedId, OnItsWay, Made, Closing
    <2>2. delivered' = delivered /\ Drawn \subseteq Drawn'
      BY <1>11 DEF Unlink, UnlinkedId, Drawn
    <2>. QED
      BY <2>1, <2>2, PrivateKept
  <1>12. ASSUME NEW t \in Threads, Link(t) PROVE Private'
    <2>1. \A u \in Threads : Made(u)' \subseteq Made(u)
      BY <1>12 DEF Link, OnItsWay, Made, Closing
    <2>2. delivered' = delivered /\ Drawn \subseteq Drawn'
      BY <1>12 DEF Link, Drawn
    <2>. QED
      BY <2>1, <2>2, PrivateKept
  <1>13. ASSUME NEW t \in Threads, Confirms(t) PROVE Private'
    <2>1. \A u \in Threads : Made(u)' \subseteq Made(u)
      BY <1>13 DEF Confirms, AfterConfirm, OnItsWay, Made, Closing
    <2>2. delivered' = delivered /\ Drawn \subseteq Drawn'
      BY <1>13 DEF Confirms, AfterConfirm, Drawn
    <2>. QED
      BY <2>1, <2>2, PrivateKept
  <1>14. ASSUME NEW t \in Threads, Looks(t) PROVE Private'
    <2>1. \A u \in Threads : Made(u)' \subseteq Made(u)
      BY <1>14 DEF Looks, OnItsWay, Made, Closing
    <2>2. delivered' = delivered /\ Drawn \subseteq Drawn'
      BY <1>14 DEF Looks, Drawn
    <2>. QED
      BY <2>1, <2>2, PrivateKept
  <1>15. ASSUME NEW t \in Threads, Reply(t) PROVE Private'
    <2>1. Made(t)' = {} /\ Drawn' = Drawn
      BY <1>15 DEF Reply, Finish, Serving, Made, Closing, Drawn
    <2>2. \A u \in Threads \ {t} : Made(u)' = Made(u)
      BY <1>15 DEF Reply, Finish, Serving, Made
    <2>3. op[t] # "logout" => sess[t] \in Made(t)
      BY <1>15, Answered DEF Reply
    <2>4. \A p \in delivered' : p \in delivered \/ (op[t] # "logout" /\ p[1] = sess[t])
      BY <1>15 DEF Reply
    <2>. QED
      BY <2>1, <2>2, <2>3, <2>4 DEF Private
  <1>16. ASSUME NEW i \in Ids, Expire(i) PROVE Private'
    <2>1. \A u \in Threads : Made(u)' \subseteq Made(u)
      BY <1>16 DEF Expire, ExpireAccess, ExpireRefresh, ExpireLink, Made
    <2>2. delivered' = delivered /\ Drawn \subseteq Drawn'
      BY <1>16 DEF Expire, ExpireAccess, ExpireRefresh, ExpireLink, Drawn
    <2>. QED
      BY <2>1, <2>2, PrivateKept
  <1>17. CASE UNCHANGED vars
    <2>1. (\A u \in Threads : Made(u)' \subseteq Made(u)) /\ delivered' = delivered /\ Drawn' = Drawn
      BY <1>17 DEF vars, Made, Drawn
    <2>. QED
      BY <2>1, PrivateKept
  <1>. QED
    BY <1>1, <1>2, <1>3, <1>4, <1>5, <1>6, <1>7, <1>8,
       <1>9, <1>10, <1>11, <1>12, <1>13, <1>14, <1>15, <1>16, <1>17, Steps

LEMMA NextRefreshStage == Inv /\ [Next]_vars => \A u \in Threads : RefreshStage(u)'
  <1>. SUFFICES ASSUME Inv, TypeOK, [Next]_vars, NEW u \in Threads
               PROVE  RefreshStage(u)'
    BY DEF Inv, RefreshStage
  <1>. USE SessionAssumption DEF request, session, stores, history, bounds, Goto, TypeOK,
           Inv, Stages, OnItsWay, Closing, Ops
  <1>0. /\ op[u] # "login" => /\ cookie[u] # lastId + 1 /\ form[u] # lastId + 1
                              /\ cookie[u] # NoId /\ (form[u] # NoId => form[u] \in Ids)
        /\ lastId + 1 # NoId /\ lastId + 1 \notin Drawn /\ rid[u] # lastId + 1
        /\ delivered \subseteq Ids \X Ids /\ \A p \in delivered : p[2] # lastId + 1
    BY Came, DrawnAreIds DEF Drawn, MaybeDrawn, Bounded
  <1>1. ASSUME NEW t \in Threads, Login(t) PROVE RefreshStage(u)'
    BY <1>1 DEF Login, Begin, Serving, RefreshStage
  <1>2. ASSUME NEW t \in Threads, Request(t) PROVE RefreshStage(u)'
    BY <1>2 DEF Request, Begin, Serving, RefreshStage
  <1>3. ASSUME NEW t \in Threads, Ends(t) PROVE RefreshStage(u)'
    BY <1>3 DEF Ends, Finish, Serving, RefreshStage
  <1>4. ASSUME NEW t \in Threads, Turns(t) PROVE RefreshStage(u)'
    BY <1>4 DEF Turns, RefreshStage
  <1>5. ASSUME NEW t \in Threads, Finds(t) PROVE RefreshStage(u)'
    BY <1>5 DEF Finds, Found, WithSession, SessionId, RefreshStage
  <1>6. ASSUME NEW t \in Threads, Checks(t) PROVE RefreshStage(u)'
    BY <1>6 DEF Checks, RefreshStage
  <1>7. ASSUME NEW t \in Threads, DropAccess(t) PROVE RefreshStage(u)'
    BY <1>7 DEF DropAccess, RefreshStage
  <1>8. ASSUME NEW t \in Threads, MakeAccess(t) PROVE RefreshStage(u)'
    BY <1>8, <1>0 DEF MakeAccess, NewId, RefreshStage
  <1>9. ASSUME NEW t \in Threads, DropRefresh(t) PROVE RefreshStage(u)'
    BY <1>9, <1>0 DEF DropRefresh, RefreshStage
  <1>10. ASSUME NEW t \in Threads, MakeRefresh(t) PROVE RefreshStage(u)'
    BY <1>10, <1>0 DEF MakeRefresh, NewId, NamedAccess, RefreshStage
  <1>11. ASSUME NEW t \in Threads, Unlink(t) PROVE RefreshStage(u)'
    BY <1>11 DEF Unlink, UnlinkedId, RefreshStage
  <1>12. ASSUME NEW t \in Threads, Link(t) PROVE RefreshStage(u)'
    BY <1>12 DEF Link, RefreshStage
  <1>13. ASSUME NEW t \in Threads, Confirms(t) PROVE RefreshStage(u)'
    BY <1>13 DEF Confirms, AfterConfirm, RefreshStage
  <1>14. ASSUME NEW t \in Threads, Looks(t) PROVE RefreshStage(u)'
    BY <1>14 DEF Looks, RefreshStage
  <1>15. ASSUME NEW t \in Threads, Reply(t) PROVE RefreshStage(u)'
    BY <1>15 DEF Reply, Finish, Serving, RefreshStage
  <1>16. ASSUME NEW i \in Ids, Expire(i) PROVE RefreshStage(u)'
    BY <1>16, <1>0 DEF Expire, ExpireAccess, ExpireRefresh, ExpireLink, RefreshStage
  <1>17. CASE UNCHANGED vars
    BY <1>17 DEF vars, RefreshStage
  <1>. QED
    BY <1>1, <1>2, <1>3, <1>4, <1>5, <1>6, <1>7, <1>8,
       <1>9, <1>10, <1>11, <1>12, <1>13, <1>14, <1>15, <1>16, <1>17, Steps

LEMMA NextMadeStage == Inv /\ [Next]_vars => \A u \in Threads : MadeStage(u)'
  <1>. SUFFICES ASSUME Inv, TypeOK, [Next]_vars, NEW u \in Threads
               PROVE  MadeStage(u)'
    BY DEF Inv, MadeStage
  <1>. USE SessionAssumption DEF request, session, stores, history, bounds, Goto, TypeOK,
           Inv, Stages, OnItsWay, Closing, Ops
  <1>0. /\ (op[u] # "logout" /\ pc[u] \in {"unlink", "link", "reply"}) => /\ rid[u] \in Ids
                                                                      /\ sess[u] \in Ids
        /\ rid[u] # lastId + 1
    <2>1. (op[u] # "logout" /\ pc[u] \in {"unlink", "link", "reply"}) => sess[u] \in Drawn
      BY DEF Private, Made
    <2>. QED
      BY <2>1, DrawnAreIds DEF MadeStage, Bounded, MaybeDrawn, Drawn
  <1>1. ASSUME NEW t \in Threads, Login(t) PROVE MadeStage(u)'
    BY <1>1 DEF Login, Begin, Serving, MadeStage, Drawn
  <1>2. ASSUME NEW t \in Threads, Request(t) PROVE MadeStage(u)'
    BY <1>2 DEF Request, Begin, Serving, MadeStage, Drawn
  <1>3. ASSUME NEW t \in Threads, Ends(t) PROVE MadeStage(u)'
    BY <1>3 DEF Ends, Finish, Serving, MadeStage, Drawn
  <1>4. ASSUME NEW t \in Threads, Turns(t) PROVE MadeStage(u)'
    BY <1>4 DEF Turns, MadeStage, Drawn
  <1>5. ASSUME NEW t \in Threads, Finds(t) PROVE MadeStage(u)'
    BY <1>5 DEF Finds, Found, WithSession, SessionId, MadeStage, Drawn
  <1>6. ASSUME NEW t \in Threads, Checks(t) PROVE MadeStage(u)'
    BY <1>6 DEF Checks, MadeStage, Drawn
  <1>7. ASSUME NEW t \in Threads, DropAccess(t) PROVE MadeStage(u)'
    BY <1>7 DEF DropAccess, MadeStage, Drawn
  <1>8. ASSUME NEW t \in Threads, MakeAccess(t) PROVE MadeStage(u)'
    BY <1>8 DEF MakeAccess, NewId, MadeStage, Drawn
  <1>9. ASSUME NEW t \in Threads, DropRefresh(t) PROVE MadeStage(u)'
    BY <1>9, <1>0 DEF DropRefresh, MadeStage, Drawn
  <1>10. ASSUME NEW t \in Threads, MakeRefresh(t) PROVE MadeStage(u)'
    <2>1. CASE u = t
      <3>1. lastId + 1 \in Ids /\ lastId' = lastId + 1
        BY <1>10 DEF MakeRefresh, Ids
      <3>2. rid'[u] = lastId + 1 /\ refresh'[lastId + 1] = sess[u] /\ sess' = sess
        BY <1>10, <2>1, <3>1 DEF MakeRefresh, NewId, NamedAccess
      <3>3. pc'[u] = "reply" => ~mapped'
        BY <1>10, <2>1 DEF MakeRefresh
      <3>. QED
        BY <3>1, <3>2, <3>3, SessionAssumption DEF MadeStage, Drawn, Ids
    <2>2. CASE u # t
      BY <1>10, <1>0, <2>2 DEF MakeRefresh, NewId, MadeStage, Drawn
    <2>. QED
      BY <2>1, <2>2
  <1>11. ASSUME NEW t \in Threads, Unlink(t) PROVE MadeStage(u)'
    <2>1. (op[u] # "logout" /\ pc[u] = "reply") => UnlinkedId(t) # sess[u]
      <3>. SUFFICES ASSUME op[u] # "logout", pc[u] = "reply"
                   PROVE  UnlinkedId(t) # sess[u]
        OBVIOUS
      <3>1. sess[u] \in Made(u) /\ t # u
        BY <1>11 DEF Unlink, Made
      <3>2. CASE op[t] = "renew"
        BY <1>11, <3>1, <3>2 DEF Unlink, UnlinkedId, Made, Private
      <3>3. CASE op[t] # "renew"
        <4>1. UnlinkedId(t) = cookie[t] /\ op[t] # "login"
          BY <1>11, <3>3 DEF Unlink, UnlinkedId, RefreshStage, LogoutStage
        <4>. QED
          BY <4>1, <3>1, Came DEF Private
      <3>. QED
        BY <3>2, <3>3
    <2>. QED
      BY <1>11, <2>1 DEF Unlink, MadeStage, Drawn
  <1>12. ASSUME NEW t \in Threads, Link(t) PROVE MadeStage(u)'
    <2>1. (u # t /\ op[u] # "logout" /\ pc[u] = "reply") => sess[t] # sess[u]
      <3>1. sess[t] \in Made(t)
        BY <1>12 DEF Link, Made
      <3>. QED
        BY <3>1 DEF Made, Private
    <2>. QED
      BY <1>12, <2>1, <1>0 DEF Link, MadeStage, Drawn
  <1>13. ASSUME NEW t \in Threads, Confirms(t) PROVE MadeStage(u)'
    BY <1>13 DEF Confirms, AfterConfirm, MadeStage, Drawn
  <1>14. ASSUME NEW t \in Threads, Looks(t) PROVE MadeStage(u)'
    BY <1>14 DEF Looks, MadeStage, Drawn
  <1>15. ASSUME NEW t \in Threads, Reply(t) PROVE MadeStage(u)'
    BY <1>15 DEF Reply, Finish, Serving, MadeStage, Drawn
  <1>16. ASSUME NEW i \in Ids, Expire(i) PROVE MadeStage(u)'
    BY <1>16, <1>0 DEF Expire, ExpireAccess, ExpireRefresh, ExpireLink, MadeStage, Drawn
  <1>17. CASE UNCHANGED vars
    BY <1>17 DEF vars, MadeStage, Drawn
  <1>. QED
    BY <1>1, <1>2, <1>3, <1>4, <1>5, <1>6, <1>7, <1>8,
       <1>9, <1>10, <1>11, <1>12, <1>13, <1>14, <1>15, <1>16, <1>17, Steps

LEMMA NextLogoutStage == Inv /\ [Next]_vars => \A u \in Threads : LogoutStage(u)'
  <1>. SUFFICES ASSUME Inv, TypeOK, [Next]_vars, NEW u \in Threads
               PROVE  LogoutStage(u)'
    BY DEF Inv, LogoutStage
  <1>. USE SessionAssumption DEF request, session, stores, history, bounds, Goto, TypeOK,
           Inv, Stages, OnItsWay, Closing, Ops
  <1>0. /\ op[u] # "login" => /\ cookie[u] # lastId + 1 /\ form[u] # lastId + 1
                              /\ cookie[u] # NoId /\ (form[u] # NoId => form[u] \in Ids)
        /\ lastId + 1 # NoId /\ lastId + 1 \notin Drawn /\ rid[u] # lastId + 1
        /\ delivered \subseteq Ids \X Ids /\ \A p \in delivered : p[2] # lastId + 1
    BY Came, DrawnAreIds DEF Drawn, MaybeDrawn, Bounded
  <1>1. ASSUME NEW t \in Threads, Login(t) PROVE LogoutStage(u)'
    BY <1>1 DEF Login, Begin, Serving, LogoutStage
  <1>2. ASSUME NEW t \in Threads, Request(t) PROVE LogoutStage(u)'
    BY <1>2 DEF Request, Begin, Serving, LogoutStage
  <1>3. ASSUME NEW t \in Threads, Ends(t) PROVE LogoutStage(u)'
    BY <1>3 DEF Ends, Finish, Serving, LogoutStage
  <1>4. ASSUME NEW t \in Threads, Turns(t) PROVE LogoutStage(u)'
    BY <1>4 DEF Turns, LogoutStage
  <1>5. ASSUME NEW t \in Threads, Finds(t) PROVE LogoutStage(u)'
    BY <1>5 DEF Finds, Found, WithSession, SessionId, LogoutStage
  <1>6. ASSUME NEW t \in Threads, Checks(t) PROVE LogoutStage(u)'
    BY <1>6 DEF Checks, LogoutStage
  <1>7. ASSUME NEW t \in Threads, DropAccess(t) PROVE LogoutStage(u)'
    BY <1>7 DEF DropAccess, LogoutStage
  <1>8. ASSUME NEW t \in Threads, MakeAccess(t) PROVE LogoutStage(u)'
    BY <1>8, <1>0 DEF MakeAccess, NewId, LogoutStage
  <1>9. ASSUME NEW t \in Threads, DropRefresh(t) PROVE LogoutStage(u)'
    <2>1. \A i \in Ids : refresh[i] = NoId => refresh'[i] = NoId
      BY <1>9 DEF DropRefresh
    <2>2. /\ rid[u] # NoId => rid[u] \in Ids
          /\ \A p \in delivered : p[2] \in Ids
      BY <1>0 DEF Token
    <2>3. CASE u = t /\ op[t] = "logout"
      <3>1. refresh'[rid[t]] = NoId /\ sess' = sess /\ rid' = rid /\ pc'[t] = "unlink"
        BY <1>9, <2>2, <2>3 DEF DropRefresh, LogoutStage
      <3>2. \A p \in delivered : p[1] = sess[t] => refresh'[p[2]] = NoId
        BY <1>9, <2>1, <2>2, <2>3, <3>1 DEF DropRefresh, LogoutStage
      <3>. QED
        BY <1>9, <2>3, <3>1, <3>2 DEF DropRefresh, LogoutStage
    <2>4. CASE ~(u = t /\ op[t] = "logout")
      <3>1. op[u]' = "logout" => pc'[u] = pc[u]
        BY <1>9, <2>4 DEF DropRefresh
      <3>2. \A i \in Ids : refresh'[i] # NoId => refresh[i] # NoId
        BY <2>1
      <3>. QED
        BY <1>9, <2>1, <2>2, <3>1, <3>2 DEF DropRefresh, LogoutStage
    <2>. QED
      BY <2>3, <2>4
  <1>10. ASSUME NEW t \in Threads, MakeRefresh(t) PROVE LogoutStage(u)'
    BY <1>10, <1>0 DEF MakeRefresh, NewId, NamedAccess, LogoutStage
  <1>11. ASSUME NEW t \in Threads, Unlink(t) PROVE LogoutStage(u)'
    BY <1>11 DEF Unlink, UnlinkedId, LogoutStage
  <1>12. ASSUME NEW t \in Threads, Link(t) PROVE LogoutStage(u)'
    BY <1>12 DEF Link, LogoutStage
  <1>13. ASSUME NEW t \in Threads, Confirms(t) PROVE LogoutStage(u)'
    BY <1>13 DEF Confirms, AfterConfirm, LogoutStage
  <1>14. ASSUME NEW t \in Threads, Looks(t) PROVE LogoutStage(u)'
    <2>1. \A p \in delivered : refresh[p[2]] # NoId /\ mapped => mapping[p[1]] = p[2]
      BY DEF LivingPairIsLinked
    <2>. QED
      BY <1>14, <2>1 DEF Looks, LogoutStage
  <1>15. ASSUME NEW t \in Threads, Reply(t) PROVE LogoutStage(u)'
    <2>1. (op[u] = "logout" /\ op[t] # "logout") => cookie[u] # sess[t]
      BY <1>15, Came, Answered DEF Reply, Private
    <2>. QED
      BY <1>15, <2>1 DEF Reply, Finish, Serving, LogoutStage
  <1>16. ASSUME NEW i \in Ids, Expire(i) PROVE LogoutStage(u)'
    <2>1. /\ \A j \in Ids : refresh[j] = NoId => refresh'[j] = NoId
          /\ access' \subseteq access
          /\ UNCHANGED <<mapped, pc, op, cookie, sess, rid, delivered>>
      BY <1>16 DEF Expire, ExpireAccess, ExpireRefresh, ExpireLink
    <2>2. /\ rid[u] # NoId => rid[u] \in Ids
          /\ \A p \in delivered : p[2] \in Ids
      BY <1>0 DEF Token
    <2>. QED
      BY <2>1, <2>2 DEF LogoutStage
  <1>17. CASE UNCHANGED vars
    BY <1>17 DEF vars, LogoutStage
  <1>. QED
    BY <1>1, <1>2, <1>3, <1>4, <1>5, <1>6, <1>7, <1>8,
       <1>9, <1>10, <1>11, <1>12, <1>13, <1>14, <1>15, <1>16, <1>17, Steps

-----------------------------------------------------------------------------
LEMMA InvInductive == Spec => []Inv
  <1>1. Inv /\ [Next]_vars => Inv'
    BY NextTypeOK, NextBounded, NextPairsApart, NextCameWithPair, NextOnItsWay, NextPrivate,
       NextRefreshStage, NextMadeStage, NextLogoutStage, NextLinked, NextSpent DEF Inv, Stages
  <1>. QED
    BY InitInv, <1>1, PTL DEF Spec

\* The server's variables never leave their types, and a request past GetFromRequest has
\* a session with an id.
THEOREM TypeCorrect == Spec => []TypeOK
  <1>1. Inv => TypeOK
    BY DEF Inv
  <1>. QED
    BY InvInductive, <1>1, PTL

\* However many requests run at once and wherever they fail: a refresh token that works
\* is tied to the access token it was sent with, in its session and in the mapping.
THEOREM PairsStayLinked == Spec => []LivingPairIsLinked
  <1>1. Inv => LivingPairIsLinked
    BY DEF Inv
  <1>. QED
    BY InvInductive, <1>1, PTL

\* The tokens of a finished refresh or logout never work again.
THEOREM SpentTokensStayDead == Spec => []SpentStaysDead
  <1>1. Inv => SpentStaysDead
    BY DEF Inv
  <1>. QED
    BY InvInductive, <1>1, PTL
-----------------------------------------------------------------------------
(* Requests that come one at a time.  What the user agent was sent since its   *)
(* login is dead, but for the pair it holds: a refresh that answers has taken  *)
(* away the one it came with, and that was the held one.  A logout takes away  *)
(* the held pair, and then no request comes past GetFromRequest.               *)

Dead(p) == p[1] \notin access /\ refresh[p[2]] = NoId

Busy(t) == pc[t] # "idle"

OneByOne == \A t, u \in Threads : Busy(t) /\ Busy(u) => t = u

\* A login has sent nothing yet; other requests came with the pair that is held.
CameWithHeld ==
    \A t \in Threads : Busy(t) =>
        /\ op[t] = "login" => ~loggedOut /\ \A p \in delivered : p[1] <= login
        /\ op[t] # "login" => held \in delivered /\ cookie[t] = held[1]
                              /\ form[t] \in {held[2], NoId}
        /\ pc[t] = "findRefresh" => op[t] # "login" /\ form[t] # NoId

OnlyHeldLives == \A p \in delivered : p[1] > login /\ p # held => Dead(p)

\* A logout has ended the refresh session of the pair that it came with.
LogoutTook ==
    \A t \in Threads : op[t] = "logout" /\ mapped /\ pc[t] \in {"drop", "reply"} =>
        \A p \in delivered : p[1] = sess[t] => refresh[p[2]] = NoId

\* After a logout the held pair is dead, and requests that come with it are refused.
Ended ==
    mapped /\ loggedOut =>
        /\ held \in delivered => Dead(held)
        /\ \A t \in Threads : pc[t] \in {"idle", "find", "findRefresh"}

LogoutInv ==
    /\ LogoutTook
    /\ ~crowded => OneByOne /\ CameWithHeld /\ OnlyHeldLives /\ Ended

LEMMA InitLogoutInv == Init => LogoutInv
  BY DEF Init, LogoutInv, LogoutTook, OneByOne, CameWithHeld, OnlyHeldLives, Ended, Busy,
     NoPair

\* What is dead is not stored again: tokens are drawn once.
LEMMA DeadStays ==
    ASSUME Inv, [Next]_vars
    PROVE  /\ \A i \in Drawn : /\ i \notin access => i \notin access'
                               /\ refresh[i] = NoId => refresh'[i] = NoId
           /\ \A p \in delivered : Dead(p) => Dead(p)'
  <1>. USE DEF stores, Goto
  <1>0. TypeOK /\ lastId + 1 \notin Drawn /\ Drawn \subseteq Ids /\ NoId \notin Drawn
    BY DrawnAreIds DEF Inv, TypeOK, Drawn
  <1>1. \A i \in Drawn : /\ i \notin access => i \notin access'
                         /\ refresh[i] = NoId => refresh'[i] = NoId
    <2>1. ASSUME NEW t \in Threads, MakeAccess(t) \/ MakeRefresh(t), NEW i \in Drawn
          PROVE  /\ i \notin access => i \notin access'
                 /\ refresh[i] = NoId => refresh'[i] = NoId
      BY <1>0, <2>1 DEF MakeAccess, MakeRefresh, NewId, TypeOK
    <2>2. ASSUME NEW t \in Threads, DropAccess(t) \/ DropRefresh(t), NEW i \in Drawn
          PROVE  /\ i \notin access => i \notin access'
                 /\ refresh[i] = NoId => refresh'[i] = NoId
      BY <1>0, <2>2 DEF DropAccess, DropRefresh, TypeOK
    <2>3. ASSUME NEW j \in Ids, Expire(j), NEW i \in Drawn
          PROVE  /\ i \notin access => i \notin access'
                 /\ refresh[i] = NoId => refresh'[i] = NoId
      BY <1>0, <2>3 DEF Expire, ExpireAccess, ExpireRefresh, ExpireLink, TypeOK
    <2>4. CASE UNCHANGED <<access, refresh>>
      BY <2>4
    <2>. QED
      BY <1>0, <2>1, <2>2, <2>3, <2>4, Steps DEF Login, Begin, Request, Ends, Turns, Finds,
         Found, Checks, Unlink, Link, Confirms, Looks, Reply, vars
  <1>2. \A p \in delivered : p[1] \in Drawn /\ p[2] \in Drawn
    BY DEF Inv, Bounded
  <1>. QED
    BY <1>1, <1>2 DEF Dead

LEMMA NextLogoutTook ==
    ASSUME Inv, LogoutTook, [Next]_vars
    PROVE  LogoutTook'
  <1>. SUFFICES ASSUME NEW u \in Threads, op'[u] = "logout", mapped',
                       pc'[u] \in {"drop", "reply"},
                       NEW p \in delivered', p[1] = sess'[u]
                PROVE  refresh'[p[2]] = NoId
    BY DEF LogoutTook
  <1>. USE DEF request, session, stores, history, Goto
  <1>0. TypeOK
    BY DEF Inv
  <1>1. CASE /\ op[u] = "logout" /\ mapped /\ pc[u] \in {"drop", "reply"}
             /\ p \in delivered /\ p[1] = sess[u]
    <2>1. refresh[p[2]] = NoId /\ p[2] \in Drawn
      BY <1>1 DEF LogoutTook, Inv, Bounded
    <2>. QED
      BY <2>1, DeadStays
  <1>2. ASSUME NEW t \in Threads, Unlink(t) PROVE refresh'[p[2]] = NoId
    <2>1. CASE t = u
      <3>1. op[u] = "logout" /\ pc[u] = "unlink" /\ p \in delivered /\ p[1] = sess[u]
        BY <1>2, <2>1 DEF Unlink
      <3>2. refresh[p[2]] = NoId
        BY <3>1 DEF Inv, Stages, LogoutStage
      <3>. QED
        BY <1>2, <3>2 DEF Unlink
    <2>2. CASE t # u
      BY <1>0, <1>1, <1>2, <2>2 DEF Unlink, TypeOK
    <2>. QED
      BY <2>1, <2>2
  <1>3. ASSUME NEW t \in Threads, Reply(t) PROVE refresh'[p[2]] = NoId
    <2>1. t # u
      BY <1>0, <1>3 DEF Reply, Finish, TypeOK
    <2>2. /\ op[u] = "logout" /\ pc[u] \in {"drop", "reply"} /\ mapped /\ sess'[u] = sess[u]
      BY <1>0, <1>3, <2>1 DEF Reply, Finish, Serving, TypeOK
    <2>3. CASE p \in delivered
      BY <1>1, <2>2, <2>3
    <2>4. CASE p \notin delivered
      <3>1. op[t] # "logout" /\ p[1] = sess[t]
        BY <1>3, <2>4 DEF Reply
      <3>2. sess[t] \in Made(t)
        BY <1>3, <3>1, Answered DEF Reply
      <3>3. sess[u] = cookie[u] /\ \E q \in delivered : q[1] = cookie[u]
        BY <2>2, Came DEF Inv, Stages, LogoutStage
      <3>. QED
        BY <2>2, <3>1, <3>2, <3>3 DEF Inv, Private
    <2>. QED
      BY <2>3, <2>4
  <1>4. ASSUME NEW t \in Threads, DropAccess(t) PROVE refresh'[p[2]] = NoId
    <2>1. op[u] = "logout" /\ mapped /\ p \in delivered /\ p[1] = sess[u]
      BY <1>4 DEF DropAccess
    <2>2. pc[u] \in {"drop", "reply"}
      <3>1. CASE t = u
        BY <1>0, <1>4, <2>1, <3>1 DEF DropAccess, TypeOK
      <3>2. CASE t # u
        BY <1>0, <1>4, <3>2 DEF DropAccess, TypeOK
      <3>. QED
        BY <3>1, <3>2
    <2>. QED
      BY <1>1, <2>1, <2>2
  <1>5. ASSUME NEW t \in Threads, Finds(t) PROVE refresh'[p[2]] = NoId
    <2>1. op[u] = "logout" /\ mapped /\ p \in delivered
      BY <1>5 DEF Finds, Found
    <2>2. t # u
      BY <1>0, <1>5, <2>1 DEF Finds, Found, WithSession, TypeOK
    <2>. QED
      BY <1>0, <1>1, <1>5, <2>1, <2>2 DEF Finds, Found, TypeOK
  <1>6. ASSUME NEW t \in Threads, Confirms(t) PROVE refresh'[p[2]] = NoId
    <2>1. op[u] = "logout" /\ mapped /\ p \in delivered /\ p[1] = sess[u]
      BY <1>6 DEF Confirms
    <2>2. pc[u] \in {"drop", "reply"}
      BY <1>0, <1>6, <2>1 DEF Confirms, AfterConfirm, TypeOK
    <2>. QED
      BY <1>1, <2>1, <2>2
  <1>7. ASSUME NEW t \in Threads,
               \/ Login(t) \/ Request(t) \/ Ends(t) \/ Turns(t) \/ Checks(t) \/ MakeAccess(t)
               \/ DropRefresh(t) \/ MakeRefresh(t) \/ Link(t) \/ Looks(t)
        PROVE  refresh'[p[2]] = NoId
    <2>1. mapped /\ p \in delivered
      BY <1>7 DEF Login, Begin, Request, Ends, Turns, Checks, MakeAccess, DropRefresh,
         MakeRefresh, Link, Looks
    <2>2. t # u
      <3>. SUFFICES ASSUME t = u PROVE FALSE
        OBVIOUS
      <3>1. CASE Login(t) \/ Request(t) \/ Ends(t) \/ Turns(t)
        BY <1>0, <3>1 DEF Login, Begin, Request, Ends, Finish, Turns, TypeOK
      <3>2. CASE Checks(t) \/ MakeAccess(t) \/ MakeRefresh(t) \/ Link(t)
        <4>1. op[t] # "logout"
          BY <3>2 DEF Checks, MakeAccess, MakeRefresh, Link, Inv, OnItsWay
        <4>. QED
          BY <3>2, <4>1 DEF Checks, MakeAccess, MakeRefresh, Link
      <3>3. CASE DropRefresh(t) \/ Looks(t)
        BY <1>0, <3>3 DEF DropRefresh, Looks, TypeOK
      <3>. QED
        BY <1>7, <3>1, <3>2, <3>3
    <2>3. op[u] = "logout" /\ pc[u] \in {"drop", "reply"} /\ p[1] = sess[u]
      <3>1. CASE Login(t) \/ Request(t) \/ Ends(t)
        BY <1>0, <2>2, <3>1 DEF Login, Begin, Request, Ends, Finish, Serving, TypeOK
      <3>2. CASE Turns(t) \/ Checks(t) \/ MakeAccess(t) \/ DropRefresh(t)
        BY <1>0, <2>2, <3>2 DEF Turns, Checks, MakeAccess, DropRefresh, TypeOK
      <3>3. CASE MakeRefresh(t) \/ Link(t) \/ Looks(t)
        BY <1>0, <2>2, <3>3 DEF MakeRefresh, Link, Looks, TypeOK
      <3>. QED
        BY <1>7, <3>1, <3>2, <3>3
    <2>. QED
      BY <1>1, <2>1, <2>3
  <1>8. CASE UNCHANGED <<pc, op, sess, mapped, delivered>>
    BY <1>1, <1>8
  <1>. QED
    BY <1>0, <1>2, <1>3, <1>4, <1>5, <1>6, <1>7, <1>8, Steps
    DEF Expire, ExpireAccess, ExpireRefresh, ExpireLink, vars

\* The steps of a request between GetFromRequest and its reply change nothing that the
\* user agent sees.
Inner(t) ==
    /\ pc[t] \notin {"idle", "find", "findRefresh"}
    /\ pc'[t] \notin {"idle", "find", "findRefresh"}
    /\ \A u \in Threads : u # t => pc'[u] = pc[u]
    /\ UNCHANGED <<mapped, held, request, delivered, login, loggedOut, crowded>>

LEMMA InnerSteps ==
    ASSUME TypeOK, NEW t \in Threads,
           \/ Checks(t) \/ DropAccess(t) \/ MakeAccess(t) \/ DropRefresh(t) \/ MakeRefresh(t)
           \/ Unlink(t) \/ Link(t) \/ Confirms(t) \/ Looks(t)
    PROVE  Inner(t)
  <1>. USE DEF Inner, request, session, stores, history, Goto, TypeOK
  <1>1. CASE Checks(t) \/ DropAccess(t) \/ MakeAccess(t)
    BY <1>1 DEF Checks, DropAccess, MakeAccess
  <1>2. CASE DropRefresh(t) \/ MakeRefresh(t) \/ Unlink(t)
    BY <1>2 DEF DropRefresh, MakeRefresh, Unlink
  <1>3. CASE Link(t) \/ Confirms(t) \/ Looks(t)
    BY <1>3 DEF Link, Confirms, AfterConfirm, Looks
  <1>. QED
    BY <1>1, <1>2, <1>3

LEMMA NextLogoutInv ==
    ASSUME Inv, LogoutInv, [Next]_vars
    PROVE  LogoutInv'
  <1>. DEFINE Quiet == OneByOne /\ CameWithHeld /\ OnlyHeldLives /\ Ended
  <1>. USE DEF request, session, stores, history, Goto
  <1>0. TypeOK /\ Inv
    BY DEF Inv
  <1>1. LogoutTook'
    BY NextLogoutTook DEF LogoutInv
  <1>. SUFFICES ASSUME ~crowded' PROVE Quiet'
    BY <1>1 DEF LogoutInv
  <1>2. ~crowded => Quiet
    BY DEF LogoutInv
  <1>3. /\ \A p \in delivered : Dead(p) => Dead(p)'
        /\ \A p \in delivered : p[1] \in Drawn
    BY DeadStays DEF Inv, Bounded
  <1>4. ASSUME NEW t \in Threads, Login(t) PROVE Quiet'
    <2>1. (\A u \in Threads : pc[u] = "idle") /\ \A u \in Threads : u # t => pc'[u] = "idle"
      BY <1>0, <1>4 DEF Login, Begin, TypeOK
    <2>2. /\ delivered' = delivered /\ login' = lastId /\ loggedOut' = FALSE
          /\ pc'[t] = "make" /\ op'[t] = "login"
      BY <1>0, <1>4 DEF Login, Begin, Serving, TypeOK
    <2>3. \A p \in delivered : p[1] <= lastId /\ ~(p[1] > lastId)
      BY <1>0, <1>3 DEF Drawn, TypeOK
    <2>. QED
      BY <2>1, <2>2, <2>3 DEF OneByOne, CameWithHeld, OnlyHeldLives, Ended, Busy
  <1>5. ASSUME NEW t \in Threads, Request(t) PROVE Quiet'
    <2>1. /\ \A u \in Threads : pc[u] = "idle"
          /\ \A u \in Threads : u # t => pc'[u] = "idle"
          /\ ~crowded
      BY <1>0, <1>5 DEF Request, Begin, TypeOK
    <2>2. /\ UNCHANGED <<mapped, access, refresh, held, delivered, login, loggedOut>>
          /\ pc'[t] = "find" /\ op'[t] # "login" /\ cookie'[t] = held[1]
          /\ form'[t] \in {held[2], NoId}
      BY <1>0, <1>5 DEF Request, Begin, Serving, TypeOK
    <2>3. held \in delivered
      BY <1>5 DEF Request, Inv, HeldDelivered
    <2>. QED
      BY <1>2, <2>1, <2>2, <2>3
      DEF OneByOne, CameWithHeld, OnlyHeldLives, Ended, Busy, Dead
  <1>6. ASSUME NEW t \in Threads, Ends(t) PROVE Quiet'
    <2>1. /\ \A u \in Threads : u # t => pc'[u] = pc[u]
          /\ \A u \in Threads : u # t => /\ op'[u] = op[u] /\ cookie'[u] = cookie[u]
                                         /\ form'[u] = form[u]
          /\ pc'[t] = "idle"
          /\ UNCHANGED <<mapped, access, refresh, held, delivered, login, loggedOut, crowded>>
      BY <1>0, <1>6 DEF Ends, Finish, Serving, TypeOK
    <2>. QED
      BY <1>2, <2>1 DEF OneByOne, CameWithHeld, OnlyHeldLives, Ended, Busy, Dead
  <1>7. ASSUME NEW t \in Threads, Turns(t) PROVE Quiet'
    <2>1. /\ \A u \in Threads : u # t => pc'[u] = pc[u]
          /\ pc[t] = "find" /\ pc'[t] = "findRefresh" /\ form[t] # NoId
          /\ UNCHANGED <<op, cookie, form>>
          /\ UNCHANGED <<mapped, access, refresh, held, delivered, login, loggedOut, crowded>>
      BY <1>0, <1>7 DEF Turns, TypeOK
    <2>2. op[t] # "login"
      BY <2>1, NotLogin
    <2>. QED
      BY <1>2, <2>1, <2>2 DEF OneByOne, CameWithHeld, OnlyHeldLives, Ended, Busy, Dead
  <1>8. ASSUME NEW t \in Threads, Finds(t) PROVE Quiet'
    <2>1. /\ \A u \in Threads : u # t => pc'[u] = pc[u]
          /\ pc[t] \in {"find", "findRefresh"} /\ pc'[t] \in {"check", "dropFirst", "confirm"}
          /\ UNCHANGED <<op, cookie, form>>
          /\ UNCHANGED <<mapped, access, refresh, held, delivered, login, loggedOut, crowded>>
      BY <1>0, <1>8 DEF Finds, Found, WithSession, TypeOK
    <2>2. op[t] # "login"
      BY <2>1, NotLogin
    <2>3. held \in delivered /\ cookie[t] = held[1] /\ form[t] \in {held[2], NoId}
          /\ (pc[t] = "findRefresh" => form[t] # NoId)
      BY <1>2, <2>1, <2>2 DEF CameWithHeld, Busy
    <2>4. ~Dead(held)
      <3>1. cookie[t] # NoId
        BY <1>0, <2>2, Came, DrawnAreIds
      <3>. QED
        BY <1>8, <2>3, <3>1 DEF Finds, Dead
    <2>5. ~(mapped /\ loggedOut)
      BY <1>2, <2>1, <2>3, <2>4 DEF Ended
    <2>. QED
      BY <1>2, <2>1, <2>2, <2>3, <2>5 DEF OneByOne, CameWithHeld, OnlyHeldLives, Ended, Busy, Dead
  <1>9. ASSUME NEW t \in Threads, Inner(t) PROVE Quiet'
    <2>1. ~(mapped /\ loggedOut)
      BY <1>2, <1>9 DEF Inner, Ended
    <2>2. OneByOne' /\ CameWithHeld' /\ Ended'
      BY <1>2, <1>9, <2>1 DEF Inner, OneByOne, CameWithHeld, Ended, Busy
    <2>3. OnlyHeldLives'
      BY <1>2, <1>3, <1>9 DEF Inner, OnlyHeldLives
    <2>. QED
      BY <2>2, <2>3
  <1>10. ASSUME NEW t \in Threads, Reply(t) PROVE Quiet'
    <2>1. pc[t] = "reply" /\ UNCHANGED <<mapped, access, refresh, login, crowded>>
      BY <1>10 DEF Reply
    <2>2. \A u \in Threads : pc'[u] = "idle"
      BY <1>0, <1>2, <1>10, <2>1 DEF Reply, Finish, TypeOK, OneByOne, Busy
    <2>3. OneByOne' /\ CameWithHeld'
      BY <2>2 DEF OneByOne, CameWithHeld, Busy
    <2>4. ~(mapped /\ loggedOut)
      BY <1>2, <2>1 DEF Ended
    <2>5. CASE op[t] = "logout"
      <3>1. UNCHANGED <<held, delivered>>
        BY <1>10, <2>5 DEF Reply
      <3>2. mapped => held \in delivered /\ Dead(held)
        <4>1. held \in delivered /\ sess[t] = held[1] /\ sess[t] \notin access
          BY <1>2, <2>1, <2>5 DEF CameWithHeld, Busy, Inv, Stages, LogoutStage
        <4>2. mapped => refresh[held[2]] = NoId
          BY <2>1, <2>5, <4>1 DEF LogoutInv, LogoutTook
        <4>. QED
          BY <4>1, <4>2 DEF Dead
      <3>3. OnlyHeldLives' /\ Ended'
        BY <1>2, <2>1, <2>2, <3>1, <3>2 DEF OnlyHeldLives, Ended, Dead
      <3>. QED
        BY <2>3, <3>3
    <2>6. CASE op[t] = "login"
      <3>1. held' = <<sess[t], rid[t]>> /\ delivered' = delivered \cup {held'}
        BY <1>10, <2>6 DEF Reply
      <3>2. \A p \in delivered : p[1] <= login /\ ~(p[1] > login)
        <4>1. \A p \in delivered : p[1] <= login /\ p[1] \in Int /\ login \in Int
          BY <1>0, <1>2, <1>3, <2>1, <2>6 DEF CameWithHeld, Busy, TypeOK, Drawn
        <4>. QED
          BY <4>1
      <3>3. OnlyHeldLives'
        BY <2>1, <3>1, <3>2 DEF OnlyHeldLives
      <3>4. UNCHANGED <<mapped, loggedOut>>
        BY <1>10, <2>6 DEF Reply
      <3>. QED
        BY <2>3, <2>4, <3>3, <3>4 DEF Ended
    <2>7. CASE op[t] \in {"refresh", "renew"}
      <3>1. held' = <<sess[t], rid[t]>> /\ delivered' = delivered \cup {held'}
        BY <1>10, <2>7 DEF Reply
      <3>2. cookie[t] \notin access /\ form[t] # NoId /\ refresh[form[t]] = NoId
        BY <2>1, <2>7 DEF Inv, Stages, RefreshStage, Closing
      <3>3. cookie[t] = held[1] /\ form[t] = held[2]
        BY <1>2, <2>1, <2>7, <3>2 DEF CameWithHeld, Busy
      <3>4. Dead(held)
        BY <3>2, <3>3 DEF Dead
      <3>5. OnlyHeldLives'
        BY <1>2, <2>1, <3>1, <3>4 DEF OnlyHeldLives, Dead
      <3>6. UNCHANGED <<mapped, loggedOut>>
        BY <1>10, <2>7 DEF Reply
      <3>. QED
        BY <2>3, <2>4, <3>5, <3>6 DEF Ended
    <2>. QED
      BY <1>0, <2>5, <2>6, <2>7 DEF TypeOK, Ops
  <1>11. ASSUME UNCHANGED <<mapped, held, pc, request, delivered, login, loggedOut, crowded>>
         PROVE  Quiet'
    BY <1>2, <1>3, <1>11 DEF OneByOne, CameWithHeld, OnlyHeldLives, Ended, Busy
  <1>12. \/ \E t \in Threads : \/ Login(t) \/ Request(t) \/ Ends(t) \/ Turns(t) \/ Finds(t)
                               \/ Inner(t) \/ Reply(t)
         \/ UNCHANGED <<mapped, held, pc, request, delivered, login, loggedOut, crowded>>
    BY <1>0, InnerSteps, Steps DEF Expire, ExpireAccess, ExpireRefresh, ExpireLink, vars
  <1>. QED
    BY <1>4, <1>5, <1>6, <1>7, <1>8, <1>9, <1>10, <1>11, <1>12

\* However often the user agent refreshed its session, and whichever of its requests
\* failed half-way and was sent again: if they came one at a time, a logout ends every
\* token that it was sent since its login.
THEOREM LogoutEndsTheLogin == Spec => []LogoutEndsLogin
  <1>1. Init => LogoutInv
    BY InitLogoutInv
  <1>2. Inv /\ LogoutInv /\ [Next]_vars => LogoutInv'
    BY NextLogoutInv
  <1>3. Inv /\ LogoutInv => LogoutEndsLogin
    BY DEF LogoutInv, OnlyHeldLives, Ended, Dead, LogoutEndsLogin
  <1>. QED
    BY <1>1, <1>2, <1>3, InvInductive, PTL DEF Spec
=============================================================================
