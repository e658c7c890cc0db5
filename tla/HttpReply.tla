------------------------------ MODULE HttpReply ------------------------------
(***************************************************************************)
(* A request of the HTTP server from the authentication middleware to its  *)
(* reply.  An error of httputils is a pointer, often one for the whole     *)
(* program (authn.ErrUnauthorized): HandleError writes the id of the       *)
(* request into it and then has gin encode it, with nothing in between to  *)
(* keep another request from writing its own.                              *)
(***************************************************************************)
EXTENDS Naturals

CONSTANTS
    Requests,  \* requests, each with a trace and so with an id
    Shared     \* errors of httputils that are made once

HttpReplyAssumption == Requests \cap Shared = {}

None == "none"

VARIABLES
    stage,   \* of each request: "arrived", "bind", "handler", "error", "encode", "replied"
    failed,  \* the error it has failed with: one of Shared, or the request for one of its own
    stamp,   \* Error.RequestID, of each of those
    reply,   \* what gin has sent: [kind, id]
    met      \* history: requests that were failing with the same error at one time

vars == <<stage, failed, stamp, reply, met>>

Errors == Shared \cup Requests
Reply(kind, id) == [kind |-> kind, id |-> id]
-----------------------------------------------------------------------------
Init ==
    /\ stage = [r \in Requests |-> "arrived"]
    /\ failed = [r \in Requests |-> None]
    /\ stamp = [e \in Errors |-> None]
    /\ reply = [r \in Requests |-> Reply(None, None)]
    /\ met = [r \in Requests |-> {}]

Send(r, kind, id) ==
    /\ stage' = [stage EXCEPT ![r] = "replied"]
    /\ reply' = [reply EXCEPT ![r] = Reply(kind, id)]
    /\ UNCHANGED <<failed, stamp, met>>

\* HandleError on an error of httputils, which it has found under any wrapping.
Fail(r, e) ==
    LET others == {q \in Requests : stage[q] \in {"error", "encode"} /\ failed[q] = e} IN
    /\ stage' = [stage EXCEPT ![r] = "error"]
    /\ failed' = [failed EXCEPT ![r] = e]
    /\ met' = [q \in Requests |-> IF q = r THEN others
                                  ELSE IF q \in others THEN met[q] \cup {r} ELSE met[q]]
    /\ UNCHANGED <<stamp, reply>>

Continue(r, s) ==
    /\ stage' = [stage EXCEPT ![r] = s]
    /\ UNCHANGED <<failed, stamp, reply, met>>

\* Middleware: without a session, or when nobody insists on one, the request goes on.
Authenticate(r) ==
    /\ stage[r] = "arrived"
    /\ \/ Continue(r, "bind")
       \/ \E e \in Shared : Fail(r, e)
       \/ Send(r, "500", r)

\* bindHandler: what does not validate is answered without the controller.
Bind(r) == stage[r] = "bind" /\ (Continue(r, "handler") \/ Send(r, "400", r))

\* bindHandler: the controller has no result, nil, a response or an error.
Handle(r) ==
    /\ stage[r] = "handler"
    /\ \/ Send(r, "empty", None)
       \/ Send(r, "200", None)
       \/ \E e \in Shared \cup {r} : Fail(r, e)
       \/ Send(r, "500", r)

Stamp(r) ==
    /\ stage[r] = "error"
    /\ stamp' = [stamp EXCEPT ![failed[r]] = r]
    /\ stage' = [stage EXCEPT ![r] = "encode"]
    /\ UNCHANGED <<failed, reply, met>>

Encode(r) ==
    /\ stage[r] = "encode"
    /\ Send(r, failed[r], stamp[failed[r]])

Next ==
    \E r \in Requests : Authenticate(r) \/ Bind(r) \/ Handle(r) \/ Stamp(r) \/ Encode(r)

Spec == Init /\ [][Next]_vars
-----------------------------------------------------------------------------
\* Every variable holds a value of its type.
HttpReplyTypeOK ==
    /\ stage \in [Requests -> {"arrived", "bind", "handler", "error", "encode", "replied"}]
    /\ failed \in [Requests -> Errors \cup {None}]
    /\ stamp \in [Errors -> Requests \cup {None}]
    /\ reply \in [Requests -> [kind : Errors \cup {None, "empty", "200", "400", "500"},
                               id : Requests \cup {None}]]
    /\ met \in [Requests -> SUBSET Requests]

\* Every reply is of the error its request has failed with, and names the request, as
\* far as it names one; only when others were failing with the same error at that time
\* may the name be one of theirs.
ReplyIsItsOwn ==
    \A r \in Requests : stage[r] = "replied" =>
        /\ failed[r] # None => reply[r].kind = failed[r]
        /\ reply[r].kind \notin {"empty", "200"} => reply[r].id \in {r} \cup met[r]
=============================================================================
