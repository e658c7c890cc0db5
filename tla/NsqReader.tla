----------------------------- MODULE NsqReader -----------------------------
(***************************************************************************)
(* The NSQ subscriptions of one channel (group).  nsqd hands a message to  *)
(* one connection and counts the attempt; it takes the message back when   *)
(* the handler is slow or the connection ends, while the handler goes on.  *)
(***************************************************************************)
EXTENDS Naturals

CONSTANTS
    Threads,     \* handler goroutines
    Subscribers, \* subscriptions, each a connection of its own
    SubOf,       \* the subscription of each handler goroutine
    MaxAttempts, \* nsq.NewConfig: deliveries of a message to the handler
    MaxMsgs,     \* bound: messages published
    MaxCrashes   \* bound: processes that die

NsqAssumption ==
    /\ Subscribers # {} /\ SubOf \in [Threads -> Subscribers]
    /\ MaxAttempts \in Nat /\ MaxMsgs \in Nat /\ MaxCrashes \in Nat

VARIABLES
    channel,   \* nsqd: where each message is: unpublished, queued, in flight or gone
    owner,     \* nsqd: the connection each message was last handed to
    attempts,  \* nsqd: how often each message was handed out
    options,   \* the options of each subscription
    connected, \* the subscriptions that nsqd serves
    job,       \* what each goroutine handles: the message, or 0, and event.isAct
    outcomes,  \* history: what the calls of the handler for each message came to
    crashes    \* bound counter

nsqd == <<channel, owner, attempts>>
vars == <<nsqd, options, connected, job, outcomes, crashes>>

Msgs    == 1..MaxMsgs
Options == [AutoAck : BOOLEAN, Retry : BOOLEAN]
Idle    == [msg |-> 0, isAct |-> FALSE]
-----------------------------------------------------------------------------
Init ==
    /\ channel = [m \in Msgs |-> "unpublished"]
    /\ owner = [m \in Msgs |-> CHOOSE s \in Subscribers : TRUE]
    /\ attempts = [m \in Msgs |-> 0]
    /\ options \in [Subscribers -> Options]
    /\ connected = {}
    /\ job = [t \in Threads |-> Idle]
    /\ outcomes = [m \in Msgs |-> {}] /\ crashes = 0

Publish(m) ==
    /\ channel[m] = "unpublished"
    /\ \A n \in Msgs : n < m => channel[n] # "unpublished"
    /\ channel' = [channel EXCEPT ![m] = "queued"]
    /\ UNCHANGED <<owner, attempts, options, connected, job, outcomes, crashes>>

\* newSubscribe: a connection and its handler goroutines.
Subscribe(s) ==
    /\ s \notin connected
    /\ \A t \in Threads : SubOf[t] = s => job[t] = Idle
    /\ connected' = connected \cup {s}
    /\ UNCHANGED <<nsqd, options, job, outcomes, crashes>>

InFlight(m, s) == channel[m] = "inflight" /\ owner[m] = s

\* Mutant: a configuration without MaxAttempts.
GivesUpNever(m) == FALSE

GivesUp(m) == attempts[m] >= MaxAttempts

\* nsqd hands out a message when nothing is in flight to the connection (MaxInFlight is
\* 1 whatever Concurrent is); the client library finishes one that had its attempts.
Deliver(t, m) ==
    /\ SubOf[t] \in connected /\ job[t] = Idle
    /\ channel[m] = "queued" /\ \A n \in Msgs : ~InFlight(n, SubOf[t])
    /\ owner' = [owner EXCEPT ![m] = SubOf[t]]
    /\ IF GivesUp(m)
       THEN /\ channel' = [channel EXCEPT ![m] = "gone"]
            /\ outcomes' = [outcomes EXCEPT ![m] = @ \cup {"gave up"}]
            /\ UNCHANGED <<attempts, job>>
       ELSE /\ channel' = [channel EXCEPT ![m] = "inflight"]
            /\ attempts' = [attempts EXCEPT ![m] = IF @ > MaxAttempts THEN @ ELSE @ + 1]
            /\ job' = [job EXCEPT ![t] = [msg |-> m, isAct |-> FALSE]]
            /\ UNCHANGED outcomes
    /\ UNCHANGED <<options, connected, crashes>>

\* FIN or REQ, which nsqd refuses when the message is not in flight to the connection.
Respond(t, to) ==
    LET m == job[t].msg
    IN channel' = IF to # "none" /\ InFlight(m, SubOf[t])
                  THEN [channel EXCEPT ![m] = to] ELSE channel

\* The handler calls event.Ack or event.Requeue.
Act(t) ==
    /\ job[t] # Idle /\ ~job[t].isAct
    /\ \E to \in {"gone", "queued"} :
          /\ Respond(t, to)
          /\ outcomes' = [outcomes EXCEPT ![job[t].msg] =
                IF to = "gone" THEN @ \cup {"acked"} ELSE @]
    /\ job' = [job EXCEPT ![t].isAct = TRUE]
    /\ UNCHANGED <<owner, attempts, options, connected, crashes>>

\* Mutant: an error with Retry also finishes the message under AutoAck.
ResponseAckFirst(t, err) ==
    LET opt == options[SubOf[t]]
    IN IF job[t].isAct THEN "none"
       ELSE IF opt.AutoAck THEN "gone"
       ELSE IF err /\ opt.Retry THEN "queued" ELSE "none"

\* The deferred function of the handler goroutine.
Response(t, err) ==
    LET opt == options[SubOf[t]]
    IN IF job[t].isAct THEN "none"
       ELSE IF err /\ opt.Retry THEN "queued"
       ELSE IF opt.AutoAck THEN "gone" ELSE "none"

\* A subscription that acknowledges what fails.
Drops(opt) == opt.AutoAck /\ ~opt.Retry

\* The handler returns, or the body is not JSON, which is an error too.  A panic ends in
\* the facade's recover, and is no error to the subscription.
Return(t, result) ==
    /\ job[t] # Idle
    /\ Respond(t, Response(t, result = "error"))
    /\ outcomes' = [outcomes EXCEPT ![job[t].msg] = @ \cup
          {IF result = "error" /\ ~job[t].isAct /\ Drops(options[SubOf[t]])
           THEN "dropped" ELSE result}]
    /\ job' = [job EXCEPT ![t] = Idle]
    /\ UNCHANGED <<owner, attempts, options, connected, crashes>>

\* nsqd takes back a message whose handler did not respond in time.
Timeout(m) ==
    /\ channel[m] = "inflight"
    /\ channel' = [channel EXCEPT ![m] = "queued"]
    /\ UNCHANGED <<owner, attempts, options, connected, job, outcomes, crashes>>

\* Unsubscribe of a connection to nsqd: what is handled can still be responded to.  With
\* nsqlookupd addresses it fails at the last one, and changes nothing.
Unsubscribe(s) ==
    /\ s \in connected
    /\ connected' = connected \ {s}
    /\ UNCHANGED <<nsqd, options, job, outcomes, crashes>>

\* The process dies; nsqd takes back what was in flight to it.
Crash(s) ==
    /\ crashes < MaxCrashes /\ crashes' = crashes + 1
    /\ s \in connected \/ \E t \in Threads : SubOf[t] = s /\ job[t] # Idle
    /\ connected' = connected \ {s}
    /\ job' = [t \in Threads |-> IF SubOf[t] = s THEN Idle ELSE job[t]]
    /\ channel' = [m \in Msgs |-> IF InFlight(m, s) THEN "queued" ELSE channel[m]]
    /\ UNCHANGED <<owner, attempts, options, outcomes>>

Returned(t) == \E result \in {"ok", "error", "panic"} : Return(t, result)

Next ==
    \/ \E m \in Msgs : Publish(m) \/ Timeout(m) \/ \E t \in Threads : Deliver(t, m)
    \/ \E s \in Subscribers : Subscribe(s) \/ Unsubscribe(s) \/ Crash(s)
    \/ \E t \in Threads : Act(t) \/ Returned(t)

Spec == Init /\ [][Next]_vars
-----------------------------------------------------------------------------
\* Every variable holds a value of its type.
NsqTypeOK ==
    /\ channel \in [Msgs -> {"unpublished", "queued", "inflight", "gone"}]
    /\ owner \in [Msgs -> Subscribers] /\ attempts \in [Msgs -> 0..MaxAttempts]
    /\ options \in [Subscribers -> Options] /\ connected \subseteq Subscribers
    /\ job \in [Threads -> [msg : 0..MaxMsgs, isAct : BOOLEAN]]
    /\ outcomes \in [Msgs -> SUBSET {"ok", "error", "dropped", "panic", "acked", "gave up"}]
    /\ crashes \in Nat

\* A message leaves the channel only when a handler dealt with it, acknowledged it or
\* panicked, when the subscription drops what fails, or when its attempts are used up;
\* an error under Retry is never the end of it, although timeouts make several
\* handlers respond for one message (newSubscribe).
RemovedIsSettled ==
    \A m \in Msgs : channel[m] = "gone" =>
        outcomes[m] \cap {"ok", "acked", "panic", "dropped", "gave up"} # {}

\* Every message leaves the channel while a subscription is there, although handlers
\* fail, respond late or not at all and processes die (newSubscribe, NewBroker).
EveryMessageLeaves ==
    \A m \in Msgs : channel[m] = "queued" ~> (channel[m] = "gone" \/ connected = {})
=============================================================================
