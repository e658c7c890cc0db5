---------------------------- MODULE RedisStream ----------------------------
(***************************************************************************)
(* The Redis Stream broker: subscriptions of one topic and one consumer    *)
(* group, the consumer goroutines that read new messages, the claimer      *)
(* goroutine that takes idle pending messages over, and Unsubscribe.       *)
(*                                                                         *)
(* A message is its position in the stream.  The server's side of a call   *)
(* is one atomic step; the goroutine's reaction is that step's or a later  *)
(* one.  A thread is <<s, i>>: consumer goroutine i < Concurrent of        *)
(* subscription s, or its claimer (i = Concurrent).                        *)
(***************************************************************************)
EXTENDS Integers, FiniteSets

CONSTANTS
    Subs,         \* subscriptions (calls of Subscribe) of the topic and group
    Procs,        \* operating system processes
    ProcOf,       \* the process that each subscription runs in
    Stoppable,    \* the subscriptions that may unsubscribe
    CrashProcs,   \* the processes that may crash
    Concurrent,   \* SubscribeOptions.Concurrent, after max(_, 1)
    Count,        \* Config.Count: messages per XREADGROUP, XAUTOCLAIM, XPENDING
    MaxLen,       \* Config.MaxLen, 0: never trimmed
    MaxMsg,       \* bound: messages published
    MaxFaults,    \* bound: calls of the server that fail
    MaxFails,     \* bound: handler calls that leave the message pending
    MaxCounted,   \* bound: where the server's delivery counter stops counting
    NoConsumer    \* the owner of a message that is not pending

ASSUME SubsAssumption ==
    /\ ProcOf \in [Subs -> Procs]
    /\ Stoppable \subseteq Subs
    /\ CrashProcs \subseteq Procs
    /\ Concurrent \in Nat \ {0}
    /\ NoConsumer \notin Procs \X (0..Concurrent-1)

ASSUME LimitAssumption ==
    /\ Count \in Nat \ {0}
    /\ MaxLen \in Nat
    /\ MaxMsg \in Nat /\ MaxFaults \in Nat /\ MaxFails \in Nat /\ MaxCounted \in Nat

VARIABLES
    options,        \* the AutoAck and Retry options of the subscriptions
    lastId,         \* server: the last message of the stream
    first,          \* server: the oldest message that is not trimmed
    grouped,        \* server: the consumer group exists
    lastDelivered,  \* server: the group's last delivered message
    owner,          \* server: the consumer each pending message belongs to
    deliveries,     \* server: the delivery counter of each pending message
    dropped,        \* history: messages that lost their pending entry to XGROUP DELCONSUMER
    status,         \* the life of each subscription
    removed,        \* how many consumers Unsubscribe has tried to delete
    undeleted,      \* subscriptions whose Unsubscribe failed to delete a consumer
    pc,             \* where each goroutine is
    batch,          \* the messages it still has to process
    attempts,       \* the delivery count it will tell the handler
    cursor,         \* the claimer's XAUTOCLAIM cursor, 0 when a scan starts
    outcome,        \* history: what handler calls on a message did
    faults, fails   \* bound counters

server  == <<lastId, first, grouped, lastDelivered, owner, deliveries, dropped>>
subvars == <<status, removed, undeleted>>
threads == <<pc, batch, attempts, cursor>>
bounds  == <<faults, fails>>
vars    == <<options, server, subvars, threads, outcome, bounds>>

Msgs      == 1..MaxMsg
Options   == [autoAck : BOOLEAN, retry : BOOLEAN]
Consumers == Procs \X (0..Concurrent-1)
Threads   == Subs \X (0..Concurrent)

\* Mutant: the claimer has a name of its own, which Unsubscribe does not know.
ConsumerNameOwn(t) == <<ProcOf[t[1]], t[2]>>

\* host-pid-i: the name depends on the process and not on the subscription.
\* The claimer works under the name of consumer 0.
ConsumerName(t) == <<ProcOf[t[1]], IF t[2] = Concurrent THEN 0 ELSE t[2]>>
ThreadsOf(s) == {t \in Threads : t[1] = s}
IsClaimer(t) == t[2] = Concurrent

Pending == {m \in Msgs : owner[m] # NoConsumer}
Trimmed(m) == m < first
LowestOf(S, k) == {m \in S : Cardinality({n \in S : n < m}) < k}
Once == [m \in Msgs |-> 1]

Cancelled(t) == status[t[1]] # "running"
Fault == faults < MaxFaults /\ faults' = faults + 1

\* A call fails because of the server or the network, or its context is cancelled.
CallFails(t) == Fault \/ (Cancelled(t) /\ UNCHANGED faults)
-----------------------------------------------------------------------------
Init ==
    /\ options \in {o \in Options : o.autoAck \/ ~o.retry}
    /\ lastId = 0 /\ first = 1 /\ grouped = FALSE /\ lastDelivered = 0
    /\ owner = [m \in Msgs |-> NoConsumer]
    /\ deliveries = [m \in Msgs |-> 0]
    /\ dropped = {}
    /\ status = [s \in Subs |-> "new"]
    /\ removed = [s \in Subs |-> 0]
    /\ undeleted = {}
    /\ pc = [t \in Threads |-> "none"]
    /\ batch = [t \in Threads |-> {}]
    /\ attempts = [t \in Threads |-> Once]
    /\ cursor = [t \in Threads |-> 0]
    /\ outcome = [m \in Msgs |-> {}]
    /\ faults = 0 /\ fails = 0

\* XADD, which trims old entries approximately: MAXLEN ~ may keep more than MaxLen.
Publish ==
    /\ lastId < MaxMsg
    /\ lastId' = lastId + 1
    /\ \/ first' = first
       \/ /\ MaxLen > 0
          /\ first' \in {f \in first..lastId' : lastId' - f + 1 >= MaxLen}
    /\ UNCHANGED <<options, grouped, lastDelivered, owner, deliveries, dropped,
                   subvars, threads, outcome, bounds>>

\* XGROUP CREATE MKSTREAM from "0"; BUSYGROUP keeps the position of the group.
Subscribe(s) ==
    /\ status[s] = "new"
    /\ status' = [status EXCEPT ![s] = "running"]
    /\ grouped' = TRUE
    /\ lastDelivered' = IF grouped THEN lastDelivered ELSE 0
    /\ pc' = [t \in Threads |-> IF t[1] # s THEN pc[t]
                                ELSE IF IsClaimer(t) THEN "wait" ELSE "poll"]
    /\ UNCHANGED <<options, lastId, first, owner, deliveries, dropped, removed,
                   undeleted, batch, attempts, cursor, outcome, bounds>>
-----------------------------------------------------------------------------
\* XREADGROUP with ">" on the server: the next Count messages become pending.
Undelivered == {m \in Msgs : lastDelivered < m /\ first <= m /\ m <= lastId}

DeliverNew(t, msgs) ==
    /\ msgs = LowestOf(Undelivered, Count)
    /\ msgs # {}
    /\ lastDelivered' \in msgs
    /\ \A m \in msgs : m <= lastDelivered'
    /\ owner' = [m \in Msgs |-> IF m \in msgs THEN ConsumerName(t) ELSE owner[m]]
    /\ deliveries' = [m \in Msgs |-> IF m \in msgs THEN 1 ELSE deliveries[m]]
    /\ UNCHANGED <<lastId, first, grouped, dropped>>

ReadGroup(t) ==
    /\ pc[t] = "poll"
    /\ \E msgs \in SUBSET Msgs :
          /\ DeliverNew(t, msgs)
          /\ batch' = [batch EXCEPT ![t] = msgs]
    /\ pc' = [pc EXCEPT ![t] = "handle"]
    /\ UNCHANGED <<options, subvars, attempts, cursor, outcome, bounds>>

\* XREADGROUP fails in the client, before or after the server delivered.
ReadGroupFails(t) ==
    /\ pc[t] = "poll"
    /\ \/ UNCHANGED server
       \/ \E msgs \in SUBSET Msgs : DeliverNew(t, msgs)
    /\ CallFails(t)
    /\ pc' = [pc EXCEPT ![t] = IF Cancelled(t) THEN "done" ELSE "sleep"]
    /\ UNCHANGED <<options, subvars, batch, attempts, cursor, outcome, fails>>

SleepOver(t) ==
    /\ pc[t] = "sleep" /\ ~Cancelled(t)
    /\ pc' = [pc EXCEPT ![t] = "poll"]
    /\ UNCHANGED <<options, server, subvars, batch, attempts, cursor, outcome, bounds>>

\* The loops return when their context is cancelled.
Return(t) ==
    /\ pc[t] \in {"poll", "sleep", "wait", "claim"} /\ Cancelled(t)
    /\ pc' = [pc EXCEPT ![t] = "done"]
    /\ cursor' = [cursor EXCEPT ![t] = 0]
    /\ UNCHANGED <<options, server, subvars, batch, attempts, outcome, bounds>>
-----------------------------------------------------------------------------
\* The claimer's ticker fires: a scan starts at cursor 0-0.
Tick(t) ==
    /\ pc[t] = "wait" /\ ~Cancelled(t)
    /\ pc' = [pc EXCEPT ![t] = "claim"]
    /\ UNCHANGED <<options, server, subvars, batch, attempts, cursor, outcome, bounds>>

\* XAUTOCLAIM on the server: old is the set of pending entries that have been idle for
\* ClaimMinIdle, handled at this moment or not.  The page is the next Count of them from
\* the cursor on; entries whose message is trimmed are deleted, the others change owner.
\* (Mutant: the claimer only takes its own messages back.)
PageOfOwn(t, old) ==
    LowestOf({m \in old : m >= cursor[t] /\ owner[m] = ConsumerName(t)}, Count)

Page(t, old) == LowestOf({m \in old : m >= cursor[t]}, Count)

NextCursor(page) ==
    LET rest == {m \in Pending : \A n \in page : n < m}
    IN  IF Cardinality(page) = Count THEN LowestOf(rest, 1) ELSE {}

Claim(t, page) ==
    /\ owner' = [m \in Msgs |-> IF m \notin page THEN owner[m]
                                ELSE IF Trimmed(m) THEN NoConsumer ELSE ConsumerName(t)]
    /\ deliveries' = [m \in Msgs |-> IF m \in page /\ deliveries[m] < MaxCounted
                                     THEN deliveries[m] + 1 ELSE deliveries[m]]
    /\ UNCHANGED <<lastId, first, grouped, lastDelivered, dropped>>

AutoClaim(t, old) ==
    /\ pc[t] = "claim"
    /\ LET page    == Page(t, old)
           claimed == {m \in page : ~Trimmed(m)}
           next    == NextCursor(page)
       IN  /\ Claim(t, page)
           /\ batch' = [batch EXCEPT ![t] = claimed]
           /\ \/ next = {} /\ cursor' = [cursor EXCEPT ![t] = 0]
              \/ \E m \in next : cursor' = [cursor EXCEPT ![t] = m]
           /\ pc' = [pc EXCEPT ![t] = IF claimed # {} THEN "attempts"
                                      ELSE IF next = {} THEN "wait" ELSE "claim"]
    /\ UNCHANGED <<options, subvars, attempts, outcome, bounds>>

\* XAUTOCLAIM fails in the client: the scan ends, on the server it may be done.
AutoClaimFails(t) ==
    /\ pc[t] = "claim"
    /\ UNCHANGED server \/ \E old \in SUBSET Pending : Claim(t, Page(t, old))
    /\ CallFails(t)
    /\ pc' = [pc EXCEPT ![t] = "wait"]
    /\ cursor' = [cursor EXCEPT ![t] = 0]
    /\ UNCHANGED <<options, subvars, batch, attempts, outcome, fails>>

\* pendingAttempts: XPENDING - + Count of the own consumer; 1 for what it does not list.
PendingAttempts(t) ==
    /\ pc[t] = "attempts"
    /\ LET listed == LowestOf({m \in Msgs : owner[m] = ConsumerName(t)}, Count)
       IN  \/ /\ attempts' = [attempts EXCEPT ![t] =
                       [m \in Msgs |-> IF m \in listed THEN deliveries[m] ELSE 1]]
              /\ UNCHANGED faults
           \/ /\ attempts' = [attempts EXCEPT ![t] = Once]
              /\ CallFails(t)
    /\ pc' = [pc EXCEPT ![t] = "handle"]
    /\ UNCHANGED <<options, server, subvars, batch, cursor, outcome, fails>>
-----------------------------------------------------------------------------
\* process: the messages of a batch are handled one by one, in stream order.
Current(t, m) == m \in batch[t] /\ \A n \in batch[t] : m <= n

\* Mutants: Retry is not looked at; whatever succeeded is acked.
DecideAckNoRetry(failed, acted) == ~options.autoAck => acted
DecideAckReturned(failed, acted) == acted \/ ~failed

\* decideAck
DecideAck(failed, acted) ==
    IF ~options.autoAck THEN acted ELSE failed => ~options.retry

\* What follows the message in the loops: the next of the batch, the next XREADGROUP
\* unless the context is cancelled, the next page of the scan or the next tick.
AfterMessage(t, m) ==
    /\ batch' = [batch EXCEPT ![t] = @ \ {m}]
    /\ attempts' = [attempts EXCEPT ![t][m] = 1]
    /\ pc' = [pc EXCEPT ![t] =
                IF batch[t] # {m} THEN "handle"
                ELSE IF IsClaimer(t)
                     THEN IF cursor[t] = 0 \/ Cancelled(t) THEN "wait" ELSE "claim"
                     ELSE IF Cancelled(t) THEN "done" ELSE "poll"]

\* The handler returns; acted: it called event.Ack, which only counts without AutoAck.
Handle(t) ==
    /\ pc[t] = "handle"
    /\ \E m \in batch[t], failed, acted \in BOOLEAN :
          /\ Current(t, m)
          /\ acted => ~options.autoAck
          /\ outcome' = [outcome EXCEPT ![m] = @ \cup
                (IF acted THEN {"act"} ELSE IF failed THEN {"fail"} ELSE {"ok"})]
          /\ IF DecideAck(failed, acted)
             THEN /\ pc' = [pc EXCEPT ![t] = "ack"]
                  /\ UNCHANGED <<batch, attempts, fails>>
             ELSE /\ fails < MaxFails /\ fails' = fails + 1
                  /\ AfterMessage(t, m)
    /\ UNCHANGED <<options, server, subvars, cursor, faults>>

\* XACK removes the pending entry, whoever owns it now.
Ack(t) ==
    /\ pc[t] = "ack"
    /\ \E m \in batch[t] :
          /\ Current(t, m)
          /\ owner' = [owner EXCEPT ![m] = NoConsumer]
          /\ AfterMessage(t, m)
    /\ UNCHANGED <<options, lastId, first, grouped, lastDelivered, deliveries, dropped,
                   subvars, cursor, outcome, bounds>>

\* XACK does not reach the server: the call fails, or its context is cancelled.
AckFails(t) ==
    /\ pc[t] = "ack"
    /\ CallFails(t)
    /\ \E m \in batch[t] : Current(t, m) /\ AfterMessage(t, m)
    /\ UNCHANGED <<options, server, subvars, cursor, outcome, fails>>
-----------------------------------------------------------------------------
\* Unsubscribe: cancel, wait for the goroutines, delete the consumers one by one.
Cancel(s) ==
    /\ s \in Stoppable /\ status[s] = "running"
    /\ status' = [status EXCEPT ![s] = "stopping"]
    /\ UNCHANGED <<options, server, removed, undeleted, threads, outcome, bounds>>

\* Mutant: the WaitGroup does not count the claimer.
ReadersDone(s) == \A t \in ThreadsOf(s) : ~IsClaimer(t) => pc[t] = "done"

AllDone(s) == \A t \in ThreadsOf(s) : pc[t] = "done"

\* XGROUP DELCONSUMER deletes the pending entries of the consumer with it; when the
\* call fails the server may have done it.
DelConsumer(s) ==
    /\ status[s] = "stopping" /\ AllDone(s)
    /\ LET lost == {m \in Msgs : owner[m] = <<ProcOf[s], removed[s]>>}
           deleted == /\ owner' = [m \in Msgs |-> IF m \in lost THEN NoConsumer ELSE owner[m]]
                      /\ dropped' = dropped \cup lost
       IN  \/ deleted /\ UNCHANGED <<undeleted, faults>>
           \/ /\ Fault
              /\ undeleted' = undeleted \cup {s}
              /\ deleted \/ UNCHANGED <<owner, dropped>>
    /\ removed' = [removed EXCEPT ![s] = @ + 1]
    /\ status' = [status EXCEPT ![s] = IF removed'[s] = Concurrent THEN "closed" ELSE @]
    /\ UNCHANGED <<options, lastId, first, grouped, lastDelivered, deliveries, threads,
                   outcome, fails>>

\* A process dies with its subscriptions; the server keeps their pending entries.
Crash(p) ==
    /\ p \in CrashProcs
    /\ \E s \in Subs : ProcOf[s] = p /\ status[s] \in {"running", "stopping"}
    /\ status' = [s \in Subs |-> IF ProcOf[s] = p THEN "crashed" ELSE status[s]]
    /\ pc' = [t \in Threads |-> IF ProcOf[t[1]] = p THEN "done" ELSE pc[t]]
    /\ batch' = [t \in Threads |-> IF ProcOf[t[1]] = p THEN {} ELSE batch[t]]
    /\ attempts' = [t \in Threads |-> IF ProcOf[t[1]] = p THEN Once ELSE attempts[t]]
    /\ cursor' = [t \in Threads |-> IF ProcOf[t[1]] = p THEN 0 ELSE cursor[t]]
    /\ UNCHANGED <<options, server, removed, undeleted, outcome, bounds>>

ThreadStep(t) ==
    \/ ReadGroup(t) \/ ReadGroupFails(t) \/ SleepOver(t) \/ Return(t)
    \/ Tick(t) \/ (\E old \in SUBSET Pending : AutoClaim(t, old))
    \/ AutoClaimFails(t) \/ PendingAttempts(t) \/ Handle(t) \/ Ack(t) \/ AckFails(t)

Next ==
    \/ Publish
    \/ \E s \in Subs : Subscribe(s) \/ Cancel(s) \/ DelConsumer(s)
    \/ \E t \in Threads : ThreadStep(t)
    \/ \E p \in Procs : Crash(p)

Spec == Init /\ [][Next]_vars

\* Goroutines are scheduled, handlers and calls return; and time passes: a claimer that
\* goes on scanning has a scan at which all that is pending has been idle long enough.
FairSpec ==
    /\ Spec
    /\ \A t \in Threads : WF_vars(ThreadStep(t)) /\ SF_vars(AutoClaim(t, Pending))
-----------------------------------------------------------------------------
Statuses == {"new", "running", "stopping", "closed", "crashed"}
Places   == {"none", "poll", "sleep", "handle", "ack", "wait", "claim", "attempts", "done"}

\* Every variable of the broker and of the server holds a value of its type.
TypeOK ==
    /\ options \in Options
    /\ lastId \in Nat /\ first \in Nat /\ lastDelivered \in Nat
    /\ faults \in Nat /\ fails \in Nat
    /\ grouped \in BOOLEAN
    /\ owner \in [Msgs -> Consumers \cup {NoConsumer}]
    /\ deliveries \in [Msgs -> Nat]
    /\ dropped \subseteq Msgs
    /\ status \in [Subs -> Statuses]
    /\ removed \in [Subs -> Nat]
    /\ undeleted \subseteq Subs
    /\ pc \in [Threads -> Places]
    /\ batch \in [Threads -> SUBSET Msgs]
    /\ attempts \in [Threads -> [Msgs -> Nat]]
    /\ cursor \in [Threads -> Nat]
    /\ outcome \in [Msgs -> SUBSET {"ok", "fail", "act"}]

\* The handler has done what the options of the subscription ask for before the
\* message may leave the pending list: succeeded (Retry), returned at all (no Retry),
\* or called Ack (NotAutoAck).
Settled(m) ==
    IF ~options.autoAck THEN "act" \in outcome[m]
    ELSE IF options.retry THEN "ok" \in outcome[m]
    ELSE outcome[m] # {}

\* Whatever the interleaving of readers, claimers, slow handlers, lost replies, failed
\* acks and crashes: a message that the group was given and that is not settled stays
\* pending, so that a claimer finds it, unless the stream was trimmed past it or
\* Unsubscribe deleted the consumer that owned it (process, decideAck, claimOnce).
UnsettledStaysPending ==
    \A m \in Msgs : m <= lastDelivered /\ ~Settled(m) =>
        m \in Pending \/ Trimmed(m) \/ m \in dropped

\* Once Unsubscribe has returned without an error, no goroutine of the subscription
\* runs and no pending message is left with a consumer one of them read or claimed as:
\* nothing waits under a name nobody reads (Unsubscribe: cancel, Wait, DELCONSUMER).
ClosedOwnsNothing ==
    \A s \in Subs : status[s] = "closed" /\ s \notin undeleted =>
        \A t \in ThreadsOf(s) :
            /\ pc[t] = "done"
            /\ \A m \in Msgs : owner[m] # ConsumerName(t)

\* Unsubscribe deletes only consumers that are offline: no goroutine, of any
\* subscription, still reads, claims or handles under a name when its pending entries
\* are deleted (Unsubscribe waits for the goroutines before it deletes).
OnlyOfflineConsumersDeleted ==
    [][\A t \in Threads : pc[t] \notin {"none", "done"} =>
          \A m \in dropped' \ dropped : owner[m] # ConsumerName(t)]_vars

\* While a subscription that nobody stops is running, every published message leaves
\* the stream or the pending list: what failed, what a crashed process was given and
\* what was delivered with a lost reply is claimed and handled again (runClaimer).
EventuallyDone ==
    \A m \in Msgs :
        ((\E s \in Subs \ Stoppable : status[s] = "running") /\ m <= lastId)
            ~> (Trimmed(m) \/ (m <= lastDelivered /\ m \notin Pending))

\* The broker keeps the promise of a group: a message leaves only when it is settled, or
\* trimmed, or deleted with its consumer, and never comes back; every step of a goroutine,
\* a claim, a lost reply or a crash is no step of the promise, or one that it allows.
Promise == INSTANCE GroupDelivery WITH
    Messages  <- Msgs,
    Earlier   <- [m \in Msgs |-> {}],
    published <- 1..lastId,
    open      <- {m \in first..lastId : lastDelivered < m \/ m \in Pending},
    lost      <- (1..first-1) \cup dropped

KeepsPromise == Promise!Spec

\* Redelivery tells the handler how often the message was delivered, so a handler that
\* caps its attempts sees more than 1 for a message that is still pending under the
\* claimer's name (pendingAttempts falls back to 1 when its query fails, and for a
\* message that was acknowledged or claimed away before the query).
RedeliveryIsCounted ==
    \A t \in Threads : IsClaimer(t) /\ pc[t] = "handle" /\ faults = 0 =>
        \A m \in batch[t] : owner[m] = ConsumerName(t) => attempts[t][m] > 1

\* With Retry a message whose handling failed stays pending until it is reclaimed:
\* Unsubscribe deletes no message that a handler failed and none has handled since.
RetrySurvivesUnsubscribe ==
    options.autoAck /\ options.retry =>
        \A m \in dropped : "fail" \in outcome[m] => Settled(m)
=============================================================================
