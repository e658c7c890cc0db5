---------------------------- MODULE KafkaReader ----------------------------
(***************************************************************************)
(* The Kafka broker: subscriptions of one topic and one consumer group,    *)
(* each with Concurrent readers that fetch, handle and commit one message  *)
(* at a time, and Unsubscribe.  Partitions are shared out by the group's   *)
(* coordinator, which is not code of this repository: a rebalance starts   *)
(* every partition again at its committed offset, and a commit moves the   *)
(* partition's offset to the message's successor, backwards as well.       *)
(***************************************************************************)
EXTENDS Integers

CONSTANTS
    Subs,        \* subscriptions of the topic and group
    Stoppable,   \* those that may unsubscribe
    Crashable,   \* those whose process may crash
    Concurrent,  \* SubscribeOptions.Concurrent, after max(_, 1)
    Parts,       \* the partitions of the topic
    MaxMsg,      \* bound: messages published to each partition
    MaxFaults,   \* bound: failing commits and rebalances without a cause
    MaxFails     \* bound: handler calls that commit nothing

Readers == Subs \X (1..Concurrent)
Offsets == 0..MaxMsg-1
NotRead == -1

ASSUME KafkaAssumption ==
    /\ Stoppable \subseteq Subs /\ Crashable \subseteq Subs
    /\ Concurrent \in Nat \ {0}
    /\ Parts # {} /\ MaxMsg \in Nat \ {0}
    /\ MaxFaults \in Nat /\ MaxFails \in Nat

VARIABLES
    options,     \* the AutoAck and Retry options of the subscriptions
    end,         \* cluster: the end offset of each partition
    committed,   \* cluster: the group's committed offset in each partition
    unbalanced,  \* coordinator: members came or went since the last rebalance
    position,    \* the next offset each reader fetches of each partition, or NotRead
    status,      \* the life of each subscription
    pc,          \* where each reader's goroutine is
    current,     \* the message it processes: <<partition, offset>>
    outcome,     \* history: what handler calls on a message did
    faults, fails  \* bound counters

group  == <<unbalanced, position>>
locals == <<pc, current>>
bounds == <<faults, fails>>
vars   == <<options, end, committed, group, status, locals, outcome, bounds>>

Options  == [autoAck : BOOLEAN, retry : BOOLEAN]
Messages == Parts \X Offsets
Members  == {r \in Readers : status[r[1]] \in {"running", "stopping"}}
Cancelled(r) == status[r[1]] # "running"
Fault == faults < MaxFaults /\ faults' = faults + 1
-----------------------------------------------------------------------------
Init ==
    /\ options \in {o \in Options : o.autoAck \/ ~o.retry}
    /\ end = [p \in Parts |-> 0]
    /\ committed = [p \in Parts |-> 0]
    /\ unbalanced = FALSE
    /\ position = [r \in Readers |-> [p \in Parts |-> NotRead]]
    /\ status = [s \in Subs |-> "new"]
    /\ pc = [r \in Readers |-> "none"]
    /\ current = [r \in Readers |-> CHOOSE m \in Messages : TRUE]
    /\ outcome = [m \in Messages |-> {}]
    /\ faults = 0 /\ fails = 0

Publish(p) ==
    /\ end[p] < MaxMsg
    /\ end' = [end EXCEPT ![p] = @ + 1]
    /\ UNCHANGED <<options, committed, group, status, locals, outcome, bounds>>

\* newSubscribe: one reader and one goroutine for each of Concurrent.
Subscribe(s) ==
    /\ status[s] = "new"
    /\ status' = [status EXCEPT ![s] = "running"]
    /\ pc' = [r \in Readers |-> IF r[1] = s THEN "fetch" ELSE pc[r]]
    /\ unbalanced' = TRUE
    /\ UNCHANGED <<options, end, committed, position, current, outcome, bounds>>

\* Mutant: a reader starts a partition at its end.
StartAtEnd(p) == end[p]

\* A reader of the group starts a partition at the committed offset.
StartOffset(p) == committed[p]

\* The coordinator shares the partitions out among the members of the group, which
\* start at the committed offsets; a reader that has left keeps what it has buffered.
Rebalance ==
    /\ Members # {}
    /\ Fault \/ (unbalanced /\ UNCHANGED faults)
    /\ \E assigned \in [Parts -> Members] :
          position' = [r \in Readers |-> [p \in Parts |->
              IF r \notin Members THEN position[r][p]
              ELSE IF assigned[p] = r THEN StartOffset(p) ELSE NotRead]]
    /\ unbalanced' = FALSE
    /\ UNCHANGED <<options, end, committed, status, locals, outcome, fails>>

\* FetchMessage returns the next message, even if its context is cancelled already.
Fetch(r) ==
    /\ pc[r] = "fetch"
    /\ \E p \in Parts :
          /\ position[r][p] \in 0..end[p]-1
          /\ current' = [current EXCEPT ![r] = <<p, position[r][p]>>]
          /\ position' = [position EXCEPT ![r][p] = @ + 1]
    /\ pc' = [pc EXCEPT ![r] = "handle"]
    /\ UNCHANGED <<options, end, committed, unbalanced, status, outcome, bounds>>

\* FetchMessage fails because the context is cancelled or the reader closed.
Return(r) ==
    /\ pc[r] = "fetch" /\ Cancelled(r)
    /\ pc' = [pc EXCEPT ![r] = "done"]
    /\ UNCHANGED <<options, end, committed, group, status, current, outcome, bounds>>

\* Mutant: Retry is not looked at.
DecideCommitNoRetry(failed, acted) == ~options.autoAck => acted

\* decideCommit
DecideCommit(failed, acted) ==
    IF ~options.autoAck THEN acted ELSE failed => ~options.retry

\* The handler returns; acted: it called event.Ack, which only counts without AutoAck.
Handle(r) ==
    /\ pc[r] = "handle"
    /\ \E failed, acted \in BOOLEAN :
          /\ acted => ~options.autoAck
          /\ outcome' = [outcome EXCEPT ![current[r]] = @ \cup
                (IF acted THEN {"act"} ELSE IF failed THEN {"fail"} ELSE {"ok"})]
          /\ IF DecideCommit(failed, acted)
             THEN /\ pc' = [pc EXCEPT ![r] = "commit"]
                  /\ UNCHANGED fails
             ELSE /\ pc' = [pc EXCEPT ![r] = "fetch"]
                  /\ fails < MaxFails /\ fails' = fails + 1
    /\ UNCHANGED <<options, end, committed, group, status, current, faults>>

\* Mutant: the caller adds one to an offset that CommitMessages increments.
OffsetAfterNext(m) == m[2] + 2

OffsetAfter(m) == m[2] + 1

\* CommitMessages: the group's offset becomes the one after the message.
Commit(r) ==
    /\ pc[r] = "commit" /\ r \in Members
    /\ committed' = [committed EXCEPT ![current[r][1]] = OffsetAfter(current[r])]
    /\ pc' = [pc EXCEPT ![r] = "fetch"]
    /\ UNCHANGED <<options, end, group, status, current, outcome, bounds>>

\* Mutant: the goroutine returns when a commit fails.
CommitFailsReturn(r) ==
    /\ pc[r] = "commit" /\ Fault
    /\ pc' = [pc EXCEPT ![r] = "done"]
    /\ UNCHANGED <<options, end, committed, group, status, current, outcome, fails>>

\* CommitMessages fails, or its context is cancelled: the loop goes on.
CommitFails(r) ==
    /\ pc[r] = "commit"
    /\ Fault \/ (Cancelled(r) /\ UNCHANGED faults)
    /\ pc' = [pc EXCEPT ![r] = "fetch"]
    /\ UNCHANGED <<options, end, committed, group, status, current, outcome, fails>>

\* Unsubscribe: cancel, close the readers (they leave the group), wait.
Cancel(s) ==
    /\ s \in Stoppable /\ status[s] = "running"
    /\ status' = [status EXCEPT ![s] = "stopping"]
    /\ UNCHANGED <<options, end, committed, group, locals, outcome, bounds>>

CloseReaders(s) ==
    /\ status[s] = "stopping"
    /\ status' = [status EXCEPT ![s] = "left"]
    /\ unbalanced' = TRUE
    /\ UNCHANGED <<options, end, committed, position, locals, outcome, bounds>>

WaitReaders(s) ==
    /\ status[s] = "left"
    /\ \A r \in Readers : r[1] = s => pc[r] = "done"
    /\ status' = [status EXCEPT ![s] = "closed"]
    /\ UNCHANGED <<options, end, committed, group, locals, outcome, bounds>>

\* The process dies; the coordinator notices by the missing heartbeats.
Crash(s) ==
    /\ s \in Crashable /\ status[s] \in {"running", "stopping", "left"}
    /\ status' = [status EXCEPT ![s] = "crashed"]
    /\ pc' = [r \in Readers |-> IF r[1] = s THEN "done" ELSE pc[r]]
    /\ unbalanced' = TRUE
    /\ UNCHANGED <<options, end, committed, position, current, outcome, bounds>>

ReaderStep(r) ==
    Fetch(r) \/ Return(r) \/ Handle(r) \/ Commit(r) \/ CommitFails(r)

Next ==
    \/ \E p \in Parts : Publish(p)
    \/ \E s \in Subs : Subscribe(s) \/ Cancel(s) \/ CloseReaders(s) \/ WaitReaders(s) \/ Crash(s)
    \/ Rebalance
    \/ \E r \in Readers : ReaderStep(r)

Spec == Init /\ [][Next]_vars

\* Goroutines are scheduled (an Unsubscribe that began goes on), handlers and calls
\* return, and the coordinator rebalances.
FairSpec ==
    /\ Spec /\ WF_vars(Rebalance)
    /\ \A s \in Subs : WF_vars(CloseReaders(s) \/ WaitReaders(s))
    /\ \A r \in Readers : WF_vars(ReaderStep(r))
-----------------------------------------------------------------------------
\* Every variable holds a value of its type.
TypeOK ==
    /\ options \in Options
    /\ end \in [Parts -> 0..MaxMsg] /\ committed \in [Parts -> 0..MaxMsg]
    /\ position \in [Readers -> [Parts -> Nat \cup {NotRead}]]
    /\ unbalanced \in BOOLEAN
    /\ status \in [Subs -> {"new", "running", "stopping", "left", "closed", "crashed"}]
    /\ pc \in [Readers -> {"none", "fetch", "handle", "commit", "done"}]
    /\ current \in [Readers -> Messages]
    /\ outcome \in [Messages -> SUBSET {"ok", "fail", "act"}]
    /\ faults \in Nat /\ fails \in Nat

Handled(m) == outcome[m] # {}

\* What the options of the subscription ask for before a message may be committed.
Settled(m) ==
    IF ~options.autoAck THEN "act" \in outcome[m]
    ELSE IF options.retry THEN "ok" \in outcome[m]
    ELSE Handled(m)

\* The messages of a partition reach the handler without a gap, through rebalances,
\* crashes, late commits that move the offset back and skipped commits: when a message
\* was handled, all those before it were handled too (runReader).
HandledIsPrefix ==
    \A p \in Parts : \A o \in Offsets : Handled(<<p, o>>) =>
        \A n \in Offsets : n < o => Handled(<<p, n>>)

\* Every message below the committed offset was handled, and the one the offset was
\* moved past last is settled: a restarted group resumes after work that was done.
CommitFollowsHandling ==
    \A p \in Parts :
        /\ \A o \in Offsets : o < committed[p] => Handled(<<p, o>>)
        /\ committed[p] > 0 => Settled(<<p, committed[p] - 1>>)

\* While a subscription that nobody stops is running, every published message is
\* handled: also what a reader had fetched that crashed or unsubscribed.
EventuallyHandled ==
    \A p \in Parts : \A o \in Offsets :
        ((\E s \in Subs \ (Stoppable \cup Crashable) : status[s] = "running") /\ o < end[p])
            ~> Handled(<<p, o>>)

\* The readers keep the promise of a group: a message is handled when those before it in
\* its partition were, the offset passes it when it is settled, and what a late commit
\* opens again is only handled again.
Promise == INSTANCE GroupDelivery WITH
    Messages  <- Messages,
    Earlier   <- [m \in Messages |-> {n \in Messages : n[1] = m[1] /\ n[2] < m[2]}],
    published <- {m \in Messages : m[2] < end[m[1]]},
    open      <- {m \in Messages : committed[m[1]] <= m[2] /\ m[2] < end[m[1]]},
    lost      <- {}

KeepsPromise == Promise!Spec

\* With Retry a failed message blocks its partition: later messages wait until the
\* message was redelivered and handled.
RetryBlocksPartition ==
    options.autoAck /\ options.retry =>
        \A p \in Parts : \A o, n \in Offsets :
            o < n /\ Handled(<<p, n>>) => Settled(<<p, o>>)
=============================================================================
