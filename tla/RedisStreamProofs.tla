------------------------- MODULE RedisStreamProofs -------------------------
(***************************************************************************)
(* Proofs about RedisStream, for every number of subscriptions, processes, *)
(* consumers and messages, every page size and any bound.                  *)
(***************************************************************************)
EXTENDS RedisStream, FiniteSetTheorems, TLAPS

\* The name of every goroutine's consumer is a consumer name, and no consumer is
\* NoConsumer: an entry that was given or claimed is pending.
LEMMA NameIsConsumer ==
    ASSUME NEW t \in Threads
    PROVE  /\ ConsumerName(t) \in Consumers
           /\ ConsumerName(t) # NoConsumer
  <1>1. t[1] \in Subs /\ t[2] \in 0..Concurrent
    BY DEF Threads
  <1>2. ProcOf[t[1]] \in Procs
    BY <1>1, SubsAssumption
  <1>3. (IF t[2] = Concurrent THEN 0 ELSE t[2]) \in 0..Concurrent-1
    BY <1>1, SubsAssumption
  <1>. QED
    BY <1>2, <1>3, SubsAssumption DEF ConsumerName, Consumers

\* What XREADGROUP and XAUTOCLAIM take is a part of what they choose from.
LEMMA LowestOfSubset ==
    ASSUME NEW S, NEW k
    PROVE  LowestOf(S, k) \subseteq S
  BY DEF LowestOf

\* They skip nothing: below a message that is taken every candidate is taken too.
LEMMA LowestOfDownward ==
    ASSUME NEW S \in SUBSET Msgs, NEW d \in LowestOf(S, Count), NEW m \in S, m <= d
    PROVE  m \in LowestOf(S, Count)
  <1>. DEFINE Below(x) == {n \in S : n < x}
  <1>1. d \in S /\ m \in Int /\ d \in Int /\ \A n \in S : n \in Int
    BY LimitAssumption DEF LowestOf, Msgs
  <1>2. Below(m) \subseteq Below(d)
    BY <1>1, \A n \in S : n < m => n < d
  <1>3. IsFiniteSet(Msgs)
    BY FS_Interval, LimitAssumption DEF Msgs
  <1>4. IsFiniteSet(Below(d))
    BY <1>3, FS_Subset
  <1>5. /\ Cardinality(Below(m)) <= Cardinality(Below(d))
        /\ Cardinality(Below(m)) \in Nat /\ Cardinality(Below(d)) \in Nat
    BY <1>2, <1>4, FS_Subset, FS_CardinalityType
  <1>6. Cardinality(Below(d)) < Count
    BY DEF LowestOf
  <1>. QED
    BY <1>5, <1>6, LimitAssumption DEF LowestOf
-----------------------------------------------------------------------------
LEMMA InitTypeOK == Init => TypeOK
  <1>. SUFFICES ASSUME Init
               PROVE  TypeOK
    OBVIOUS
  <1>1. attempts \in [Threads -> [Msgs -> Nat]]
    BY DEF Init, Once
  <1>2. options \in Options /\ outcome \in [Msgs -> SUBSET {"ok", "fail", "act"}]
    BY DEF Init
  <1>. QED
    BY <1>1, <1>2 DEF Init, TypeOK, Statuses, Places

LEMMA DeliverType ==
    ASSUME TypeOK, NEW t \in Threads, NEW msgs \in SUBSET Msgs, DeliverNew(t, msgs)
    PROVE  /\ lastId' \in Nat /\ first' \in Nat /\ lastDelivered' \in Nat
           /\ grouped' \in BOOLEAN
           /\ owner' \in [Msgs -> Consumers \cup {NoConsumer}]
           /\ deliveries' \in [Msgs -> Nat]
           /\ dropped' \subseteq Msgs
  BY NameIsConsumer DEF TypeOK, DeliverNew, Msgs

LEMMA ClaimType ==
    ASSUME TypeOK, NEW t \in Threads, NEW page, Claim(t, page)
    PROVE  /\ lastId' \in Nat /\ first' \in Nat /\ lastDelivered' \in Nat
           /\ grouped' \in BOOLEAN
           /\ owner' \in [Msgs -> Consumers \cup {NoConsumer}]
           /\ deliveries' \in [Msgs -> Nat]
           /\ dropped' \subseteq Msgs
  BY NameIsConsumer DEF TypeOK, Claim

LEMMA AfterMessageType ==
    ASSUME TypeOK, NEW t \in Threads, NEW m \in Msgs, AfterMessage(t, m)
    PROVE  /\ pc' \in [Threads -> Places]
           /\ batch' \in [Threads -> SUBSET Msgs]
           /\ attempts' \in [Threads -> [Msgs -> Nat]]
  <1>1. pc' \in [Threads -> Places]
    BY DEF AfterMessage, TypeOK, Places
  <1>2. batch' \in [Threads -> SUBSET Msgs]
    BY DEF AfterMessage, TypeOK
  <1>3. attempts' \in [Threads -> [Msgs -> Nat]]
    BY DEF AfterMessage, TypeOK
  <1>. QED
    BY <1>1, <1>2, <1>3

\* No step takes a variable out of its type.
LEMMA NextTypeOK == TypeOK /\ [Next]_vars => TypeOK'
  <1>. SUFFICES ASSUME TypeOK, [Next]_vars
               PROVE  TypeOK'
    OBVIOUS
  <1>. USE DEF server, subvars, threads, bounds
  <1>1. CASE Publish
    BY <1>1 DEF Publish, TypeOK
  <1>2. ASSUME NEW s \in Subs, Subscribe(s) PROVE TypeOK'
    BY <1>2 DEF Subscribe, TypeOK, Statuses, Places
  <1>3. ASSUME NEW s \in Subs, Cancel(s) PROVE TypeOK'
    BY <1>3 DEF Cancel, TypeOK, Statuses
  <1>4. ASSUME NEW s \in Subs, DelConsumer(s) PROVE TypeOK'
    <2>. DEFINE lost == {m \in Msgs : owner[m] = <<ProcOf[s], removed[s]>>}
    <2>1. \/ /\ owner' = [m \in Msgs |-> IF m \in lost THEN NoConsumer ELSE owner[m]]
             /\ dropped' = dropped \cup lost
          \/ UNCHANGED <<owner, dropped>>
      BY <1>4 DEF DelConsumer
    <2>2. /\ owner' \in [Msgs -> Consumers \cup {NoConsumer}] /\ dropped' \subseteq Msgs
      BY <2>1 DEF TypeOK
    <2>3. /\ undeleted' \subseteq Subs /\ faults' \in Nat
      <3>1. \/ UNCHANGED <<undeleted, faults>>
            \/ undeleted' = undeleted \cup {s} /\ Fault
        BY <1>4 DEF DelConsumer
      <3>. QED
        BY <3>1 DEF TypeOK, Fault
    <2>4. removed' \in [Subs -> Nat] /\ status' \in [Subs -> Statuses]
      BY <1>4 DEF DelConsumer, TypeOK, Statuses
    <2>5. UNCHANGED <<options, lastId, first, grouped, lastDelivered, deliveries, threads,
                      outcome, fails>>
      BY <1>4 DEF DelConsumer
    <2>. QED
      BY <2>2, <2>3, <2>4, <2>5 DEF TypeOK
  <1>5. ASSUME NEW t \in Threads, ReadGroup(t) PROVE TypeOK'
    BY <1>5, DeliverType DEF ReadGroup, TypeOK, Places
  <1>6. ASSUME NEW t \in Threads, ReadGroupFails(t) PROVE TypeOK'
    BY <1>6, DeliverType DEF ReadGroupFails, TypeOK, Places, CallFails, Fault
  <1>7. ASSUME NEW t \in Threads, SleepOver(t) PROVE TypeOK'
    BY <1>7 DEF SleepOver, TypeOK, Places
  <1>8. ASSUME NEW t \in Threads, Return(t) PROVE TypeOK'
    BY <1>8 DEF Return, TypeOK, Places
  <1>9. ASSUME NEW t \in Threads, Tick(t) PROVE TypeOK'
    BY <1>9 DEF Tick, TypeOK, Places
  <1>10. ASSUME NEW t \in Threads, NEW old \in SUBSET Pending, AutoClaim(t, old)
         PROVE TypeOK'
    <2>. DEFINE page == Page(t, old)
    <2>1. page \subseteq Msgs
      BY LowestOfSubset DEF Page, Pending
    <2>2. NextCursor(page) \subseteq Msgs
      BY LowestOfSubset DEF NextCursor, Pending
    <2>3. Claim(t, page)
      BY <1>10 DEF AutoClaim
    <2>4. cursor' \in [Threads -> Nat]
      <3>1. \/ cursor' = [cursor EXCEPT ![t] = 0]
            \/ \E m \in NextCursor(page) : cursor' = [cursor EXCEPT ![t] = m]
        BY <1>10 DEF AutoClaim
      <3>2. \E m \in Nat : cursor' = [cursor EXCEPT ![t] = m]
        BY <2>2, <3>1 DEF Msgs
      <3>. QED
        BY <3>2 DEF TypeOK
    <2>5. batch' \in [Threads -> SUBSET Msgs]
      BY <1>10, <2>1 DEF AutoClaim, TypeOK
    <2>6. pc' \in [Threads -> Places]
      BY <1>10 DEF AutoClaim, TypeOK, Places
    <2>. QED
      BY <1>10, <2>3, <2>4, <2>5, <2>6, ClaimType DEF AutoClaim, TypeOK
  <1>11. ASSUME NEW t \in Threads, AutoClaimFails(t) PROVE TypeOK'
    BY <1>11, ClaimType DEF AutoClaimFails, TypeOK, Places, CallFails, Fault
  <1>12. ASSUME NEW t \in Threads, PendingAttempts(t) PROVE TypeOK'
    <2>1. attempts' \in [Threads -> [Msgs -> Nat]]
      <3>1. \A listed : [m \in Msgs |-> IF m \in listed THEN deliveries[m] ELSE 1]
                            \in [Msgs -> Nat]
        BY DEF TypeOK
      <3>2. Once \in [Msgs -> Nat]
        BY DEF Once
      <3>3. \E f \in [Msgs -> Nat] : attempts' = [attempts EXCEPT ![t] = f]
        BY <1>12, <3>1, <3>2 DEF PendingAttempts
      <3>. QED
        BY <3>3 DEF TypeOK
    <2>. QED
      BY <1>12, <2>1 DEF PendingAttempts, TypeOK, Places, CallFails, Fault
  <1>13. ASSUME NEW t \in Threads, Handle(t) PROVE TypeOK'
    <2>. PICK m \in batch[t], failed \in BOOLEAN, acted \in BOOLEAN :
              /\ outcome' = [outcome EXCEPT ![m] = @ \cup
                    (IF acted THEN {"act"} ELSE IF failed THEN {"fail"} ELSE {"ok"})]
              /\ IF DecideAck(failed, acted)
                 THEN /\ pc' = [pc EXCEPT ![t] = "ack"]
                      /\ UNCHANGED <<batch, attempts, fails>>
                 ELSE /\ fails < MaxFails /\ fails' = fails + 1
                      /\ AfterMessage(t, m)
      BY <1>13 DEF Handle
    <2>1. m \in Msgs
      BY DEF TypeOK
    <2>2. outcome' \in [Msgs -> SUBSET {"ok", "fail", "act"}]
      BY <2>1 DEF TypeOK
    <2>3. /\ pc' \in [Threads -> Places] /\ batch' \in [Threads -> SUBSET Msgs]
          /\ attempts' \in [Threads -> [Msgs -> Nat]] /\ fails' \in Nat
      <3>1. CASE DecideAck(failed, acted)
        BY <3>1 DEF TypeOK, Places
      <3>2. CASE ~DecideAck(failed, acted)
        BY <3>2, <2>1, AfterMessageType DEF TypeOK
      <3>. QED
        BY <3>1, <3>2
    <2>. QED
      BY <1>13, <2>2, <2>3 DEF Handle, TypeOK
  <1>14. ASSUME NEW t \in Threads, Ack(t) PROVE TypeOK'
    BY <1>14 DEF Ack, AfterMessage, TypeOK, Places
  <1>15. ASSUME NEW t \in Threads, AckFails(t) PROVE TypeOK'
    BY <1>15 DEF AckFails, AfterMessage, TypeOK, Places, CallFails, Fault
  <1>16. ASSUME NEW p \in Procs, Crash(p) PROVE TypeOK'
    BY <1>16 DEF Crash, TypeOK, Statuses, Places, Once
  <1>17. CASE UNCHANGED vars
    BY <1>17 DEF vars, TypeOK, Pending
  <1>. QED
    BY <1>1, <1>2, <1>3, <1>4, <1>5, <1>6, <1>7, <1>8, <1>9, <1>10, <1>11, <1>12,
       <1>13, <1>14, <1>15, <1>16, <1>17 DEF Next, ThreadStep

\* The broker and the server never leave their types.
THEOREM TypeCorrect == Spec => []TypeOK
  BY InitTypeOK, NextTypeOK, PTL DEF Spec
-----------------------------------------------------------------------------
\* The strengthening of UnsettledStaysPending that is inductive: XACK is only called
\* for a message that is settled already.
AckSettled ==
    \A t \in Threads, m \in Msgs : pc[t] = "ack" /\ Current(t, m) => Settled(m)

PendingInv == TypeOK /\ AckSettled /\ UnsettledStaysPending

\* What settles a message stays done: options never change and outcomes only grow.
LEMMA SettledStable ==
    ASSUME TypeOK, [Next]_vars, NEW m \in Msgs, Settled(m)
    PROVE  Settled(m)'
  <1>1. options' = options
    BY DEF Next, ThreadStep, vars, server, subvars, threads, bounds, Publish, Subscribe,
           Cancel, DelConsumer, ReadGroup, ReadGroupFails, SleepOver, Return, Tick,
           AutoClaim, AutoClaimFails, PendingAttempts, Handle, Ack, AckFails, Crash
  <1>2. outcome[m] \subseteq outcome'[m]
    <2>1. ASSUME NEW t \in Threads, Handle(t) PROVE outcome[m] \subseteq outcome'[m]
      <3>1. \E n \in batch[t], x \in SUBSET {"ok", "fail", "act"} :
                outcome' = [outcome EXCEPT ![n] = @ \cup x]
        <4>1. \E n \in batch[t], failed, acted \in BOOLEAN :
                outcome' = [outcome EXCEPT ![n] = @ \cup
                    (IF acted THEN {"act"} ELSE IF failed THEN {"fail"} ELSE {"ok"})]
          BY <2>1 DEF Handle
        <4>. QED
          BY <4>1
      <3>. QED
        BY <3>1 DEF TypeOK
    <2>2. CASE outcome' = outcome
      BY <2>2
    <2>. QED
      BY <2>1, <2>2
      DEF Next, ThreadStep, vars, server, subvars, threads, bounds, Publish, Subscribe,
          Cancel, DelConsumer, ReadGroup, ReadGroupFails, SleepOver, Return, Tick,
          AutoClaim, AutoClaimFails, PendingAttempts, Ack, AckFails, Crash
  <1>. QED
    BY <1>1, <1>2 DEF Settled

\* XREADGROUP: the group's position passes a message only by making it pending, or
\* because the stream was trimmed past it.
LEMMA DeliverKeeps ==
    ASSUME TypeOK, UnsettledStaysPending,
           NEW t \in Threads, NEW msgs \in SUBSET Msgs, DeliverNew(t, msgs),
           NEW m \in Msgs, m <= lastDelivered', ~Settled(m)
    PROVE  m \in Pending' \/ m < first' \/ m \in dropped'
  <1>1. CASE m <= lastDelivered
    <2>1. owner'[m] = ConsumerName(t) \/ owner'[m] = owner[m]
      BY DEF DeliverNew
    <2>. QED
      BY <1>1, <2>1, NameIsConsumer
      DEF DeliverNew, UnsettledStaysPending, Pending, Trimmed
  <1>2. CASE m > lastDelivered /\ m >= first
    <2>1. /\ lastDelivered' \in LowestOf(Undelivered, Count)
          /\ Undelivered \subseteq Msgs
      BY DEF DeliverNew, Undelivered
    <2>2. lastDelivered' <= lastId
      BY <2>1, LowestOfSubset DEF Undelivered
    <2>0. m \in Int /\ lastId \in Int /\ lastDelivered' \in Int
      BY LimitAssumption DEF DeliverNew, TypeOK, Msgs
    <2>3. m \in Undelivered
      BY <1>2, <2>0, <2>2 DEF Undelivered
    <2>4. m \in msgs
      BY <2>1, <2>3, LowestOfDownward DEF DeliverNew
    <2>. QED
      BY <2>4, NameIsConsumer DEF DeliverNew, Pending
  <1>. QED
    BY <1>1, <1>2 DEF TypeOK, DeliverNew, Msgs

\* XAUTOCLAIM: an entry changes its owner or, when its message is trimmed, goes.
LEMMA ClaimKeeps ==
    ASSUME TypeOK, UnsettledStaysPending, NEW t \in Threads, NEW page, Claim(t, page),
           NEW m \in Msgs, m <= lastDelivered', ~Settled(m)
    PROVE  m \in Pending' \/ m < first' \/ m \in dropped'
  <1>1. owner'[m] = ConsumerName(t) \/ owner'[m] = owner[m] \/ m < first
    BY DEF Claim, Trimmed
  <1>. QED
    BY <1>1, NameIsConsumer DEF Claim, UnsettledStaysPending, Pending, Trimmed

LEMMA NextKeepsPending == PendingInv /\ [Next]_vars => UnsettledStaysPending'
  <1>. SUFFICES ASSUME PendingInv, [Next]_vars,
                       NEW m \in Msgs, m <= lastDelivered', ~Settled(m)'
               PROVE  m \in Pending' \/ m < first' \/ m \in dropped'
    BY DEF UnsettledStaysPending, Trimmed
  <1>. USE DEF server, subvars, threads, bounds
  <1>0. TypeOK /\ AckSettled /\ UnsettledStaysPending /\ ~Settled(m)
    BY SettledStable DEF PendingInv
  <1>1. CASE UNCHANGED server
    BY <1>0, <1>1 DEF UnsettledStaysPending, Trimmed, Pending
  <1>2. CASE Publish
    BY <1>0, <1>2 DEF Publish, UnsettledStaysPending, Trimmed, Pending, TypeOK, Msgs
  <1>3. ASSUME NEW s \in Subs, Subscribe(s)
        PROVE  m \in Pending' \/ m < first' \/ m \in dropped'
    BY <1>0, <1>3 DEF Subscribe, UnsettledStaysPending, Trimmed, Pending, Msgs
  <1>4. ASSUME NEW s \in Subs, DelConsumer(s)
        PROVE  m \in Pending' \/ m < first' \/ m \in dropped'
    BY <1>0, <1>4 DEF DelConsumer, UnsettledStaysPending, Trimmed, Pending
  <1>5. ASSUME NEW t \in Threads, ReadGroup(t) \/ ReadGroupFails(t)
        PROVE  m \in Pending' \/ m < first' \/ m \in dropped'
    <2>1. CASE \E msgs \in SUBSET Msgs : DeliverNew(t, msgs)
      BY <1>0, <2>1, DeliverKeeps
    <2>. QED
      BY <1>1, <1>5, <2>1 DEF ReadGroup, ReadGroupFails
  <1>6. ASSUME NEW t \in Threads, NEW page, Claim(t, page)
        PROVE  m \in Pending' \/ m < first' \/ m \in dropped'
    BY <1>0, <1>6, ClaimKeeps
  <1>7. ASSUME NEW t \in Threads, Ack(t)
        PROVE  m \in Pending' \/ m < first' \/ m \in dropped'
    <2>1. PICK n \in batch[t] : Current(t, n) /\ owner' = [owner EXCEPT ![n] = NoConsumer]
      BY <1>7 DEF Ack
    <2>2. n \in Msgs /\ Settled(n)
      BY <1>0, <1>7, <2>1 DEF Ack, AckSettled, TypeOK
    <2>3. owner'[m] = owner[m]
      BY <1>0, <2>1, <2>2 DEF TypeOK
    <2>. QED
      BY <1>0, <1>7, <2>3 DEF Ack, UnsettledStaysPending, Trimmed, Pending
  <1>. QED
    BY <1>1, <1>2, <1>3, <1>4, <1>5, <1>6, <1>7
    DEF Next, ThreadStep, vars, Cancel, SleepOver, Return, Tick, AutoClaim,
        AutoClaimFails, PendingAttempts, Handle, AckFails, Crash

LEMMA NextAckSettled == PendingInv /\ [Next]_vars => AckSettled'
  <1>. SUFFICES ASSUME PendingInv, [Next]_vars, NEW t \in Threads, NEW m \in Msgs,
                       pc'[t] = "ack", Current(t, m)'
               PROVE  Settled(m)'
    BY DEF AckSettled
  <1>. USE DEF server, subvars, threads, bounds
  <1>0. TypeOK /\ AckSettled
    BY DEF PendingInv
  <1>1. CASE pc[t] = "ack" /\ batch'[t] = batch[t]
    <2>1. Current(t, m)
      BY <1>1 DEF Current
    <2>. QED
      BY <1>0, <1>1, <2>1, SettledStable DEF AckSettled
  <1>2. CASE Handle(t) /\ pc[t] = "handle"
    <2>. PICK n \in batch[t], failed \in BOOLEAN, acted \in BOOLEAN :
              /\ Current(t, n) /\ (acted => ~options.autoAck)
              /\ outcome' = [outcome EXCEPT ![n] = @ \cup
                    (IF acted THEN {"act"} ELSE IF failed THEN {"fail"} ELSE {"ok"})]
              /\ IF DecideAck(failed, acted)
                 THEN /\ pc' = [pc EXCEPT ![t] = "ack"]
                      /\ UNCHANGED <<batch, attempts, fails>>
                 ELSE /\ fails < MaxFails /\ fails' = fails + 1
                      /\ AfterMessage(t, n)
      BY <1>2 DEF Handle
    <2>1. DecideAck(failed, acted)
      BY <1>0 DEF AfterMessage, TypeOK
    <2>2. batch' = batch /\ options' = options
      BY <1>2, <2>1 DEF Handle
    <2>3. n = m /\ n \in Msgs
      BY <1>0, <2>2 DEF Current, TypeOK, Msgs
    <2>4. CASE acted
      BY <1>0, <2>1, <2>2, <2>3, <2>4 DEF Settled, TypeOK, Options
    <2>5. CASE ~acted
      BY <1>0, <2>1, <2>2, <2>3, <2>5 DEF Settled, DecideAck, TypeOK, Options
    <2>. QED
      BY <2>4, <2>5
  <1>3. CASE pc[t] = "ack" /\ batch'[t] # batch[t]
    BY <1>0, <1>3 DEF Next, ThreadStep, vars, Publish, Subscribe, Cancel, DelConsumer,
        ReadGroup, ReadGroupFails, SleepOver, Return, Tick, AutoClaim, AutoClaimFails,
        PendingAttempts, Handle, Ack, AckFails, Crash, AfterMessage, TypeOK
  <1>4. CASE pc[t] # "ack"
    <2>1. ASSUME NEW u \in Threads, ThreadStep(u), ~Handle(u) PROVE FALSE
      BY <1>0, <1>4, <2>1 DEF ThreadStep, ReadGroup, ReadGroupFails, SleepOver, Return, Tick,
          AutoClaim, AutoClaimFails, PendingAttempts, Ack, AckFails, AfterMessage, TypeOK
    <2>2. ASSUME NEW u \in Threads, Handle(u), u # t PROVE FALSE
      BY <1>0, <1>4, <2>2 DEF Handle, AfterMessage, TypeOK
    <2>3. ASSUME NEW s \in Subs, Subscribe(s) PROVE FALSE
      BY <1>0, <1>4, <2>3 DEF Subscribe, TypeOK
    <2>4. ASSUME NEW p \in Procs, Crash(p) PROVE FALSE
      BY <1>0, <1>4, <2>4 DEF Crash, TypeOK
    <2>5. ASSUME pc' = pc PROVE FALSE
      BY <1>4, <2>5
    <2>6. Handle(t)
      BY <2>1, <2>2, <2>3, <2>4, <2>5 DEF Next, vars, Publish, Cancel, DelConsumer
    <2>. QED
      BY <1>2, <2>6 DEF Handle
  <1>. QED
    BY <1>1, <1>3, <1>4

\* Whatever readers, claimers, handlers, failing calls, crashes and trimming do: a message
\* the group was given is settled, pending, trimmed, or was dropped by an Unsubscribe.
THEOREM NoMessageForgotten == Spec => []UnsettledStaysPending
  <1>1. Init => PendingInv
    BY InitTypeOK DEF Init, PendingInv, AckSettled, UnsettledStaysPending, Msgs
  <1>2. PendingInv /\ [Next]_vars => PendingInv'
    BY NextTypeOK, NextKeepsPending, NextAckSettled DEF PendingInv
  <1>3. PendingInv => UnsettledStaysPending
    BY DEF PendingInv
  <1>. QED
    BY <1>1, <1>2, <1>3, PTL DEF Spec
-----------------------------------------------------------------------------
\* No two subscriptions of the topic and group share a process, and so a consumer name.
DistinctProcs == \A s1, s2 \in Subs : ProcOf[s1] = ProcOf[s2] => s1 = s2

\* Unsubscribe deletes consumers only once all goroutines have returned, one per step.
DeletedInOrder ==
    \A s \in Subs :
        /\ removed[s] > 0 => status[s] \in {"stopping", "closed", "crashed"} /\ AllDone(s)
        /\ status[s] = "stopping" => removed[s] < Concurrent
        /\ status[s] = "closed" => removed[s] = Concurrent

\* A consumer that was deleted does not come back: XREADGROUP and XAUTOCLAIM would
\* create it again, but no goroutine is left that calls them under its name.
DeletedStayEmpty ==
    \A s \in Subs : s \notin undeleted =>
        \A i \in 0..Concurrent-1, m \in Msgs :
            i < removed[s] => owner[m] # <<ProcOf[s], i>>

StopInv == TypeOK /\ DeletedInOrder /\ DeletedStayEmpty

\* A goroutine that has returned stays so, and the subscription's life goes one way.
LEMMA NextDeletedInOrder == TypeOK /\ DeletedInOrder /\ [Next]_vars => DeletedInOrder'
  <1>. SUFFICES ASSUME TypeOK, DeletedInOrder, [Next]_vars, NEW s \in Subs
               PROVE  /\ removed'[s] > 0 => /\ status'[s] \in {"stopping", "closed", "crashed"}
                                            /\ AllDone(s)'
                      /\ status'[s] = "stopping" => removed'[s] < Concurrent
                      /\ status'[s] = "closed" => removed'[s] = Concurrent
    BY DEF DeletedInOrder
  <1>. USE DEF server, subvars, threads, bounds
  <1>0. TypeOK /\ DeletedInOrder
    OBVIOUS
  <1>1. CASE status' = status /\ removed' = removed
    <2>1. AllDone(s) => AllDone(s)'
      <3>1. ASSUME NEW t \in Threads, pc[t] = "done" PROVE pc'[t] = "done"
        <4>1. ASSUME NEW u \in Threads, ThreadStep(u) PROVE pc'[t] = "done"
          BY <1>0, <3>1, <4>1 DEF ThreadStep, ReadGroup, ReadGroupFails, SleepOver,
              Return, Tick, AutoClaim, AutoClaimFails, PendingAttempts, Handle, Ack,
              AckFails, AfterMessage, TypeOK
        <4>2. ASSUME NEW q \in Subs, Subscribe(q) PROVE FALSE
          BY <1>0, <1>1, <4>2 DEF Subscribe, TypeOK
        <4>. QED
          BY <1>0, <3>1, <4>1, <4>2 DEF Next, vars, Publish, Cancel, DelConsumer, Crash,
              TypeOK
      <3>. QED
        BY <3>1 DEF AllDone, ThreadsOf
    <2>. QED
      BY <1>0, <1>1, <2>1 DEF DeletedInOrder
  <1>2. ASSUME NEW q \in Subs, Subscribe(q)
        PROVE  /\ removed'[s] > 0 => /\ status'[s] \in {"stopping", "closed", "crashed"}
                                     /\ AllDone(s)'
               /\ status'[s] = "stopping" => removed'[s] < Concurrent
               /\ status'[s] = "closed" => removed'[s] = Concurrent
    BY <1>0, <1>2 DEF Subscribe, DeletedInOrder, AllDone, ThreadsOf, TypeOK
  <1>3. ASSUME NEW q \in Subs, Cancel(q)
        PROVE  /\ removed'[s] > 0 => /\ status'[s] \in {"stopping", "closed", "crashed"}
                                     /\ AllDone(s)'
               /\ status'[s] = "stopping" => removed'[s] < Concurrent
               /\ status'[s] = "closed" => removed'[s] = Concurrent
    BY <1>0, <1>3, SubsAssumption DEF Cancel, DeletedInOrder, AllDone, ThreadsOf, TypeOK
  <1>4. ASSUME NEW q \in Subs, DelConsumer(q)
        PROVE  /\ removed'[s] > 0 => /\ status'[s] \in {"stopping", "closed", "crashed"}
                                     /\ AllDone(s)'
               /\ status'[s] = "stopping" => removed'[s] < Concurrent
               /\ status'[s] = "closed" => removed'[s] = Concurrent
    <2>1. CASE q = s
      BY <1>0, <1>4, <2>1, SubsAssumption
      DEF DelConsumer, DeletedInOrder, AllDone, ThreadsOf, TypeOK
    <2>2. CASE q # s
      BY <1>0, <1>4, <2>2 DEF DelConsumer, DeletedInOrder, AllDone, ThreadsOf, TypeOK
    <2>. QED
      BY <2>1, <2>2
  <1>5. ASSUME NEW p \in Procs, Crash(p)
        PROVE  /\ removed'[s] > 0 => /\ status'[s] \in {"stopping", "closed", "crashed"}
                                     /\ AllDone(s)'
               /\ status'[s] = "stopping" => removed'[s] < Concurrent
               /\ status'[s] = "closed" => removed'[s] = Concurrent
    BY <1>0, <1>5 DEF Crash, DeletedInOrder, AllDone, ThreadsOf, TypeOK
  <1>. QED
    BY <1>1, <1>2, <1>3, <1>4, <1>5
    DEF Next, ThreadStep, vars, Publish, ReadGroup, ReadGroupFails, SleepOver, Return,
        Tick, AutoClaim, AutoClaimFails, PendingAttempts, Handle, Ack, AckFails

LEMMA NextDeletedStayEmpty ==
    ASSUME DistinctProcs
    PROVE  StopInv /\ [Next]_vars => DeletedStayEmpty'
  <1>. SUFFICES ASSUME StopInv, [Next]_vars, NEW s \in Subs, s \notin undeleted',
                       NEW i \in 0..Concurrent-1, NEW m \in Msgs, i < removed'[s]
               PROVE  owner'[m] # <<ProcOf[s], i>>
    BY DEF DeletedStayEmpty
  <1>. USE DEF server, subvars, threads, bounds
  <1>0. TypeOK /\ DeletedInOrder /\ DeletedStayEmpty
    BY DEF StopInv
  <1>1. NoConsumer # <<ProcOf[s], i>>
    BY SubsAssumption
  <1>2. CASE undeleted' = undeleted /\ removed' = removed
    <2>1. owner[m] # <<ProcOf[s], i>>
      BY <1>0, <1>2 DEF DeletedStayEmpty
    <2>2. AllDone(s)
      BY <1>0, <1>2, SubsAssumption DEF DeletedInOrder, TypeOK
    <2>3. ASSUME NEW t \in Threads, pc[t] # "done" PROVE ConsumerName(t) # <<ProcOf[s], i>>
      <3>1. t[1] # s /\ t[1] \in Subs
        BY <2>2, <2>3 DEF AllDone, ThreadsOf, Threads
      <3>. QED
        BY <3>1 DEF ConsumerName, DistinctProcs
    <2>4. ASSUME NEW t \in Threads, NEW msgs \in SUBSET Msgs, pc[t] # "done",
                 DeliverNew(t, msgs)
          PROVE  owner'[m] # <<ProcOf[s], i>>
      BY <2>1, <2>3, <2>4 DEF DeliverNew
    <2>5. ASSUME NEW t \in Threads, NEW page, pc[t] # "done", Claim(t, page)
          PROVE  owner'[m] # <<ProcOf[s], i>>
      BY <1>1, <2>1, <2>3, <2>5 DEF Claim
    <2>6. ASSUME NEW t \in Threads, Ack(t) PROVE owner'[m] # <<ProcOf[s], i>>
      BY <1>0, <1>1, <2>1, <2>6 DEF Ack, TypeOK
    <2>7. ASSUME NEW q \in Subs, DelConsumer(q) PROVE owner'[m] # <<ProcOf[s], i>>
      BY <1>1, <2>1, <2>7 DEF DelConsumer
    <2>8. CASE owner' = owner
      BY <2>1, <2>8
    <2>. QED
      BY <2>4, <2>5, <2>6, <2>7, <2>8
      DEF Next, ThreadStep, vars, Publish, Subscribe, Cancel, Crash, ReadGroup,
          ReadGroupFails, SleepOver, Return, Tick, AutoClaim, AutoClaimFails,
          PendingAttempts, Handle, AckFails
  <1>3. ASSUME NEW q \in Subs, DelConsumer(q) PROVE owner'[m] # <<ProcOf[s], i>>
    <2>1. CASE q = s
      <3>1. undeleted' = undeleted
        BY <1>3, <2>1 DEF DelConsumer
      <3>2. owner' = [n \in Msgs |-> IF owner[n] = <<ProcOf[s], removed[s]>>
                                     THEN NoConsumer ELSE owner[n]]
        BY <1>3, <2>1, <3>1 DEF DelConsumer
      <3>3. removed'[s] = removed[s] + 1
        BY <1>0, <1>3, <2>1 DEF DelConsumer, TypeOK
      <3>4. i = removed[s] \/ i < removed[s]
        <4>1. removed[s] \in Nat /\ i \in Int
          BY <1>0, SubsAssumption DEF TypeOK
        <4>. QED
          BY <4>1, <3>3, i < removed'[s]
      <3>. QED
        BY <1>0, <1>1, <3>1, <3>2, <3>4 DEF DeletedStayEmpty
    <2>2. CASE q # s
      <3>1. s \notin undeleted /\ removed'[s] = removed[s]
        BY <1>0, <1>3, <2>2 DEF DelConsumer, TypeOK
      <3>2. owner[m] # <<ProcOf[s], i>>
        BY <1>0, <3>1 DEF DeletedStayEmpty
      <3>. QED
        BY <1>1, <1>3, <3>2 DEF DelConsumer
    <2>. QED
      BY <2>1, <2>2
  <1>. QED
    BY <1>2, <1>3
    DEF Next, ThreadStep, vars, Publish, Subscribe, Cancel, Crash, ReadGroup,
        ReadGroupFails, SleepOver, Return, Tick, AutoClaim, AutoClaimFails,
        PendingAttempts, Handle, Ack, AckFails

\* Where every subscription of the group has a process of its own, an Unsubscribe that
\* returned without an error leaves no goroutine and no pending message behind.
THEOREM UnsubscribeLeavesNothing ==
    ASSUME DistinctProcs
    PROVE  Spec => []ClosedOwnsNothing
  <1>1. Init => StopInv
    BY InitTypeOK DEF Init, StopInv, DeletedInOrder, DeletedStayEmpty
  <1>2. StopInv /\ [Next]_vars => StopInv'
    BY NextTypeOK, NextDeletedInOrder, NextDeletedStayEmpty DEF StopInv
  <1>3. StopInv => ClosedOwnsNothing
    <2>. SUFFICES ASSUME StopInv, NEW s \in Subs, status[s] = "closed", s \notin undeleted,
                         NEW t \in ThreadsOf(s)
                 PROVE  pc[t] = "done" /\ \A m \in Msgs : owner[m] # ConsumerName(t)
      BY DEF ClosedOwnsNothing
    <2>1. removed[s] = Concurrent /\ AllDone(s)
      BY SubsAssumption DEF StopInv, DeletedInOrder
    <2>2. t \in Threads /\ t[1] = s
      BY DEF ThreadsOf
    <2>3. \E i \in 0..Concurrent-1 : ConsumerName(t) = <<ProcOf[s], i>>
      BY <2>2, SubsAssumption DEF ConsumerName, Threads
    <2>4. pc[t] = "done"
      BY <2>1 DEF AllDone
    <2>5. \A m \in Msgs : owner[m] # ConsumerName(t)
      BY <2>1, <2>3, SubsAssumption DEF StopInv, DeletedStayEmpty
    <2>. QED
      BY <2>4, <2>5
  <1>. QED
    BY <1>1, <1>2, <1>3, PTL DEF Spec

\* Whatever the other subscriptions do: with a process of its own for each of them, an
\* Unsubscribe deletes no consumer under whose name a goroutine still works.
THEOREM UnsubscribeDeletesOffline ==
    ASSUME DistinctProcs
    PROVE  Spec => OnlyOfflineConsumersDeleted
  <1>. DEFINE Kept == \A t \in Threads : pc[t] \notin {"none", "done"} =>
                        \A m \in dropped' \ dropped : owner[m] # ConsumerName(t)
  <1>1. [Next]_vars => Kept
    <2>. SUFFICES ASSUME [Next]_vars, NEW t \in Threads, pc[t] \notin {"none", "done"},
                         NEW m \in dropped' \ dropped
                 PROVE  owner[m] # ConsumerName(t)
      OBVIOUS
    <2>0. dropped' # dropped
      OBVIOUS
    <2>1. PICK s \in Subs : DelConsumer(s)
      <3>1. ASSUME NEW u \in Threads, ThreadStep(u) PROVE dropped' = dropped
        <4>0. CASE ReadGroup(u) \/ ReadGroupFails(u)
          BY <4>0 DEF ReadGroup, ReadGroupFails, DeliverNew, server
        <4>1. CASE SleepOver(u) \/ Return(u) \/ Tick(u)
          BY <4>1 DEF SleepOver, Return, Tick, server
        <4>2. CASE (\E old \in SUBSET Pending : AutoClaim(u, old)) \/ AutoClaimFails(u)
          BY <4>2 DEF AutoClaim, AutoClaimFails, Claim, server
        <4>3. CASE PendingAttempts(u) \/ Handle(u) \/ Ack(u) \/ AckFails(u)
          BY <4>3 DEF PendingAttempts, Handle, Ack, AckFails, server
        <4>. QED
          BY <3>1, <4>0, <4>1, <4>2, <4>3 DEF ThreadStep
      <3>2. ASSUME NEW s \in Subs, Subscribe(s) \/ Cancel(s) PROVE dropped' = dropped
        BY <3>2 DEF Subscribe, Cancel, server
      <3>3. ASSUME Publish \/ (\E p \in Procs : Crash(p)) \/ UNCHANGED vars
            PROVE  dropped' = dropped
        BY <3>3 DEF Publish, Crash, vars, server
      <3>. QED
        BY <2>0, <3>1, <3>2, <3>3 DEF Next
    <2>2. owner[m] = <<ProcOf[s], removed[s]>> /\ AllDone(s)
      BY <2>1 DEF DelConsumer
    <2>3. t[1] \in Subs /\ t[1] # s
      BY <2>2 DEF AllDone, ThreadsOf, Threads
    <2>. QED
      BY <2>2, <2>3 DEF ConsumerName, DistinctProcs
  <1>. QED
    BY <1>1, PTL DEF Spec, OnlyOfflineConsumersDeleted

-----------------------------------------------------------------------------
\* Where the messages are: the group has been given only what was published, and only
\* what it was given is pending, dropped, or in the hands of a goroutine.
Placed ==
    /\ first \in 1..lastId+1 /\ lastDelivered <= lastId
    /\ \A m \in Pending : m <= lastDelivered /\ m \notin dropped
    /\ \A m \in dropped : m <= lastDelivered
    /\ \A t \in Threads : \A m \in batch[t] : m <= lastDelivered

\* Before the first subscription there is no group, and no goroutine.
Grouped ==
    ~grouped => lastDelivered = 0 /\ \A t \in Threads : pc[t] \in {"none", "done"}

LEMMA NextGrouped == TypeOK /\ Grouped /\ [Next]_vars => Grouped'
  <1>. SUFFICES ASSUME TypeOK, Grouped, [Next]_vars, ~grouped'
               PROVE  lastDelivered' = 0 /\ \A t \in Threads : pc'[t] \in {"none", "done"}
    BY DEF Grouped
  <1>. USE DEF server, subvars, threads, bounds
  <1>1. \A s \in Subs : ~Subscribe(s)
    BY DEF Subscribe
  <1>2. grouped' = grouped
    BY <1>1 DEF Next, ThreadStep, vars, Publish, Cancel, DelConsumer, ReadGroup,
       ReadGroupFails, DeliverNew, SleepOver, Return, Tick, AutoClaim, Claim,
       AutoClaimFails, PendingAttempts, Handle, Ack, AckFails, Crash
  <1>3. lastDelivered = 0 /\ \A t \in Threads : pc[t] \in {"none", "done"}
    BY <1>2 DEF Grouped
  <1>4. \A t \in Threads : ~ThreadStep(t)
    BY <1>3 DEF ThreadStep, ReadGroup, ReadGroupFails, SleepOver, Return, Tick, AutoClaim,
       AutoClaimFails, PendingAttempts, Handle, Ack, AckFails
  <1>5. CASE UNCHANGED <<lastDelivered, pc>>
    BY <1>3, <1>5
  <1>6. ASSUME NEW p \in Procs, Crash(p)
        PROVE  lastDelivered' = 0 /\ \A t \in Threads : pc'[t] \in {"none", "done"}
    BY <1>3, <1>6 DEF Crash, TypeOK
  <1>. QED
    BY <1>1, <1>4, <1>5, <1>6 DEF Next, vars, Publish, Cancel, DelConsumer

LEMMA InitPlaced == Init => Placed
  BY DEF Init, Placed, Pending

\* XREADGROUP: what is pending now was pending, or is new to the group.
LEMMA DeliverPlaced ==
    ASSUME TypeOK, Placed, NEW t \in Threads, NEW msgs \in SUBSET Msgs, DeliverNew(t, msgs)
    PROVE  /\ lastDelivered <= lastDelivered' /\ lastDelivered' <= lastId
           /\ Pending' = Pending \cup msgs
           /\ \A m \in msgs : lastDelivered < m /\ m <= lastDelivered'
           /\ \A m \in Msgs : lastDelivered < m /\ first <= m /\ m <= lastDelivered' => m \in msgs
  <1>1. msgs = LowestOf(Undelivered, Count) /\ Undelivered \in SUBSET Msgs
    BY DEF DeliverNew, Undelivered
  <1>2. \A m \in msgs : lastDelivered < m /\ m <= lastId /\ m <= lastDelivered'
    BY <1>1, LowestOfSubset DEF Undelivered, DeliverNew
  <1>3. lastDelivered' \in msgs /\ lastDelivered' \in Int /\ lastDelivered \in Int /\ lastId \in Int
    BY LimitAssumption DEF DeliverNew, Msgs, TypeOK
  <1>4. Pending' = Pending \cup msgs
    BY NameIsConsumer DEF DeliverNew, Pending
  <1>5. ASSUME NEW m \in Msgs, lastDelivered < m, first <= m, m <= lastDelivered'
        PROVE  m \in msgs
    <2>1. m <= lastId
      BY <1>2, <1>3, <1>5 DEF Msgs
    <2>2. m \in Undelivered
      BY <1>5, <2>1 DEF Undelivered
    <2>. QED
      BY <1>1, <1>3, <1>5, <2>2, LowestOfDownward
  <1>. QED
    BY <1>2, <1>3, <1>4, <1>5

\* XAUTOCLAIM: nothing becomes pending, and only the trimmed leave.
LEMMA ClaimPlaced ==
    ASSUME TypeOK, NEW t \in Threads, NEW page \in SUBSET Pending, Claim(t, page)
    PROVE  /\ Pending' \subseteq Pending
           /\ \A m \in Pending : first <= m => m \in Pending'
  BY NameIsConsumer DEF Claim, Pending, Trimmed, TypeOK, Msgs

LEMMA PageSubset == \A old \in SUBSET Pending, t \in Threads : Page(t, old) \in SUBSET Pending
  BY LowestOfSubset DEF Page

\* XGROUP DELCONSUMER names a consumer, so what it deletes was pending.
LEMMA DeletedIsPending ==
    ASSUME TypeOK, DeletedInOrder, NEW s \in Subs, DelConsumer(s)
    PROVE  {m \in Msgs : owner[m] = <<ProcOf[s], removed[s]>>} \subseteq Pending
  <1>0. status[s] = "stopping"
    BY DEF DelConsumer
  <1>1. removed[s] \in 0..Concurrent-1 /\ ProcOf[s] \in Procs
    <2>1. removed[s] \in Nat /\ removed[s] < Concurrent
      BY <1>0 DEF TypeOK, DeletedInOrder
    <2>. QED
      BY <2>1, SubsAssumption
  <1>2. <<ProcOf[s], removed[s]>> # NoConsumer
    BY <1>1, SubsAssumption
  <1>. QED
    BY <1>2 DEF Pending

LEMMA NextPlaced == TypeOK /\ DeletedInOrder /\ Grouped /\ Placed /\ [Next]_vars => Placed'
  <1>. SUFFICES ASSUME TypeOK, DeletedInOrder, Grouped, Placed, [Next]_vars
               PROVE  Placed'
    OBVIOUS
  <1>. USE DEF server, subvars, threads, bounds
  <1>0. /\ lastId \in Nat /\ first \in Nat /\ lastDelivered \in Nat
        /\ \A m \in Msgs : m \in Nat
        /\ \A t \in Threads : batch[t] \subseteq Msgs
        /\ batch \in [Threads -> SUBSET Msgs]
        /\ dropped \subseteq Msgs /\ Pending \subseteq Msgs
    BY LimitAssumption DEF TypeOK, Msgs, Pending
  <1>1. CASE Publish
    BY <1>0, <1>1 DEF Publish, Placed, Pending
  <1>2. ASSUME NEW s \in Subs, Subscribe(s) PROVE Placed'
    BY <1>0, <1>2 DEF Subscribe, Grouped, Placed, Pending
  <1>3. ASSUME NEW s \in Subs, DelConsumer(s) PROVE Placed'
    <2>. DEFINE gone == {m \in Msgs : owner[m] = <<ProcOf[s], removed[s]>>}
    <2>1. UNCHANGED <<lastId, first, lastDelivered, batch>>
      BY <1>3 DEF DelConsumer
    <2>2. CASE owner' = owner /\ dropped' = dropped
      BY <2>1, <2>2 DEF Placed, Pending
    <2>3. CASE /\ owner' = [m \in Msgs |-> IF m \in gone THEN NoConsumer ELSE owner[m]]
               /\ dropped' = dropped \cup gone
      <3>2. gone \subseteq Pending
        BY <1>3, DeletedIsPending
      <3>3. Pending' = Pending \ gone
        BY <2>3 DEF Pending
      <3>. QED
        BY <1>0, <2>1, <2>3, <3>2, <3>3 DEF Placed
    <2>. QED
      BY <1>3, <2>2, <2>3 DEF DelConsumer
  <1>4. ASSUME NEW t \in Threads, NEW msgs \in SUBSET Msgs, DeliverNew(t, msgs),
               batch' = batch \/ batch' = [batch EXCEPT ![t] = msgs]
        PROVE  Placed'
    <2>1. /\ lastDelivered <= lastDelivered' /\ lastDelivered' <= lastId
          /\ Pending' = Pending \cup msgs
          /\ \A m \in msgs : lastDelivered < m /\ m <= lastDelivered'
      BY <1>4, DeliverPlaced
    <2>2. lastDelivered' \in Nat /\ UNCHANGED <<lastId, first, dropped>>
      BY <1>0, <1>4 DEF DeliverNew
    <2>. QED
      BY <1>0, <1>4, <2>1, <2>2 DEF Placed
  <1>5. ASSUME NEW t \in Threads, NEW page \in SUBSET Pending, Claim(t, page),
               batch' = batch \/ \E b \in SUBSET page : batch' = [batch EXCEPT ![t] = b]
        PROVE  Placed'
    <2>1. Pending' \subseteq Pending
      BY <1>5, ClaimPlaced
    <2>2. UNCHANGED <<lastId, first, dropped, lastDelivered>>
      BY <1>5 DEF Claim
    <2>. QED
      BY <1>0, <1>5, <2>1, <2>2 DEF Placed
  <1>6. ASSUME UNCHANGED server,
               \A t \in Threads : batch'[t] \subseteq batch[t]
        PROVE  Placed'
    BY <1>6 DEF Placed, Pending
  <1>7. ASSUME NEW t \in Threads, ReadGroup(t) \/ ReadGroupFails(t) PROVE Placed'
    BY <1>4, <1>6, <1>7 DEF ReadGroup, ReadGroupFails
  <1>8. ASSUME NEW t \in Threads, NEW old \in SUBSET Pending, AutoClaim(t, old) PROVE Placed'
    <2>1. {m \in Page(t, old) : ~Trimmed(m)} \in SUBSET Page(t, old)
      OBVIOUS
    <2>. QED
      BY <1>5, <1>8, <2>1, PageSubset DEF AutoClaim
  <1>9. ASSUME NEW t \in Threads, AutoClaimFails(t) PROVE Placed'
    BY <1>5, <1>6, <1>9, PageSubset DEF AutoClaimFails
  <1>10. ASSUME NEW t \in Threads, Handle(t) \/ AckFails(t) PROVE Placed'
    <2>1. UNCHANGED server /\ \A u \in Threads : batch'[u] \subseteq batch[u]
      BY <1>0, <1>10 DEF Handle, AckFails, AfterMessage
    <2>. QED
      BY <1>6, <2>1
  <1>11. ASSUME NEW t \in Threads, Ack(t) PROVE Placed'
    <2>1. UNCHANGED <<lastId, first, dropped, lastDelivered>> /\ Pending' \subseteq Pending
      BY <1>0, <1>11 DEF Ack, Pending, TypeOK
    <2>2. \A u \in Threads : batch'[u] \subseteq batch[u]
      BY <1>0, <1>11 DEF Ack, AfterMessage
    <2>. QED
      BY <2>1, <2>2 DEF Placed
  <1>12. ASSUME NEW p \in Procs, Crash(p) PROVE Placed'
    BY <1>0, <1>6, <1>12 DEF Crash
  <1>. QED
    BY <1>1, <1>2, <1>3, <1>6, <1>7, <1>8, <1>9, <1>10, <1>11, <1>12
    DEF Next, ThreadStep, vars, Cancel, SleepOver, Return, Tick, PendingAttempts
-----------------------------------------------------------------------------
\* The state of the broker as GroupDelivery sees it.
Open == {m \in first..lastId : lastDelivered < m \/ m \in Pending}
Lost == (1..first-1) \cup dropped

LEMMA InitPromise == Init => Promise!Init
  BY DEF Init, Promise!Init, Pending, Options

\* What is lost was published, and is not open.
LEMMA LostIsPublished ==
    ASSUME TypeOK, Placed
    PROVE  Lost \subseteq 1..lastId /\ Lost \cap Open = {}
  BY LimitAssumption DEF TypeOK, Placed, Lost, Open, Msgs

\* XADD publishes a message and may trim others.
LEMMA PublishPromise == TypeOK /\ Placed /\ Publish => Promise!Publish
  <1>. SUFFICES ASSUME TypeOK, Placed, Publish PROVE Promise!Publish
    OBVIOUS
  <1>. DEFINE n == lastId + 1
  <1>0. /\ lastId \in Nat /\ first \in Nat /\ lastDelivered \in Nat /\ MaxMsg \in Nat
        /\ lastId < MaxMsg /\ lastId' = n /\ first' \in Nat
        /\ first <= first' /\ first' <= n
        /\ UNCHANGED <<options, lastDelivered, dropped, owner, outcome>>
    BY LimitAssumption DEF TypeOK, Publish, Placed, threads, subvars, bounds
  <1>1. n \in Msgs \ 1..lastId /\ 1..lastId' = (1..lastId) \cup {n}
    BY <1>0 DEF Msgs
  <1>2. Pending' = Pending
    BY <1>0 DEF Pending
  <1>3. \A m \in Pending \cup dropped : m \in Nat /\ 1 <= m /\ m <= lastDelivered
    BY DEF Placed, TypeOK, Pending, Msgs
  <1>4. Lost \subseteq Lost' /\ Lost' \subseteq 1..lastId'
    BY <1>0, <1>3 DEF Lost, Placed
  <1>5. Open' = (Open \cup {n}) \ Lost'
    <2>1. lastDelivered <= lastId /\ \A m \in Pending : m \notin dropped
      BY DEF Placed
    <2>2. ASSUME NEW m \in Int
          PROVE  m \in Open' <=> (m \in Open \/ m = n) /\ m \notin Lost'
      <3>1. /\ m \in Open' <=> first' <= m /\ m <= n /\ (lastDelivered < m \/ m \in Pending)
            /\ m \in Open <=> first <= m /\ m <= lastId /\ (lastDelivered < m \/ m \in Pending)
            /\ m \in Lost' <=> (1 <= m /\ m < first') \/ m \in dropped
        <4>1. Open' = {k \in first'..n : lastDelivered < k \/ k \in Pending}
          BY <1>0, <1>2 DEF Open
        <4>2. Lost' = (1..first'-1) \cup dropped
          BY <1>0 DEF Lost
        <4>3. m \in Open' <=> first' <= m /\ m <= n /\ (lastDelivered < m \/ m \in Pending)
          BY <1>0, <4>1
        <4>4. m \in Open <=> first <= m /\ m <= lastId /\ (lastDelivered < m \/ m \in Pending)
          BY <1>0 DEF Open
        <4>5. m \in Lost' <=> (1 <= m /\ m < first') \/ m \in dropped
          <5>1. first' \in Int
            BY <1>0
          <5>2. \A f \in Int : m \in 1..f-1 <=> 1 <= m /\ m < f
            OBVIOUS
          <5>. QED
            BY <4>2, <5>1, <5>2
        <4>. QED
          BY <4>3, <4>4, <4>5
      <3>2. 1 <= first
        BY <1>0 DEF Placed
      <3>. QED
        BY <1>0, <1>3, <2>1, <3>1, <3>2
    <2>3. Open \subseteq Int /\ Open' \subseteq Int /\ n \in Int
      BY <1>0 DEF Open
    <2>. QED
      BY <2>2, <2>3
  <1>. QED
    BY <1>0, <1>1, <1>4, <1>5 DEF Promise!Publish, Lost, Open

\* A handler call is one of GroupDelivery's.
LEMMA HandlePromise ==
    ASSUME TypeOK, Placed, NEW t \in Threads, Handle(t)
    PROVE  Promise!Handle
  <1>1. PICK m \in batch[t], failed \in BOOLEAN, acted \in BOOLEAN :
            /\ acted => ~options.autoAck
            /\ outcome' = [outcome EXCEPT ![m] = @ \cup
                  (IF acted THEN {"act"} ELSE IF failed THEN {"fail"} ELSE {"ok"})]
    BY DEF Handle
  <1>2. m \in Msgs /\ m \in 1..lastId
    BY LimitAssumption DEF TypeOK, Placed, Msgs
  <1>3. \E result \in {"ok", "fail", "act"} :
            /\ result = "act" => ~options.autoAck
            /\ outcome' = [outcome EXCEPT ![m] = @ \cup {result}]
    BY <1>1
  <1>4. UNCHANGED <<options, server>>
    BY DEF Handle, server
  <1>5. UNCHANGED <<options, 1..lastId, Open, Lost>>
    BY <1>4 DEF server, Open, Lost, Pending
  <1>. QED
    BY <1>2, <1>3, <1>5 DEF Promise!Handle, Open, Lost

\* XREADGROUP makes pending what it passes, and XAUTOCLAIM takes nothing away but entries
\* of trimmed messages: what is open stays so.
LEMMA DeliverPromise ==
    ASSUME TypeOK, Placed, NEW t \in Threads, NEW msgs \in SUBSET Msgs, DeliverNew(t, msgs)
    PROVE  UNCHANGED <<lastId, Open, Lost>>
  <1>1. UNCHANGED <<lastId, first, dropped>>
    BY DEF DeliverNew
  <1>2. /\ lastDelivered <= lastDelivered' /\ lastDelivered' <= lastId
        /\ Pending' = Pending \cup msgs
        /\ \A m \in msgs : lastDelivered < m /\ m <= lastDelivered'
        /\ \A m \in Msgs : lastDelivered < m /\ first <= m /\ m <= lastDelivered' => m \in msgs
    BY DeliverPlaced
  <1>3. /\ lastId \in Nat /\ first \in Nat /\ lastDelivered \in Nat /\ 1 <= first
        /\ lastDelivered' \in Msgs /\ lastDelivered' \in Nat
    BY LimitAssumption DEF DeliverNew, TypeOK, Msgs, Placed
  <1>4. \A m \in first..lastId :
            (lastDelivered' < m \/ m \in Pending') <=> (lastDelivered < m \/ m \in Pending)
    <2>. SUFFICES ASSUME NEW m \in first..lastId
                  PROVE  (lastDelivered' < m \/ m \in Pending \/ m \in msgs)
                             <=> (lastDelivered < m \/ m \in Pending)
      BY <1>2
    <2>1. m \in Int /\ first <= m
      BY <1>3
    <2>2. CASE lastDelivered' < m
      BY <1>2, <1>3, <2>1, <2>2
    <2>3. CASE ~(lastDelivered' < m) /\ lastDelivered < m
      <3>1. m \in Msgs
        BY <1>3, <2>1, <2>3, LimitAssumption DEF Msgs
      <3>. QED
        BY <1>2, <1>3, <2>1, <2>3, <3>1
    <2>4. CASE ~(lastDelivered < m)
      BY <1>2, <1>3, <2>1, <2>4
    <2>. QED
      BY <2>2, <2>3, <2>4
  <1>. QED
    BY <1>1, <1>4 DEF Open, Lost

LEMMA ClaimPromise ==
    ASSUME TypeOK, NEW t \in Threads, NEW page \in SUBSET Pending, Claim(t, page)
    PROVE  UNCHANGED <<lastId, Open, Lost>>
  <1>1. UNCHANGED <<lastId, first, dropped, lastDelivered>>
    BY DEF Claim
  <1>2. Pending' \subseteq Pending /\ \A m \in Pending : first <= m => m \in Pending'
    BY ClaimPlaced
  <1>3. \A m \in first..lastId : m \in Pending' <=> m \in Pending
    BY <1>2 DEF TypeOK
  <1>. QED
    BY <1>1, <1>3 DEF Open, Lost


\* XACK closes its message, or finds it closed or trimmed.
LEMMA AckPromise ==
    ASSUME PendingInv, Placed, NEW t \in Threads, Ack(t)
    PROVE  Promise!Close \/ UNCHANGED <<1..lastId, Open, Lost>>
  <1>1. PICK m \in batch[t] : Current(t, m) /\ owner' = [owner EXCEPT ![m] = NoConsumer]
    BY DEF Ack
  <1>2. /\ UNCHANGED <<options, lastId, first, lastDelivered, dropped, outcome>>
        /\ pc[t] = "ack"
    BY DEF Ack
  <1>3. TypeOK /\ m \in Msgs /\ m <= lastDelivered
    BY DEF PendingInv, TypeOK, Placed
  <1>4. Pending' = Pending \ {m}
    BY <1>1, <1>3 DEF Pending, TypeOK
  <1>5. Settled(m)
    BY <1>1, <1>2, <1>3 DEF PendingInv, AckSettled
  <1>6. lastDelivered \in Nat /\ m \in Nat
    BY <1>3, LimitAssumption DEF TypeOK, Msgs
  <1>7. Open' = Open \ {m}
    BY <1>2, <1>3, <1>4, <1>6 DEF Open
  <1>8. Promise!Settled(m)
    BY <1>5 DEF Settled, Promise!Settled
  <1>9. UNCHANGED <<1..lastId, Lost>>
    BY <1>2 DEF Lost
  <1>10. CASE m \in Open
    BY <1>2, <1>3, <1>7, <1>8, <1>9, <1>10 DEF Promise!Close, Open, Lost
  <1>11. CASE m \notin Open
    BY <1>7, <1>9, <1>11
  <1>. QED
    BY <1>10, <1>11

\* XGROUP DELCONSUMER loses what was pending with the consumer.
LEMMA DelConsumerPromise ==
    ASSUME TypeOK, DeletedInOrder, Placed, NEW s \in Subs, DelConsumer(s)
    PROVE  Promise!Lose \/ UNCHANGED <<1..lastId, Open, Lost>>
  <1>. DEFINE gone == {m \in Msgs : owner[m] = <<ProcOf[s], removed[s]>>}
  <1>1. UNCHANGED <<options, lastId, first, lastDelivered, outcome>>
    BY DEF DelConsumer, threads
  <1>2. CASE owner' = owner /\ dropped' = dropped
    BY <1>1, <1>2 DEF Open, Lost, Pending
  <1>3. CASE /\ owner' = [m \in Msgs |-> IF m \in gone THEN NoConsumer ELSE owner[m]]
             /\ dropped' = dropped \cup gone
    <2>1. gone \subseteq Pending
      BY DeletedIsPending
    <2>2. Pending' = Pending \ gone
      BY <1>3 DEF Pending
    <2>3. Lost' = Lost \cup gone
      BY <1>1, <1>3 DEF Lost
    <2>4. /\ lastId \in Nat /\ lastDelivered \in Nat
          /\ \A m \in gone : m \in Nat /\ 1 <= m /\ m <= lastDelivered /\ m <= lastId
      <3>1. /\ lastId \in Nat /\ lastDelivered \in Nat /\ lastDelivered <= lastId
            /\ \A m \in gone : m <= lastDelivered
        BY <2>1 DEF TypeOK, Placed
      <3>2. \A m \in gone : m \in Nat /\ 1 <= m
        BY LimitAssumption DEF Msgs
      <3>. HIDE DEF gone
      <3>. QED
        BY <3>1, <3>2
    <2>. HIDE DEF gone
    <2>5. Open' = Open \ gone
      BY <1>1, <2>2, <2>4 DEF Open
    <2>6. Lost \subseteq 1..lastId /\ Lost \cap Open = {}
      BY LostIsPublished
    <2>7. Lost' \subseteq 1..lastId
      <3>1. gone \subseteq 1..lastId
        BY <2>4
      <3>. QED
        BY <2>3, <2>6, <3>1
    <2>8. Open' = Open \ Lost'
      BY <2>3, <2>5, <2>6
    <2>. QED
      BY <1>1, <2>3, <2>7, <2>8 DEF Promise!Lose, Open, Lost
  <1>. QED
    BY <1>2, <1>3 DEF DelConsumer

LEMMA StepPromise ==
    PendingInv /\ DeletedInOrder /\ Grouped /\ Placed /\ [Next]_vars => [Promise!Next]_(Promise!vars)
  <1>. SUFFICES ASSUME PendingInv, DeletedInOrder, Grouped, Placed, [Next]_vars
                PROVE  Promise!Next \/ UNCHANGED Promise!vars
    OBVIOUS
  <1>. USE DEF server, subvars, threads, bounds
  <1>0. TypeOK
    BY DEF PendingInv
  <1>1. CASE Publish
    BY <1>0, <1>1, PublishPromise DEF Promise!Next
  <1>2. ASSUME UNCHANGED <<options, outcome>>, UNCHANGED <<1..lastId, Open, Lost>>
        PROVE  UNCHANGED Promise!vars
    BY <1>2 DEF Promise!vars, Open, Lost
  <1>3. ASSUME UNCHANGED <<options, outcome, server>>
        PROVE  UNCHANGED Promise!vars
    BY <1>2, <1>3 DEF Open, Lost, Pending
  <1>4. ASSUME NEW s \in Subs, Subscribe(s) PROVE UNCHANGED Promise!vars
    <2>1. UNCHANGED <<options, outcome, lastId, first, lastDelivered, owner, dropped>>
      BY <1>4 DEF Subscribe, Grouped
    <2>. QED
      BY <1>2, <2>1 DEF Open, Lost, Pending
  <1>5. ASSUME NEW s \in Subs, DelConsumer(s)
        PROVE  Promise!Next \/ UNCHANGED Promise!vars
    <2>1. UNCHANGED <<options, outcome>>
      BY <1>5 DEF DelConsumer
    <2>. QED
      BY <1>0, <1>2, <1>5, <2>1, DelConsumerPromise DEF Promise!Next
  <1>6. ASSUME NEW t \in Threads, ReadGroup(t) \/ ReadGroupFails(t)
        PROVE  UNCHANGED Promise!vars
    <2>1. UNCHANGED <<options, outcome>>
      BY <1>6 DEF ReadGroup, ReadGroupFails
    <2>2. CASE \E msgs \in SUBSET Msgs : DeliverNew(t, msgs)
      BY <1>0, <1>2, <2>1, <2>2, DeliverPromise
    <2>. QED
      BY <1>3, <1>6, <2>1, <2>2 DEF ReadGroup, ReadGroupFails
  <1>7. ASSUME NEW t \in Threads, NEW page \in SUBSET Pending, Claim(t, page),
               UNCHANGED <<options, outcome>>
        PROVE  UNCHANGED Promise!vars
    BY <1>0, <1>2, <1>7, ClaimPromise
  <1>8. ASSUME NEW t \in Threads, NEW old \in SUBSET Pending, AutoClaim(t, old)
        PROVE  UNCHANGED Promise!vars
    BY <1>7, <1>8, PageSubset DEF AutoClaim
  <1>9. ASSUME NEW t \in Threads, AutoClaimFails(t) PROVE UNCHANGED Promise!vars
    BY <1>3, <1>7, <1>9, PageSubset DEF AutoClaimFails
  <1>10. ASSUME NEW t \in Threads, Handle(t) PROVE Promise!Next
    BY <1>0, <1>10, HandlePromise DEF Promise!Next
  <1>11. ASSUME NEW t \in Threads, Ack(t)
         PROVE  Promise!Next \/ UNCHANGED Promise!vars
    <2>1. UNCHANGED <<options, outcome>>
      BY <1>11 DEF Ack
    <2>. QED
      BY <1>2, <1>11, <2>1, AckPromise DEF Promise!Next
  <1>. QED
    BY <1>1, <1>3, <1>4, <1>5, <1>6, <1>8, <1>9, <1>10, <1>11
    DEF Next, ThreadStep, vars, Cancel, SleepOver, Return, Tick, PendingAttempts, AckFails,
        Crash

\* The broker implements GroupDelivery: whatever readers, claimers, lost replies, late acks,
\* crashes and Unsubscribe do, a message is closed only when it is settled, is lost only by
\* trimming or with its consumer, and is not open again afterwards.
THEOREM BrokerKeepsPromise == Spec => KeepsPromise
  <1>1. Init => PendingInv /\ DeletedInOrder /\ Grouped /\ Placed
    BY InitTypeOK, InitPlaced
    DEF Init, PendingInv, AckSettled, UnsettledStaysPending, DeletedInOrder, Grouped, Msgs
  <1>2. PendingInv /\ DeletedInOrder /\ Grouped /\ Placed /\ [Next]_vars
            => PendingInv' /\ DeletedInOrder' /\ Grouped' /\ Placed'
    BY NextTypeOK, NextKeepsPending, NextAckSettled, NextDeletedInOrder, NextGrouped,
       NextPlaced
    DEF PendingInv
  <1>. QED
    BY <1>1, <1>2, InitPromise, StepPromise, PTL DEF Spec, KeepsPromise, Promise!Spec
=============================================================================
