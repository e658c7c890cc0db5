------------------------- MODULE KafkaReaderProofs -------------------------
(***************************************************************************)
(* Proofs about KafkaReader, for every number of subscriptions, readers,   *)
(* partitions and messages and any bound.                                  *)
(***************************************************************************)
EXTENDS KafkaReader, TLAPS

LEMMA InitTypeOK == Init => TypeOK
  <1>. SUFFICES ASSUME Init
               PROVE  TypeOK
    OBVIOUS
  <1>1. 0 \in Offsets
    BY KafkaAssumption DEF Offsets
  <1>. PICK p \in Parts : TRUE
    BY KafkaAssumption
  <1>2. <<p, 0>> \in Messages
    BY <1>1 DEF Messages
  <1>3. current \in [Readers -> Messages]
    BY <1>2 DEF Init
  <1>4. position \in [Readers -> [Parts -> Nat \cup {NotRead}]]
    BY DEF Init
  <1>5. end \in [Parts -> 0..MaxMsg] /\ committed \in [Parts -> 0..MaxMsg]
    BY KafkaAssumption DEF Init
  <1>. QED
    BY <1>3, <1>4, <1>5 DEF Init, TypeOK, Options

\* No step takes a variable out of its type.
LEMMA NextTypeOK == TypeOK /\ [Next]_vars => TypeOK'
  <1>. SUFFICES ASSUME TypeOK, [Next]_vars
               PROVE  TypeOK'
    OBVIOUS
  <1>. USE DEF group, locals, bounds
  <1>1. ASSUME NEW p \in Parts, Publish(p) PROVE TypeOK'
    BY <1>1, KafkaAssumption DEF Publish, TypeOK
  <1>2. ASSUME NEW s \in Subs, Subscribe(s) PROVE TypeOK'
    BY <1>2 DEF Subscribe, TypeOK
  <1>3. ASSUME NEW s \in Subs, Cancel(s) \/ CloseReaders(s) \/ WaitReaders(s) PROVE TypeOK'
    BY <1>3 DEF Cancel, CloseReaders, WaitReaders, TypeOK
  <1>4. ASSUME NEW s \in Subs, Crash(s) PROVE TypeOK'
    BY <1>4 DEF Crash, TypeOK
  <1>5. CASE Rebalance
    <2>1. PICK assigned \in [Parts -> Members] :
             position' = [r \in Readers |-> [p \in Parts |->
                 IF r \notin Members THEN position[r][p]
                 ELSE IF assigned[p] = r THEN committed[p] ELSE NotRead]]
      BY <1>5 DEF Rebalance, StartOffset
    <2>2. position' \in [Readers -> [Parts -> Nat \cup {NotRead}]]
      BY <2>1 DEF TypeOK
    <2>3. faults' \in Nat /\ unbalanced' = FALSE
      BY <1>5 DEF Rebalance, TypeOK, Fault
    <2>4. UNCHANGED <<options, end, committed, status, locals, outcome, fails>>
      BY <1>5 DEF Rebalance
    <2>. QED
      BY <2>2, <2>3, <2>4 DEF TypeOK
  <1>6. ASSUME NEW r \in Readers, Fetch(r) PROVE TypeOK'
    <2>1. PICK p \in Parts :
            /\ position[r][p] \in 0..end[p]-1
            /\ current' = [current EXCEPT ![r] = <<p, position[r][p]>>]
            /\ position' = [position EXCEPT ![r][p] = @ + 1]
      BY <1>6 DEF Fetch
    <2>2. position[r][p] \in Nat
      BY <2>1 DEF TypeOK
    <2>3. position' \in [Readers -> [Parts -> Nat \cup {NotRead}]]
      BY <2>1, <2>2 DEF TypeOK
    <2>4. current' \in [Readers -> Messages]
      BY <2>1, <2>2, KafkaAssumption DEF TypeOK, Messages, Offsets
    <2>. QED
      BY <1>6, <2>3, <2>4 DEF Fetch, TypeOK
  <1>7. ASSUME NEW r \in Readers, Return(r) PROVE TypeOK'
    BY <1>7 DEF Return, TypeOK
  <1>8. ASSUME NEW r \in Readers, Handle(r) PROVE TypeOK'
    <2>1. PICK failed \in BOOLEAN, acted \in BOOLEAN :
            /\ outcome' = [outcome EXCEPT ![current[r]] = @ \cup
                  (IF acted THEN {"act"} ELSE IF failed THEN {"fail"} ELSE {"ok"})]
            /\ IF DecideCommit(failed, acted)
               THEN pc' = [pc EXCEPT ![r] = "commit"] /\ UNCHANGED fails
               ELSE /\ pc' = [pc EXCEPT ![r] = "fetch"]
                    /\ fails < MaxFails /\ fails' = fails + 1
      BY <1>8 DEF Handle
    <2>2. outcome' \in [Messages -> SUBSET {"ok", "fail", "act"}]
      BY <2>1 DEF TypeOK
    <2>3. pc' \in [Readers -> {"none", "fetch", "handle", "commit", "done"}] /\ fails' \in Nat
      <3>1. CASE DecideCommit(failed, acted)
        BY <2>1, <3>1 DEF TypeOK
      <3>2. CASE ~DecideCommit(failed, acted)
        BY <2>1, <3>2 DEF TypeOK
      <3>. QED
        BY <3>1, <3>2
    <2>. QED
      BY <1>8, <2>2, <2>3 DEF Handle, TypeOK
  <1>9. ASSUME NEW r \in Readers, Commit(r) PROVE TypeOK'
    <2>1. current[r][1] \in Parts /\ current[r][2] + 1 \in 0..MaxMsg
      BY KafkaAssumption DEF TypeOK, Messages, Offsets
    <2>. QED
      BY <1>9, <2>1 DEF Commit, OffsetAfter, TypeOK
  <1>10. ASSUME NEW r \in Readers, CommitFails(r) PROVE TypeOK'
    BY <1>10 DEF CommitFails, TypeOK, Fault
  <1>11. CASE UNCHANGED vars
    BY <1>11 DEF vars, TypeOK
  <1>. QED
    BY <1>1, <1>2, <1>3, <1>4, <1>5, <1>6, <1>7, <1>8, <1>9, <1>10, <1>11
    DEF Next, ReaderStep
-----------------------------------------------------------------------------
\* A reader has handled, or handles now, all it fetched of a partition, or has returned;
\* a stale reader too, whose partition was given to another one meanwhile.
FetchedHandled ==
    \A r \in Readers, p \in Parts : \A o \in Offsets : o < position[r][p] =>
        \/ Handled(<<p, o>>)
        \/ pc[r] = "handle" /\ current[r] = <<p, o>>
        \/ pc[r] = "done"

\* Nothing is missing below the message a reader processes, and what it is about to
\* commit is settled.
Follows(r) ==
    /\ pc[r] \in {"handle", "commit"} =>
          \A n \in Offsets : n < current[r][2] => Handled(<<current[r][1], n>>)
    /\ pc[r] = "commit" => Settled(current[r])

CurrentFollows == \A r \in Readers : Follows(r)

\* A reader's goroutine does not exist before its subscription.
NotYet == \A r \in Readers : status[r[1]] = "new" => pc[r] = "none"

Inv ==
    /\ TypeOK /\ NotYet /\ FetchedHandled /\ CurrentFollows
    /\ HandledIsPrefix /\ CommitFollowsHandling

\* Outcomes only grow and options never change.
LEMMA OutcomeGrows ==
    ASSUME TypeOK, [Next]_vars
    PROVE  /\ options' = options
           /\ \A m \in Messages : outcome[m] \subseteq outcome'[m]
  <1>1. options' = options
    BY DEF Next, ReaderStep, vars, Publish, Subscribe, Cancel, CloseReaders, WaitReaders,
           Crash, Rebalance, Fetch, Return, Handle, Commit, CommitFails
  <1>2. ASSUME NEW r \in Readers, Handle(r)
        PROVE  \A m \in Messages : outcome[m] \subseteq outcome'[m]
    <2>1. \E x : outcome' = [outcome EXCEPT ![current[r]] = @ \cup x]
      BY <1>2 DEF Handle
    <2>. QED
      BY <2>1 DEF TypeOK
  <1>3. outcome' = outcome \/ \E r \in Readers : Handle(r)
    BY DEF Next, ReaderStep, vars, Publish, Subscribe, Cancel, CloseReaders, WaitReaders,
           Crash, Rebalance, Fetch, Return, Commit, CommitFails
  <1>. QED
    BY <1>1, <1>2, <1>3

LEMMA HandledStable ==
    ASSUME TypeOK, [Next]_vars, NEW m \in Messages
    PROVE  (Handled(m) => Handled(m)') /\ (Settled(m) => Settled(m)')
  BY OutcomeGrows DEF Handled, Settled

\* A settled message was handled.
LEMMA SettledHandled == ASSUME NEW m, Settled(m) PROVE Handled(m)
  BY DEF Settled, Handled

\* A returning handler handles its message, and commits only what is settled.
LEMMA HandleSettles ==
    ASSUME TypeOK, NEW r \in Readers, Handle(r)
    PROVE  /\ Handled(current[r])'
           /\ pc'[r] = "commit" => Settled(current[r])'
           /\ current' = current
           /\ \A m \in Messages : m # current[r] => (Handled(m)' <=> Handled(m))
  <1>0. current[r] \in Messages
    BY DEF TypeOK
  <1>. PICK failed \in BOOLEAN, acted \in BOOLEAN :
            /\ acted => ~options.autoAck
            /\ outcome' = [outcome EXCEPT ![current[r]] = @ \cup
                  (IF acted THEN {"act"} ELSE IF failed THEN {"fail"} ELSE {"ok"})]
            /\ IF DecideCommit(failed, acted)
               THEN pc' = [pc EXCEPT ![r] = "commit"] /\ UNCHANGED fails
               ELSE /\ pc' = [pc EXCEPT ![r] = "fetch"]
                    /\ fails < MaxFails /\ fails' = fails + 1
    BY DEF Handle
  <1>1. options' = options /\ current' = current
    BY DEF Handle
  <1>2. outcome'[current[r]] = outcome[current[r]] \cup
            (IF acted THEN {"act"} ELSE IF failed THEN {"fail"} ELSE {"ok"})
    BY <1>0 DEF TypeOK
  <1>3. Handled(current[r])'
    BY <1>1, <1>2 DEF Handled
  <1>4. pc'[r] = "commit" => DecideCommit(failed, acted)
    BY DEF TypeOK
  <1>5. DecideCommit(failed, acted) => Settled(current[r])'
    <2>1. CASE acted
      BY <1>1, <1>2, <2>1 DEF Settled, TypeOK, Options
    <2>2. CASE ~acted
      BY <1>1, <1>2, <1>3, <2>2 DEF Settled, DecideCommit, TypeOK, Options
    <2>. QED
      BY <2>1, <2>2
  <1>6. \A m \in Messages : m # current[r] => outcome'[m] = outcome[m]
    BY DEF TypeOK
  <1>. QED
    BY <1>1, <1>3, <1>4, <1>5, <1>6 DEF Handled

LEMMA NextNotYet == Inv /\ [Next]_vars => NotYet'
  <1>. SUFFICES ASSUME Inv, [Next]_vars, NEW r \in Readers, status'[r[1]] = "new"
               PROVE  pc'[r] = "none"
    BY DEF NotYet
  <1>. USE DEF group, locals, bounds, Inv
  <1>0. r[1] \in Subs
    BY DEF Readers
  <1>1. CASE status' = status
    BY <1>0, <1>1 DEF NotYet, Next, ReaderStep, vars, Publish, Subscribe, Cancel,
        CloseReaders, WaitReaders, Crash, Rebalance, Fetch, Return, Handle, Commit,
        CommitFails, TypeOK
  <1>2. ASSUME NEW s \in Subs, \/ Subscribe(s) \/ Cancel(s) \/ CloseReaders(s)
                               \/ WaitReaders(s) \/ Crash(s)
        PROVE  pc'[r] = "none"
    BY <1>0, <1>2 DEF NotYet, Subscribe, Cancel, CloseReaders, WaitReaders, Crash, TypeOK
  <1>. QED
    BY <1>1, <1>2 DEF Next, ReaderStep, vars, Publish, Rebalance, Fetch, Return, Handle,
        Commit, CommitFails

LEMMA NextFetchedHandled == Inv /\ [Next]_vars => FetchedHandled'
  <1>. SUFFICES ASSUME Inv, [Next]_vars, NEW r \in Readers, NEW p \in Parts,
                       NEW o \in Offsets, o < position'[r][p], ~Handled(<<p, o>>)'
               PROVE  (pc'[r] = "handle" /\ current'[r] = <<p, o>>) \/ pc'[r] = "done"
    BY DEF FetchedHandled
  <1>. USE DEF group, locals, bounds
  <1>0. /\ TypeOK /\ NotYet /\ FetchedHandled /\ CommitFollowsHandling
        /\ <<p, o>> \in Messages /\ r[1] \in Subs
    BY DEF Inv, Messages, Readers
  <1>1. ~Handled(<<p, o>>)
    BY <1>0, HandledStable
  <1>2. o < position[r][p] =>
            (pc[r] = "handle" /\ current[r] = <<p, o>>) \/ pc[r] = "done"
    BY <1>0, <1>1 DEF FetchedHandled
  <1>3. CASE UNCHANGED <<position, pc, current>>
    BY <1>2, <1>3
  <1>4. ASSUME NEW s \in Subs, Subscribe(s) \/ Crash(s)
        PROVE  (pc'[r] = "handle" /\ current'[r] = <<p, o>>) \/ pc'[r] = "done"
    BY <1>0, <1>2, <1>4 DEF Subscribe, Crash, NotYet, TypeOK
  <1>5. CASE Rebalance
    <2>1. \/ position'[r][p] = position[r][p]
          \/ position'[r][p] = committed[p]
          \/ position'[r][p] = NotRead
      BY <1>5 DEF Rebalance, StartOffset
    <2>2. ~(o < committed[p])
      BY <1>0, <1>1 DEF CommitFollowsHandling
    <2>5. ~(o < NotRead)
      BY DEF NotRead, Offsets
    <2>3. o \in Int /\ committed[p] \in Int
      BY <1>0 DEF Offsets, TypeOK
    <2>4. o < position[r][p]
      BY <2>1, <2>2, <2>3, <2>5, o < position'[r][p]
    <2>. QED
      BY <1>2, <1>5, <2>4 DEF Rebalance
  <1>6. ASSUME NEW q \in Readers, Fetch(q)
        PROVE  (pc'[r] = "handle" /\ current'[r] = <<p, o>>) \/ pc'[r] = "done"
    <2>1. PICK n \in Parts :
            /\ position[q][n] \in 0..end[n]-1
            /\ current' = [current EXCEPT ![q] = <<n, position[q][n]>>]
            /\ position' = [position EXCEPT ![q][n] = @ + 1]
      BY <1>6 DEF Fetch
    <2>2. pc[q] = "fetch" /\ pc' = [pc EXCEPT ![q] = "handle"]
      BY <1>6 DEF Fetch
    <2>3. CASE q # r
      BY <1>0, <1>2, <2>1, <2>2, <2>3 DEF TypeOK
    <2>4. CASE q = r /\ n # p
      BY <1>0, <1>2, <2>1, <2>2, <2>4 DEF TypeOK
    <2>5. CASE q = r /\ n = p
      <3>1. position'[r][p] = position[r][p] + 1 /\ position[r][p] \in Int /\ o \in Int
        BY <1>0, <2>1, <2>5 DEF TypeOK, Offsets
      <3>2. ~(o < position[r][p])
        BY <1>2, <2>2, <2>5
      <3>3. o = position[r][p]
        BY <3>1, <3>2, o < position'[r][p]
      <3>. QED
        BY <1>0, <2>1, <2>2, <2>5, <3>3 DEF TypeOK
    <2>. QED
      BY <2>3, <2>4, <2>5
  <1>7. ASSUME NEW q \in Readers, Return(q) \/ Commit(q) \/ CommitFails(q)
        PROVE  (pc'[r] = "handle" /\ current'[r] = <<p, o>>) \/ pc'[r] = "done"
    BY <1>0, <1>2, <1>7 DEF Return, Commit, CommitFails, TypeOK
  <1>8. ASSUME NEW q \in Readers, Handle(q)
        PROVE  (pc'[r] = "handle" /\ current'[r] = <<p, o>>) \/ pc'[r] = "done"
    <2>1. o < position[r][p] /\ current' = current
      BY <1>8 DEF Handle
    <2>2. q # r \/ pc[r] = "done"
      BY <1>0, <1>2, <1>8, <2>1, HandleSettles
    <2>3. q # r
      BY <1>8, <2>2 DEF Handle
    <2>. QED
      BY <1>0, <1>2, <1>8, <2>1, <2>3 DEF Handle, TypeOK
  <1>. QED
    BY <1>3, <1>4, <1>5, <1>6, <1>7, <1>8
    DEF Next, ReaderStep, vars, Publish, Cancel, CloseReaders, WaitReaders

LEMMA NextCurrentFollows == Inv /\ [Next]_vars => CurrentFollows'
  <1>. SUFFICES ASSUME Inv, [Next]_vars, NEW r \in Readers
               PROVE  Follows(r)'
    BY DEF CurrentFollows
  <1>. USE DEF group, locals, bounds
  <1>0. /\ TypeOK /\ FetchedHandled /\ Follows(r) /\ current[r] \in Messages
        /\ \A p \in Parts, n \in Offsets : <<p, n>> \in Messages
        /\ current[r][1] \in Parts
    BY DEF Inv, TypeOK, Messages, CurrentFollows
  <1>1. CASE pc'[r] = pc[r] /\ current'[r] = current[r]
    BY <1>0, <1>1, OutcomeGrows DEF Follows, Handled, Settled
  <1>2. CASE Fetch(r)
    <2>1. PICK p \in Parts :
            /\ position[r][p] \in 0..end[p]-1
            /\ current' = [current EXCEPT ![r] = <<p, position[r][p]>>]
      BY <1>2 DEF Fetch
    <2>2. current'[r] = <<p, position[r][p]>> /\ pc[r] = "fetch" /\ pc'[r] = "handle"
      BY <1>0, <1>2, <2>1 DEF Fetch, TypeOK
    <2>3. \A n \in Offsets : n < position[r][p] => Handled(<<p, n>>)
      BY <1>0, <2>2 DEF FetchedHandled
    <2>. QED
      BY <1>0, <2>2, <2>3, OutcomeGrows DEF Follows, Handled
  <1>3. CASE Handle(r)
    <2>1. pc[r] = "handle" /\ current' = current
      BY <1>3 DEF Handle
    <2>2. \A n \in Offsets : n < current[r][2] => Handled(<<current[r][1], n>>)
      BY <1>0, <2>1 DEF Follows
    <2>3. \A n \in Offsets : n < current'[r][2] => Handled(<<current[r][1], n>>)'
      BY <1>0, <2>1, <2>2, OutcomeGrows DEF Handled
    <2>4. pc'[r] = "commit" => Settled(current[r])'
      BY <1>0, <1>3, HandleSettles
    <2>. QED
      BY <2>3, <2>4 DEF Follows
  <1>4. CASE ~Fetch(r) /\ ~Handle(r)
    <2>1. ASSUME NEW q \in Readers, ReaderStep(q)
          PROVE  \/ pc'[r] \notin {"handle", "commit"}
                 \/ pc'[r] = pc[r] /\ current'[r] = current[r]
      BY <1>0, <1>4, <2>1 DEF ReaderStep, Fetch, Return, Handle, Commit, CommitFails, TypeOK
    <2>2. ASSUME NEW s \in Subs, \/ Subscribe(s) \/ Cancel(s) \/ CloseReaders(s)
                                 \/ WaitReaders(s) \/ Crash(s)
          PROVE  \/ pc'[r] \notin {"handle", "commit"}
                 \/ pc'[r] = pc[r] /\ current'[r] = current[r]
      BY <1>0, <2>2 DEF Subscribe, Cancel, CloseReaders, WaitReaders, Crash, TypeOK
    <2>3. CASE pc'[r] \notin {"handle", "commit"}
      BY <2>3 DEF Follows
    <2>. QED
      BY <1>1, <2>1, <2>2, <2>3 DEF Next, vars, Publish, Rebalance
  <1>. QED
    BY <1>2, <1>3, <1>4

LEMMA NextHandledIsPrefix == Inv /\ [Next]_vars => HandledIsPrefix'
  <1>. SUFFICES ASSUME Inv, [Next]_vars, NEW p \in Parts, NEW o \in Offsets,
                       NEW n \in Offsets, Handled(<<p, o>>)', n < o
               PROVE  Handled(<<p, n>>)'
    BY DEF HandledIsPrefix
  <1>0. /\ TypeOK /\ CurrentFollows /\ HandledIsPrefix
        /\ <<p, n>> \in Messages /\ <<p, o>> \in Messages
    BY DEF Inv, Messages
  <1>1. CASE Handled(<<p, o>>)
    BY <1>0, <1>1, HandledStable DEF HandledIsPrefix
  <1>2. CASE ~Handled(<<p, o>>)
    <2>1. PICK r \in Readers : Handle(r)
      BY <1>2 DEF Handled, Next, ReaderStep, vars, group, locals, bounds, Publish, Subscribe,
          Cancel, CloseReaders, WaitReaders, Crash, Rebalance, Fetch, Return, Commit,
          CommitFails
    <2>2. current[r] = <<p, o>> /\ pc[r] = "handle"
      BY <1>0, <1>2, <2>1, HandleSettles DEF Handle
    <2>3. Handled(<<p, n>>)
      BY <1>0, <2>2 DEF CurrentFollows, Follows
    <2>. QED
      BY <1>0, <2>3, HandledStable
  <1>. QED
    BY <1>1, <1>2

LEMMA NextCommitFollows == Inv /\ [Next]_vars => CommitFollowsHandling'
  <1>. SUFFICES ASSUME Inv, [Next]_vars, NEW p \in Parts
               PROVE  /\ \A o \in Offsets : o < committed'[p] => Handled(<<p, o>>)'
                      /\ committed'[p] > 0 => Settled(<<p, committed[p] - 1>>)'
    BY DEF CommitFollowsHandling
  <1>0. /\ TypeOK /\ CurrentFollows /\ CommitFollowsHandling /\ committed[p] \in 0..MaxMsg
        /\ \A o \in Offsets : <<p, o>> \in Messages
    BY DEF Inv, Messages, TypeOK
  <1>1. CASE committed'[p] = committed[p]
    <2>1. committed[p] > 0 => <<p, committed[p] - 1>> \in Messages
      BY <1>0, KafkaAssumption DEF Messages, Offsets
    <2>. QED
      BY <1>0, <1>1, <2>1, HandledStable DEF CommitFollowsHandling
  <1>2. ASSUME NEW r \in Readers, Commit(r), current[r][1] = p
        PROVE  /\ \A o \in Offsets : o < committed'[p] => Handled(<<p, o>>)'
               /\ committed'[p] > 0 => Settled(<<p, committed[p] - 1>>)'
    <2>. DEFINE c == current[r][2]
    <2>1. current[r] = <<p, c>> /\ c \in Offsets /\ c \in Nat
      BY <1>0, <1>2, KafkaAssumption DEF TypeOK, Messages, Offsets
    <2>2. committed'[p] = c + 1
      BY <1>0, <1>2 DEF Commit, OffsetAfter, TypeOK
    <2>3. Settled(<<p, c>>) /\ \A o \in Offsets : o < c => Handled(<<p, o>>)
      BY <1>0, <1>2, <2>1 DEF CurrentFollows, Follows, Commit
    <2>4. \A o \in Offsets : o < c + 1 => o < c \/ o = c
      BY <2>1 DEF Offsets
    <2>5. \A o \in Offsets : o < committed'[p] => Handled(<<p, o>>)
      BY <2>1, <2>2, <2>3, <2>4, SettledHandled
    <2>6. committed'[p] - 1 = c
      BY <2>1, <2>2
    <2>. QED
      BY <1>0, <2>1, <2>3, <2>5, <2>6, HandledStable
  <1>3. committed'[p] = committed[p] \/ \E r \in Readers : Commit(r) /\ current[r][1] = p
    <2>1. ASSUME NEW r \in Readers, Commit(r), current[r][1] # p
          PROVE  committed'[p] = committed[p]
      BY <1>0, <2>1 DEF Commit, TypeOK
    <2>. QED
      BY <2>1 DEF Next, ReaderStep, vars, group, locals, bounds, Publish, Subscribe, Cancel,
          CloseReaders, WaitReaders, Crash, Rebalance, Fetch, Return, Handle, CommitFails
  <1>. QED
    BY <1>1, <1>2, <1>3
-----------------------------------------------------------------------------
LEMMA InitInv == Init => Inv
  <1>. SUFFICES ASSUME Init PROVE Inv
    OBVIOUS
  <1>1. \A m \in Messages : ~Handled(m)
    BY DEF Init, Handled
  <1>2. \A p \in Parts, o \in Offsets : <<p, o>> \in Messages /\ ~(o < 0) /\ ~(o < NotRead)
    BY DEF Messages, Offsets, NotRead
  <1>3. FetchedHandled /\ CommitFollowsHandling /\ HandledIsPrefix
    BY <1>1, <1>2 DEF Init, FetchedHandled, CommitFollowsHandling, HandledIsPrefix
  <1>4. NotYet /\ CurrentFollows
    BY DEF Init, NotYet, CurrentFollows, Follows
  <1>. QED
    BY <1>3, <1>4, InitTypeOK DEF Inv

LEMMA InvInductive == Spec => []Inv
  <1>1. Inv /\ [Next]_vars => Inv'
    BY NextTypeOK, NextNotYet, NextFetchedHandled, NextCurrentFollows, NextHandledIsPrefix,
       NextCommitFollows DEF Inv
  <1>. QED
    BY InitInv, <1>1, PTL DEF Spec

\* The broker's variables never leave their types.
THEOREM TypeCorrect == Spec => []TypeOK
  BY InitTypeOK, NextTypeOK, PTL DEF Spec

\* No message of a partition is handled before one with a smaller offset, whatever
\* rebalances, late commits, crashes and skipped commits happen.
THEOREM NoGapInAPartition == Spec => []HandledIsPrefix
  <1>1. Inv => HandledIsPrefix
    BY DEF Inv
  <1>. QED
    BY InvInductive, <1>1, PTL

\* The committed offset only ever stands behind a settled message, over handled ones.
THEOREM CommitAfterHandling == Spec => []CommitFollowsHandling
  <1>1. Inv => CommitFollowsHandling
    BY DEF Inv
  <1>. QED
    BY InvInductive, <1>1, PTL
-----------------------------------------------------------------------------
\* What a reader works on was published, and so was what the group has committed.
OnlyPublished ==
    /\ \A p \in Parts : committed[p] <= end[p]
    /\ \A r \in Readers : pc[r] \in {"handle", "commit"} => current[r][2] < end[current[r][1]]

LEMMA InitOnlyPublished == Init => OnlyPublished
  BY DEF Init, OnlyPublished

LEMMA NextOnlyPublished == Inv /\ OnlyPublished /\ [Next]_vars => OnlyPublished'
  <1>. SUFFICES ASSUME Inv, OnlyPublished, [Next]_vars
                PROVE  OnlyPublished'
    OBVIOUS
  <1>. USE DEF group, locals, bounds
  <1>0. TypeOK /\ KafkaAssumption
    BY KafkaAssumption DEF Inv
  <1>1. ASSUME NEW p \in Parts, Publish(p) PROVE OnlyPublished'
    <2>1. \A q \in Parts : end'[q] \in Nat /\ end[q] \in Nat /\ end[q] <= end'[q]
      BY <1>0, <1>1 DEF Publish, TypeOK
    <2>2. \A q \in Parts : committed'[q] = committed[q] /\ committed[q] \in Nat
      BY <1>0, <1>1 DEF Publish, TypeOK
    <2>3. \A r \in Readers : current[r][1] \in Parts /\ current[r][2] \in Int
      BY <1>0 DEF TypeOK, Messages, Offsets
    <2>. QED
      BY <1>1, <2>1, <2>2, <2>3 DEF OnlyPublished, Publish
  <1>2. ASSUME NEW s \in Subs, Subscribe(s) \/ Crash(s) PROVE OnlyPublished'
    BY <1>0, <1>2 DEF Subscribe, Crash, OnlyPublished, TypeOK
  <1>3. ASSUME NEW r \in Readers, Fetch(r) PROVE OnlyPublished'
    <2>1. PICK p \in Parts : position[r][p] \in 0..end[p]-1
                             /\ current' = [current EXCEPT ![r] = <<p, position[r][p]>>]
      BY <1>3 DEF Fetch
    <2>2. position[r][p] < end[p]
      BY <1>0, <2>1 DEF TypeOK
    <2>. QED
      BY <1>0, <1>3, <2>1, <2>2 DEF Fetch, OnlyPublished, TypeOK
  <1>4. ASSUME NEW r \in Readers, Return(r) \/ Handle(r) \/ CommitFails(r) PROVE OnlyPublished'
    BY <1>0, <1>4 DEF Return, Handle, CommitFails, OnlyPublished, TypeOK
  <1>5. ASSUME NEW r \in Readers, Commit(r) PROVE OnlyPublished'
    <2>1. current[r][1] \in Parts /\ current[r][2] \in Int /\ current[r][2] < end[current[r][1]]
      BY <1>0, <1>5 DEF Commit, OnlyPublished, TypeOK, Messages, Offsets
    <2>2. committed'[current[r][1]] <= end[current[r][1]]
      BY <1>0, <1>5, <2>1 DEF Commit, OffsetAfter, TypeOK
    <2>. QED
      BY <1>0, <1>5, <2>2 DEF Commit, OnlyPublished, TypeOK
  <1>6. UNCHANGED <<end, committed, pc, current>> => OnlyPublished'
    BY DEF OnlyPublished
  <1>. QED
    BY <1>1, <1>2, <1>3, <1>4, <1>5, <1>6 DEF Next, ReaderStep, vars, Cancel, CloseReaders,
       WaitReaders, Rebalance

-----------------------------------------------------------------------------
\* The state of the group as GroupDelivery sees it.
Published == {m \in Messages : m[2] < end[m[1]]}
Open      == {m \in Messages : committed[m[1]] <= m[2] /\ m[2] < end[m[1]]}
Earlier   == [m \in Messages |-> {n \in Messages : n[1] = m[1] /\ n[2] < m[2]}]

LEMMA InitPromise == Init => Promise!Init
  <1>. SUFFICES ASSUME Init PROVE Promise!Init
    OBVIOUS
  <1>1. \A m \in Messages : m[1] \in Parts /\ m[2] \in Nat
    BY KafkaAssumption DEF Messages, Offsets
  <1>2. Published = {} /\ Open = {}
    BY <1>1 DEF Init, Published, Open
  <1>. QED
    BY <1>2 DEF Init, Promise!Init, Published, Open, Options

\* A handler call is one of GroupDelivery's.
LEMMA HandlePromise ==
    ASSUME Inv, OnlyPublished, NEW r \in Readers, Handle(r)
    PROVE  Promise!Handle
  <1>. DEFINE m == current[r]
  <1>0. TypeOK /\ m \in Messages
    BY DEF Inv, TypeOK
  <1>1. m \in Published
    BY <1>0 DEF Handle, OnlyPublished, Published
  <1>2. \A n \in Earlier[m] : outcome[n] # {}
    <2>1. \A n \in Offsets : n < m[2] => Handled(<<m[1], n>>)
      BY DEF Inv, CurrentFollows, Follows, Handle
    <2>2. \A n \in Messages : n = <<n[1], n[2]>> /\ n[2] \in Offsets
      BY DEF Messages
    <2>. QED
      BY <1>0, <2>1, <2>2 DEF Earlier, Handled
  <1>3. \E result \in {"ok", "fail", "act"} :
           /\ result = "act" => ~options.autoAck
           /\ outcome' = [outcome EXCEPT ![m] = @ \cup {result}]
    <2>1. PICK failed \in BOOLEAN, acted \in BOOLEAN :
              /\ acted => ~options.autoAck
              /\ outcome' = [outcome EXCEPT ![m] = @ \cup
                    (IF acted THEN {"act"} ELSE IF failed THEN {"fail"} ELSE {"ok"})]
      BY DEF Handle
    <2>. QED
      BY <2>1
  <1>4. UNCHANGED <<options, end, committed>>
    BY DEF Handle
  <1>5. UNCHANGED <<options, Published, Open, {}>>
    BY <1>4 DEF Published, Open
  <1>. QED
    BY <1>1, <1>2, <1>3, <1>5 DEF Promise!Handle, Published, Open, Earlier

\* A commit closes a message and its predecessors, or opens what comes after it again.
LEMMA CommitPromise ==
    ASSUME Inv, OnlyPublished, NEW r \in Readers, Commit(r)
    PROVE  Promise!Close \/ Promise!Reopen
  <1>. DEFINE m == current[r]
              p == m[1]
              o == m[2]
  <1>0. /\ TypeOK /\ m \in Messages /\ p \in Parts /\ o \in Nat /\ m = <<p, o>>
        /\ \A n \in Messages : n[1] \in Parts /\ n[2] \in Nat /\ n = <<n[1], n[2]>>
        /\ \A q \in Parts : committed[q] \in Nat /\ end[q] \in Nat
    BY KafkaAssumption DEF Inv, TypeOK, Messages, Offsets
  <1>1. m \in Published /\ Settled(m)
    BY <1>0 DEF Inv, Commit, OnlyPublished, Published, CurrentFollows, Follows
  <1>2. UNCHANGED <<options, end, outcome>>
    BY DEF Commit
  <1>3. \A q \in Parts : committed'[q] = IF q = p THEN o + 1 ELSE committed[q]
    BY <1>0 DEF Commit, OffsetAfter, TypeOK
  <1>4. UNCHANGED <<options, Published, {}, outcome>>
    BY <1>2 DEF Published
  <1>5. Promise!Settled(m)
    BY <1>1 DEF Settled, Handled, Promise!Settled
  <1>6. Earlier[m] = {n \in Messages : n[1] = p /\ n[2] < o}
    BY <1>0 DEF Earlier
  <1>7. CASE committed[p] <= o
    <2>1. m \in Open
      BY <1>0, <1>1, <1>7 DEF Published, Open
    <2>2. \A n \in Messages : n \in Open' <=> n \in Open /\ n # m /\ n \notin Earlier[m]
      <3>. SUFFICES ASSUME NEW n \in Messages
                    PROVE  n \in Open' <=> n \in Open /\ n # m /\ n \notin Earlier[m]
        OBVIOUS
      <3>1. n \in Open' <=> committed'[n[1]] <= n[2] /\ n[2] < end[n[1]]
        BY <1>2 DEF Open
      <3>2. n \in Open <=> committed[n[1]] <= n[2] /\ n[2] < end[n[1]]
        BY DEF Open
      <3>3. n = m <=> n[1] = p /\ n[2] = o
        BY <1>0
      <3>. HIDE DEF m, p, o
      <3>. QED
        BY <1>0, <1>3, <1>6, <1>7, <3>1, <3>2, <3>3
    <2>3. Open' = Open \ ({m} \cup Earlier[m])
      BY <2>2 DEF Open
    <2>. QED
      BY <1>4, <1>5, <2>1, <2>3 DEF Promise!Close, Published, Open, Earlier
  <1>8. CASE ~(committed[p] <= o)
    <2>1. m \in Published \ Open
      BY <1>0, <1>1, <1>8 DEF Open
    <2>2. \A n \in Messages :
              n \in Open' <=> n \in Open \/ (n \in Published /\ m \in Earlier[n])
      <3>. SUFFICES ASSUME NEW n \in Messages
                    PROVE  n \in Open' <=> n \in Open \/ (n \in Published /\ m \in Earlier[n])
        OBVIOUS
      <3>1. n \in Open' <=> committed'[n[1]] <= n[2] /\ n[2] < end[n[1]]
        BY <1>2 DEF Open
      <3>2. n \in Open <=> committed[n[1]] <= n[2] /\ n[2] < end[n[1]]
        BY DEF Open
      <3>3. m \in Earlier[n] <=> p = n[1] /\ o < n[2]
        BY <1>0 DEF Earlier
      <3>4. n \in Published <=> n[2] < end[n[1]]
        BY DEF Published
      <3>. HIDE DEF m, p, o
      <3>. QED
        BY <1>0, <1>3, <1>8, <3>1, <3>2, <3>3, <3>4
    <2>3. Open' = Open \cup {n \in Published : m \in Earlier[n]}
      BY <2>2 DEF Open, Published
    <2>. QED
      BY <1>4, <1>5, <2>1, <2>3 DEF Promise!Reopen, Published, Open, Earlier
  <1>. QED
    BY <1>7, <1>8

\* A message is published.
LEMMA PublishPromise ==
    ASSUME Inv, OnlyPublished, NEW p \in Parts, Publish(p)
    PROVE  Promise!Publish
  <1>. DEFINE m == <<p, end[p]>>
  <1>0. /\ TypeOK /\ end[p] \in Nat /\ end[p] < MaxMsg
        /\ \A n \in Messages : n[1] \in Parts /\ n[2] \in Nat /\ n = <<n[1], n[2]>>
        /\ \A q \in Parts : committed[q] \in Nat /\ end[q] \in Nat /\ committed[q] <= end[q]
    BY KafkaAssumption DEF Inv, TypeOK, Messages, Offsets, Publish, OnlyPublished
  <1>1. m \in Messages
    BY <1>0, KafkaAssumption DEF Messages, Offsets
  <1>2. UNCHANGED <<options, committed, outcome>>
    BY DEF Publish, group, locals, bounds
  <1>3. \A q \in Parts : end'[q] = IF q = p THEN end[p] + 1 ELSE end[q]
    BY <1>0 DEF Publish, TypeOK
  <1>4. \A n \in Messages : n = m <=> n[1] = p /\ n[2] = end[p]
    BY <1>0
  <1>5. \A n \in Messages : /\ n \in Published' <=> n[2] < end'[n[1]]
                            /\ n \in Published <=> n[2] < end[n[1]]
                            /\ n \in Open' <=> committed[n[1]] <= n[2] /\ n[2] < end'[n[1]]
                            /\ n \in Open <=> committed[n[1]] <= n[2] /\ n[2] < end[n[1]]
    BY <1>2 DEF Published, Open
  <1>. HIDE DEF m
  <1>6. \A n \in Messages : (n \in Published' <=> n \in Published \/ n = m)
                            /\ (n \in Open' <=> n \in Open \/ n = m)
    BY <1>0, <1>3, <1>4, <1>5
  <1>7. m \notin Published
    BY <1>0, <1>1, <1>4, <1>5
  <1>8. Published' = Published \cup {m} /\ Open' = (Open \cup {m}) \ {}
    BY <1>1, <1>6 DEF Published, Open
  <1>. QED
    BY <1>1, <1>2, <1>7, <1>8 DEF Promise!Publish, Published, Open

LEMMA StepPromise == Inv /\ OnlyPublished /\ [Next]_vars => [Promise!Next]_(Promise!vars)
  <1>. SUFFICES ASSUME Inv, OnlyPublished, [Next]_vars
                PROVE  Promise!Next \/ UNCHANGED Promise!vars
    OBVIOUS
  <1>1. ASSUME NEW p \in Parts, Publish(p) PROVE Promise!Next
    BY <1>1, PublishPromise DEF Promise!Next
  <1>2. ASSUME NEW r \in Readers, Handle(r) PROVE Promise!Next
    BY <1>2, HandlePromise DEF Promise!Next
  <1>3. ASSUME NEW r \in Readers, Commit(r) PROVE Promise!Next
    BY <1>3, CommitPromise DEF Promise!Next
  <1>4. UNCHANGED <<options, end, committed, outcome>> => UNCHANGED Promise!vars
    BY DEF Promise!vars
  <1>. QED
    BY <1>1, <1>2, <1>3, <1>4 DEF Next, ReaderStep, vars, group, locals, bounds, Subscribe,
       Cancel, CloseReaders, WaitReaders, Crash, Rebalance, Fetch, Return, CommitFails

\* The readers implement GroupDelivery: whatever rebalances, crashes, failing and late
\* commits do, a message is handled after its predecessors, is passed by the group's offset
\* only when it is settled, and what a late commit opens again is only handled again.
THEOREM ReadersKeepPromise == Spec => KeepsPromise
  <1>1. Inv /\ OnlyPublished /\ [Next]_vars => OnlyPublished'
    BY NextOnlyPublished
  <1>2. Spec => []OnlyPublished
    BY <1>1, InvInductive, InitOnlyPublished, PTL DEF Spec
  <1>. QED
    BY <1>2, InvInductive, InitPromise, StepPromise, PTL DEF Spec, KeepsPromise, Promise!Spec
=============================================================================
