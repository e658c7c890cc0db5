--------------------------- MODULE ProcessProofs ---------------------------
(***************************************************************************)
(* Safety of the parts of a process.  Each part has an inductive invariant *)
(* of its own, shown over the actions of its module; a step of Process is  *)
(* a step of one part and none of the others, which joins them.            *)
(***************************************************************************)
EXTENDS Process, SequenceTheorems, TLAPS

-----------------------------------------------------------------------------
\* The lock.

\* While no time to live has run out under its owner and no DEL was sent twice, the key
\* exists and is the one the holder made: what SET NX and DEL meet is as it should be.
KeyIsHolders == ~overrun /\ ~repeated => \A c \in Lock!Holding : key = c

LockInv == Lock!LockTypeOK /\ KeyIsHolders

LEMMA LockInitInv ==
    ASSUME Lock!LockAssumption
    PROVE  Lock!Init => LockInv
  <1>. SUFFICES ASSUME Lock!Init PROVE LockInv
    OBVIOUS
  <1>1. waits \in [Clients -> 0..MaxWaits]
    BY DEF Lock!LockAssumption, Lock!Init
  <1>2. Lock!LockTypeOK
    BY <1>1 DEF Lock!Init, Lock!LockTypeOK
  <1>3. Lock!Holding = {}
    BY DEF Lock!Init, Lock!Holding
  <1>. QED
    BY <1>2, <1>3 DEF LockInv, KeyIsHolders

LEMMA LockNextTypeOK ==
    ASSUME Lock!LockAssumption
    PROVE  Lock!LockTypeOK /\ [Lock!Next]_lockVars => Lock!LockTypeOK'
  <1>. SUFFICES ASSUME Lock!LockTypeOK, [Lock!Next]_lockVars
                PROVE  Lock!LockTypeOK'
    OBVIOUS
  <1>. USE DEF Lock!history
  <1>1. CASE Lock!Expire
    BY <1>1 DEF Lock!Expire, Lock!LockTypeOK, Lock!Holding
  <1>2. ASSUME NEW c \in Clients, Lock!Call(c) PROVE Lock!LockTypeOK'
    BY <1>2 DEF Lock!Call, Lock!LockTypeOK, Lock!LockAssumption
  <1>3. ASSUME NEW c \in Clients, Lock!Try(c) \/ Lock!TryLost(c) PROVE Lock!LockTypeOK'
    BY <1>3 DEF Lock!Try, Lock!TryLost, Lock!SetNX, Lock!LockTypeOK
  <1>4. ASSUME NEW c \in Clients, Lock!Wake(c) PROVE Lock!LockTypeOK'
    BY <1>4 DEF Lock!Wake, Lock!LockTypeOK, Lock!LockAssumption
  <1>5. ASSUME NEW c \in Clients,
     Lock!Unlock(c) \/ Lock!Del(c) \/ Lock!Abandon(c) PROVE Lock!LockTypeOK'
    BY <1>5 DEF Lock!Unlock, Lock!Del, Lock!Abandon, Lock!LockTypeOK
  <1>7. ASSUME NEW c \in Clients, Lock!DelLost(c) PROVE Lock!LockTypeOK'
    <2>1. repeated' \in BOOLEAN
      BY <1>7 DEF Lock!DelLost, Lock!LockTypeOK
    <2>. QED
      BY <1>7, <2>1 DEF Lock!DelLost, Lock!LockTypeOK
  <1>6. CASE UNCHANGED lockVars
    BY <1>6 DEF lockVars, Lock!LockTypeOK
  <1>. QED
    BY <1>1, <1>2, <1>3, <1>4, <1>5, <1>6, <1>7 DEF Lock!Next, Lock!ClientStep

LEMMA LockNextKeyIsHolders ==
    ASSUME Lock!LockAssumption
    PROVE  LockInv /\ [Lock!Next]_lockVars => KeyIsHolders'
  <1>. SUFFICES ASSUME LockInv, [Lock!Next]_lockVars, ~overrun', ~repeated',
     NEW d \in Lock!Holding'
                PROVE  key' = d
    BY DEF KeyIsHolders
  <1>. USE DEF Lock!history
  <1>0. Lock!LockTypeOK /\ d \in Clients /\ Lock!None \notin Clients
    BY DEF LockInv, Lock!Holding, Lock!LockAssumption
  <1>1. overrun = FALSE /\ repeated = FALSE /\ \A c \in Lock!Holding : key = c
    <2>1. ~overrun /\ ~repeated
      BY <1>0 DEF Lock!Next, Lock!ClientStep, lockVars, Lock!Expire, Lock!Call, Lock!Try,
         Lock!TryLost, Lock!Wake, Lock!Unlock, Lock!Del,
         Lock!DelLost, Lock!Abandon, Lock!LockTypeOK
    <2>. QED
      BY <1>0, <2>1 DEF LockInv, KeyIsHolders, Lock!LockTypeOK
  \* Only SET NX makes a holder, and it makes its key.
  <1>2. ASSUME d \notin Lock!Holding PROVE key' = d
    <2>1. Lock!Try(d)
      BY <1>0, <1>2 DEF Lock!Next, Lock!ClientStep, lockVars, Lock!Expire, Lock!Call,
         Lock!Try, Lock!TryLost, Lock!Wake, Lock!Unlock,
         Lock!Del, Lock!DelLost, Lock!Abandon, Lock!Holding, Lock!LockTypeOK
    <2>2. lockPc'[d] = "held"
      BY <1>0, <2>1 DEF Lock!Try, Lock!Holding, Lock!LockTypeOK
    <2>3. Lock!SetNX(d) # key
      BY <1>0, <2>1, <2>2 DEF Lock!Try, Lock!LockTypeOK
    <2>. QED
      BY <2>1, <2>3 DEF Lock!Try, Lock!SetNX
  \* A holder's key is not made again, and goes only with the holder.
  <1>3. ASSUME d \in Lock!Holding PROVE key' = d
    <2>1. key = d
      BY <1>1, <1>3
    <2>2. CASE Lock!Expire
      BY <1>0, <1>1, <1>3, <2>1, <2>2 DEF Lock!Expire, Lock!Holding
    <2>3. ASSUME NEW c \in Clients, Lock!Try(c) \/ Lock!TryLost(c) PROVE key' = d
      BY <1>0, <2>1, <2>3 DEF Lock!Try, Lock!TryLost, Lock!SetNX
    <2>4. ASSUME NEW c \in Clients, Lock!Del(c) PROVE key' = d
      <3>1. c = d
        BY <1>1, <2>1, <2>4 DEF Lock!Del, Lock!Holding
      <3>. QED
        BY <1>0, <2>4, <3>1 DEF Lock!Del, Lock!Holding, Lock!LockTypeOK
    <2>5. ASSUME NEW c \in Clients, Lock!DelLost(c) PROVE key' = d
      BY <2>1, <2>5 DEF Lock!DelLost
    <2>. QED
      BY <2>1, <2>2, <2>3, <2>4, <2>5 DEF Lock!Next, Lock!ClientStep, lockVars, Lock!Call,
         Lock!Wake, Lock!Unlock, Lock!Abandon
  <1>. QED
    BY <1>2, <1>3

-----------------------------------------------------------------------------
\* The NSQ subscriptions.

\* A goroutine that is busy is busy with a message.
BusyWithMessage == \A t \in Threads : job[t].msg = 0 => job[t] = Nsq!Idle

NsqInv == Nsq!NsqTypeOK /\ BusyWithMessage /\ Nsq!RemovedIsSettled

LEMMA NsqInitInv ==
    ASSUME Nsq!NsqAssumption
    PROVE  Nsq!Init => NsqInv
  <1>. SUFFICES ASSUME Nsq!Init PROVE NsqInv
    OBVIOUS
  <1>1. owner \in [Nsq!Msgs -> Subscribers]
    BY DEF Nsq!Init, Nsq!NsqAssumption
  <1>2. /\ attempts \in [Nsq!Msgs -> 0..MaxAttempts]
        /\ job \in [Threads -> [msg : 0..MaxMsgs, isAct : BOOLEAN]]
    BY DEF Nsq!Init, Nsq!Idle, Nsq!NsqAssumption
  <1>3. Nsq!NsqTypeOK
    BY <1>1, <1>2 DEF Nsq!Init, Nsq!NsqTypeOK
  <1>4. BusyWithMessage /\ Nsq!RemovedIsSettled
    BY DEF Nsq!Init, BusyWithMessage, Nsq!RemovedIsSettled
  <1>. QED
    BY <1>3, <1>4 DEF NsqInv

\* What a handler that is busy works on is a message.
LEMMA NsqBusyMessage ==
    ASSUME Nsq!NsqAssumption, NsqInv, NEW t \in Threads, job[t] # Nsq!Idle
    PROVE  job[t].msg \in Nsq!Msgs
  <1>1. job[t].msg \in 0..MaxMsgs
    BY DEF NsqInv, Nsq!NsqTypeOK
  <1>2. job[t].msg # 0
    BY DEF NsqInv, BusyWithMessage
  <1>. QED
    BY <1>1, <1>2 DEF Nsq!NsqAssumption, Nsq!Msgs

\* FIN and REQ change the state of the message the handler works on, or nothing.
LEMMA NsqResponded ==
    ASSUME Nsq!NsqAssumption, NsqInv, NEW t \in Threads, job[t] # Nsq!Idle,
           NEW to \in {"none", "queued", "gone"}, Nsq!Respond(t, to)
    PROVE  /\ channel' \in [Nsq!Msgs -> {"unpublished", "queued", "inflight", "gone"}]
           /\ \A m \in Nsq!Msgs : channel'[m] = "gone" =>
                  channel[m] = "gone" \/ (m = job[t].msg /\ to = "gone")
  BY NsqBusyMessage DEF NsqInv, Nsq!NsqTypeOK, Nsq!Respond

\* An outcome that is there stays there.
LEMMA NsqKept ==
    ASSUME NsqInv, \A m \in Nsq!Msgs : outcomes[m] \subseteq outcomes'[m]
    PROVE  \A m \in Nsq!Msgs : channel[m] = "gone" =>
               outcomes'[m] \cap {"ok", "acked", "panic", "dropped", "gave up"} # {}
  BY DEF NsqInv, Nsq!RemovedIsSettled

NsqOutcomes == {"ok", "error", "dropped", "panic", "acked", "gave up"}

LEMMA NsqActInv ==
    ASSUME Nsq!NsqAssumption, NsqInv, NEW t \in Threads, Nsq!Act(t)
    PROVE  NsqInv'
  <1>0. /\ Nsq!NsqTypeOK /\ BusyWithMessage /\ job[t] # Nsq!Idle /\ job[t].msg \in Nsq!Msgs
        /\ UNCHANGED <<owner, attempts, options, connected, nsqCrashes>>
        /\ job' = [job EXCEPT ![t].isAct = TRUE]
    BY NsqBusyMessage DEF NsqInv, Nsq!Act
  <1>1. PICK to \in {"gone", "queued"} :
            /\ Nsq!Respond(t, to)
            /\ outcomes' = [outcomes EXCEPT ![job[t].msg] =
                  IF to = "gone" THEN @ \cup {"acked"} ELSE @]
    BY DEF Nsq!Act
  <1>2. /\ outcomes' \in [Nsq!Msgs -> SUBSET NsqOutcomes]
        /\ \A m \in Nsq!Msgs : outcomes[m] \subseteq outcomes'[m]
        /\ to = "gone" => "acked" \in outcomes'[job[t].msg]
    BY <1>0, <1>1 DEF Nsq!NsqTypeOK, NsqOutcomes
  <1>3. /\ channel' \in [Nsq!Msgs -> {"unpublished", "queued", "inflight", "gone"}]
        /\ \A m \in Nsq!Msgs : channel'[m] = "gone" =>
               channel[m] = "gone" \/ (m = job[t].msg /\ to = "gone")
    BY <1>0, <1>1, NsqResponded
  <1>4. /\ job' \in [Threads -> [msg : 0..MaxMsgs, isAct : BOOLEAN]]
        /\ \A u \in Threads : job'[u].msg = job[u].msg /\ (u # t => job'[u] = job[u])
    BY <1>0 DEF Nsq!NsqTypeOK
  <1>5. Nsq!NsqTypeOK'
    BY <1>0, <1>2, <1>3, <1>4 DEF Nsq!NsqTypeOK, NsqOutcomes
  <1>6. BusyWithMessage'
    <2>1. job[t].msg # 0
      BY <1>0 DEF BusyWithMessage
    <2>. QED
      BY <1>0, <1>4, <2>1 DEF BusyWithMessage
  <1>7. Nsq!RemovedIsSettled'
    BY <1>2, <1>3, NsqKept DEF Nsq!RemovedIsSettled
  <1>. QED
    BY <1>5, <1>6, <1>7 DEF NsqInv

\* A handler that returns: FIN follows success or a panic under AutoAck, or a failure that
\* the subscription drops.
LEMMA NsqReturnInv ==
    ASSUME Nsq!NsqAssumption, NsqInv, NEW t \in Threads,
           NEW how \in {"ok", "error", "panic"}, Nsq!Return(t, how)
    PROVE  NsqInv'
  <1>. DEFINE m0    == job[t].msg
              to    == Nsq!Response(t, how = "error")
              what  == IF how = "error" /\ ~job[t].isAct /\ Nsq!Drops(options[SubOf[t]])
                       THEN "dropped" ELSE how
  <1>0. /\ Nsq!NsqTypeOK /\ BusyWithMessage /\ job[t] # Nsq!Idle /\ m0 \in Nsq!Msgs
        /\ UNCHANGED <<owner, attempts, options, connected, nsqCrashes>>
        /\ job' = [job EXCEPT ![t] = Nsq!Idle]
    BY NsqBusyMessage DEF NsqInv, Nsq!Return
  <1>1. /\ Nsq!Respond(t, to) /\ to \in {"none", "queued", "gone"}
        /\ outcomes' = [outcomes EXCEPT ![m0] = @ \cup {what}]
    BY DEF Nsq!Return, Nsq!Response
  <1>2. what \in NsqOutcomes /\ (to = "gone" => what \in {"ok", "panic", "dropped"})
    BY DEF Nsq!Response, Nsq!Drops, NsqOutcomes
  <1>. HIDE DEF to, what
  <1>3. /\ outcomes' \in [Nsq!Msgs -> SUBSET NsqOutcomes]
        /\ \A m \in Nsq!Msgs : outcomes[m] \subseteq outcomes'[m]
        /\ what \in outcomes'[m0]
    BY <1>0, <1>1, <1>2 DEF Nsq!NsqTypeOK, NsqOutcomes
  <1>4. /\ channel' \in [Nsq!Msgs -> {"unpublished", "queued", "inflight", "gone"}]
        /\ \A m \in Nsq!Msgs : channel'[m] = "gone" =>
               channel[m] = "gone" \/ (m = m0 /\ to = "gone")
    BY <1>0, <1>1, NsqResponded
  <1>5. /\ job' \in [Threads -> [msg : 0..MaxMsgs, isAct : BOOLEAN]]
        /\ \A u \in Threads : job'[u] = Nsq!Idle \/ job'[u] = job[u]
    <2>1. Nsq!Idle \in [msg : 0..MaxMsgs, isAct : BOOLEAN]
      BY DEF Nsq!Idle, Nsq!NsqAssumption
    <2>. QED
      BY <1>0, <2>1 DEF Nsq!NsqTypeOK
  <1>6. Nsq!NsqTypeOK'
    BY <1>0, <1>3, <1>4, <1>5 DEF Nsq!NsqTypeOK, NsqOutcomes
  <1>7. BusyWithMessage'
    BY <1>0, <1>5 DEF BusyWithMessage
  <1>8. Nsq!RemovedIsSettled'
    BY <1>2, <1>3, <1>4, NsqKept DEF Nsq!RemovedIsSettled
  <1>. QED
    BY <1>6, <1>7, <1>8 DEF NsqInv

LEMMA NsqDeliverInv ==
    ASSUME Nsq!NsqAssumption, NsqInv, NEW t \in Threads, NEW m \in Nsq!Msgs, Nsq!Deliver(t,
       m)
    PROVE  NsqInv'
  <1>0. /\ Nsq!NsqTypeOK /\ BusyWithMessage
        /\ UNCHANGED <<options, connected, nsqCrashes>>
        /\ owner' = [owner EXCEPT ![m] = SubOf[t]] /\ SubOf[t] \in Subscribers
        /\ m \in 1..MaxMsgs
    BY DEF NsqInv, Nsq!Deliver, Nsq!NsqAssumption, Nsq!Msgs
  <1>1. CASE Nsq!GivesUp(m)
    <2>1. /\ channel' = [channel EXCEPT ![m] = "gone"] /\ UNCHANGED <<attempts, job>>
          /\ outcomes' = [outcomes EXCEPT ![m] = @ \cup {"gave up"}]
      BY <1>1 DEF Nsq!Deliver
    <2>2. /\ outcomes' \in [Nsq!Msgs -> SUBSET NsqOutcomes] /\ "gave up" \in outcomes'[m]
          /\ \A n \in Nsq!Msgs : outcomes[n] \subseteq outcomes'[n]
      BY <1>0, <2>1 DEF Nsq!NsqTypeOK, NsqOutcomes
    <2>3. Nsq!NsqTypeOK'
      BY <1>0, <2>1, <2>2 DEF Nsq!NsqTypeOK, NsqOutcomes
    <2>4. BusyWithMessage'
      BY <1>0, <2>1 DEF BusyWithMessage
    <2>5. Nsq!RemovedIsSettled'
      BY <1>0, <2>1, <2>2, NsqKept DEF Nsq!RemovedIsSettled, Nsq!NsqTypeOK
    <2>. QED
      BY <2>3, <2>4, <2>5 DEF NsqInv
  <1>2. CASE ~Nsq!GivesUp(m)
    <2>1. /\ channel' = [channel EXCEPT ![m] = "inflight"] /\ UNCHANGED outcomes
          /\ job' = [job EXCEPT ![t] = [msg |-> m, isAct |-> FALSE]]
          /\ attempts' = [attempts EXCEPT ![m] = IF @ > MaxAttempts THEN @ ELSE @ + 1]
      BY <1>2 DEF Nsq!Deliver
    <2>2. attempts' \in [Nsq!Msgs -> 0..MaxAttempts]
      <3>1. attempts[m] \in 0..MaxAttempts /\ MaxAttempts \in Nat
        BY <1>0 DEF Nsq!NsqTypeOK, Nsq!NsqAssumption
      <3>2. attempts[m] + 1 \in 0..MaxAttempts /\ ~(attempts[m] > MaxAttempts)
        BY <1>2, <3>1 DEF Nsq!GivesUp
      <3>3. attempts' = [attempts EXCEPT ![m] = attempts[m] + 1]
        BY <2>1, <3>2
      <3>. QED
        BY <1>0, <3>2, <3>3 DEF Nsq!NsqTypeOK
    <2>3. job' \in [Threads -> [msg : 0..MaxMsgs, isAct : BOOLEAN]]
      <3>1. [msg |-> m, isAct |-> FALSE] \in [msg : 0..MaxMsgs, isAct : BOOLEAN]
        BY <1>0
      <3>. QED
        BY <1>0, <2>1, <3>1 DEF Nsq!NsqTypeOK
    <2>4. Nsq!NsqTypeOK'
      BY <1>0, <2>1, <2>2, <2>3 DEF Nsq!NsqTypeOK
    <2>5. BusyWithMessage'
      <3>1. m # 0 /\ job'[t].msg = m
        <4>1. m # 0
          BY <1>0
        <4>2. job'[t] = [msg |-> m, isAct |-> FALSE]
          BY <1>0, <2>1 DEF Nsq!NsqTypeOK
        <4>. QED
          BY <4>1, <4>2
      <3>2. \A u \in Threads : u # t => job'[u] = job[u]
        BY <1>0, <2>1 DEF Nsq!NsqTypeOK
      <3>. QED
        BY <1>0, <3>1, <3>2 DEF BusyWithMessage
    <2>6. Nsq!RemovedIsSettled'
      BY <1>0, <2>1 DEF NsqInv, Nsq!RemovedIsSettled, Nsq!NsqTypeOK
    <2>. QED
      BY <2>4, <2>5, <2>6 DEF NsqInv
  <1>. QED
    BY <1>1, <1>2

LEMMA NsqNextInv ==
    ASSUME Nsq!NsqAssumption
    PROVE  NsqInv /\ [Nsq!Next]_nsqVars => NsqInv'
  <1>. SUFFICES ASSUME NsqInv, [Nsq!Next]_nsqVars
                PROVE  NsqInv'
    OBVIOUS
  <1>. USE DEF Nsq!nsqd
  <1>1. ASSUME NEW m \in Nsq!Msgs, Nsq!Publish(m) \/ Nsq!Timeout(m) PROVE NsqInv'
    BY <1>1 DEF NsqInv, Nsq!NsqTypeOK, BusyWithMessage, Nsq!RemovedIsSettled, Nsq!Publish,
       Nsq!Timeout
  <1>2. ASSUME NEW s \in Subscribers, Nsq!Subscribe(s) \/ Nsq!Unsubscribe(s) PROVE NsqInv'
    BY <1>2 DEF NsqInv, Nsq!NsqTypeOK, BusyWithMessage, Nsq!RemovedIsSettled,
       Nsq!Subscribe, Nsq!Unsubscribe
  <1>3. ASSUME NEW s \in Subscribers, Nsq!Crash(s) PROVE NsqInv'
    <2>1. Nsq!Idle \in [msg : 0..MaxMsgs, isAct : BOOLEAN]
      BY DEF Nsq!Idle, Nsq!NsqAssumption
    <2>. QED
      <3>1. /\ job' \in [Threads -> [msg : 0..MaxMsgs, isAct : BOOLEAN]]
            /\ \A t \in Threads : job'[t] = Nsq!Idle \/ job'[t] = job[t]
        BY <1>3, <2>1 DEF NsqInv, Nsq!NsqTypeOK, Nsq!Crash
      <3>2. /\ channel' \in [Nsq!Msgs -> {"unpublished", "queued", "inflight", "gone"}]
            /\ \A m \in Nsq!Msgs : channel'[m] = "gone" => channel[m] = "gone"
        <4>1. channel' = [m \in Nsq!Msgs |-> IF Nsq!InFlight(m,
           s) THEN "queued" ELSE channel[m]]
          BY <1>3 DEF Nsq!Crash
        <4>2. channel \in [Nsq!Msgs -> {"unpublished", "queued", "inflight", "gone"}]
          BY DEF NsqInv, Nsq!NsqTypeOK
        <4>. QED
          BY <4>1, <4>2
      <3>3. connected' \subseteq Subscribers /\ nsqCrashes' \in Nat
        <4>1. connected' = connected \ {s} /\ nsqCrashes' = nsqCrashes + 1
          BY <1>3 DEF Nsq!Crash
        <4>2. connected \subseteq Subscribers /\ nsqCrashes \in Nat
          BY DEF NsqInv, Nsq!NsqTypeOK
        <4>. QED
          BY <4>1, <4>2
      <3>4. UNCHANGED <<owner, attempts, options, outcomes>>
        BY <1>3 DEF Nsq!Crash
      <3>5. Nsq!NsqTypeOK'
        BY <3>1, <3>2, <3>3, <3>4 DEF NsqInv, Nsq!NsqTypeOK
      <3>. QED
        BY <3>1, <3>2, <3>4, <3>5 DEF NsqInv, BusyWithMessage, Nsq!RemovedIsSettled
  <1>4. CASE UNCHANGED nsqVars
    BY <1>4 DEF nsqVars, NsqInv, Nsq!NsqTypeOK, BusyWithMessage, Nsq!RemovedIsSettled
  <1>. QED
    BY <1>1, <1>2, <1>3, <1>4, NsqDeliverInv, NsqActInv, NsqReturnInv DEF Nsq!Next,
       Nsq!Returned

-----------------------------------------------------------------------------
\* The in-process bus.

LEMMA BusInitInv ==
    ASSUME Bus!BusAssumption
    PROVE  Bus!Init => Bus!BusTypeOK
  <1>. SUFFICES ASSUME Bus!Init
                PROVE  Bus!BusTypeOK
    OBVIOUS
  <1>1. topic \in Seq(Subscriptions) /\ Bus!IsInjective(topic)
    BY DEF Bus!Init, Bus!IsInjective
  <1>2. <<>> \in Seq(Subscriptions) /\ 0 \in 0..MaxPublish
    BY DEF Bus!BusAssumption
  <1>. QED
    BY <1>1, <1>2 DEF Bus!Init, Bus!BusTypeOK

\* The topic's list keeps a subscription in one place at most.
LEMMA BusTopicTyped ==
    ASSUME Bus!BusTypeOK, NEW s \in Subscriptions, Bus!Subscribe(s) \/ Bus!Unsubscribe(s)
    PROVE  topic' \in Seq(Subscriptions) /\ Bus!IsInjective(topic')
  <1>. USE DEF Bus!BusTypeOK, Bus!IsInjective, Bus!ToSet
  <1>1. CASE Bus!Subscribe(s)
    <2>1. topic' = Append(topic, s) /\ \A i \in 1..Len(topic) : topic[i] # s
      BY <1>1 DEF Bus!Subscribe
    <2>2. topic' \in Seq(Subscriptions)
      BY <2>1
    <2>3. /\ DOMAIN topic' = 1..Len(topic) + 1 /\ topic'[Len(topic) + 1] = s
          /\ DOMAIN topic = 1..Len(topic) /\ Len(topic) \in Nat
          /\ \A i \in 1..Len(topic) : topic'[i] = topic[i]
      BY <2>1
    <2>4. \A a, b \in DOMAIN topic' : topic'[a] = topic'[b] => a = b
      BY <2>1, <2>3
    <2>. QED
      BY <2>2, <2>4
  <1>2. CASE Bus!Unsubscribe(s)
    <2>1. topic' = Tail(topic) /\ topic # <<>>
      BY <1>2 DEF Bus!Unsubscribe
    <2>2. /\ topic' \in Seq(Subscriptions)
          /\ Len(topic) \in Nat \ {0} /\ Len(topic') = Len(topic) - 1
          /\ DOMAIN topic = 1..Len(topic) /\ DOMAIN topic' = 1..Len(topic')
          /\ \A i \in 1..Len(topic') : topic'[i] = topic[i + 1]
      BY <2>1, HeadTailProperties, LenProperties
    <2>3. ASSUME NEW a \in DOMAIN topic', NEW b \in DOMAIN topic', topic'[a] = topic'[b]
          PROVE  a = b
      <3>0. /\ a \in 1..(Len(topic) - 1) /\ b \in 1..(Len(topic) - 1)
            /\ topic'[a] = topic[a + 1] /\ topic'[b] = topic[b + 1]
        BY <2>2, <2>3
      <3>1. a + 1 \in 1..Len(topic) /\ b + 1 \in 1..Len(topic)
        <4>1. ASSUME NEW n \in Nat \ {0}, NEW i \in 1..(n - 1) PROVE i + 1 \in 1..n
          OBVIOUS
        <4>. QED
          BY <2>2, <3>0, <4>1
      <3>2. a + 1 = b + 1
        BY <2>2, <2>3, <3>0, <3>1
      <3>. QED
        BY <3>0, <3>2
    <2>. QED
      BY <2>2, <2>3
  <1>. QED
    BY <1>1, <1>2

LEMMA BusPublishTyped ==
    ASSUME Bus!BusTypeOK, NEW p \in Bus!Publishes,
           NEW c \in {Bus!Main} \cup (Bus!Publishes \X Subscriptions), Bus!Publish(p, c)
    PROVE  Bus!BusTypeOK'
  <1>1. caller' \in [Bus!Publishes -> {Bus!NotYet,
     Bus!Main} \cup (Bus!Publishes \X Subscriptions)]
    BY DEF Bus!BusTypeOK, Bus!Publish
  <1>2. todo' \in [Bus!Publishes -> Seq(Subscriptions)]
    BY DEF Bus!BusTypeOK, Bus!Publish
  <1>. QED
    BY <1>1, <1>2 DEF Bus!BusTypeOK, Bus!Publish

LEMMA BusNextInv ==
    ASSUME Bus!BusAssumption, Bus!BusTypeOK, [Bus!Next]_busVars
    PROVE  Bus!BusTypeOK'
  <1>1. ASSUME NEW s \in Subscriptions, Bus!Subscribe(s) PROVE Bus!BusTypeOK'
    BY <1>1, BusTopicTyped DEF Bus!BusTypeOK, Bus!Subscribe
  <1>2. ASSUME NEW s \in Subscriptions, Bus!Unsubscribe(s) PROVE Bus!BusTypeOK'
    BY <1>2, BusTopicTyped DEF Bus!BusTypeOK, Bus!Unsubscribe
  <1>3. ASSUME NEW p \in Bus!Publishes, Bus!MainPublishes(p) PROVE Bus!BusTypeOK'
    BY <1>3, BusPublishTyped DEF Bus!MainPublishes
  <1>4. ASSUME NEW p \in Bus!Publishes, NEW q \in Bus!Publishes, NEW s \in Subscriptions,
               Bus!HandlerPublishes(p, q, s)
        PROVE  Bus!BusTypeOK'
    BY <1>4, BusPublishTyped DEF Bus!HandlerPublishes
  <1>5. ASSUME NEW p \in Bus!Publishes, Bus!HandOver(p) PROVE Bus!BusTypeOK'
    <2>1. todo[p] \in Seq(Subscriptions) /\ todo[p] # <<>>
      BY <1>5 DEF Bus!BusTypeOK, Bus!HandOver
    <2>2. Head(todo[p]) \in Subscriptions /\ Tail(todo[p]) \in Seq(Subscriptions)
      BY <2>1, HeadTailProperties
    <2>3. p \in 0..MaxPublish
      BY DEF Bus!Publishes
    <2>4. mutex' \in [Subscriptions -> 0..MaxPublish]
      BY <1>5, <2>2, <2>3 DEF Bus!BusTypeOK, Bus!HandOver
    <2>5. todo' \in [Bus!Publishes -> Seq(Subscriptions)]
      BY <1>5, <2>2 DEF Bus!BusTypeOK, Bus!HandOver
    <2>. QED
      BY <1>5, <2>2, <2>4, <2>5 DEF Bus!BusTypeOK, Bus!HandOver
  <1>6. ASSUME NEW s \in Subscriptions, Bus!Unlock(s) PROVE Bus!BusTypeOK'
    <2>1. 0 \in 0..MaxPublish
      BY DEF Bus!BusAssumption
    <2>2. mutex' \in [Subscriptions -> 0..MaxPublish]
      BY <1>6, <2>1 DEF Bus!BusTypeOK, Bus!Unlock
    <2>. QED
      BY <1>6, <2>2 DEF Bus!BusTypeOK, Bus!Unlock
  <1>7. ASSUME NEW p \in Bus!Publishes, NEW s \in Subscriptions, Bus!Callback(p,
     s) \/ Bus!Handled(p, s)
        PROVE  Bus!BusTypeOK'
    <2>1. goroutine' \in
            [Bus!Publishes -> [Subscriptions -> {"none", "callback", "handling", "done"}]]
      <3>1. \E v \in {"handling", "done"} : goroutine' = [goroutine EXCEPT ![p][s] = v]
        BY <1>7 DEF Bus!Callback, Bus!Handled
      <3>. QED
        BY <3>1 DEF Bus!BusTypeOK
    <2>. QED
      BY <1>7, <2>1 DEF Bus!BusTypeOK, Bus!Callback, Bus!Handled
  <1>8. CASE UNCHANGED busVars
    BY <1>8 DEF busVars, Bus!BusTypeOK
  <1>. QED
    BY <1>1, <1>2, <1>3, <1>4, <1>5, <1>6, <1>7, <1>8 DEF Bus!Next, Bus!Progress

-----------------------------------------------------------------------------
\* The handlers' wraps.

\* A run before and after its own function, as append leaves no slot to spare.
OwnFunction ==
    \A r \in Runs :
        /\ pos[r] <= Wraps => result[r] = "none" /\ \A s \in Runs : called[r][s] = 0
        /\ pos[r] > Wraps =>
              /\ \A s \in Runs : called[r][s] = IF s = r THEN 1 ELSE 0
              /\ outcome[r] \in {"nil", "error", "panic"}
              /\ nexts[r] = 0 <=> result[r] # "none"
              /\ outcome[r] = "panic" => nexts[r] = 0
        /\ result[r] # "none" =>
              result[r] = IF outcome[r] = "panic" /\ r \in HandlerRuns THEN "nil" ELSE outcome[r]

WrapInv == Wrap!WrapTypeOK /\ OwnFunction

LEMMA WrapInitInv ==
    ASSUME Wrap!WrapAssumption
    PROVE  Wrap!Init => WrapInv
  BY DEF Wrap!WrapAssumption, Wrap!Init, Wrap!None, Wrap!WrapTypeOK, OwnFunction, WrapInv

\* The array of one, two or four wraps is full.
LEMMA NothingSpare ==
    ASSUME Wrap!WrapAssumption
    PROVE  /\ ~Wrap!HasSpare /\ Wrap!WrapsMade = Wraps /\ Wraps \in Nat \ {0}
           /\ \A r : Wrap!Last(r) = r
  BY DEF Wrap!WrapAssumption, Wrap!HasSpare, Wrap!WrapsMade, Wrap!Last

LEMMA WrapNextTypeOK ==
    ASSUME Wrap!WrapAssumption, Wrap!WrapTypeOK, [Wrap!Next]_wrapVars
    PROVE  Wrap!WrapTypeOK'
  <1>. USE NothingSpare DEF Wrap!WrapTypeOK, Wrap!None
  <1>1. ASSUME NEW r \in Runs, Wrap!Run(r) PROVE Wrap!WrapTypeOK'
    BY <1>1 DEF Wrap!Run
  <1>2. ASSUME NEW r \in Runs, Wrap!CallWrap(r) PROVE Wrap!WrapTypeOK'
    BY <1>2 DEF Wrap!CallWrap
  <1>3. ASSUME NEW r \in Runs, Wrap!CallLast(r) PROVE Wrap!WrapTypeOK'
    <2>1. called' = [called EXCEPT ![r][r] = @ + 1] /\ pos' = [pos EXCEPT ![r] = @ + 1]
      BY <1>3 DEF Wrap!CallLast
    <2>2. called' \in [Runs -> [Runs -> Nat]] /\ pos' \in [Runs -> Nat]
      BY <2>1
    <2>3. PICK o \in {"nil", "error", "panic"} :
              /\ outcome' = [outcome EXCEPT ![r] = o]
              /\ IF o = "panic"
                 THEN /\ nexts' = [nexts EXCEPT ![r] = 0]
                      /\ result' = [result EXCEPT ![r] = IF r \in HandlerRuns THEN "nil" ELSE "panic"]
                 ELSE UNCHANGED <<nexts, result>>
      BY <1>3 DEF Wrap!CallLast
    <2>4. CASE o = "panic"
      <3>1. outcome' \in [Runs -> {"none", "nil", "error", "panic"}]
        BY <2>3
      <3>2. result' \in [Runs -> {"none", "nil", "error",
         "panic"}] /\ nexts' \in [Runs -> Nat]
        BY <2>3, <2>4
      <3>. QED
        BY <1>3, <2>2, <3>1, <3>2 DEF Wrap!CallLast
    <2>5. CASE o # "panic"
      BY <1>3, <2>2, <2>3, <2>5 DEF Wrap!CallLast
    <2>. QED
      BY <2>4, <2>5
  <1>4. ASSUME NEW r \in Runs, Wrap!NextReturns(r) PROVE Wrap!WrapTypeOK'
    BY <1>4 DEF Wrap!NextReturns
  <1>5. CASE UNCHANGED wrapVars
    BY <1>5 DEF wrapVars
  <1>. QED
    BY <1>1, <1>2, <1>3, <1>4, <1>5 DEF Wrap!Next

LEMMA OwnFunctionStays ==
    ASSUME OwnFunction, UNCHANGED wrapVars
    PROVE  OwnFunction'
  BY DEF OwnFunction, wrapVars

LEMMA WrapNextInv ==
    ASSUME Wrap!WrapAssumption, WrapInv, [Wrap!Next]_wrapVars
    PROVE  WrapInv'
  <1>0. Wrap!WrapTypeOK /\ OwnFunction /\ Wrap!WrapTypeOK'
    BY WrapNextTypeOK DEF WrapInv
  <1>1. CASE UNCHANGED wrapVars
    <2>1. OwnFunction'
      BY <1>0, <1>1, OwnFunctionStays
    <2>. QED
      BY <1>0, <2>1 DEF WrapInv
  <1>. USE <1>0, NothingSpare DEF Wrap!WrapTypeOK, OwnFunction, Wrap!None
  <1>2. ASSUME NEW r \in Runs, Wrap!Run(r) PROVE OwnFunction'
    BY <1>2 DEF Wrap!Run
  <1>3. ASSUME NEW r \in Runs, Wrap!CallWrap(r) PROVE OwnFunction'
    BY <1>3 DEF Wrap!CallWrap
  <1>4. ASSUME NEW r \in Runs, Wrap!CallLast(r) PROVE OwnFunction'
    <2>1. called' = [called EXCEPT ![r][r] = @ + 1] /\ pos' = [pos EXCEPT ![r] = @ + 1]
      BY <1>4 DEF Wrap!CallLast
    <2>2. PICK o \in {"nil", "error", "panic"} :
              /\ outcome' = [outcome EXCEPT ![r] = o]
              /\ IF o = "panic"
                 THEN /\ nexts' = [nexts EXCEPT ![r] = 0]
                      /\ result' = [result EXCEPT ![r] = IF r \in HandlerRuns THEN "nil" ELSE "panic"]
                 ELSE UNCHANGED <<nexts, result>>
      BY <1>4 DEF Wrap!CallLast
    <2>3. pos[r] = Wraps /\ nexts[r] > 0
      BY <1>4 DEF Wrap!CallLast
    <2>4. CASE o = "panic"
      BY <2>1, <2>2, <2>3, <2>4
    <2>5. CASE o # "panic"
      BY <2>1, <2>2, <2>3, <2>5
    <2>. QED
      BY <2>4, <2>5
  <1>5. ASSUME NEW r \in Runs, Wrap!NextReturns(r) PROVE OwnFunction'
    BY <1>5 DEF Wrap!NextReturns
  <1>. QED
    BY <1>1, <1>2, <1>3, <1>4, <1>5 DEF Wrap!Next, WrapInv

-----------------------------------------------------------------------------
\* HTTP replies.

HttpFailing == {"error", "encode"}

\* Two requests that are failing with one error know of each other, whichever came first.
Acquainted ==
    \A q, r \in Requests :
        q # r /\ stage[q] \in HttpFailing /\ stage[r] \in HttpFailing /\ failed[q] = failed[r]
            => q \in met[r]

\* The id an error carries while it is encoded is of the request, or of one it has met.
StampedByMet ==
    \A r \in Requests :
        /\ stage[r] \in {"arrived", "bind", "handler"} => failed[r] = Http!None
        /\ stage[r] \in HttpFailing => failed[r] \in Http!Errors
        /\ stage[r] = "encode" => stamp[failed[r]] \in {r} \cup met[r]

HttpInv == Http!HttpReplyTypeOK /\ Acquainted /\ StampedByMet /\ Http!ReplyIsItsOwn

LEMMA HttpInitInv == Http!Init => HttpInv
  <1>. SUFFICES ASSUME Http!Init PROVE HttpInv
    OBVIOUS
  <1>1. Http!HttpReplyTypeOK
    BY DEF Http!Init, Http!HttpReplyTypeOK, Http!Reply
  <1>2. Acquainted
    BY DEF Http!Init, Acquainted, HttpFailing
  <1>3. StampedByMet
    BY DEF Http!Init, StampedByMet, HttpFailing
  <1>4. Http!ReplyIsItsOwn
    BY DEF Http!Init, Http!ReplyIsItsOwn
  <1>. QED
    BY <1>1, <1>2, <1>3, <1>4 DEF HttpInv

\* A request goes on without an error.
LEMMA HttpContinueInv ==
    ASSUME HttpInv, NEW r \in Requests, NEW s \in {"bind", "handler"}, Http!Continue(r, s),
           stage[r] \in {"arrived", "bind"}
    PROVE  HttpInv'
  <1>0. /\ Http!HttpReplyTypeOK /\ Acquainted /\ StampedByMet /\ Http!ReplyIsItsOwn
        /\ stage' = [stage EXCEPT ![r] = s] /\ UNCHANGED <<failed, stamp, reply, met>>
    BY DEF HttpInv, Http!Continue
  <1>1. Http!HttpReplyTypeOK'
    BY <1>0 DEF Http!HttpReplyTypeOK
  <1>2. Acquainted'
    BY <1>0 DEF Acquainted, Http!HttpReplyTypeOK, HttpFailing
  <1>3. StampedByMet'
    BY <1>0 DEF StampedByMet, Http!HttpReplyTypeOK, HttpFailing
  <1>4. Http!ReplyIsItsOwn'
    BY <1>0 DEF Http!ReplyIsItsOwn, Http!HttpReplyTypeOK
  <1>. QED
    BY <1>1, <1>2, <1>3, <1>4 DEF HttpInv

\* A request is answered, with an error of its own kind and an id it may have.
LEMMA HttpSendInv ==
    ASSUME HttpInv, NEW r \in Requests, NEW kind, NEW id, Http!Send(r, kind, id),
           kind \in Http!Errors \cup {Http!None, "empty", "200", "400", "500"},
           id \in Requests \cup {Http!None},
           failed[r] # Http!None => kind = failed[r],
           kind \notin {"empty", "200"} => id \in {r} \cup met[r]
    PROVE  HttpInv'
  <1>0. /\ Http!HttpReplyTypeOK /\ Acquainted /\ StampedByMet /\ Http!ReplyIsItsOwn
        /\ stage' = [stage EXCEPT ![r] = "replied"]
        /\ reply' = [reply EXCEPT ![r] = [kind |-> kind, id |-> id]]
        /\ UNCHANGED <<failed, stamp, met>>
    BY DEF HttpInv, Http!Send, Http!Reply
  <1>1. Http!HttpReplyTypeOK'
    BY <1>0 DEF Http!HttpReplyTypeOK
  <1>2. Acquainted'
    BY <1>0 DEF Acquainted, Http!HttpReplyTypeOK, HttpFailing
  <1>3. StampedByMet'
    BY <1>0 DEF StampedByMet, Http!HttpReplyTypeOK, HttpFailing
  <1>4. Http!ReplyIsItsOwn'
    <2>. SUFFICES ASSUME NEW q \in Requests, stage'[q] = "replied"
                  PROVE  /\ failed[q] # Http!None => reply'[q].kind = failed[q]
                         /\ reply'[q].kind \notin {"empty", "200"} =>
                               reply'[q].id \in {q} \cup met[q]
      BY <1>0 DEF Http!ReplyIsItsOwn
    <2>1. CASE q = r
      BY <1>0, <2>1 DEF Http!HttpReplyTypeOK
    <2>2. CASE q # r
      BY <1>0, <2>2 DEF Http!HttpReplyTypeOK, Http!ReplyIsItsOwn
    <2>. QED
      BY <2>1, <2>2
  <1>. QED
    BY <1>1, <1>2, <1>3, <1>4 DEF HttpInv

\* A request fails: it meets those that are failing with the same error, and they meet it.
LEMMA HttpFailInv ==
    ASSUME HttpInv, NEW r \in Requests, NEW e \in Http!Errors, Http!Fail(r, e),
           stage[r] \in {"arrived", "handler"}
    PROVE  HttpInv'
  <1>. DEFINE others == {q \in Requests : stage[q] \in HttpFailing /\ failed[q] = e}
  <1>0. /\ Http!HttpReplyTypeOK /\ Acquainted /\ StampedByMet /\ Http!ReplyIsItsOwn
        /\ stage' = [stage EXCEPT ![r] = "error"] /\ failed' = [failed EXCEPT ![r] = e]
        /\ met' = [q \in Requests |-> IF q = r THEN others
                                      ELSE IF q \in others THEN met[q] \cup {r} ELSE met[q]]
        /\ UNCHANGED <<stamp, reply>>
    BY DEF HttpInv, Http!Fail, HttpFailing
  <1>1. /\ \A q \in Requests \ {r} :
              stage'[q] = stage[q] /\ failed'[q] = failed[q] /\ met[q] \subseteq met'[q]
        /\ stage'[r] = "error" /\ failed'[r] = e /\ r \notin others
    BY <1>0 DEF Http!HttpReplyTypeOK, HttpFailing
  <1>2. Http!HttpReplyTypeOK'
    <2>1. \A q \in Requests : met[q] \cup {r} \subseteq Requests
      BY <1>0 DEF Http!HttpReplyTypeOK
    <2>2. met' \in [Requests -> SUBSET Requests]
      BY <1>0, <2>1 DEF Http!HttpReplyTypeOK
    <2>. QED
      BY <1>0, <2>2 DEF Http!HttpReplyTypeOK
  <1>3. Acquainted'
    <2>. SUFFICES ASSUME NEW q \in Requests, NEW p \in Requests, q # p,
                         stage'[q] \in HttpFailing, stage'[p] \in HttpFailing,
                            failed'[q] = failed'[p]
                  PROVE  q \in met'[p]
      BY DEF Acquainted
    <2>1. CASE p = r
      BY <1>0, <1>1, <2>1
    <2>2. CASE q = r
      BY <1>0, <1>1, <2>2
    <2>3. CASE p # r /\ q # r
      BY <1>0, <1>1, <2>3 DEF Acquainted
    <2>. QED
      BY <2>1, <2>2, <2>3
  <1>4. StampedByMet'
    <2>. SUFFICES ASSUME NEW q \in Requests
                  PROVE  /\ stage'[q] \in {"arrived", "bind", "handler"}
                               => failed'[q] = Http!None
                         /\ stage'[q] \in HttpFailing => failed'[q] \in Http!Errors
                         /\ stage'[q] = "encode" => stamp[failed'[q]] \in {q} \cup met'[q]
      BY <1>0 DEF StampedByMet
    <2>1. CASE q = r
      BY <1>1, <2>1
    <2>2. CASE q # r
      BY <1>0, <1>1, <2>2 DEF StampedByMet
    <2>. QED
      BY <2>1, <2>2
  <1>5. Http!ReplyIsItsOwn'
    BY <1>0, <1>1 DEF Http!ReplyIsItsOwn
  <1>. QED
    BY <1>2, <1>3, <1>4, <1>5 DEF HttpInv

\* HandleError writes the id: those that are encoding the same error have met the request.
LEMMA HttpStampInv ==
    ASSUME HttpInv, NEW r \in Requests, Http!Stamp(r)
    PROVE  HttpInv'
  <1>0. /\ Http!HttpReplyTypeOK /\ Acquainted /\ StampedByMet /\ Http!ReplyIsItsOwn
        /\ stage[r] = "error" /\ failed[r] \in Http!Errors
        /\ stage' = [stage EXCEPT ![r] = "encode"]
        /\ stamp' = [stamp EXCEPT ![failed[r]] = r]
        /\ UNCHANGED <<failed, reply, met>>
    BY DEF HttpInv, Http!Stamp, StampedByMet, HttpFailing
  <1>1. Http!HttpReplyTypeOK'
    BY <1>0 DEF Http!HttpReplyTypeOK
  <1>2. Acquainted'
    BY <1>0 DEF Acquainted, Http!HttpReplyTypeOK, HttpFailing
  <1>3. StampedByMet'
    <2>. SUFFICES ASSUME NEW q \in Requests
                  PROVE  /\ stage'[q] \in {"arrived", "bind", "handler"}
                               => failed[q] = Http!None
                         /\ stage'[q] \in HttpFailing => failed[q] \in Http!Errors
                         /\ stage'[q] = "encode" => stamp'[failed[q]] \in {q} \cup met[q]
      BY <1>0 DEF StampedByMet
    <2>1. CASE q = r
      BY <1>0, <2>1 DEF Http!HttpReplyTypeOK, HttpFailing
    <2>2. CASE q # r
      <3>1. stage'[q] = stage[q]
        BY <1>0, <2>2 DEF Http!HttpReplyTypeOK
      <3>2. CASE stage[q] = "encode" /\ failed[q] = failed[r]
        BY <1>0, <2>2, <3>1, <3>2 DEF Acquainted, Http!HttpReplyTypeOK, HttpFailing
      <3>3. CASE ~(stage[q] = "encode" /\ failed[q] = failed[r])
        BY <1>0, <3>1, <3>3 DEF StampedByMet, Http!HttpReplyTypeOK, HttpFailing
      <3>. QED
        BY <3>2, <3>3
    <2>. QED
      BY <2>1, <2>2
  <1>4. Http!ReplyIsItsOwn'
    BY <1>0 DEF Http!ReplyIsItsOwn, Http!HttpReplyTypeOK
  <1>. QED
    BY <1>1, <1>2, <1>3, <1>4 DEF HttpInv

LEMMA HttpNextInv == HttpInv /\ [Http!Next]_replyVars => HttpInv'
  <1>. SUFFICES ASSUME HttpInv, [Http!Next]_replyVars
                PROVE  HttpInv'
    OBVIOUS
  <1>1. ASSUME NEW r \in Requests, Http!Authenticate(r) PROVE HttpInv'
    <2>1. stage[r] = "arrived" /\ failed[r] = Http!None
      BY <1>1 DEF Http!Authenticate, HttpInv, StampedByMet
    <2>. QED
      BY <1>1, <2>1, HttpContinueInv, HttpFailInv, HttpSendInv DEF Http!Authenticate,
         Http!Errors
  <1>2. ASSUME NEW r \in Requests, Http!Bind(r) PROVE HttpInv'
    <2>1. stage[r] = "bind" /\ failed[r] = Http!None
      BY <1>2 DEF Http!Bind, HttpInv, StampedByMet
    <2>. QED
      BY <1>2, <2>1, HttpContinueInv, HttpSendInv DEF Http!Bind
  <1>3. ASSUME NEW r \in Requests, Http!Handle(r) PROVE HttpInv'
    <2>1. stage[r] = "handler" /\ failed[r] = Http!None
      BY <1>3 DEF Http!Handle, HttpInv, StampedByMet
    <2>. QED
      BY <1>3, <2>1, HttpFailInv, HttpSendInv DEF Http!Handle, Http!Errors
  <1>4. ASSUME NEW r \in Requests, Http!Encode(r) PROVE HttpInv'
    <2>1. /\ failed[r] \in Http!Errors /\ stamp[failed[r]] \in {r} \cup met[r]
          /\ stamp[failed[r]] \in Requests \cup {Http!None}
      BY <1>4 DEF Http!Encode, HttpInv, StampedByMet, Http!HttpReplyTypeOK, HttpFailing
    <2>. QED
      BY <1>4, <2>1, HttpSendInv DEF Http!Encode
  <1>5. CASE UNCHANGED replyVars
    BY <1>5 DEF replyVars, HttpInv, Http!HttpReplyTypeOK, Acquainted, StampedByMet,
       Http!ReplyIsItsOwn
  <1>. QED
    BY <1>1, <1>2, <1>3, <1>4, <1>5, HttpStampInv DEF Http!Next

-----------------------------------------------------------------------------
\* The life cycle.

\* Registry begins with the first component.  While there are requests the server is not
\* shut down, and Start waits for that, but for the end of its time.
ServerAwaited ==
    /\ mainPc = "registry" => at # 0
    /\ requests > 0 => shutdown \in {"waiting", "closing", "closed"}
    /\ mainPc \in {"stopped", "returned"} /\ ~timedOut => Life!GoroutinesOver

LifeInv == Life!LifecycleTypeOK /\ ServerAwaited

LEMMA LifeBounds ==
    ASSUME Life!LifecycleAssumption
    PROVE  /\ Len(Components) \in Nat /\ LogCap \in Nat /\ MaxRequests \in Nat
           /\ \A n \in 1..Len(Components) : Components[n] \in {"core", "db", "server",
              "cron"}
  BY LenProperties, ElementOfSeq DEF Life!LifecycleAssumption

LEMMA LifeInitInv ==
    ASSUME Life!LifecycleAssumption
    PROVE  Life!Init => LifeInv
  <1>. SUFFICES ASSUME Life!Init PROVE LifeInv
    OBVIOUS
  <1>0. done \in BOOLEAN /\ loop \in BOOLEAN /\ timedOut \in BOOLEAN
    BY DEF Life!Init
  <1>1. Life!LifecycleTypeOK
    BY <1>0, LifeBounds DEF Life!Init, Life!LifecycleTypeOK
  <1>2. ServerAwaited
    BY DEF Life!Init, ServerAwaited
  <1>. QED
    BY <1>1, <1>2 DEF LifeInv

LEMMA LifeNextTypeOK ==
    ASSUME Life!LifecycleAssumption, LifeInv, [Life!Next]_lifeVars
    PROVE  Life!LifecycleTypeOK'
  <1>0. Len(Components) \in Nat /\ LogCap \in Nat /\ MaxRequests \in Nat
    BY LifeBounds
  <1>. Life!LifecycleTypeOK /\ ServerAwaited
    BY DEF LifeInv
  <1>. USE DEF Life!Next, Life!MainStep, Life!Registry, Life!Start, Life!Quit,
     Life!Stopping,
       Life!CloseHandle, Life!Waited, Life!TimedOut, Life!Return, Life!Cancel,
          Life!ShutdownCalled,
       Life!ListenerCloses, Life!ShutdownReturns, Life!ServeEnds, Life!Request,
          Life!RequestEnds,
       Life!Job, Life!JobEnds, Life!Send, Life!LoopEnds, Life!Logged, Life!main,
          Life!server,
       Life!log, lifeVars, Life!LifecycleTypeOK
  <1>1. done' \in BOOLEAN /\ loop' \in BOOLEAN /\ timedOut' \in BOOLEAN
    OBVIOUS
  <1>2. at' \in 0..(Len(Components) + 1)
    BY <1>0
  <1>3. lines' \in 0..LogCap
    BY <1>0
  <1>4. requests' \in 0..MaxRequests /\ jobs' \in 0..MaxRequests
    BY <1>0
  <1>5. open' \subseteq {"core", "db", "server", "cron"}
    <2>1. at \in 1..Len(Components) => Components[at] \in {"core", "db", "server", "cron"}
      BY LifeBounds
    <2>2. Life!Registry => at \in 1..Len(Components)
      BY <1>0 DEF ServerAwaited
    <2>. QED
      BY <2>1, <2>2
  <1>6. mainPc' \in {"registry", "running", "stopping", "closing", "waiting", "stopped",
     "returned", "panicked"}
    OBVIOUS
  <1>7. /\ shutdown' \in {"none", "waiting", "closing", "closed", "over"}
        /\ serve' \in {"none", "serving", "over"}
    OBVIOUS
  <1>. QED
    BY <1>1, <1>2, <1>3, <1>4, <1>5, <1>6, <1>7

LEMMA LifeNextInv ==
    ASSUME Life!LifecycleAssumption, LifeInv, [Life!Next]_lifeVars
    PROVE  LifeInv'
  <1>0. Life!LifecycleTypeOK /\ ServerAwaited /\ Life!LifecycleTypeOK'
    BY LifeNextTypeOK DEF LifeInv
  <1>. SUFFICES ServerAwaited'
    BY <1>0 DEF LifeInv
  <1>. USE <1>0 DEF Life!LifecycleTypeOK, ServerAwaited, Life!GoroutinesOver, Life!Running,
     Life!main,
       Life!server, Life!log
  <1>1. CASE Life!MainStep
    BY <1>1 DEF Life!MainStep, Life!Registry, Life!Start, Life!Quit, Life!Stopping,
       Life!CloseHandle,
       Life!Waited, Life!TimedOut, Life!Return
  <1>2. CASE \/ Life!Cancel \/ Life!ShutdownCalled \/ Life!ListenerCloses \/ Life!ShutdownReturns
             \/ Life!ServeEnds
    BY <1>2 DEF Life!Cancel, Life!ShutdownCalled, Life!ListenerCloses, Life!ShutdownReturns,
       Life!ServeEnds
  <1>3. CASE Life!Request \/ Life!RequestEnds
    BY <1>3 DEF Life!Request, Life!RequestEnds
  <1>4. CASE Life!Job \/ Life!JobEnds \/ Life!Send \/ Life!LoopEnds
    BY <1>4 DEF Life!Job, Life!JobEnds, Life!Send, Life!LoopEnds
  <1>5. CASE UNCHANGED lifeVars
    BY <1>5 DEF lifeVars
  <1>. QED
    BY <1>1, <1>2, <1>3, <1>4, <1>5 DEF Life!Next

\* After a wait in time the server is not there or shut down, and so without requests.
LEMMA LifeInvImplies ==
    ASSUME LifeInv
    PROVE  Life!AnsweredAtReturn
  BY DEF LifeInv, Life!LifecycleTypeOK, ServerAwaited, Life!GoroutinesOver,
     Life!AnsweredAtReturn

-----------------------------------------------------------------------------
\* The configuration file.

\* A program that read the file as it is has it in its memory, and nobody writes it.
ReadAsItIs ==
    \A p \in Programs : programPc[p] = "scan" /\ current[p] =>
        memory[p] = file /\ \A q \in Programs : programPc[q] # "writing"

\* Who writes the file is alone, and writes what the operator had written.
WritesWhatIsThere ==
    ~fileLost => \A p \in Programs : programPc[p] = "writing" =>
        /\ \A q \in Programs : programPc[q] = "writing" => q = p
        /\ \A k \in Keys : intent[k] # Config!Missing => Config!Written(p)[k] = intent[k]

ConfigInv == Config!ConfigTypeOK /\ ReadAsItIs /\ WritesWhatIsThere /\ Config!OperatorIsKept

\* The key that a program scans next is one of the keys.
LEMMA NextKeyIsKey ==
    ASSUME Config!ConfigAssumption, Config!ConfigTypeOK, NEW p \in Programs,
           scanned[p] < Len(Needs[p])
    PROVE  Config!NextKey(p) \in Keys
  <1>1. Needs[p] \in Seq(Keys) /\ scanned[p] \in Nat
    BY DEF Config!ConfigAssumption, Config!ConfigTypeOK
  <1>2. Len(Needs[p]) \in Nat
    BY <1>1, LenProperties
  <1>3. scanned[p] + 1 \in 1..Len(Needs[p])
    BY <1>1, <1>2
  <1>. QED
    BY <1>1, <1>3, ElementOfSeq DEF Config!NextKey

LEMMA ConfigInitInv ==
    ASSUME Config!ConfigAssumption
    PROVE  Config!Init => ConfigInv
  <1>. SUFFICES ASSUME Config!Init
                PROVE  ConfigInv
    OBVIOUS
  <1>1. {0, 2} \subseteq Config!Values /\ 0 \in 0..MaxEdits /\ 0 \in 0..MaxCrashes
    BY DEF Config!ConfigAssumption, Config!Values
  <1>2. Config!ConfigTypeOK
    BY <1>1 DEF Config!Init, Config!NoKeys, Config!Missing, Config!ConfigTypeOK
  <1>3. ReadAsItIs /\ WritesWhatIsThere /\ Config!OperatorIsKept
    BY DEF Config!Init, ReadAsItIs, WritesWhatIsThere, Config!OperatorIsKept
  <1>. QED
    BY <1>2, <1>3 DEF ConfigInv

LEMMA ConfigNextTypeOK ==
    ASSUME Config!ConfigAssumption, Config!ConfigTypeOK, [Config!Next]_configVars
    PROVE  Config!ConfigTypeOK'
  <1>1. 0 \in Config!Values /\ 1 \in Config!Values /\ MaxEdits \in Nat /\ MaxCrashes \in Nat
    BY DEF Config!ConfigAssumption, Config!Values
  <1>. USE <1>1 DEF Config!ConfigTypeOK, Config!Missing, Config!Default
  <1>2. ASSUME NEW k \in Keys, Config!Edit(k) PROVE Config!ConfigTypeOK'
    <2>1. edits' \in 0..MaxEdits /\ edits + 3 \in Config!Values
      BY <1>2 DEF Config!Edit, Config!Values
    <2>. QED
      BY <1>2, <2>1 DEF Config!Edit, Config!program
  <1>3. ASSUME NEW p \in Programs, Config!NewSource(p) PROVE Config!ConfigTypeOK'
    BY <1>3 DEF Config!NewSource
  <1>4. ASSUME NEW p \in Programs, Config!Scan(p) PROVE Config!ConfigTypeOK'
    BY <1>4 DEF Config!Scan
  <1>5. ASSUME NEW p \in Programs, Config!Started(p) PROVE Config!ConfigTypeOK'
    BY <1>5 DEF Config!Started
  <1>6. ASSUME NEW p \in Programs, Config!ScanMissing(p) PROVE Config!ConfigTypeOK'
    <2>1. Config!NextKey(p) \in Keys
      BY <1>6, NextKeyIsKey DEF Config!ScanMissing
    <2>2. memory' \in [Programs -> [Keys -> Config!Values]]
      BY <1>6, <2>1 DEF Config!ScanMissing
    <2>3. Config!Written(p) \in [Keys -> Config!Values]
      BY <2>1 DEF Config!Written
    <2>4. file' \in [Keys -> Config!Values] /\ broken' \in BOOLEAN
      BY <1>6, <2>3 DEF Config!ScanMissing
    <2>. QED
      BY <1>6, <2>2, <2>4 DEF Config!ScanMissing
  <1>7. ASSUME NEW p \in Programs, Config!NotFound(p) PROVE Config!ConfigTypeOK'
    BY <1>7 DEF Config!NotFound, Config!Written
  <1>8. ASSUME NEW p \in Programs, Config!Crash(p) PROVE Config!ConfigTypeOK'
    <2>1. crashes' \in 0..MaxCrashes
      BY <1>8 DEF Config!Crash
    <2>. QED
      BY <1>8, <2>1 DEF Config!Crash
  <1>9. CASE UNCHANGED configVars
    BY <1>9 DEF configVars
  <1>. QED
    BY <1>2, <1>3, <1>4, <1>5, <1>6, <1>7, <1>8, <1>9 DEF Config!Next, Config!ProgramStep

LEMMA ConfigNextInv ==
    ASSUME Config!ConfigAssumption, ConfigInv, [Config!Next]_configVars
    PROVE  ConfigInv'
  <1>0. Config!ConfigTypeOK /\ Config!ConfigTypeOK'
    BY ConfigNextTypeOK DEF ConfigInv
  <1>. SUFFICES ReadAsItIs' /\ WritesWhatIsThere' /\ Config!OperatorIsKept'
    BY <1>0 DEF ConfigInv
  <1>. USE DEF ConfigInv, Config!ConfigTypeOK, Config!Missing, Config!Default,
               ReadAsItIs, WritesWhatIsThere, Config!OperatorIsKept, Config!Written,
                  Config!NextKey
  <1>2. ASSUME NEW k \in Keys, Config!Edit(k)
        PROVE  ReadAsItIs' /\ WritesWhatIsThere' /\ Config!OperatorIsKept'
    BY <1>2 DEF Config!Edit, Config!program
  <1>3. ASSUME NEW p \in Programs, Config!NewSource(p)
        PROVE  ReadAsItIs' /\ WritesWhatIsThere' /\ Config!OperatorIsKept'
    BY <1>3 DEF Config!NewSource
  <1>4. ASSUME NEW p \in Programs, Config!Scan(p)
        PROVE  ReadAsItIs' /\ WritesWhatIsThere' /\ Config!OperatorIsKept'
    BY <1>4 DEF Config!Scan
  <1>5. ASSUME NEW p \in Programs, Config!Started(p)
        PROVE  ReadAsItIs' /\ WritesWhatIsThere' /\ Config!OperatorIsKept'
    BY <1>5 DEF Config!Started
  <1>6. ASSUME NEW p \in Programs, Config!ScanMissing(p)
        PROVE  ReadAsItIs' /\ WritesWhatIsThere' /\ Config!OperatorIsKept'
    <2>1. Config!NextKey(p) \in Keys
      BY <1>6, NextKeyIsKey DEF Config!ScanMissing
    <2>2. /\ programPc[p] = "scan" /\ programPc' = [programPc EXCEPT ![p] = "writing"]
          /\ memory[p][Config!NextKey(p)] = 0
          /\ memory' = [memory EXCEPT ![p][Config!NextKey(p)] = 1]
          /\ fileLost' = (fileLost \/ ~current[p])
          /\ current' = [q \in Programs |-> q = p /\ current[p]]
          /\ intent' = intent /\ scanned' = scanned
      BY <1>6 DEF Config!ScanMissing
    <2>3. ReadAsItIs' /\ Config!OperatorIsKept'
      BY <2>2
    <2>4. ASSUME ~fileLost'
          PROVE  /\ \A q \in Programs : programPc'[q] = "writing" => q = p
                 /\ \A k \in Keys : intent[k] # 0 => Config!Written(p)'[k] = intent[k]
      <3>1. /\ memory[p] = file /\ \A q \in Programs : programPc[q] # "writing"
            /\ \A k \in Keys : intent[k] # 0 => file[k] = intent[k]
        BY <2>2, <2>4
      <3>. QED
        BY <2>1, <2>2, <3>1
    <2>. QED
      BY <2>2, <2>3, <2>4
  <1>7. ASSUME NEW p \in Programs, Config!NotFound(p)
        PROVE  ReadAsItIs' /\ WritesWhatIsThere' /\ Config!OperatorIsKept'
    BY <1>7 DEF Config!NotFound
  <1>8. ASSUME NEW p \in Programs, Config!Crash(p)
        PROVE  ReadAsItIs' /\ WritesWhatIsThere' /\ Config!OperatorIsKept'
    BY <1>8 DEF Config!Crash
  <1>9. CASE UNCHANGED configVars
    BY <1>9 DEF configVars
  <1>. QED
    BY <1>2, <1>3, <1>4, <1>5, <1>6, <1>7, <1>8, <1>9 DEF Config!Next, Config!ProgramStep

-----------------------------------------------------------------------------
\* A step of the process is a step of one part, or of none.
LEMMA StepOfOnePart ==
    [Next]_vars => /\ [Lock!Next]_lockVars /\ [Nsq!Next]_nsqVars /\ [Bus!Next]_busVars
                   /\ [Wrap!Next]_wrapVars /\ [Http!Next]_replyVars /\ [Life!Next]_lifeVars
                   /\ [Config!Next]_configVars
  BY DEF Next, vars

LEMMA StartOfEachPart ==
    Init => /\ Lock!Init /\ Nsq!Init /\ Bus!Init /\ Wrap!Init /\ Http!Init /\ Life!Init
            /\ Config!Init
  BY DEF Init

LEMMA PartsAssume ==
    /\ Lock!LockAssumption /\ Nsq!NsqAssumption /\ Bus!BusAssumption /\ Wrap!WrapAssumption
    /\ Http!HttpReplyAssumption /\ Life!LifecycleAssumption /\ Config!ConfigAssumption
  BY ProcessAssumption

\* The parts keep their invariants side by side.
ProcessInv ==
    /\ LockInv /\ NsqInv /\ Bus!BusTypeOK /\ WrapInv /\ HttpInv /\ LifeInv /\ ConfigInv

LEMMA ProcessKeepsInv == Spec => []ProcessInv
  <1>1. Init => ProcessInv
    BY StartOfEachPart, PartsAssume, LockInitInv, NsqInitInv, BusInitInv, WrapInitInv,
       HttpInitInv, LifeInitInv, ConfigInitInv DEF ProcessInv
  <1>2. ASSUME ProcessInv, [Next]_vars
        PROVE  ProcessInv'
    <2>1. LockInv'
      BY <1>2, StepOfOnePart, PartsAssume, LockNextTypeOK, LockNextKeyIsHolders
      DEF ProcessInv, LockInv
    <2>2. NsqInv' /\ Bus!BusTypeOK'
      BY <1>2, StepOfOnePart, PartsAssume, NsqNextInv, BusNextInv DEF ProcessInv
    <2>3. WrapInv' /\ HttpInv'
      BY <1>2, StepOfOnePart, PartsAssume, WrapNextInv, HttpNextInv DEF ProcessInv
    <2>4. LifeInv' /\ ConfigInv'
      BY <1>2, StepOfOnePart, PartsAssume, LifeNextInv, ConfigNextInv DEF ProcessInv
    <2>. QED
      BY <2>1, <2>2, <2>3, <2>4 DEF ProcessInv
  <1>. QED
    BY <1>1, <1>2, PTL DEF Spec

\* No part of a process leaves its types, whatever its constants are.
THEOREM ProcessTypeCorrect == Spec => []TypeOK
  <1>1. ProcessInv => TypeOK
    BY DEF ProcessInv, LockInv, NsqInv, WrapInv, HttpInv, LifeInv, ConfigInv, TypeOK
  <1>. QED
    BY <1>1, ProcessKeepsInv, PTL

\* Whatever clients wait, crash, lose replies or leave keys behind: two of them hold the
\* lock only after a time to live ran out under an owner or a DEL took effect twice.
THEOREM LockExcludes == Spec => []HoldersExclude
  <1>1. ProcessInv => HoldersExclude
    BY DEF ProcessInv, LockInv, KeyIsHolders, Lock!HoldersExclude, HoldersExclude
  <1>. QED
    BY <1>1, ProcessKeepsInv, PTL

\* Whatever handlers, timeouts, disconnections and crashes do: a message leaves the channel
\* only when a handler was done with it, or the subscription or nsqd gave it up.
THEOREM RemovedWasSettled == Spec => []RemovedIsSettled
  <1>1. ProcessInv => RemovedIsSettled
    BY DEF ProcessInv, NsqInv, RemovedIsSettled
  <1>. QED
    BY <1>1, ProcessKeepsInv, PTL

\* However many goroutines go through one chain of wraps, each run calls its own function
\* once and returns what that returned; and however requests overtake each other between
\* the stamp and the encoding of an error they share, a reply is of the error its request
\* failed with, and names that request or one that was failing with it at the time.
THEOREM RunsAndRepliesAreTheirOwn == Spec => []RunIsItsOwn
  <1>1. ProcessInv => Wrap!RunIsItsOwn
    BY PartsAssume DEF ProcessInv, WrapInv, OwnFunction, Wrap!WrapTypeOK, Wrap!RunIsItsOwn,
       Wrap!None, Wrap!WrapAssumption
  <1>2. ProcessInv => Http!ReplyIsItsOwn
    BY DEF ProcessInv, HttpInv
  <1>3. ProcessInv => RunIsItsOwn
    BY <1>1, <1>2 DEF RunIsItsOwn
  <1>. QED
    BY <1>3, ProcessKeepsInv, PTL

\* Whatever component fails to start or is slow to stop: unless the time to wait ran out,
\* Start returns only when no request is without its answer and no goroutine is left.
THEOREM NothingUnansweredAtReturn == Spec => []AnsweredAtReturn
  <1>1. ProcessInv => AnsweredAtReturn
    BY LifeInvImplies DEF ProcessInv, AnsweredAtReturn
  <1>. QED
    BY <1>1, ProcessKeepsInv, PTL

\* However many programs add their missing keys, die and start again, and the operator edits
\* the file: what the operator wrote stays, unless a program wrote over a file that it had
\* not read, or died while it wrote.
THEOREM OperatorsKeysStay == Spec => []OperatorIsKept
  <1>1. ProcessInv => OperatorIsKept
    BY DEF ProcessInv, ConfigInv, OperatorIsKept
  <1>. QED
    BY <1>1, ProcessKeepsInv, PTL
=============================================================================
