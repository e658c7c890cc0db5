------------------------------ MODULE Process ------------------------------
(***************************************************************************)
(* The parts of a process that wait for something: the lock, the NSQ and   *)
(* the in-process subscriptions, the handlers' wraps, HTTP replies, the    *)
(* application's life cycle and the configuration file.  They share no     *)
(* state, so that one run checks them side by side: a behaviour is a       *)
(* behaviour of one of them, chosen in its first state, while the others   *)
(* stay where they are.                                                    *)
(***************************************************************************)
EXTENDS Naturals, Sequences

CONSTANTS
  Clients, MaxWaits, MaxLost,                                          \* RedisLock
  Threads, Subscribers, SubOf, MaxAttempts, MaxMsgs, MaxNsqCrashes,    \* NsqReader
  Subscriptions, MaxPublish,                                           \* EventBus
  Runs, HandlerRuns, Wraps,                                            \* HandlerWrap
  Requests, Shared,                                                    \* HttpReply
  Components, Loki, LogCap, MaxRequests,                               \* Lifecycle
  Programs, Keys, Needs, MaxEdits, MaxCrashes                          \* FileConfig

VARIABLES
  which,
  key, lockPc, blocking, waits, overrun, repeated, lockLost,
  channel, owner, attempts, options, connected, job, outcomes, nsqCrashes,
  topic, todo, caller, mutex, goroutine, cancelled,
  spare, pos, nexts, called, outcome, result,
  stage, failed, stamp, reply, met,
  mainPc, at, open, done, shutdown, serve, requests, jobs, lines, loop, timedOut,
  file, broken, memory, programPc, scanned, current, intent, fileLost, torn, edits, crashes

lockVars   == <<key, lockPc, blocking, waits, overrun, repeated, lockLost>>
nsqVars    == <<channel, owner, attempts, options, connected, job, outcomes, nsqCrashes>>
busVars    == <<topic, todo, caller, mutex, goroutine, cancelled>>
wrapVars   == <<spare, pos, nexts, called, outcome, result>>
replyVars  == <<stage, failed, stamp, reply, met>>
lifeVars   == <<mainPc, at, open, done, shutdown, serve, requests, jobs, lines, loop, timedOut>>
configVars == <<file, broken, memory, programPc, scanned, current, intent, fileLost, torn, edits, crashes>>
vars == <<which, lockVars, nsqVars, busVars, wrapVars, replyVars, lifeVars, configVars>>

Lock   == INSTANCE RedisLock WITH pc <- lockPc, lost <- lockLost
Nsq    == INSTANCE NsqReader WITH MaxCrashes <- MaxNsqCrashes, crashes <- nsqCrashes
Bus    == INSTANCE EventBus
Wrap   == INSTANCE HandlerWrap
Http   == INSTANCE HttpReply
Life   == INSTANCE Lifecycle WITH pc <- mainPc, channel <- lines
Config == INSTANCE FileConfig WITH pc <- programPc, lost <- fileLost

\* The assumptions of the parts.
ASSUME ProcessAssumption ==
  /\ Lock!LockAssumption /\ Nsq!NsqAssumption /\ Bus!BusAssumption /\ Wrap!WrapAssumption
  /\ Http!HttpReplyAssumption /\ Life!LifecycleAssumption /\ Config!ConfigAssumption

-----------------------------------------------------------------------------
Init ==
  /\ which \in {"lock", "nsq", "bus", "wrap", "http", "life", "config"}
  /\ Lock!Init /\ Nsq!Init /\ Bus!Init /\ Wrap!Init /\ Http!Init /\ Life!Init /\ Config!Init

Next ==
  /\ UNCHANGED which
  /\ \/ which = "lock" /\ Lock!Next
        /\ UNCHANGED <<nsqVars, busVars, wrapVars, replyVars, lifeVars, configVars>>
     \/ which = "nsq" /\ Nsq!Next
        /\ UNCHANGED <<lockVars, busVars, wrapVars, replyVars, lifeVars, configVars>>
     \/ which = "bus" /\ Bus!Next
        /\ UNCHANGED <<lockVars, nsqVars, wrapVars, replyVars, lifeVars, configVars>>
     \/ which = "wrap" /\ Wrap!Next
        /\ UNCHANGED <<lockVars, nsqVars, busVars, replyVars, lifeVars, configVars>>
     \/ which = "http" /\ Http!Next
        /\ UNCHANGED <<lockVars, nsqVars, busVars, wrapVars, lifeVars, configVars>>
     \/ which = "life" /\ Life!Next
        /\ UNCHANGED <<lockVars, nsqVars, busVars, wrapVars, replyVars, configVars>>
     \/ which = "config" /\ Config!Next
        /\ UNCHANGED <<lockVars, nsqVars, busVars, wrapVars, replyVars, lifeVars>>

\* What the scheduler, Redis, nsqd and whoever starts the programs do in the end.
Fairness ==
  /\ WF_lockVars(which = "lock" /\ Lock!Expire)
  /\ \A t \in Threads :
       /\ WF_nsqVars(which = "nsq" /\ Nsq!Returned(t))
       /\ SF_nsqVars(which = "nsq" /\ \E m \in Nsq!Msgs : Nsq!Deliver(t, m))
  /\ \A m \in Nsq!Msgs : WF_nsqVars(which = "nsq" /\ Nsq!Timeout(m))
  /\ \A p \in Bus!Publishes :
       /\ WF_busVars(which = "bus" /\ Bus!HandOver(p))
       /\ \A s \in Subscriptions :
            /\ WF_busVars(which = "bus" /\ Bus!Callback(p, s))
            /\ WF_busVars(which = "bus" /\ Bus!Handled(p, s))
  /\ \A s \in Subscriptions : WF_busVars(which = "bus" /\ Bus!Unlock(s))
  /\ SF_lifeVars(which = "life" /\ Life!MainStep)
  /\ WF_lifeVars(which = "life" /\ Life!Send)
  /\ \A p \in Programs : WF_configVars(which = "config" /\ Config!ProgramStep(p))

Spec == Init /\ [][Next]_vars /\ Fairness

-----------------------------------------------------------------------------
\* Every variable of the part at work holds a value of its type.
TypeOK ==
  /\ which = "lock"   => Lock!LockTypeOK
  /\ which = "nsq"    => Nsq!NsqTypeOK
  /\ which = "bus"    => Bus!BusTypeOK
  /\ which = "wrap"   => Wrap!WrapTypeOK
  /\ which = "http"   => Http!HttpReplyTypeOK
  /\ which = "life"   => Life!LifecycleTypeOK
  /\ which = "config" => Config!ConfigTypeOK

\* The properties of the parts, under their names: see there.
HoldersExclude     == which = "lock" => Lock!HoldersExclude
OrphanIsFreed      == which = "lock" => Lock!OrphanIsFreed
RemovedIsSettled   == which = "nsq" => Nsq!RemovedIsSettled
EveryMessageLeaves == which = "nsq" => Nsq!EveryMessageLeaves
PublishReturns     == which = "bus" => Bus!PublishReturns
RunIsItsOwn        ==
  /\ which = "wrap" => Wrap!RunIsItsOwn
  /\ which = "http" => Http!ReplyIsItsOwn
AnsweredAtReturn   == which = "life" => Life!AnsweredAtReturn
StartReturns       == which = "life" => Life!StartReturns
OperatorIsKept     == which = "config" => Config!OperatorIsKept
StartsInTheEnd     == which = "config" => Config!StartsInTheEnd
=============================================================================
