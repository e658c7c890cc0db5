------------------------------ MODULE EventBus ------------------------------
(***************************************************************************)
(* The in-process broker, for one topic.  The bus calls the callback of    *)
(* each subscription in a goroutine that holds the subscription's mutex,   *)
(* which the publisher waits for; the callback starts another goroutine    *)
(* for the handler, which may publish itself.                              *)
(***************************************************************************)
EXTENDS Naturals, Sequences, SequencesExt

CONSTANTS
    Subscriptions,
    MaxPublish      \* bound: calls of Publish

BusAssumption == MaxPublish \in Nat

VARIABLES
    topic,      \* the bus: the subscriptions of the topic, in the order of Subscribe
    todo,       \* the copy of them that each Publish has still to go through
    caller,     \* who called each Publish: Main, or the handler <<publish, subscription>>
    mutex,      \* the Publish whose callback holds each subscription's mutex, or 0
    goroutine,  \* what has become of the callback of each publish and subscription
    cancelled   \* the subscriptions whose Unsubscribe was called

vars == <<topic, todo, caller, mutex, goroutine, cancelled>>

Publishes == 1..MaxPublish
NotYet == <<0>>
Main   == <<1>>
-----------------------------------------------------------------------------
Init ==
    /\ topic = <<>>
    /\ todo = [p \in Publishes |-> <<>>]
    /\ caller = [p \in Publishes |-> NotYet]
    /\ mutex = [s \in Subscriptions |-> 0]
    /\ goroutine = [p \in Publishes |-> [s \in Subscriptions |-> "none"]]
    /\ cancelled = {}

Subscribe(s) ==
    /\ s \notin ToSet(topic) \cup cancelled
    /\ topic' = Append(topic, s)
    /\ UNCHANGED <<todo, caller, mutex, goroutine, cancelled>>

\* The bus looks for the code of the callback, which all subscriptions of newSubscriber
\* share: what it removes is the topic's first subscription.
Unsubscribe(s) ==
    /\ s \in ToSet(topic) \ cancelled
    /\ topic' = Tail(topic)
    /\ cancelled' = cancelled \cup {s}
    /\ UNCHANGED <<todo, caller, mutex, goroutine>>

Returned(p) == caller[p] # NotYet /\ todo[p] = <<>>

\* A handler that called Publish waits for its return.
Waits(p, s) == \E q \in Publishes : caller[q] = <<p, s>> /\ ~Returned(q)

Publish(p, c) ==
    /\ caller[p] = NotYet /\ \A q \in Publishes : q < p => caller[q] # NotYet
    /\ caller' = [caller EXCEPT ![p] = c]
    /\ todo' = [todo EXCEPT ![p] = topic]
    /\ UNCHANGED <<topic, mutex, goroutine, cancelled>>

MainPublishes(p) == Publish(p, Main)

HandlerPublishes(p, q, s) ==
    /\ goroutine[q][s] = "handling" /\ ~Waits(q, s)
    /\ Publish(p, <<q, s>>)

\* The publisher takes the mutex of its next subscription.
HandOver(p) ==
    /\ todo[p] # <<>>
    /\ mutex[Head(todo[p])] = 0
    /\ mutex' = [mutex EXCEPT ![Head(todo[p])] = p]
    /\ goroutine' = [goroutine EXCEPT ![p][Head(todo[p])] = "callback"]
    /\ todo' = [todo EXCEPT ![p] = Tail(@)]
    /\ UNCHANGED <<topic, caller, cancelled>>

\* The callback starts the handler's goroutine.
Callback(p, s) ==
    /\ goroutine[p][s] = "callback"
    /\ goroutine' = [goroutine EXCEPT ![p][s] = "handling"]
    /\ UNCHANGED <<topic, todo, caller, mutex, cancelled>>

\* Mutant: the callback calls the handler.
CallbackWaits(p, s) == goroutine[p][s] = "done"

CallbackReturned(p, s) == goroutine[p][s] \in {"handling", "done"}

\* The mutex is given back when the callback has returned.
Unlock(s) ==
    /\ mutex[s] # 0 /\ CallbackReturned(mutex[s], s)
    /\ mutex' = [mutex EXCEPT ![s] = 0]
    /\ UNCHANGED <<topic, todo, caller, goroutine, cancelled>>

\* The handler returns; an error of it is logged.
Handled(p, s) ==
    /\ goroutine[p][s] = "handling" /\ ~Waits(p, s)
    /\ goroutine' = [goroutine EXCEPT ![p][s] = "done"]
    /\ UNCHANGED <<topic, todo, caller, mutex, cancelled>>

Progress ==
    \/ \E p \in Publishes : HandOver(p)
    \/ \E s \in Subscriptions : Unlock(s)
    \/ \E p \in Publishes, s \in Subscriptions : Callback(p, s) \/ Handled(p, s)

Next ==
    \/ \E s \in Subscriptions : Subscribe(s) \/ Unsubscribe(s)
    \/ \E p \in Publishes :
          \/ MainPublishes(p)
          \/ \E q \in Publishes, s \in Subscriptions : HandlerPublishes(p, q, s)
    \/ Progress

Spec == Init /\ [][Next]_vars
-----------------------------------------------------------------------------
\* Every variable holds a value of its type.
BusTypeOK ==
    /\ topic \in Seq(Subscriptions) /\ IsInjective(topic)
    /\ todo \in [Publishes -> Seq(Subscriptions)]
    /\ caller \in [Publishes -> {NotYet, Main} \cup (Publishes \X Subscriptions)]
    /\ mutex \in [Subscriptions -> 0..MaxPublish]
    /\ goroutine \in [Publishes -> [Subscriptions -> {"none", "callback", "handling", "done"}]]
    /\ cancelled \subseteq Subscriptions

\* A Publish returns, also one that a handler makes while other publishers and handlers
\* want the same mutexes, and what it handed over is handled (newSubscriber's handle).
PublishReturns ==
    \A p \in Publishes :
        caller[p] # NotYet ~> /\ Returned(p)
                              /\ \A s \in Subscriptions : goroutine[p][s] \in {"none", "done"}
=============================================================================
