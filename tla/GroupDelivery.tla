--------------------------- MODULE GroupDelivery ---------------------------
(***************************************************************************)
(* What a subscription of a consumer group promises, whatever the broker:  *)
(* every message the group answers for stays open until its handling was   *)
(* settled, or until the broker itself lost it.  Goroutines, positions,    *)
(* pending lists, rebalances, crashes and restarts are not visible here:   *)
(* they may only show as messages that are handled again.                  *)
(***************************************************************************)
CONSTANTS
    Messages,
    Earlier    \* the messages that are handled before each message, and closed with it

VARIABLES
    options,   \* the AutoAck and Retry options of the subscriptions
    published,
    open,      \* the messages that the group will be given, or given again
    lost,      \* the messages that the broker deleted
    outcome    \* what handler calls on a message did

vars == <<options, published, open, lost, outcome>>

\* What the options ask for before a message may be closed.
Settled(m) ==
    IF ~options.autoAck THEN "act" \in outcome[m]
    ELSE IF options.retry THEN "ok" \in outcome[m]
    ELSE outcome[m] # {}
-----------------------------------------------------------------------------
Init ==
    /\ options \in [autoAck : BOOLEAN, retry : BOOLEAN]
    /\ published = {} /\ open = {} /\ lost = {}
    /\ outcome = [m \in Messages |-> {}]

\* A message is published; the broker may delete others, or this one, to make room.
Publish ==
    \E m \in Messages \ published :
        /\ published' = published \cup {m}
        /\ lost \subseteq lost' /\ lost' \subseteq published'
        /\ open' = (open \cup {m}) \ lost'
        /\ UNCHANGED <<options, outcome>>

\* The handler is called with a message, whose predecessors it was called with.
Handle ==
    \E m \in published :
        /\ \A n \in Earlier[m] : outcome[n] # {}
        /\ \E result \in {"ok", "fail", "act"} :
              /\ result = "act" => ~options.autoAck
              /\ outcome' = [outcome EXCEPT ![m] = @ \cup {result}]
        /\ UNCHANGED <<options, published, open, lost>>

\* A settled message is closed, and its predecessors with it.
Close ==
    \E m \in open :
        /\ Settled(m)
        /\ open' = open \ ({m} \cup Earlier[m])
        /\ UNCHANGED <<options, published, lost, outcome>>

\* A late ack of a message that is closed opens again what comes after it.
Reopen ==
    \E m \in published \ open :
        /\ Settled(m)
        /\ open' = open \cup {n \in published : m \in Earlier[n]}
        /\ UNCHANGED <<options, published, lost, outcome>>

\* The broker deletes messages, or what it knows of their delivery.
Lose ==
    /\ lost \subseteq lost' /\ lost' \subseteq published
    /\ open' = open \ lost'
    /\ UNCHANGED <<options, published, outcome>>

Next == Publish \/ Handle \/ Close \/ Reopen \/ Lose

Spec == Init /\ [][Next]_vars
=============================================================================
