---------------------------- MODULE HandlerWrap ----------------------------
(***************************************************************************)
(* The chain of wraps around a broker's Publish and handlers.  Run appends *)
(* the innermost function to the slice of the wraps, which runs of other   *)
(* goroutines append to as well; each Next goes through the rest of it.    *)
(***************************************************************************)
EXTENDS Naturals

CONSTANTS
    Runs,         \* calls of Wrap.Run
    HandlerRuns,  \* those of a handler; the others are of Publish
    Wraps         \* wraps in the chain: the logger's, and the tracer's if there is one

WrapAssumption == Wraps \in {1, 2} /\ HandlerRuns \subseteq Runs

None == "none"

VARIABLES
    spare,   \* the function in the slot after the wraps in their array, or None
    pos,     \* Context.pos of each run: how many functions of its slice it has begun
    nexts,   \* its calls of Next that have not returned
    called,  \* history: whose functions it has called, in their number
    outcome, \* history: what its own function did
    result   \* what Run returned

vars == <<spare, pos, nexts, called, outcome, result>>
-----------------------------------------------------------------------------
Init ==
    /\ spare = None
    /\ pos = [r \in Runs |-> 0]
    /\ nexts = [r \in Runs |-> 0]
    /\ called = [r \in Runs |-> [s \in Runs |-> 0]]
    /\ outcome = [r \in Runs |-> None]
    /\ result = [r \in Runs |-> None]

\* Mutant: a third wrap.
WrapsThree == 3

WrapsMade == Wraps

\* append grows an array by doubling: three wraps have a slot to spare.
HasSpare == WrapsMade \notin {1, 2, 4}

\* Run: append, which writes the array of the wraps when that has room.
Run(r) ==
    /\ result[r] = None /\ nexts[r] = 0
    /\ spare' = IF HasSpare THEN r ELSE spare
    /\ nexts' = [nexts EXCEPT ![r] = 1]
    /\ UNCHANGED <<pos, called, outcome, result>>

\* Whose function is in the last slot of the run's slice.
Last(r) == IF HasSpare THEN spare ELSE r

\* Next calls the next wrap, which calls Next.
CallWrap(r) ==
    /\ nexts[r] > 0 /\ pos[r] < WrapsMade
    /\ pos' = [pos EXCEPT ![r] = @ + 1]
    /\ nexts' = [nexts EXCEPT ![r] = @ + 1]
    /\ UNCHANGED <<spare, called, outcome, result>>

\* Next calls the innermost function: its error is the run's, and its panic unwinds the
\* chain; the logger's wrap recovers it when the run is a handler's.
CallLast(r) ==
    /\ nexts[r] > 0 /\ pos[r] = WrapsMade
    /\ pos' = [pos EXCEPT ![r] = @ + 1]
    /\ called' = [called EXCEPT ![r][Last(r)] = @ + 1]
    /\ \E o \in {"nil", "error", "panic"} :
          /\ outcome' = [outcome EXCEPT ![Last(r)] = o]
          /\ IF o = "panic"
             THEN /\ nexts' = [nexts EXCEPT ![r] = 0]
                  /\ result' = [result EXCEPT ![r] = IF r \in HandlerRuns THEN "nil" ELSE "panic"]
             ELSE UNCHANGED <<nexts, result>>
    /\ UNCHANGED spare

\* Next returns to the wrap that called it, which returns to its own; Run returns the
\* error that was last given to Abort.
NextReturns(r) ==
    /\ nexts[r] > 0 /\ pos[r] > WrapsMade
    /\ nexts' = [nexts EXCEPT ![r] = @ - 1]
    /\ result' = [result EXCEPT ![r] = IF nexts[r] = 1 THEN outcome[Last(r)] ELSE @]
    /\ UNCHANGED <<spare, pos, called, outcome>>

Next == \E r \in Runs : Run(r) \/ CallWrap(r) \/ CallLast(r) \/ NextReturns(r)

Spec == Init /\ [][Next]_vars
-----------------------------------------------------------------------------
\* Every variable holds a value of its type.
WrapTypeOK ==
    /\ spare \in Runs \cup {None}
    /\ pos \in [Runs -> Nat] /\ nexts \in [Runs -> Nat]
    /\ called \in [Runs -> [Runs -> Nat]]
    /\ outcome \in [Runs -> {None, "nil", "error", "panic"}]
    /\ result \in [Runs -> {None, "nil", "error", "panic"}]

\* Runs of several goroutines go through one chain, and each calls its own function,
\* once, and returns what that one returned; a handler's panic is returned as nil.
RunIsItsOwn ==
    \A r \in Runs : result[r] # None =>
        /\ \A s \in Runs : called[r][s] = IF s = r THEN 1 ELSE 0
        /\ result[r] = IF outcome[r] = "panic" /\ r \in HandlerRuns THEN "nil" ELSE outcome[r]
=============================================================================
