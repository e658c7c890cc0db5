---------------------------- MODULE PolicyStore ----------------------------
(***************************************************************************)
(* Permission.Check with the equal matcher over a Group of a Memory store, *)
(* while policies are added, replaced and removed.  Only AddPolicy takes   *)
(* the lock: a check reads the slice one element after the other, twice    *)
(* for a member of a group, and RemovePolicy shifts it under its hands.    *)
(***************************************************************************)
EXTENDS Naturals, Sequences

CONSTANTS
    Checkers,  \* goroutines that check one request of User for Resource
    Removers,  \* goroutines that remove policies
    Pool,      \* the policies there may be: their Subject, Resource, Effect, Priority, and
               \* whether the request's action is one of their Actions
    User, Resource,
    Groups     \* the names that begin with "group:"

PolicyAssumption ==
    /\ Pool \in Seq({Pool[p] : p \in DOMAIN Pool})
    /\ \A p \in DOMAIN Pool :
          /\ Pool[p].Effect \in {"allow", "deny"} /\ Pool[p].Priority \in Nat
          /\ Pool[p].InAction \in BOOLEAN
    /\ User \notin Groups

Ids == DOMAIN Pool

VARIABLES
    array,    \* the backing array of Memory.list
    len,      \* the length of Memory.list
    added,    \* the policies that were ever added
    removing, \* the element each RemovePolicy shifts, and the length it found; 0 when idle
    pc,       \* where each check is
    subject,  \* whose policies it looks for
    i, n,     \* the element it reads next, the length it found
    todo,     \* policies of User it still has to follow
    found,    \* policies that match the request
    stable,   \* history: the policies that were there all through the check
    seen,     \* history: those that were there at some time of the check
    raced     \* history: checks that a RemovePolicy ran beside

memory  == <<array, len, added, removing>>
check   == <<pc, subject, i, n, todo, found>>
history == <<stable, seen, raced>>
vars    == <<memory, check, history>>

List    == {array[k] : k \in 1..len}
NoOne   == [at |-> 0, len |-> 0]
Removes == \E r \in Removers : removing[r] # NoOne
-----------------------------------------------------------------------------
Init ==
    /\ array = [k \in Ids |-> k] /\ len = 0 /\ added = {}
    /\ removing = [r \in Removers |-> NoOne]
    /\ pc = [c \in Checkers |-> "idle"]
    /\ subject = [c \in Checkers |-> User]
    /\ i = [c \in Checkers |-> 1] /\ n = [c \in Checkers |-> 0]
    /\ todo = [c \in Checkers |-> <<>>] /\ found = [c \in Checkers |-> <<>>]
    /\ stable = [c \in Checkers |-> {}] /\ seen = [c \in Checkers |-> {}]
    /\ raced = {}

\* The policy p comes to the list, in the place of the policies in old.
Noted(p, old) ==
    /\ added' = added \cup {p}
    /\ stable' = [c \in Checkers |-> stable[c] \ old]
    /\ seen' = [c \in Checkers |-> seen[c] \cup {p}]
    /\ UNCHANGED <<removing, check, raced>>

AddPolicy(p) ==
    /\ p \notin added /\ len < Len(Pool)
    /\ array' = [array EXCEPT ![len + 1] = p]
    /\ len' = len + 1
    /\ Noted(p, {})

\* UpdatePolicy puts another policy in the place of one with its ID.
UpdatePolicy(p) ==
    /\ p \notin added
    /\ \E k \in 1..len : array' = [array EXCEPT ![k] = p] /\ Noted(p, {array[k]})
    /\ UNCHANGED len

\* RemovePolicy has found the policy.
RemovePolicy(r) ==
    /\ removing[r] = NoOne
    /\ \E k \in 1..len :
          /\ removing' = [removing EXCEPT ![r] = [at |-> k, len |-> len]]
          /\ stable' = [c \in Checkers |-> stable[c] \ {array[k]}]
    /\ raced' = raced \cup {c \in Checkers : pc[c] = "find"}
    /\ UNCHANGED <<array, len, added, check, seen>>

\* It moves the next element down, and in the end stores the shorter slice.
Shift(r) ==
    /\ removing[r] # NoOne
    /\ LET k == removing[r].at
       IN IF k < removing[r].len
          THEN /\ array' = [array EXCEPT ![k] = array[k + 1]]
               /\ removing' = [removing EXCEPT ![r].at = k + 1]
               /\ UNCHANGED len
          ELSE /\ len' = k - 1
               /\ removing' = [removing EXCEPT ![r] = NoOne]
               /\ UNCHANGED array
    /\ UNCHANGED <<added, check, history>>

\* Check begins with the user's own policies.
Check(c) ==
    /\ pc[c] = "idle"
    /\ pc' = [pc EXCEPT ![c] = "find"]
    /\ n' = [n EXCEPT ![c] = len]
    /\ stable' = [stable EXCEPT ![c] = List] /\ seen' = [seen EXCEPT ![c] = List]
    /\ raced' = IF Removes THEN raced \cup {c} ELSE raced \ {c}
    /\ UNCHANGED <<memory, subject, i, todo, found>>

\* FindPolicyBySubject and FindPolicyByResource of Memory read the next element.
Read(c) ==
    /\ pc[c] = "find" /\ i[c] <= n[c]
    /\ LET p == array[i[c]]
       IN /\ todo' = [todo EXCEPT ![c] =
                IF subject[c] = User /\ Pool[p].Subject = User THEN Append(@, p) ELSE @]
          /\ found' = [found EXCEPT ![c] =
                IF subject[c] # User /\ Pool[p].Subject = subject[c] /\ Pool[p].Resource = Resource
                THEN Append(@, p) ELSE @]
    /\ i' = [i EXCEPT ![c] = @ + 1]
    /\ UNCHANGED <<memory, pc, subject, n, history>>

\* Group follows the user's policies: a membership to the policies of its group.
Follow(c) ==
    /\ pc[c] = "find" /\ i[c] > n[c] /\ todo[c] # <<>>
    /\ LET p == Head(todo[c])
       IN IF Pool[p].Resource \in Groups
          THEN /\ subject' = [subject EXCEPT ![c] = Pool[p].Resource]
               /\ i' = [i EXCEPT ![c] = 1] /\ n' = [n EXCEPT ![c] = len]
               /\ UNCHANGED found
          ELSE /\ found' = [found EXCEPT ![c] =
                      IF Pool[p].Resource = Resource THEN Append(@, p) ELSE @]
               /\ UNCHANGED <<subject, i, n>>
    /\ todo' = [todo EXCEPT ![c] = Tail(@)]
    /\ UNCHANGED <<memory, pc, history>>

\* The equal matcher leaves the policies of the action.
Matched(c) == {k \in DOMAIN found[c] : Pool[found[c][k]].InAction}

\* Mutant: the highest priority number comes first.
HighestFirst(c, k) ==
    \A j \in Matched(c) :
        \/ Pool[found[c][k]].Priority > Pool[found[c][j]].Priority
        \/ Pool[found[c][k]].Priority = Pool[found[c][j]].Priority /\ k <= j

\* What the stable sort by priority puts first.
First(c, k) ==
    \A j \in Matched(c) :
        \/ Pool[found[c][k]].Priority < Pool[found[c][j]].Priority
        \/ Pool[found[c][k]].Priority = Pool[found[c][j]].Priority /\ k <= j

\* No policy is a refusal.
Decide(c) ==
    /\ pc[c] = "find" /\ i[c] > n[c] /\ todo[c] = <<>>
    /\ pc' = [pc EXCEPT ![c] =
          IF \E k \in Matched(c) : First(c, k) /\ Pool[found[c][k]].Effect # "deny"
          THEN "allowed" ELSE "denied"]
    /\ UNCHANGED <<memory, subject, i, n, todo, found, history>>

Return(c) ==
    /\ pc[c] \in {"denied", "allowed"}
    /\ pc' = [pc EXCEPT ![c] = "idle"]
    /\ subject' = [subject EXCEPT ![c] = User]
    /\ i' = [i EXCEPT ![c] = 1] /\ found' = [found EXCEPT ![c] = <<>>]
    /\ stable' = [stable EXCEPT ![c] = {}] /\ seen' = [seen EXCEPT ![c] = {}]
    /\ UNCHANGED <<memory, n, todo, raced>>

Next ==
    \/ \E p \in Ids : AddPolicy(p) \/ UpdatePolicy(p)
    \/ \E r \in Removers : RemovePolicy(r) \/ Shift(r)
    \/ \E c \in Checkers : Check(c) \/ Read(c) \/ Follow(c) \/ Decide(c) \/ Return(c)

Spec == Init /\ [][Next]_vars
-----------------------------------------------------------------------------
\* Every variable holds a value of its type.
PolicyTypeOK ==
    /\ array \in [Ids -> Ids] /\ len \in 0..Len(Pool) /\ added \subseteq Ids
    /\ removing \in [Removers -> {NoOne} \cup [at : 1..Len(Pool), len : 1..Len(Pool)]]
    /\ pc \in [Checkers -> {"idle", "find", "denied", "allowed"}]
    /\ subject \in [Checkers -> {User} \cup Groups]
    /\ i \in [Checkers -> Nat \ {0}] /\ n \in [Checkers -> 0..Len(Pool)]
    /\ todo \in [Checkers -> Seq(Ids)] /\ found \in [Checkers -> Seq(Ids)]
    /\ stable \in [Checkers -> SUBSET Ids] /\ seen \in [Checkers -> SUBSET Ids]
    /\ raced \subseteq Checkers

\* The policies among P that are about the request, the user's own and its groups'.
Applying(P) ==
    {p \in P : /\ Pool[p].Resource = Resource /\ Pool[p].InAction
               /\ \/ Pool[p].Subject = User /\ Resource \notin Groups
                  \/ /\ Pool[p].Subject \in Groups
                     /\ \E m \in P : /\ Pool[m].Subject = User
                                    /\ Pool[m].Resource = Pool[p].Subject}

\* A request is let through only by a policy that applied to it while it was checked, and
\* that no policy denying it all the while comes before, although a group's policies are
\* read after the user's own and policies come and change between; unless a RemovePolicy
\* ran beside the check (Check, Group, Memory).
DenyIsObeyed ==
    \A c \in Checkers : pc[c] = "allowed" /\ c \notin raced =>
        \E q \in Applying(seen[c]) :
            /\ Pool[q].Effect = "allow"
            /\ \A p \in Applying(stable[c]) :
                  Pool[p].Effect = "deny" => Pool[q].Priority <= Pool[p].Priority
=============================================================================
