----------------------------- MODULE RedisLock -----------------------------
(***************************************************************************)
(* The Redis lock: SET NX with a time to live takes it, DEL gives it back. *)
(* The key holds the constant 1, so Redis cannot tell whose it is; the     *)
(* client library repeats a command whose reply was lost.                  *)
(***************************************************************************)
EXTENDS Naturals

CONSTANTS
    Clients,   \* goroutines, of any process, that use one key
    MaxWaits,  \* the sleeps of 100 ms that fit into LockOptions.timeout
    MaxLost    \* bound: replies lost

None == "none"

LockAssumption == MaxWaits \in Nat /\ MaxLost \in Nat /\ None \notin Clients

VARIABLES
    key,       \* who made the key that exists in Redis (which does not know it), or None
    pc,        \* where each client is
    blocking,  \* the clients that called LockKey, not TryLockKey
    waits,     \* how often each of them has slept
    overrun,   \* history: a time to live ran out while its owner held the lock
    repeated,  \* history: a DEL took effect whose reply was lost
    lost       \* bound counter

history == <<overrun, repeated>>
vars    == <<key, pc, blocking, waits, history, lost>>

Holding == {c \in Clients : pc[c] \in {"held", "unlock"}}
-----------------------------------------------------------------------------
Init ==
    /\ key = None
    /\ pc = [c \in Clients |-> "idle"]
    /\ blocking = {}
    /\ waits = [c \in Clients |-> 0]
    /\ overrun = FALSE /\ repeated = FALSE /\ lost = 0

\* LockKey or TryLockKey is called.
Call(c) ==
    /\ pc[c] = "idle"
    /\ pc' = [pc EXCEPT ![c] = "try"]
    /\ \/ blocking' = blocking \cup {c}
       \/ blocking' = blocking \ {c}
    /\ waits' = [waits EXCEPT ![c] = 0]
    /\ UNCHANGED <<key, history, lost>>

\* Mutant: SET without NX.
SetAlways(c) == c

\* SET NX with the time to live options.timeout.
SetNX(c) == IF key = None THEN c ELSE key

\* tryLockKey, and LockKey's loop around it.
Try(c) ==
    /\ pc[c] = "try"
    /\ key' = SetNX(c)
    /\ pc' = [pc EXCEPT ![c] = IF SetNX(c) # key THEN "held"
                               ELSE IF c \in blocking THEN "sleep" ELSE "idle"]
    /\ UNCHANGED <<blocking, waits, history, lost>>

\* The reply of SET NX is lost: the library sends it again, or the error is returned.
TryLost(c) ==
    /\ pc[c] = "try"
    /\ lost < MaxLost /\ lost' = lost + 1
    /\ key' \in {key, SetNX(c)}
    /\ \/ UNCHANGED pc
       \/ pc' = [pc EXCEPT ![c] = "idle"]
    /\ UNCHANGED <<blocking, waits, history>>

\* LockKey sleeps for 100 ms and tries again while its context lasts.
Wake(c) ==
    /\ pc[c] = "sleep"
    /\ \/ /\ waits[c] < MaxWaits
          /\ waits' = [waits EXCEPT ![c] = @ + 1]
          /\ pc' = [pc EXCEPT ![c] = "try"]
       \/ /\ pc' = [pc EXCEPT ![c] = "idle"]
          /\ UNCHANGED waits
    /\ UNCHANGED <<key, blocking, history, lost>>

Unlock(c) ==
    /\ pc[c] = "held"
    /\ pc' = [pc EXCEPT ![c] = "unlock"]
    /\ UNCHANGED <<key, blocking, waits, history, lost>>

\* UnlockKey: DEL deletes the key whoever made it.
Del(c) ==
    /\ pc[c] = "unlock"
    /\ key' = None
    /\ pc' = [pc EXCEPT ![c] = "idle"]
    /\ UNCHANGED <<blocking, waits, history, lost>>

\* The reply of DEL is lost: the library sends it again, or the error is returned.
DelLost(c) ==
    /\ pc[c] = "unlock"
    /\ lost < MaxLost /\ lost' = lost + 1
    /\ \/ key' = None /\ repeated' = TRUE
       \/ UNCHANGED <<key, repeated>>
    /\ \/ UNCHANGED pc
       \/ pc' = [pc EXCEPT ![c] = "idle"]
    /\ UNCHANGED <<blocking, waits, overrun>>

\* Mutant: SET NX without a time to live.
ExpireNever == FALSE /\ UNCHANGED vars

\* The key's time to live runs out.
Expire ==
    /\ key # None
    /\ key' = None
    /\ overrun' = (overrun \/ key \in Holding)
    /\ UNCHANGED <<pc, blocking, waits, repeated, lost>>

\* The process dies, or the caller returns without UnlockKey.
Abandon(c) ==
    /\ pc[c] # "idle"
    /\ pc' = [pc EXCEPT ![c] = "idle"]
    /\ UNCHANGED <<key, blocking, waits, history, lost>>

ClientStep(c) == Try(c) \/ TryLost(c) \/ Wake(c) \/ Del(c) \/ DelLost(c)

Next ==
    \/ Expire
    \/ \E c \in Clients : Call(c) \/ ClientStep(c) \/ Unlock(c) \/ Abandon(c)

Spec == Init /\ [][Next]_vars
-----------------------------------------------------------------------------
\* Every variable holds a value of its type.
LockTypeOK ==
    /\ key \in Clients \cup {None}
    /\ pc \in [Clients -> {"idle", "try", "sleep", "held", "unlock"}]
    /\ blocking \subseteq Clients
    /\ waits \in [Clients -> 0..MaxWaits]
    /\ overrun \in BOOLEAN /\ repeated \in BOOLEAN /\ lost \in Nat

\* Two clients hold the lock at once only after a time to live ran out under its owner
\* or a DEL was sent twice: there is no third way through lost replies, crashes, orphaned
\* keys and waiting callers (tryLockKey, UnlockKey).
HoldersExclude ==
    ~overrun /\ ~repeated => \A c, d \in Holding : c = d

\* A key whose owner crashed, or never learned that it has the lock, is freed: nobody
\* waits for it for ever (the time to live in tryLockKey).
OrphanIsFreed ==
    \A c \in Clients : (key = c /\ pc[c] = "idle") ~> (key # c \/ pc[c] # "idle")
=============================================================================
