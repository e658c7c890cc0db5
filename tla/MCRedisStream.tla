--------------------------- MODULE MCRedisStream ---------------------------
(* Instances of RedisStream for TLC. *)
EXTENDS RedisStream, TLC

CONSTANTS s1, s2, p1, p2

\* Each subscription in a process of its own.
MCProcOf == s1 :> p1 @@ s2 :> p2

\* One subscription in one process.
MCSingle == s1 :> p1

\* A claimer that finds entries finds every pending one idle, and nobody handles one:
\* all were left pending by handlers that returned.
MCOldest ==
    \A t \in Threads : pc[t] = "claim" /\ batch'[t] # {} =>
        batch'[t] = Page(t, Pending) /\ \A u \in Threads : batch[u] = {}

MCOldestSpec == Init /\ [][Next /\ MCOldest]_vars
=============================================================================
