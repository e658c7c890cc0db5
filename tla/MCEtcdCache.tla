---------------------------- MODULE MCEtcdCache ----------------------------
(* Instances of EtcdCache for TLC. *)
EXTENDS EtcdCache, TLC

CONSTANTS k1, k2, c1

\* Two goroutines share the client of one process.
MCClientOf == k1 :> c1 @@ k2 :> c1
=============================================================================
