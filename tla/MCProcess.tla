----------------------------- MODULE MCProcess -----------------------------
(***************************************************************************)
(* Small instances of the parts of Process.  The parts that are not at     *)
(* work begin in one way only.  Two choices of the parts at work are made  *)
(* here as well: the subscription r acknowledges by itself and retries,    *)
(* and the operator has not written the key env when the programs start.   *)
(***************************************************************************)
EXTENDS Process, TLC

MCSubOf      == "t1" :> "s" @@ "t2" :> "s" @@ "u" :> "r"
MCComponents == <<"core", "db", "server", "cron">>
MCNeeds      == "p" :> <<"env">> @@ "q" :> <<"http", "env">>

\* s takes any options where nsq is at work, and those of r elsewhere.
MCInit ==
  /\ Init
  /\ options["r"] = [AutoAck |-> TRUE, Retry |-> TRUE]
  /\ which # "nsq" => options["s"] = options["r"]
  /\ intent["env"] = Config!Missing
  /\ which # "config" => intent = Config!NoKeys

MCSpec == MCInit /\ [][Next]_vars /\ Fairness
=============================================================================
