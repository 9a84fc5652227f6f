---------------------------- MODULE MCPersistence ----------------------------
(* Instances of TransactionContainer and LogsPipeline for TLC: what the agent     *)
(* keeps on disk, and finds there after a crash.  A behaviour is one of the retry *)
(* queue or one of the logs agent.                                              *)
(*                                                                              *)
(* Payloads of 1, 1, 2 and 4 bytes for limits of 3 bytes in memory and 4 on disk, *)
(* so that one payload exceeds each limit alone.  t2 has the high priority and    *)
(* may not be stored on disk.                                                   *)
EXTENDS TransactionContainer, LogsPipeline

CONSTANTS t1, t2, t3, t4

VARIABLE component

Sizes      == [t \in Transactions |-> CASE t = t3 -> 2 [] t = t4 -> 4 [] OTHER -> 1]
Priorities == [t \in Transactions |-> IF t = t2 THEN 1 ELSE 0]
\* t1 and t2 are created within the same second.
Times      == [t \in Transactions |-> CASE t = t3 -> 2 [] t = t4 -> 3 [] OTHER -> 1]

\* Only the batches of HTTP destinations, and files that are read from their beginning.
Batching == {<<"beginning", "batch">>}

PersistenceInit ==
    /\ component \in {"retry queue", "logs"}
    /\ Init
    /\ LogsInit
    /\ component = "logs" => storage = "none"     \* the retry queue that does not run

PersistenceNext ==
    \/ component = "retry queue" /\ Next /\ UNCHANGED <<component, logsVars>>
    \/ component = "logs" /\ LogsNext /\ UNCHANGED <<component, vars>>
=============================================================================
