----------------------------- MODULE MCAlgorithms -----------------------------
(* Instances of SparseBuckets, EndpointBackoff and Rebalance for TLC.  A behaviour *)
(* is one of a job queue, of the breaker of an endpoint, or of a rebalancing.      *)
EXTENDS SparseBuckets, EndpointBackoff, Rebalance

VARIABLE component

allVars == <<component, vars, backoffVars, rebalanceVars>>

\* A component that does not run has one initial state.
AlgorithmsInit ==
    /\ component \in {"buckets", "backoff", "rebalance"}
    /\ Init
    /\ component # "buckets" => nb = 1
    /\ \/ component = "backoff" /\ BackoffInit
       \/ component # "backoff" /\ beConf = NewBlockedEndpoints(2, 1, 1, 1, FALSE) /\ beErrors = 0
    /\ RebalanceInit
    /\ component # "rebalance" =>
          rbWeight \in [RbChecks -> {0}] /\ rbOn \in [RbChecks -> {1}] /\ rbFixed[1] = 0

AlgorithmsNext ==
    \/ component = "buckets" /\ addJob /\ UNCHANGED <<component, backoffVars, rebalanceVars>>
    \/ component = "backoff" /\ BackoffNext /\ UNCHANGED <<component, vars, rebalanceVars>>
    \/ component = "rebalance" /\ RebalanceNext /\ UNCHANGED <<component, vars, backoffVars>>

AlgorithmsSpec ==
    /\ AlgorithmsInit /\ [][AlgorithmsNext]_allVars
    /\ (component = "rebalance" => RebalanceFairness)
===============================================================================
