---------------------------- MODULE MCAgentInputs ----------------------------
(* Instances of AutoDiscovery and LogsPipeline for TLC: what feeds the agent.    *)
(* A behaviour is one of AutoConfig or one of the logs agent.                   *)
EXTENDS AutoDiscovery, LogsPipeline

CONSTANTS t1, s1

VARIABLE component

\* HTTP destinations send batches, TCP destinations single messages.
BothStrategies == {<<"beginning", "batch">>, <<"end", "stream">>}

vars == <<component, adVars, logsVars>>

Init ==
    /\ component \in {"discovery", "logs"}
    /\ DiscoveryInit
    /\ LogsInit
    /\ component = "discovery" => strategy = "batch"     \* the logs agent that does not run

DiscoveryStep == component = "discovery" /\ DiscoveryNext /\ UNCHANGED <<component, logsVars>>
LogsStep == component = "logs" /\ LogsNext /\ UNCHANGED <<component, adVars>>

Next == DiscoveryStep \/ LogsStep

Spec ==
    /\ Init /\ [][Next]_vars
    /\ \/ component = "discovery" /\ DiscoveryFairness
       \/ component = "logs" /\ LogsFairness

\* The logs agent only, for larger instances of it.
LogsOnlySpec == component = "logs" /\ Init /\ [][Next]_vars
=============================================================================
