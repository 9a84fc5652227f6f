---------------------------- MODULE MCClusterAgent ----------------------------
(* Instances of ClusterDispatcher, ClusterHandler and ClusterCheckSync for TLC.    *)
(* They are checked side by side in one run: a behaviour is one of the dispatcher, *)
(* one of the handler, or one of the synchronisation of a node agent.              *)
EXTENDS ClusterDispatcher, ClusterHandler, ClusterCheckSync

CONSTANTS r1, c1, i1

VARIABLE component

agentVars == <<component, vars, handlerVars, syncVars>>

OneInstance == [c \in AllConfigs |-> IF c = c1 THEN {i1} ELSE {}]

AgentInit ==
    /\ component \in {"dispatcher", "handler", "sync"}
    /\ Init
    /\ HandlerInit
    /\ SyncInit
    /\ component # "handler" => ~elected    \* the handler that does not move is a follower

AgentNext ==
    \/ component = "dispatcher" /\ Next /\ UNCHANGED <<component, handlerVars, syncVars>>
    \/ component = "handler" /\ HandlerNext /\ UNCHANGED <<component, vars, syncVars>>
    \/ component = "sync" /\ SyncNext /\ UNCHANGED <<component, vars, handlerVars>>

AgentSpec ==
    /\ AgentInit /\ [][AgentNext]_agentVars
    /\ \/ component = "dispatcher" /\ Fairness
       \/ component = "handler" /\ HandlerFairness
       \/ component = "sync" /\ SyncFairness
===============================================================================
