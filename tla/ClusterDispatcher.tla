-------------------------- MODULE ClusterDispatcher --------------------------
(***************************************************************************)
(* The cluster-check dispatcher of the cluster agent                       *)
(* (pkg/clusteragent/clusterchecks): the clusterStore, and the goroutines  *)
(* that work on it under its lock:                                         *)
(*                                                                         *)
(*   "ad"    the autodiscovery goroutine that schedules and unschedules    *)
(*           configurations through the MetaScheduler;                     *)
(*   "loop"  Handler.runDispatch: register, replay, the dispatcher's loop  *)
(*           (node expiration, re-dispatching, rebalancing), reset;        *)
(*   "http"  the API goroutine that serves POST /clusterchecks/rebalance;  *)
(*   the API goroutines that serve the node agents' status reports.        *)
(*                                                                         *)
(* One action is one critical section of the store's lock: what the code   *)
(* reads in one section and uses in the next may be stale by then.         *)
(* A configuration stands for its digest; configurations that cannot be    *)
(* patched are ignored by Schedule and Unschedule alike, and left out.     *)
(* Timestamps are ages: the store only compares a heartbeat with now -     *)
(* nodeExpirationSeconds.                                                  *)
(***************************************************************************)
EXTENDS Integers, FiniteSets

CONSTANTS
    Configs,              \* configurations (digests) autodiscovery can schedule
    EndpointConfigs,      \* those with a NodeName: endpoint checks, bound to a node
    EmptyConfig,          \* the zero integration.Config{} of a failed map lookup
    NoConfig,             \* "no entry" in a map whose values are configurations
    Nodes,                \* names of the node agents
    NoNode,               \* the empty node name
    CheckIDs,             \* check instance identifiers (check.BuildID)
    InstanceIDs,          \* the check IDs of each configuration's instances
    NodeExpiration,       \* nodeExpirationSeconds, in ticks of the clock
    MaxBusyness,          \* bound on the busyness a runner reports
    AdvancedDispatching,  \* cluster_checks.advanced_dispatching_enabled
    ReliableNodes         \* nodes that report at least once per NodeExpiration

AllConfigs == Configs \cup {EmptyConfig}
Threads == {"ad", "loop", "http"}

ASSUME ConfigsAssumption ==
    /\ EndpointConfigs \subseteq Configs
    /\ EmptyConfig \notin Configs
    /\ NoConfig \notin AllConfigs
    /\ NoNode \notin Nodes
ASSUME InstancesAssumption ==
    /\ InstanceIDs \in [AllConfigs -> SUBSET CheckIDs]
    /\ InstanceIDs[EmptyConfig] = {}
ASSUME ParametersAssumption ==
    /\ NodeExpiration \in Nat
    /\ MaxBusyness \in Nat
    /\ AdvancedDispatching \in BOOLEAN
    /\ ReliableNodes \subseteq Nodes

VARIABLES
    \* clusterStore
    active,            \* the warmup is over
    digestToConfig,    \* all the registered configurations
    digestToNode,      \* the node a configuration is dispatched to
    nodes,             \* the known nodes
    danglingConfigs,   \* configurations that could not be dispatched
    idToDigest,        \* check ID -> configuration
    endpointsConfigs,  \* the endpoint configurations (of all the nodes)
    \* nodeStore; an absent node has the values of newNodeStore
    nodeConfigs,       \* nodeStore.digestToConfig
    heartbeatAge,      \* now - heartbeat, NodeExpiration + 1 when it is older
    clcRunnerStats,    \* the cluster checks the runner says it runs
    busyness,          \* -1 before the first statistics
    \* goroutines
    posting,           \* nodes whose status report is between its two sections
    loaded,            \* AutoConfig's loadedConfigs
    registered,        \* the dispatcher is one of the MetaScheduler's schedulers
    runState,          \* where runDispatch is
    batch,             \* configurations runDispatch still has to add
    pc, cfg, tgt       \* per goroutine: control, configuration, target node

storeVars == <<active, digestToConfig, digestToNode, nodes, danglingConfigs, idToDigest,
               endpointsConfigs>>
nodeVars  == <<nodeConfigs, heartbeatAge, clcRunnerStats, busyness>>
adVars    == <<loaded, registered>>
threadVars == <<runState, batch, pc, cfg, tgt>>
vars == <<storeVars, nodeVars, posting, adVars, threadVars>>

Expired == NodeExpiration + 1   \* the age of newNodeStore's zero heartbeat

Init ==
    /\ active = FALSE
    /\ digestToConfig = {}
    /\ digestToNode = [c \in AllConfigs |-> NoNode]
    /\ nodes = {}
    /\ danglingConfigs = {}
    /\ idToDigest = [i \in CheckIDs |-> NoConfig]
    /\ endpointsConfigs = {}
    /\ nodeConfigs = [n \in Nodes |-> {}]
    /\ heartbeatAge = [n \in Nodes |-> Expired]
    /\ clcRunnerStats = [n \in Nodes |-> {}]
    /\ busyness = [n \in Nodes |-> -1]
    /\ posting = {}
    /\ loaded = {}
    /\ registered = FALSE
    /\ runState = "off"
    /\ batch = {}
    /\ pc = [t \in Threads |-> "idle"]
    /\ cfg = [t \in Threads |-> NoConfig]
    /\ tgt = [t \in Threads |-> NoNode]

-----------------------------------------------------------------------------
(* The critical sections of the store. *)

\* addConfig: the configuration and its instances are registered ...
RegisterConfig(c) ==
    /\ digestToConfig' = digestToConfig \cup {c}
    /\ idToDigest' = [i \in CheckIDs |-> IF i \in InstanceIDs[c] THEN c ELSE idToDigest[i]]

\* Mutant: the configuration is not removed from its previous node.
DispatchKeepsPrevious(c, n) ==
    /\ nodes' = nodes \cup {n}
    /\ digestToNode' = [digestToNode EXCEPT ![c] = n]
    /\ nodeConfigs' = [nodeConfigs EXCEPT ![n] = @ \cup {c}]

\* ... then moved from the node it is on, if any, to its target, which is created
\* when it is unknown ...
DispatchTo(c, n) ==
    /\ nodes' = nodes \cup {n}
    /\ digestToNode' = [digestToNode EXCEPT ![c] = n]
    /\ nodeConfigs' = [m \in Nodes |->
                         CASE m = n -> nodeConfigs[m] \cup {c}
                           [] m # n /\ m = digestToNode[c] -> nodeConfigs[m] \ {c}
                           [] OTHER -> nodeConfigs[m]]

\* ... unless there is no target: it is dangling.
AddConfigTo(c, n) ==
    /\ RegisterConfig(c)
    /\ \/ /\ n = NoNode
          /\ danglingConfigs' = danglingConfigs \cup {c}
          /\ UNCHANGED <<digestToNode, nodes, nodeConfigs>>
       \/ /\ n # NoNode
          /\ DispatchTo(c, n)
          /\ UNCHANGED danglingConfigs

\* Mutant: the check IDs of a removed configuration stay in idToDigest.
RemoveConfigKeepsIDs(c) ==
    /\ digestToConfig' = digestToConfig \ {c}
    /\ danglingConfigs' = danglingConfigs \ {c}
    /\ UNCHANGED idToDigest
    /\ digestToNode' = [digestToNode EXCEPT ![c] = NoNode]
    /\ nodeConfigs' = [m \in Nodes |->
                         IF m = digestToNode[c] THEN nodeConfigs[m] \ {c} ELSE nodeConfigs[m]]

\* removeConfig(digest), under the store's lock.
RemoveConfig(c) ==
    /\ digestToConfig' = digestToConfig \ {c}
    /\ danglingConfigs' = danglingConfigs \ {c}
    /\ idToDigest' = [i \in CheckIDs |-> IF idToDigest[i] = c THEN NoConfig ELSE idToDigest[i]]
    /\ digestToNode' = [digestToNode EXCEPT ![c] = NoNode]
    /\ nodeConfigs' = [m \in Nodes |->
                         IF m = digestToNode[c] THEN nodeConfigs[m] \ {c} ELSE nodeConfigs[m]]

\* The nodeStores of ns are dropped; a node that comes back gets newNodeStore's
\* values.  A status report in progress writes to the dropped object.
DropNodeStores(ns) ==
    /\ nodes' = nodes \ ns
    /\ nodeConfigs' = [n \in Nodes |-> IF n \in ns THEN {} ELSE nodeConfigs[n]]
    /\ heartbeatAge' = [n \in Nodes |-> IF n \in ns THEN Expired ELSE heartbeatAge[n]]
    /\ clcRunnerStats' = [n \in Nodes |-> IF n \in ns THEN {} ELSE clcRunnerStats[n]]
    /\ busyness' = [n \in Nodes |-> IF n \in ns THEN -1 ELSE busyness[n]]
    /\ posting' = posting \ ns

\* getLeastBusyNode: the map is walked in a random order and two minima are
\* kept, one per criterion; the node of the last improved minimum is returned.
Weighed == {n \in nodes : AdvancedDispatching /\ busyness[n] > -1}
Counted == nodes \ Weighed
LeastBusyNodes ==
    {n \in Weighed : \A m \in Weighed : busyness[n] <= busyness[m]} \cup
    {n \in Counted : \A m \in Counted :
                        Cardinality(nodeConfigs[n]) <= Cardinality(nodeConfigs[m])}
LeastBusyNode(n) == IF nodes = {} THEN n = NoNode ELSE n \in LeastBusyNodes

-----------------------------------------------------------------------------
(* Adding one configuration: add() reads the target, then addConfig().     *)

PickTarget(t, c) ==
    \E n \in Nodes \cup {NoNode} :
        /\ LeastBusyNode(n)
        /\ pc' = [pc EXCEPT ![t] = "add"]
        /\ cfg' = [cfg EXCEPT ![t] = c]
        /\ tgt' = [tgt EXCEPT ![t] = n]

\* One turn of dispatcher.Schedule's loop: an endpoint check is stored for its
\* node in one section, a cluster check goes through add().
ScheduleOne(t, c) ==
    \/ /\ c \in EndpointConfigs
       /\ endpointsConfigs' = endpointsConfigs \cup {c}
       /\ pc' = [pc EXCEPT ![t] = "idle"]
       /\ cfg' = [cfg EXCEPT ![t] = NoConfig]
       /\ UNCHANGED tgt
    \/ /\ c \notin EndpointConfigs
       /\ PickTarget(t, c)
       /\ UNCHANGED endpointsConfigs

\* The addConfig that ends add() or moveCheck().
AddConfig(t) ==
    /\ pc[t] = "add"
    /\ AddConfigTo(cfg[t], tgt[t])
    /\ pc' = [pc EXCEPT ![t] =
                IF t = "http" \/ (t = "loop" /\ runState = "run") THEN "rebalance" ELSE "idle"]
    /\ cfg' = [cfg EXCEPT ![t] = NoConfig]
    /\ tgt' = [tgt EXCEPT ![t] = NoNode]
    /\ UNCHANGED <<active, endpointsConfigs, heartbeatAge, clcRunnerStats, busyness, posting,
                   adVars, runState, batch>>

-----------------------------------------------------------------------------
(* Autodiscovery: AutoConfig and its MetaScheduler, whose mutex is held    *)
(* while a scheduler runs.                                                 *)

\* AutoConfig stores a resolved configuration, then schedules it.
LoadConfig(c) ==
    /\ pc["ad"] = "idle"
    /\ c \in Configs \ loaded
    /\ loaded' = loaded \cup {c}
    /\ pc' = [pc EXCEPT !["ad"] = "schedule"]
    /\ cfg' = [cfg EXCEPT !["ad"] = c]
    /\ UNCHANGED <<storeVars, nodeVars, posting, registered, runState, batch, tgt>>

\* MetaScheduler.Schedule -> dispatcher.Schedule, up to add()'s choice of a target.
Schedule ==
    /\ pc["ad"] = "schedule"
    /\ \/ registered /\ ScheduleOne("ad", cfg["ad"])
       \/ /\ ~registered
          /\ pc' = [pc EXCEPT !["ad"] = "idle"]
          /\ cfg' = [cfg EXCEPT !["ad"] = NoConfig]
          /\ UNCHANGED <<endpointsConfigs, tgt>>
    /\ UNCHANGED <<active, digestToConfig, digestToNode, nodes, danglingConfigs, idToDigest,
                   nodeVars, posting, adVars, runState, batch>>

\* processRemovedConfigs: unschedule first ...
Unschedule(c) ==
    /\ pc["ad"] = "idle"
    /\ c \in loaded
    /\ \/ /\ registered /\ c \notin EndpointConfigs
          /\ RemoveConfig(c)
          /\ UNCHANGED <<active, nodes, endpointsConfigs>>
       \/ /\ registered /\ c \in EndpointConfigs
          /\ endpointsConfigs' = endpointsConfigs \ {c}
          /\ UNCHANGED <<active, digestToConfig, digestToNode, nodes, danglingConfigs,
                         idToDigest, nodeConfigs>>
       \/ ~registered /\ UNCHANGED <<storeVars, nodeConfigs>>
    /\ pc' = [pc EXCEPT !["ad"] = "unload"]
    /\ cfg' = [cfg EXCEPT !["ad"] = c]
    /\ UNCHANGED <<heartbeatAge, clcRunnerStats, busyness, posting, adVars, runState, batch, tgt>>

\* ... then forget the loaded configuration.
UnloadConfig ==
    /\ pc["ad"] = "unload"
    /\ loaded' = loaded \ {cfg["ad"]}
    /\ pc' = [pc EXCEPT !["ad"] = "idle"]
    /\ cfg' = [cfg EXCEPT !["ad"] = NoConfig]
    /\ UNCHANGED <<storeVars, nodeVars, posting, registered, runState, batch, tgt>>

-----------------------------------------------------------------------------
(* Handler.runDispatch and the dispatcher's loop.                          *)

\* AddScheduler: Register waits for the MetaScheduler's mutex.
Register ==
    /\ runState = "off"
    /\ pc["ad"] # "add"
    /\ registered' = TRUE
    /\ runState' = "registered"
    /\ UNCHANGED <<storeVars, nodeVars, posting, loaded, batch, pc, cfg, tgt>>

\* AddScheduler: the configurations to replay are the loaded ones.
Replay ==
    /\ runState = "registered"
    /\ batch' = loaded
    /\ runState' = "replay"
    /\ UNCHANGED <<storeVars, nodeVars, posting, adVars, pc, cfg, tgt>>

\* The next configuration of a replay or of reschedule().
AddNext ==
    /\ runState \in {"replay", "reschedule"}
    /\ pc["loop"] = "idle"
    /\ \E c \in batch :
          /\ batch' = batch \ {c}
          /\ ScheduleOne("loop", c)
    /\ UNCHANGED <<active, digestToConfig, digestToNode, nodes, danglingConfigs, idToDigest,
                   nodeVars, posting, adVars, runState>>

\* The end of a replay activates the store, the end of reschedule() the loop.
BatchDone ==
    /\ runState \in {"replay", "reschedule"}
    /\ pc["loop"] = "idle"
    /\ batch = {}
    /\ active' = TRUE
    /\ runState' = "run"
    /\ UNCHANGED <<digestToConfig, digestToNode, nodes, danglingConfigs, idToDigest,
                   endpointsConfigs, nodeVars, posting, adVars, batch, pc, cfg, tgt>>

ExpiredNodes == {n \in nodes : heartbeatAge[n] > NodeExpiration}

\* Mutant: the configurations of the expired nodes are not made dangling.
ExpireNodesForgets ==
    /\ runState = "run"
    /\ pc["loop"] = "idle"
    /\ digestToNode' = [c \in AllConfigs |->
                          IF digestToNode[c] \in ExpiredNodes THEN NoNode ELSE digestToNode[c]]
    /\ DropNodeStores(ExpiredNodes)
    /\ runState' = "expired"
    /\ UNCHANGED <<active, digestToConfig, danglingConfigs, idToDigest, endpointsConfigs,
                   adVars, batch, pc, cfg, tgt>>

\* The cleanup ticker: expireNodes.
ExpireNodes ==
    /\ runState = "run"
    /\ pc["loop"] = "idle"
    /\ LET orphans == UNION {nodeConfigs[n] : n \in ExpiredNodes}
       IN /\ digestToNode' = [c \in AllConfigs |->
                                IF c \in orphans THEN NoNode ELSE digestToNode[c]]
          /\ danglingConfigs' = danglingConfigs \cup orphans
    /\ DropNodeStores(ExpiredNodes)
    /\ runState' = "expired"
    /\ UNCHANGED <<active, digestToConfig, idToDigest, endpointsConfigs, adVars, batch,
                   pc, cfg, tgt>>

\* Mutant: the test on the nodes is inverted.
ShouldDispatchDanglingInverted ==
    /\ runState = "expired"
    /\ runState' = IF danglingConfigs # {} /\ nodes = {} THEN "retrieve" ELSE "run"
    /\ UNCHANGED <<storeVars, nodeVars, posting, adVars, batch, pc, cfg, tgt>>

\* shouldDispatchDanling.
ShouldDispatchDangling ==
    /\ runState = "expired"
    /\ runState' = IF danglingConfigs # {} /\ nodes # {} THEN "retrieve" ELSE "run"
    /\ UNCHANGED <<storeVars, nodeVars, posting, adVars, batch, pc, cfg, tgt>>

\* retrieveAndClearDangling.
RetrieveAndClearDangling ==
    /\ runState = "retrieve"
    /\ batch' = danglingConfigs
    /\ danglingConfigs' = {}
    /\ runState' = "reschedule"
    /\ UNCHANGED <<active, digestToConfig, digestToNode, nodes, idToDigest, endpointsConfigs,
                   nodeVars, posting, adVars, pc, cfg, tgt>>

\* The leadership is lost: run() returns and the store is reset.
Reset ==
    /\ runState = "run"
    /\ pc["loop"] = "idle"
    /\ active' = FALSE
    /\ digestToConfig' = {}
    /\ digestToNode' = [c \in AllConfigs |-> NoNode]
    /\ danglingConfigs' = {}
    /\ idToDigest' = [i \in CheckIDs |-> NoConfig]
    /\ endpointsConfigs' = {}
    /\ DropNodeStores(Nodes)
    /\ runState' = "reset"
    /\ UNCHANGED <<adVars, batch, pc, cfg, tgt>>

\* RemoveScheduler: Deregister waits for the MetaScheduler's mutex.
Deregister ==
    /\ runState = "reset"
    /\ pc["ad"] # "add"
    /\ registered' = FALSE
    /\ runState' = "off"
    /\ UNCHANGED <<storeVars, nodeVars, posting, loaded, batch, pc, cfg, tgt>>

-----------------------------------------------------------------------------
(* Rebalancing, by the loop's statistics ticker or by an API request.      *)

CanRebalance(t) ==
    /\ AdvancedDispatching
    /\ pc[t] = "idle"
    /\ t = "loop" => runState = "run"

\* updateRunnersStats: each runner is asked for its checks; a failed request
\* leaves its node unchanged.  Only the checks of idToDigest are cluster checks.
UpdateRunnersStats(t) ==
    /\ CanRebalance(t)
    /\ \E answers \in SUBSET nodes :
          /\ clcRunnerStats' \in
                {f \in [Nodes -> SUBSET {i \in CheckIDs : idToDigest[i] # NoConfig}] :
                    \A n \in Nodes \ answers : f[n] = clcRunnerStats[n]}
          /\ busyness' \in
                {f \in [Nodes -> -1..MaxBusyness] :
                    \A n \in Nodes : IF n \in answers THEN f[n] >= 0 ELSE f[n] = busyness[n]}
    /\ pc' = [pc EXCEPT ![t] = "rebalance"]
    /\ UNCHANGED <<storeVars, nodeConfigs, heartbeatAge, posting, adVars, runState, batch, cfg, tgt>>

\* moveCheck, up to getConfigAndDigest: its sections on the two nodeStores and
\* the lookup touch no state in common and are one step.  Which check moves where is decided by
\* the weights: any check of a source node may move to any other known node.
MoveCheck(t) ==
    /\ pc[t] = "rebalance"
    /\ \E src, dest \in nodes : \E i \in clcRunnerStats[src] :
          /\ src # dest
          /\ clcRunnerStats' = [clcRunnerStats EXCEPT ![src] = @ \ {i}, ![dest] = @ \cup {i}]
          /\ cfg' = [cfg EXCEPT ![t] =
                       IF idToDigest[i] = NoConfig THEN EmptyConfig ELSE idToDigest[i]]
          /\ tgt' = [tgt EXCEPT ![t] = dest]
    /\ pc' = [pc EXCEPT ![t] = "remove"]
    /\ UNCHANGED <<storeVars, nodeConfigs, heartbeatAge, busyness, posting, adVars, runState, batch>>

\* Mutant: moveCheck returns once the configuration is removed.
MoveRemoveOnly(t) ==
    /\ pc[t] = "remove"
    /\ IF cfg[t] = EmptyConfig
       THEN UNCHANGED <<storeVars, nodeConfigs>>
       ELSE RemoveConfig(cfg[t]) /\ UNCHANGED <<active, nodes, endpointsConfigs>>
    /\ pc' = [pc EXCEPT ![t] = "rebalance"]
    /\ cfg' = [cfg EXCEPT ![t] = NoConfig]
    /\ tgt' = [tgt EXCEPT ![t] = NoNode]
    /\ UNCHANGED <<heartbeatAge, clcRunnerStats, busyness, posting, adVars, runState, batch>>

\* moveCheck: removeConfig(digest).  An unknown check ID has the empty digest,
\* which no map contains.
MoveRemove(t) ==
    /\ pc[t] = "remove"
    /\ IF cfg[t] = EmptyConfig
       THEN UNCHANGED <<storeVars, nodeConfigs>>
       ELSE RemoveConfig(cfg[t]) /\ UNCHANGED <<active, nodes, endpointsConfigs>>
    /\ pc' = [pc EXCEPT ![t] = "add"]
    /\ UNCHANGED <<heartbeatAge, clcRunnerStats, busyness, posting, adVars, runState, batch, cfg, tgt>>

EndRebalance(t) ==
    /\ pc[t] = "rebalance"
    /\ pc' = [pc EXCEPT ![t] = "idle"]
    /\ UNCHANGED <<storeVars, nodeVars, posting, adVars, runState, batch, cfg, tgt>>

-----------------------------------------------------------------------------
(* Node agents.                                                            *)

\* processNodeStatus under the store's lock: getOrCreateNodeStore.
PostStatus(n) ==
    /\ n \notin posting
    /\ nodes' = nodes \cup {n}
    /\ posting' = posting \cup {n}
    /\ UNCHANGED <<active, digestToConfig, digestToNode, danglingConfigs, idToDigest,
                   endpointsConfigs, nodeVars, adVars, threadVars>>

\* processNodeStatus under the node's lock.  DropNodeStores has taken a node
\* that was expired or reset in between out of posting.
Heartbeat(n) ==
    /\ n \in posting
    /\ heartbeatAge' = [heartbeatAge EXCEPT ![n] = 0]
    /\ posting' = posting \ {n}
    /\ UNCHANGED <<storeVars, nodeConfigs, clcRunnerStats, busyness, adVars, threadVars>>

\* The clock.  A reliable node is never silent for longer than NodeExpiration.
Tick ==
    /\ \E n \in nodes : heartbeatAge[n] < Expired
    /\ \A n \in ReliableNodes \cap nodes : heartbeatAge[n] # NodeExpiration
    /\ heartbeatAge' = [n \in Nodes |->
                          IF heartbeatAge[n] < Expired THEN heartbeatAge[n] + 1 ELSE Expired]
    /\ UNCHANGED <<storeVars, nodeConfigs, clcRunnerStats, busyness, posting, adVars, threadVars>>

-----------------------------------------------------------------------------

LoopStep ==
    \/ Replay \/ AddNext \/ AddConfig("loop") \/ BatchDone
    \/ ShouldDispatchDangling \/ RetrieveAndClearDangling \/ Deregister
    \/ MoveRemove("loop") \/ EndRebalance("loop")

Next ==
    \/ \E c \in Configs : LoadConfig(c) \/ Unschedule(c)
    \/ Schedule
    \/ UnloadConfig
    \/ Register
    \/ Replay
    \/ AddNext
    \/ BatchDone
    \/ ExpireNodes
    \/ ShouldDispatchDangling
    \/ RetrieveAndClearDangling
    \/ Reset
    \/ Deregister
    \/ \E t \in Threads : AddConfig(t)
    \/ \E t \in {"loop", "http"} :
          UpdateRunnersStats(t) \/ MoveCheck(t) \/ MoveRemove(t) \/ EndRebalance(t)
    \/ \E n \in Nodes : PostStatus(n) \/ Heartbeat(n)
    \/ Tick

Spec == Init /\ [][Next]_vars

\* The goroutines that are running keep running: the loop finishes what it
\* began and its cleanup ticker fires, API handlers and autodiscovery calls
\* return, and reliable nodes keep reporting.
Fairness ==
    /\ WF_vars(LoopStep)
    /\ WF_vars(ExpireNodes)
    /\ WF_vars(Schedule)
    /\ WF_vars(AddConfig("ad"))
    /\ \A n \in ReliableNodes : WF_vars(PostStatus(n)) /\ SF_vars(Heartbeat(n))

FairSpec == Spec /\ Fairness
-----------------------------------------------------------------------------
(* Properties. *)

\* The values the variables range over.
TypeOK ==
    /\ active \in BOOLEAN
    /\ digestToConfig \subseteq AllConfigs
    /\ digestToNode \in [AllConfigs -> Nodes \cup {NoNode}]
    /\ nodes \subseteq Nodes
    /\ danglingConfigs \subseteq AllConfigs
    /\ idToDigest \in [CheckIDs -> AllConfigs \cup {NoConfig}]
    /\ endpointsConfigs \subseteq EndpointConfigs
    /\ nodeConfigs \in [Nodes -> SUBSET AllConfigs]
    /\ heartbeatAge \in [Nodes -> 0..Expired]
    /\ clcRunnerStats \in [Nodes -> SUBSET CheckIDs]
    /\ busyness \in [Nodes -> -1..MaxBusyness]
    /\ posting \subseteq Nodes
    /\ loaded \subseteq Configs
    /\ registered \in BOOLEAN
    /\ runState \in {"off", "registered", "replay", "run", "expired", "retrieve",
                     "reschedule", "reset"}
    /\ batch \subseteq AllConfigs
    /\ pc \in [Threads -> {"idle", "schedule", "unload", "add", "remove", "rebalance"}]
    /\ cfg \in [Threads -> AllConfigs \cup {NoConfig}]
    /\ tgt \in [Threads -> Nodes \cup {NoNode}]

\* A check runs on one node agent: the nodeStores and digestToNode agree at
\* every moment, so addConfig, removeConfig and expireNodes never leave a
\* configuration on the node it was moved from, and never take it off the node
\* it was dispatched to.
OneNodePerConfig ==
    \A c \in AllConfigs, n \in Nodes :
        digestToNode[c] = n <=> n \in nodes /\ c \in nodeConfigs[n]

\* A goroutine has taken c out of the maps and is going to add it.
InFlight(c) ==
    \/ c \in batch
    \/ \E t \in Threads : pc[t] = "add" /\ cfg[t] = c

\* No registered configuration is forgotten: it is on a node, or waits in
\* danglingConfigs, or a goroutine of the dispatcher is about to add it.
NoConfigLost ==
    \A c \in digestToConfig :
        digestToNode[c] # NoNode \/ c \in danglingConfigs \/ InFlight(c)

\* Nothing autodiscovery holds is missing from a leading dispatcher: the order
\* of AddScheduler (register, then read the loaded configurations) against the
\* order of resolveTemplate (load, then schedule) and of processRemovedConfigs
\* (unschedule, then unload) leaves no window in which a configuration escapes
\* both the replay and Schedule, and no moveCheck, reset or expiration loses it.
LoadedIsKnown ==
    runState \notin {"off", "registered", "reset"} =>
        \A c \in loaded \ {cfg["ad"]} :
            c \in digestToConfig \cup endpointsConfigs \/ InFlight(c)

\* moveCheck finds the configuration of a check ID through idToDigest, then
\* digestToConfig: the two maps never disagree, whatever removeConfig and
\* addConfig did to two configurations that share a check ID.
IdIndexSound ==
    \A i \in CheckIDs :
        idToDigest[i] # NoConfig =>
            /\ idToDigest[i] \in digestToConfig
            /\ i \in InstanceIDs[idToDigest[i]]

ClusterConfigs == AllConfigs \ EndpointConfigs

\* What the node agents are told to run, and what the dispatcher has still to place.
Told == [c \in ClusterConfigs |-> {n \in nodes : c \in nodeConfigs[n]}]
ToPlace == {c \in ClusterConfigs : c \in danglingConfigs \/ InFlight(c)}

Placement ==
    INSTANCE CheckPlacement WITH Configurations <- ClusterConfigs, Agents <- Nodes,
                                 members <- nodes, place <- Told, waiting <- ToPlace

\* The dispatcher implements CheckPlacement: the answers to the node agents never have a
\* configuration on two of them, not even between two sections of a move, and a
\* configuration whose node expires, or that moveCheck has removed, is kept to be added,
\* whatever the other goroutines do meanwhile.
ImplementsPlacement == Placement!PlacementSpec

\* While this agent leads and a reliable node reports, a registered
\* configuration is dispatched in the end: the cleanup ticker re-dispatches
\* what add() or expireNodes left dangling.
EventuallyDispatched ==
    \A c \in Configs :
        (c \in digestToConfig /\ runState \notin {"off", "reset"}) ~>
            (c \notin digestToConfig \/ digestToNode[c] # NoNode \/ runState = "reset")
=============================================================================
