----------------------- MODULE ClusterDispatcherProofs -----------------------
(***************************************************************************)
(* Proofs that the safety invariants of ClusterDispatcher hold for every   *)
(* set of configurations, nodes and check IDs.                             *)
(***************************************************************************)
EXTENDS ClusterDispatcher, TLAPS

\* Where each goroutine can be, and what it holds there.
Control ==
    /\ pc["ad"] \in {"idle", "schedule", "unload", "add"}
    /\ pc["ad"] = "idle" => cfg["ad"] = NoConfig
    /\ pc["ad"] # "idle" => cfg["ad"] \in Configs
    /\ \A t \in {"loop", "http"} :
          /\ pc[t] \in {"idle", "add", "remove", "rebalance"}
          /\ pc[t] \in {"add", "remove"} => cfg[t] \in AllConfigs
    /\ pc["loop"] \in {"remove", "rebalance"} => runState = "run"
    /\ pc["loop"] = "add" => runState \in {"run", "replay", "reschedule"}
    /\ runState \notin {"replay", "reschedule"} => batch = {}
    /\ registered <=> runState # "off"

\* The two parts that the other proofs rest on.
Base == TypeOK /\ Control

\* A node the store does not know has no configurations left over, so that
\* creating it again does not bring any back.
NoStray == \A n \in Nodes \ nodes : nodeConfigs[n] = {}

Assignment == OneNodePerConfig /\ NoStray

\* Endpoint checks never enter the maps of the dispatched configurations.
EndpointsApart ==
    /\ digestToConfig \cap EndpointConfigs = {}
    /\ \A t \in Threads : pc[t] \in {"add", "remove"} => cfg[t] \notin EndpointConfigs

-----------------------------------------------------------------------------

\* Init establishes the types and the control part.
LEMMA BaseInit == Init => Base
<1> USE ConfigsAssumption, InstancesAssumption, ParametersAssumption
<1> SUFFICES ASSUME Init PROVE Base
  OBVIOUS
<1>1. heartbeatAge \in [Nodes -> 0..Expired] /\ busyness \in [Nodes -> -1..MaxBusyness]
  BY DEF Init, Expired
<1>2. TypeOK
  BY <1>1, Zenon DEF Init, TypeOK
<1>3. Control
  BY DEF Init, Control, Threads
<1> QED
  BY <1>2, <1>3 DEF Base

\* Every step keeps the variables within their types; addConfig needs to know
\* that the goroutine that runs it holds a configuration.
LEMMA TypeStep == Base /\ [Next]_vars => TypeOK'
<1> USE ConfigsAssumption, InstancesAssumption, ParametersAssumption
<1> SUFFICES ASSUME TypeOK, Control, [Next]_vars PROVE TypeOK'
  BY DEF Base
<1> USE DEF TypeOK, AllConfigs, Threads, Expired
<1>1. ASSUME NEW c \in Configs, LoadConfig(c) PROVE TypeOK'
  BY <1>1 DEF LoadConfig, storeVars, nodeVars
<1>2. ASSUME NEW c \in Configs, Unschedule(c) PROVE TypeOK'
  BY <1>2 DEF Unschedule, RemoveConfig, storeVars, adVars
<1>3. CASE Schedule
  BY <1>3 DEF Schedule, ScheduleOne, PickTarget, nodeVars, adVars
<1>4. CASE UnloadConfig
  BY <1>4 DEF UnloadConfig, storeVars, nodeVars
<1>5. CASE Register
  BY <1>5 DEF Register, storeVars, nodeVars
<1>6. CASE Replay
  BY <1>6 DEF Replay, storeVars, nodeVars, adVars
<1>7. CASE AddNext
  BY <1>7 DEF AddNext, ScheduleOne, PickTarget, nodeVars, adVars
<1>8. CASE BatchDone
  BY <1>8 DEF BatchDone, nodeVars, adVars
<1>9. CASE ExpireNodes
  BY <1>9 DEF ExpireNodes, DropNodeStores, ExpiredNodes, adVars
<1>10. CASE ShouldDispatchDangling
  BY <1>10 DEF ShouldDispatchDangling, storeVars, nodeVars, adVars
<1>11. CASE RetrieveAndClearDangling
  BY <1>11 DEF RetrieveAndClearDangling, nodeVars, adVars
<1>12. CASE Reset
  <2>1. heartbeatAge' \in [Nodes -> 0..Expired] /\ busyness' \in [Nodes -> -1..MaxBusyness]
    BY <1>12 DEF Reset, DropNodeStores
  <2>2. /\ digestToNode' \in [AllConfigs -> Nodes \cup {NoNode}]
        /\ idToDigest' \in [CheckIDs -> AllConfigs \cup {NoConfig}]
    BY <1>12 DEF Reset
  <2> QED
    BY <1>12, <2>1, <2>2 DEF Reset, DropNodeStores, adVars
<1>13. CASE Deregister
  BY <1>13 DEF Deregister, storeVars, nodeVars
<1>14. ASSUME NEW t \in Threads, AddConfig(t) PROVE TypeOK'
  <2>1. cfg[t] \in AllConfigs
    BY <1>14 DEF AddConfig, Control
  <2>2. /\ digestToConfig' \subseteq AllConfigs
        /\ idToDigest' \in [CheckIDs -> AllConfigs \cup {NoConfig}]
    BY <1>14, <2>1 DEF AddConfig, AddConfigTo, RegisterConfig
  <2> QED
    BY <1>14, <2>1, <2>2 DEF AddConfig, AddConfigTo, DispatchTo, adVars
<1>15. ASSUME NEW t \in {"loop", "http"}, UpdateRunnersStats(t) PROVE TypeOK'
  BY <1>15 DEF UpdateRunnersStats, CanRebalance, storeVars, adVars
<1>16. ASSUME NEW t \in {"loop", "http"}, MoveCheck(t) PROVE TypeOK'
  BY <1>16 DEF MoveCheck, storeVars, adVars
<1>17. ASSUME NEW t \in {"loop", "http"}, MoveRemove(t) PROVE TypeOK'
  BY <1>17 DEF MoveRemove, RemoveConfig, storeVars, adVars
<1>18. ASSUME NEW t \in {"loop", "http"}, EndRebalance(t) PROVE TypeOK'
  BY <1>18 DEF EndRebalance, storeVars, nodeVars, adVars
<1>19. ASSUME NEW n \in Nodes, PostStatus(n) PROVE TypeOK'
  BY <1>19 DEF PostStatus, nodeVars, adVars, threadVars
<1>20. ASSUME NEW n \in Nodes, Heartbeat(n) PROVE TypeOK'
  BY <1>20 DEF Heartbeat, storeVars, adVars, threadVars
<1>21. CASE Tick
  BY <1>21 DEF Tick, storeVars, adVars, threadVars
<1>22. CASE UNCHANGED vars
  BY <1>22 DEF vars, storeVars, nodeVars, adVars, threadVars
<1> QED
  BY <1>1, <1>2, <1>3, <1>4, <1>5, <1>6, <1>7, <1>8, <1>9, <1>10, <1>11, <1>12,
     <1>13, <1>14, <1>15, <1>16, <1>17, <1>18, <1>19, <1>20, <1>21, <1>22 DEF Next

\* Every step keeps the goroutines where Control says they can be.
LEMMA ControlStep == Base /\ [Next]_vars => Control'
<1> USE ConfigsAssumption, InstancesAssumption, ParametersAssumption
<1> SUFFICES ASSUME TypeOK, Control, [Next]_vars PROVE Control'
  BY DEF Base
<1> USE DEF TypeOK, Control, AllConfigs, Threads
<1>1. ASSUME NEW c \in Configs, LoadConfig(c) PROVE Control'
  BY <1>1 DEF LoadConfig, storeVars, nodeVars
<1>2. ASSUME NEW c \in Configs, Unschedule(c) PROVE Control'
  BY <1>2 DEF Unschedule, RemoveConfig, storeVars, adVars
<1>3. CASE Schedule
  BY <1>3 DEF Schedule, ScheduleOne, PickTarget, nodeVars, adVars
<1>4. CASE UnloadConfig
  BY <1>4 DEF UnloadConfig, storeVars, nodeVars
<1>5. CASE Register
  BY <1>5 DEF Register, storeVars, nodeVars
<1>6. CASE Replay
  BY <1>6 DEF Replay, storeVars, nodeVars, adVars
<1>7. CASE AddNext
  BY <1>7 DEF AddNext, ScheduleOne, PickTarget, nodeVars, adVars
<1>8. CASE BatchDone
  BY <1>8 DEF BatchDone, nodeVars, adVars
<1>9. CASE ExpireNodes
  BY <1>9 DEF ExpireNodes, DropNodeStores, ExpiredNodes, adVars
<1>10. CASE ShouldDispatchDangling
  BY <1>10 DEF ShouldDispatchDangling, storeVars, nodeVars, adVars
<1>11. CASE RetrieveAndClearDangling
  BY <1>11 DEF RetrieveAndClearDangling, nodeVars, adVars
<1>12. CASE Reset
  BY <1>12 DEF Reset, DropNodeStores, adVars
<1>13. CASE Deregister
  BY <1>13 DEF Deregister, storeVars, nodeVars
<1>14. ASSUME NEW t \in Threads, AddConfig(t) PROVE Control'
  BY <1>14 DEF AddConfig, AddConfigTo, RegisterConfig, DispatchTo, adVars
<1>15. ASSUME NEW t \in {"loop", "http"}, UpdateRunnersStats(t) PROVE Control'
  BY <1>15 DEF UpdateRunnersStats, CanRebalance, storeVars, adVars
<1>16. ASSUME NEW t \in {"loop", "http"}, MoveCheck(t) PROVE Control'
  BY <1>16 DEF MoveCheck, storeVars, adVars
<1>17. ASSUME NEW t \in {"loop", "http"}, MoveRemove(t) PROVE Control'
  BY <1>17 DEF MoveRemove, RemoveConfig, storeVars, adVars
<1>18. ASSUME NEW t \in {"loop", "http"}, EndRebalance(t) PROVE Control'
  BY <1>18 DEF EndRebalance, storeVars, nodeVars, adVars
<1>19. ASSUME NEW n \in Nodes, PostStatus(n) PROVE Control'
  BY <1>19 DEF PostStatus, nodeVars, adVars, threadVars
<1>20. ASSUME NEW n \in Nodes, Heartbeat(n) PROVE Control'
  BY <1>20 DEF Heartbeat, storeVars, adVars, threadVars
<1>21. CASE Tick
  BY <1>21 DEF Tick, storeVars, adVars, threadVars
<1>22. CASE UNCHANGED vars
  BY <1>22 DEF vars, storeVars, nodeVars, adVars, threadVars
<1> QED
  BY <1>1, <1>2, <1>3, <1>4, <1>5, <1>6, <1>7, <1>8, <1>9, <1>10, <1>11, <1>12,
     <1>13, <1>14, <1>15, <1>16, <1>17, <1>18, <1>19, <1>20, <1>21, <1>22 DEF Next

\* Every step keeps digestToNode and the nodeStores in agreement.
LEMMA AssignmentStep == Base /\ Assignment /\ [Next]_vars => Assignment'
<1> USE ConfigsAssumption, InstancesAssumption, ParametersAssumption
<1> SUFFICES ASSUME TypeOK, Control, Assignment, [Next]_vars PROVE Assignment'
  BY DEF Base
<1> USE DEF TypeOK, Assignment, OneNodePerConfig, NoStray
<1>1. ASSUME NEW c \in Configs, LoadConfig(c) PROVE Assignment'
  BY <1>1 DEF LoadConfig, storeVars, nodeVars
<1>2. ASSUME NEW c \in Configs, Unschedule(c) PROVE Assignment'
  BY <1>2 DEF Unschedule, RemoveConfig, storeVars, adVars
<1>3. CASE Schedule
  BY <1>3 DEF Schedule, ScheduleOne, PickTarget, nodeVars, adVars
<1>4. CASE UnloadConfig
  BY <1>4 DEF UnloadConfig, storeVars, nodeVars
<1>5. CASE Register
  BY <1>5 DEF Register, storeVars, nodeVars
<1>6. CASE Replay
  BY <1>6 DEF Replay, storeVars, nodeVars, adVars
<1>7. CASE AddNext
  BY <1>7 DEF AddNext, ScheduleOne, PickTarget, nodeVars, adVars
<1>8. CASE BatchDone
  BY <1>8 DEF BatchDone, nodeVars, adVars
<1>9. CASE ExpireNodes
  BY <1>9 DEF ExpireNodes, DropNodeStores, ExpiredNodes, adVars
<1>10. CASE ShouldDispatchDangling
  BY <1>10 DEF ShouldDispatchDangling, storeVars, nodeVars, adVars
<1>11. CASE RetrieveAndClearDangling
  BY <1>11 DEF RetrieveAndClearDangling, nodeVars, adVars
<1>12. CASE Reset
  BY <1>12 DEF Reset, DropNodeStores, adVars
<1>13. CASE Deregister
  BY <1>13 DEF Deregister, storeVars, nodeVars
<1>14. ASSUME NEW t \in Threads, AddConfig(t) PROVE Assignment'
  BY <1>14 DEF AddConfig, AddConfigTo, RegisterConfig, DispatchTo, adVars
<1>15. ASSUME NEW t \in {"loop", "http"}, UpdateRunnersStats(t) PROVE Assignment'
  BY <1>15 DEF UpdateRunnersStats, CanRebalance, storeVars, adVars
<1>16. ASSUME NEW t \in {"loop", "http"}, MoveCheck(t) PROVE Assignment'
  BY <1>16 DEF MoveCheck, storeVars, adVars
<1>17. ASSUME NEW t \in {"loop", "http"}, MoveRemove(t) PROVE Assignment'
  BY <1>17 DEF MoveRemove, RemoveConfig, storeVars, adVars
<1>18. ASSUME NEW t \in {"loop", "http"}, EndRebalance(t) PROVE Assignment'
  BY <1>18 DEF EndRebalance, storeVars, nodeVars, adVars
<1>19. ASSUME NEW n \in Nodes, PostStatus(n) PROVE Assignment'
  BY <1>19 DEF PostStatus, nodeVars, adVars, threadVars
<1>20. ASSUME NEW n \in Nodes, Heartbeat(n) PROVE Assignment'
  BY <1>20 DEF Heartbeat, storeVars, adVars, threadVars
<1>21. CASE Tick
  BY <1>21 DEF Tick, storeVars, adVars, threadVars
<1>22. CASE UNCHANGED vars
  BY <1>22 DEF vars, storeVars, nodeVars, adVars, threadVars
<1> QED
  BY <1>1, <1>2, <1>3, <1>4, <1>5, <1>6, <1>7, <1>8, <1>9, <1>10, <1>11, <1>12,
     <1>13, <1>14, <1>15, <1>16, <1>17, <1>18, <1>19, <1>20, <1>21, <1>22 DEF Next

\* Every step keeps the two maps from a check ID to its configuration in agreement.
LEMMA IdIndexStep == Base /\ IdIndexSound /\ [Next]_vars => IdIndexSound'
<1> USE ConfigsAssumption, InstancesAssumption, ParametersAssumption
<1> SUFFICES ASSUME TypeOK, Control, IdIndexSound, [Next]_vars PROVE IdIndexSound'
  BY DEF Base
<1> USE DEF TypeOK, IdIndexSound
<1>1. ASSUME NEW c \in Configs, LoadConfig(c) PROVE IdIndexSound'
  BY <1>1 DEF LoadConfig, storeVars, nodeVars
<1>2. ASSUME NEW c \in Configs, Unschedule(c) PROVE IdIndexSound'
  BY <1>2 DEF Unschedule, RemoveConfig, storeVars, adVars
<1>3. CASE Schedule
  BY <1>3 DEF Schedule, ScheduleOne, PickTarget, nodeVars, adVars
<1>4. CASE UnloadConfig
  BY <1>4 DEF UnloadConfig, storeVars, nodeVars
<1>5. CASE Register
  BY <1>5 DEF Register, storeVars, nodeVars
<1>6. CASE Replay
  BY <1>6 DEF Replay, storeVars, nodeVars, adVars
<1>7. CASE AddNext
  BY <1>7 DEF AddNext, ScheduleOne, PickTarget, nodeVars, adVars
<1>8. CASE BatchDone
  BY <1>8 DEF BatchDone, nodeVars, adVars
<1>9. CASE ExpireNodes
  BY <1>9 DEF ExpireNodes, DropNodeStores, ExpiredNodes, adVars
<1>10. CASE ShouldDispatchDangling
  BY <1>10 DEF ShouldDispatchDangling, storeVars, nodeVars, adVars
<1>11. CASE RetrieveAndClearDangling
  BY <1>11 DEF RetrieveAndClearDangling, nodeVars, adVars
<1>12. CASE Reset
  BY <1>12 DEF Reset, DropNodeStores, adVars
<1>13. CASE Deregister
  BY <1>13 DEF Deregister, storeVars, nodeVars
<1>14. ASSUME NEW t \in Threads, AddConfig(t) PROVE IdIndexSound'
  BY <1>14 DEF AddConfig, AddConfigTo, RegisterConfig, DispatchTo, adVars
<1>15. ASSUME NEW t \in {"loop", "http"}, UpdateRunnersStats(t) PROVE IdIndexSound'
  BY <1>15 DEF UpdateRunnersStats, CanRebalance, storeVars, adVars
<1>16. ASSUME NEW t \in {"loop", "http"}, MoveCheck(t) PROVE IdIndexSound'
  BY <1>16 DEF MoveCheck, storeVars, adVars
<1>17. ASSUME NEW t \in {"loop", "http"}, MoveRemove(t) PROVE IdIndexSound'
  BY <1>17 DEF MoveRemove, RemoveConfig, storeVars, adVars
<1>18. ASSUME NEW t \in {"loop", "http"}, EndRebalance(t) PROVE IdIndexSound'
  BY <1>18 DEF EndRebalance, storeVars, nodeVars, adVars
<1>19. ASSUME NEW n \in Nodes, PostStatus(n) PROVE IdIndexSound'
  BY <1>19 DEF PostStatus, nodeVars, adVars, threadVars
<1>20. ASSUME NEW n \in Nodes, Heartbeat(n) PROVE IdIndexSound'
  BY <1>20 DEF Heartbeat, storeVars, adVars, threadVars
<1>21. CASE Tick
  BY <1>21 DEF Tick, storeVars, adVars, threadVars
<1>22. CASE UNCHANGED vars
  BY <1>22 DEF vars, storeVars, nodeVars, adVars, threadVars
<1> QED
  BY <1>1, <1>2, <1>3, <1>4, <1>5, <1>6, <1>7, <1>8, <1>9, <1>10, <1>11, <1>12,
     <1>13, <1>14, <1>15, <1>16, <1>17, <1>18, <1>19, <1>20, <1>21, <1>22 DEF Next

\* Every step keeps the endpoint checks apart.
LEMMA EndpointsApartStep == Base /\ IdIndexSound /\ EndpointsApart /\ [Next]_vars => EndpointsApart'
<1> USE ConfigsAssumption, InstancesAssumption, ParametersAssumption
<1> SUFFICES ASSUME TypeOK, Control, IdIndexSound, EndpointsApart, [Next]_vars
             PROVE  EndpointsApart'
  BY DEF Base
<1> USE DEF TypeOK, Control, IdIndexSound, EndpointsApart, AllConfigs, Threads
<1>1. ASSUME NEW c \in Configs, LoadConfig(c) PROVE EndpointsApart'
  BY <1>1 DEF LoadConfig, storeVars, nodeVars
<1>2. ASSUME NEW c \in Configs, Unschedule(c) PROVE EndpointsApart'
  BY <1>2 DEF Unschedule, RemoveConfig, storeVars, adVars
<1>3. CASE Schedule
  BY <1>3 DEF Schedule, ScheduleOne, PickTarget, nodeVars, adVars
<1>4. CASE UnloadConfig
  BY <1>4 DEF UnloadConfig, storeVars, nodeVars
<1>5. CASE Register
  BY <1>5 DEF Register, storeVars, nodeVars
<1>6. CASE Replay
  BY <1>6 DEF Replay, storeVars, nodeVars, adVars
<1>7. CASE AddNext
  BY <1>7 DEF AddNext, ScheduleOne, PickTarget, nodeVars, adVars
<1>8. CASE BatchDone
  BY <1>8 DEF BatchDone, nodeVars, adVars
<1>9. CASE ExpireNodes
  BY <1>9 DEF ExpireNodes, DropNodeStores, ExpiredNodes, adVars
<1>10. CASE ShouldDispatchDangling
  BY <1>10 DEF ShouldDispatchDangling, storeVars, nodeVars, adVars
<1>11. CASE RetrieveAndClearDangling
  BY <1>11 DEF RetrieveAndClearDangling, nodeVars, adVars
<1>12. CASE Reset
  BY <1>12 DEF Reset, DropNodeStores, adVars
<1>13. CASE Deregister
  BY <1>13 DEF Deregister, storeVars, nodeVars
<1>14. ASSUME NEW t \in Threads, AddConfig(t) PROVE EndpointsApart'
  BY <1>14 DEF AddConfig, AddConfigTo, RegisterConfig, DispatchTo, adVars
<1>15. ASSUME NEW t \in {"loop", "http"}, UpdateRunnersStats(t) PROVE EndpointsApart'
  BY <1>15 DEF UpdateRunnersStats, CanRebalance, storeVars, adVars
<1>16. ASSUME NEW t \in {"loop", "http"}, MoveCheck(t) PROVE EndpointsApart'
  BY <1>16 DEF MoveCheck, storeVars, adVars
<1>17. ASSUME NEW t \in {"loop", "http"}, MoveRemove(t) PROVE EndpointsApart'
  BY <1>17 DEF MoveRemove, RemoveConfig, storeVars, adVars
<1>18. ASSUME NEW t \in {"loop", "http"}, EndRebalance(t) PROVE EndpointsApart'
  BY <1>18 DEF EndRebalance, storeVars, nodeVars, adVars
<1>19. ASSUME NEW n \in Nodes, PostStatus(n) PROVE EndpointsApart'
  BY <1>19 DEF PostStatus, nodeVars, adVars, threadVars
<1>20. ASSUME NEW n \in Nodes, Heartbeat(n) PROVE EndpointsApart'
  BY <1>20 DEF Heartbeat, storeVars, adVars, threadVars
<1>21. CASE Tick
  BY <1>21 DEF Tick, storeVars, adVars, threadVars
<1>22. CASE UNCHANGED vars
  BY <1>22 DEF vars, storeVars, nodeVars, adVars, threadVars
<1> QED
  BY <1>1, <1>2, <1>3, <1>4, <1>5, <1>6, <1>7, <1>8, <1>9, <1>10, <1>11, <1>12,
     <1>13, <1>14, <1>15, <1>16, <1>17, <1>18, <1>19, <1>20, <1>21, <1>22 DEF Next

\* Every step keeps each registered configuration on a node, dangling or in flight.
LEMMA NoConfigLostStep ==
    Base /\ Assignment /\ EndpointsApart /\ NoConfigLost /\ [Next]_vars => NoConfigLost'
<1> USE ConfigsAssumption, InstancesAssumption, ParametersAssumption
<1> SUFFICES ASSUME TypeOK, Control, Assignment, EndpointsApart, NoConfigLost, [Next]_vars
             PROVE  NoConfigLost'
  BY DEF Base
<1> USE DEF TypeOK, Control, NoConfigLost, InFlight, Threads
<1>1. ASSUME NEW c \in Configs, LoadConfig(c) PROVE NoConfigLost'
  BY <1>1 DEF LoadConfig, storeVars, nodeVars
<1>2. ASSUME NEW c \in Configs, Unschedule(c) PROVE NoConfigLost'
  BY <1>2 DEF Unschedule, RemoveConfig, storeVars, adVars
<1>3. CASE Schedule
  BY <1>3 DEF Schedule, ScheduleOne, PickTarget, nodeVars, adVars
<1>4. CASE UnloadConfig
  BY <1>4 DEF UnloadConfig, storeVars, nodeVars
<1>5. CASE Register
  BY <1>5 DEF Register, storeVars, nodeVars
<1>6. CASE Replay
  BY <1>6 DEF Replay, storeVars, nodeVars, adVars
<1>7. CASE AddNext
  BY <1>7 DEF AddNext, ScheduleOne, PickTarget, EndpointsApart, nodeVars, adVars
<1>8. CASE BatchDone
  BY <1>8 DEF BatchDone, nodeVars, adVars
<1>9. CASE ExpireNodes
  BY <1>9 DEF ExpireNodes, DropNodeStores, ExpiredNodes, adVars
<1>10. CASE ShouldDispatchDangling
  BY <1>10 DEF ShouldDispatchDangling, storeVars, nodeVars, adVars
<1>11. CASE RetrieveAndClearDangling
  BY <1>11 DEF RetrieveAndClearDangling, nodeVars, adVars
<1>12. CASE Reset
  BY <1>12 DEF Reset, DropNodeStores, adVars
<1>13. CASE Deregister
  BY <1>13 DEF Deregister, storeVars, nodeVars
<1>14. ASSUME NEW t \in Threads, AddConfig(t) PROVE NoConfigLost'
  <2> SUFFICES ASSUME NEW c \in digestToConfig'
               PROVE  (digestToNode[c] # NoNode \/ c \in danglingConfigs \/ InFlight(c))'
    BY DEF NoConfigLost
  <2>1. CASE c = cfg[t]
    BY <1>14, <2>1 DEF AddConfig, AddConfigTo, RegisterConfig, DispatchTo, AllConfigs
  <2>2. CASE c # cfg[t]
    <3>1. c \in digestToConfig
      BY <1>14, <2>2 DEF AddConfig, AddConfigTo, RegisterConfig
    <3>2. InFlight(c) => InFlight(c)'
      BY <1>14, <2>2 DEF AddConfig
    <3>3. (digestToNode[c] # NoNode => digestToNode'[c] # NoNode) /\ danglingConfigs \subseteq danglingConfigs'
      BY <1>14, <2>2, <3>1 DEF AddConfig, AddConfigTo, DispatchTo
    <3> QED
      BY <3>1, <3>2, <3>3
  <2> QED
    BY <2>1, <2>2
<1>15. ASSUME NEW t \in {"loop", "http"}, UpdateRunnersStats(t) PROVE NoConfigLost'
  BY <1>15 DEF UpdateRunnersStats, CanRebalance, storeVars, adVars
<1>16. ASSUME NEW t \in {"loop", "http"}, MoveCheck(t) PROVE NoConfigLost'
  BY <1>16 DEF MoveCheck, storeVars, adVars
<1>17. ASSUME NEW t \in {"loop", "http"}, MoveRemove(t) PROVE NoConfigLost'
  BY <1>17 DEF MoveRemove, RemoveConfig, storeVars, adVars
<1>18. ASSUME NEW t \in {"loop", "http"}, EndRebalance(t) PROVE NoConfigLost'
  BY <1>18 DEF EndRebalance, storeVars, nodeVars, adVars
<1>19. ASSUME NEW n \in Nodes, PostStatus(n) PROVE NoConfigLost'
  BY <1>19 DEF PostStatus, nodeVars, adVars, threadVars
<1>20. ASSUME NEW n \in Nodes, Heartbeat(n) PROVE NoConfigLost'
  BY <1>20 DEF Heartbeat, storeVars, adVars, threadVars
<1>21. CASE Tick
  BY <1>21 DEF Tick, storeVars, adVars, threadVars
<1>22. CASE UNCHANGED vars
  BY <1>22 DEF vars, storeVars, nodeVars, adVars, threadVars
<1> QED
  BY <1>1, <1>2, <1>3, <1>4, <1>5, <1>6, <1>7, <1>8, <1>9, <1>10, <1>11, <1>12,
     <1>13, <1>14, <1>15, <1>16, <1>17, <1>18, <1>19, <1>20, <1>21, <1>22 DEF Next

\* Every step keeps each loaded configuration registered or in flight.
LEMMA LoadedIsKnownStep == Base /\ LoadedIsKnown /\ [Next]_vars => LoadedIsKnown'
<1> USE ConfigsAssumption, InstancesAssumption, ParametersAssumption
<1> SUFFICES ASSUME TypeOK, Control, LoadedIsKnown, [Next]_vars PROVE LoadedIsKnown'
  BY DEF Base
<1> USE DEF TypeOK, Control, LoadedIsKnown, InFlight, AllConfigs, Threads
<1>1. ASSUME NEW c \in Configs, LoadConfig(c) PROVE LoadedIsKnown'
  BY <1>1 DEF LoadConfig, storeVars, nodeVars
<1>2. ASSUME NEW c \in Configs, Unschedule(c) PROVE LoadedIsKnown'
  BY <1>2 DEF Unschedule, RemoveConfig, storeVars, adVars
<1>3. CASE Schedule
  BY <1>3 DEF Schedule, ScheduleOne, PickTarget, nodeVars, adVars
<1>4. CASE UnloadConfig
  BY <1>4 DEF UnloadConfig, storeVars, nodeVars
<1>5. CASE Register
  BY <1>5 DEF Register, storeVars, nodeVars
<1>6. CASE Replay
  BY <1>6 DEF Replay, storeVars, nodeVars, adVars
<1>7. CASE AddNext
  BY <1>7 DEF AddNext, ScheduleOne, PickTarget, nodeVars, adVars
<1>8. CASE BatchDone
  BY <1>8 DEF BatchDone, nodeVars, adVars
<1>9. CASE ExpireNodes
  BY <1>9 DEF ExpireNodes, DropNodeStores, ExpiredNodes, adVars
<1>10. CASE ShouldDispatchDangling
  BY <1>10 DEF ShouldDispatchDangling, storeVars, nodeVars, adVars
<1>11. CASE RetrieveAndClearDangling
  BY <1>11 DEF RetrieveAndClearDangling, nodeVars, adVars
<1>12. CASE Reset
  BY <1>12 DEF Reset, DropNodeStores, adVars
<1>13. CASE Deregister
  BY <1>13 DEF Deregister, storeVars, nodeVars
<1>14. ASSUME NEW t \in Threads, AddConfig(t) PROVE LoadedIsKnown'
  BY <1>14 DEF AddConfig, AddConfigTo, RegisterConfig, DispatchTo, adVars
<1>15. ASSUME NEW t \in {"loop", "http"}, UpdateRunnersStats(t) PROVE LoadedIsKnown'
  BY <1>15 DEF UpdateRunnersStats, CanRebalance, storeVars, adVars
<1>16. ASSUME NEW t \in {"loop", "http"}, MoveCheck(t) PROVE LoadedIsKnown'
  BY <1>16 DEF MoveCheck, storeVars, adVars
<1>17. ASSUME NEW t \in {"loop", "http"}, MoveRemove(t) PROVE LoadedIsKnown'
  BY <1>17 DEF MoveRemove, RemoveConfig, storeVars, adVars
<1>18. ASSUME NEW t \in {"loop", "http"}, EndRebalance(t) PROVE LoadedIsKnown'
  BY <1>18 DEF EndRebalance, storeVars, nodeVars, adVars
<1>19. ASSUME NEW n \in Nodes, PostStatus(n) PROVE LoadedIsKnown'
  BY <1>19 DEF PostStatus, nodeVars, adVars, threadVars
<1>20. ASSUME NEW n \in Nodes, Heartbeat(n) PROVE LoadedIsKnown'
  BY <1>20 DEF Heartbeat, storeVars, adVars, threadVars
<1>21. CASE Tick
  BY <1>21 DEF Tick, storeVars, adVars, threadVars
<1>22. CASE UNCHANGED vars
  BY <1>22 DEF vars, storeVars, nodeVars, adVars, threadVars
<1> QED
  BY <1>1, <1>2, <1>3, <1>4, <1>5, <1>6, <1>7, <1>8, <1>9, <1>10, <1>11, <1>12,
     <1>13, <1>14, <1>15, <1>16, <1>17, <1>18, <1>19, <1>20, <1>21, <1>22 DEF Next

-----------------------------------------------------------------------------

\* The inductive invariant.
IndInv == Base /\ Assignment /\ IdIndexSound /\ EndpointsApart /\ NoConfigLost /\ LoadedIsKnown

\* The inductive invariant holds in every behaviour of the dispatcher.
THEOREM Inductive == Spec => []IndInv
<1>1. Init => IndInv
  <2> SUFFICES ASSUME Init PROVE IndInv
    OBVIOUS
  <2>1. Base
    BY BaseInit
  <2>2. Assignment
    BY ConfigsAssumption DEF Init, Assignment, OneNodePerConfig, NoStray
  <2>3. IdIndexSound /\ NoConfigLost /\ LoadedIsKnown
    BY DEF Init, IdIndexSound, NoConfigLost, LoadedIsKnown
  <2>4. EndpointsApart
    BY DEF Init, EndpointsApart
  <2> QED
    BY <2>1, <2>2, <2>3, <2>4 DEF IndInv
<1>2. IndInv /\ [Next]_vars => IndInv'
  BY TypeStep, ControlStep, AssignmentStep, IdIndexStep, EndpointsApartStep,
     NoConfigLostStep, LoadedIsKnownStep DEF IndInv, Base
<1> QED
  BY <1>1, <1>2, PTL DEF Spec

\* The variables keep their types.
THEOREM TypeCorrect == Spec => []TypeOK
<1>1. IndInv => TypeOK
  BY DEF IndInv, Base
<1> QED
  BY Inductive, <1>1, PTL

\* addConfig, removeConfig, expireNodes and reset keep every configuration on at
\* most one node, the one digestToNode names, for any number of goroutine steps.
THEOREM AssignmentCorrect == Spec => []OneNodePerConfig
<1>1. IndInv => OneNodePerConfig
  BY DEF IndInv, Assignment
<1> QED
  BY Inductive, <1>1, PTL

\* No registered configuration is ever forgotten by the dispatcher.
THEOREM NothingLost == Spec => []NoConfigLost
<1>1. IndInv => NoConfigLost
  BY DEF IndInv
<1> QED
  BY Inductive, <1>1, PTL

\* Nothing autodiscovery holds is ever missing from a leading dispatcher.
THEOREM NothingMissing == Spec => []LoadedIsKnown
<1>1. IndInv => LoadedIsKnown
  BY DEF IndInv
<1> QED
  BY Inductive, <1>1, PTL

\* moveCheck's two lookups never disagree.
THEOREM IdIndexCorrect == Spec => []IdIndexSound
<1>1. IndInv => IdIndexSound
  BY DEF IndInv
<1> QED
  BY Inductive, <1>1, PTL

-----------------------------------------------------------------------------
(* The refinement of CheckPlacement. *)

\* A step that touches no nodeStore and drops nothing that is to be placed.
LEMMA AskStep ==
    ASSUME nodes' = nodes, nodeConfigs' = nodeConfigs, ToPlace \subseteq ToPlace'
    PROVE  Placement!Ask
<1>1. Told' = Told
  BY DEF Told
<1>2. ToPlace' \subseteq ClusterConfigs
  BY DEF ToPlace
<1> QED BY <1>1, <1>2 DEF Placement!Ask

\* removeConfig takes the configuration from the only node agent that has it.
LEMMA RemoveTold ==
    ASSUME TypeOK, Assignment, NEW c \in ClusterConfigs, RemoveConfig(c), nodes' = nodes
    PROVE  Told' = [Told EXCEPT ![c] = {}]
<1> USE ConfigsAssumption
<1>1. \A d \in ClusterConfigs : Told'[d] = IF d = c THEN {} ELSE Told[d]
  BY DEF Told, RemoveConfig, TypeOK, Assignment, OneNodePerConfig, ClusterConfigs
<1> QED BY <1>1 DEF Told

\* addConfig leaves the configuration with its target only.
LEMMA DispatchTold ==
    ASSUME TypeOK, Assignment, NEW c \in ClusterConfigs, NEW n \in Nodes, DispatchTo(c, n)
    PROVE  Told' = [Told EXCEPT ![c] = {n}]
<1> USE ConfigsAssumption
<1>1. \A d \in ClusterConfigs : Told'[d] = IF d = c THEN {n} ELSE Told[d]
  BY DEF Told, DispatchTo, TypeOK, Assignment, OneNodePerConfig, NoStray, ClusterConfigs
<1> QED BY <1>1 DEF Told

\* Every step of the dispatcher is one of CheckPlacement, or changes none of its variables.
LEMMA PlacementStep ==
    Base /\ Assignment /\ EndpointsApart /\ [Next]_vars => Placement!PlacementNext
<1> USE ConfigsAssumption, InstancesAssumption, ParametersAssumption
<1> SUFFICES ASSUME TypeOK, Control, Assignment, EndpointsApart, [Next]_vars
             PROVE  Placement!PlacementNext
  BY DEF Base
<1>0. Placement!Ask => Placement!PlacementNext
  BY DEF Placement!PlacementNext
<1> USE DEF TypeOK, Control, Threads, InFlight, ToPlace
<1>1. ASSUME NEW c \in Configs, LoadConfig(c) PROVE Placement!PlacementNext
  BY <1>0, <1>1, AskStep DEF LoadConfig, storeVars, nodeVars
<1>2. ASSUME NEW c \in Configs, Unschedule(c) PROVE Placement!PlacementNext
  <2>1. CASE registered /\ c \notin EndpointConfigs
    <3>1. c \in ClusterConfigs /\ RemoveConfig(c) /\ nodes' = nodes
      BY <1>2, <2>1 DEF Unschedule, ClusterConfigs, AllConfigs
    <3>2. Told' = [Told EXCEPT ![c] = {}]
      BY <3>1, RemoveTold
    <3>3. ToPlace' \in {ToPlace, ToPlace \ {c}}
      BY <1>2, <3>1 DEF Unschedule, RemoveConfig
    <3> QED BY <3>1, <3>2, <3>3 DEF Placement!PlacementNext, Placement!Withdraw
  <2>2. CASE ~registered \/ c \in EndpointConfigs
    BY <1>0, <1>2, <2>2, AskStep DEF Unschedule, storeVars
  <2> QED BY <2>1, <2>2
<1>3. CASE Schedule
  BY <1>0, <1>3, AskStep DEF Schedule, ScheduleOne, PickTarget, nodeVars, adVars
<1>4. CASE UnloadConfig
  BY <1>0, <1>4, AskStep DEF UnloadConfig, storeVars, nodeVars
<1>5. CASE Register
  BY <1>0, <1>5, AskStep DEF Register, storeVars, nodeVars
<1>6. CASE Replay
  BY <1>0, <1>6, AskStep DEF Replay, storeVars, nodeVars, adVars
<1>7. CASE AddNext
  <2>1. nodes' = nodes /\ nodeConfigs' = nodeConfigs
    BY <1>7 DEF AddNext, nodeVars
  <2>2. ToPlace \subseteq ToPlace'
    BY <1>7 DEF AddNext, ScheduleOne, PickTarget, ClusterConfigs
  <2> QED BY <1>0, <2>1, <2>2, AskStep
<1>8. CASE BatchDone
  BY <1>0, <1>8, AskStep DEF BatchDone, nodeVars, adVars
<1>9. CASE ExpireNodes
  <2>0. PICK ns \in SUBSET Nodes : ns = ExpiredNodes
    BY DEF ExpiredNodes
  <2> DEFINE orphans == UNION {nodeConfigs[n] : n \in ns}
  <2>1. ns \subseteq nodes /\ nodes' = nodes \ ns
    BY <1>9, <2>0 DEF ExpireNodes, DropNodeStores, ExpiredNodes
  <2>2. \A c \in ClusterConfigs : Told'[c] = Told[c] \ ns
    BY <1>9, <2>0, <2>1 DEF Told, ExpireNodes, DropNodeStores
  <2>3. Told' = [c \in ClusterConfigs |-> Told[c] \ ns]
    BY <2>2 DEF Told
  <2>4. \A c \in ClusterConfigs : c \in orphans <=> Told[c] \cap ns # {}
    BY <2>1 DEF Told
  <2>5. ToPlace' = ToPlace \cup {c \in ClusterConfigs : c \in orphans}
    BY <1>9, <2>0 DEF ExpireNodes
  <2>6. ToPlace' = ToPlace \cup {c \in ClusterConfigs : Told[c] \cap ns # {}}
    BY <2>4, <2>5
  <2>7. Placement!Leave(ns)
    BY <2>1, <2>3, <2>6 DEF Placement!Leave
  <2> QED BY <2>7 DEF Placement!PlacementNext
<1>10. CASE ShouldDispatchDangling
  BY <1>0, <1>10, AskStep DEF ShouldDispatchDangling, storeVars, nodeVars, adVars
<1>11. CASE RetrieveAndClearDangling
  BY <1>0, <1>11, AskStep DEF RetrieveAndClearDangling, nodeVars, adVars
<1>12. CASE Reset
  <2>1. nodes' = {} /\ Told' = [c \in ClusterConfigs |-> {}]
    BY <1>12 DEF Reset, DropNodeStores, Told
  <2>2. ToPlace' \subseteq ToPlace
    BY <1>12 DEF Reset
  <2> QED BY <2>1, <2>2 DEF Placement!PlacementNext, Placement!Forget
<1>13. CASE Deregister
  BY <1>0, <1>13, AskStep DEF Deregister, storeVars, nodeVars
<1>14. ASSUME NEW t \in Threads, AddConfig(t) PROVE Placement!PlacementNext
  <2>1. cfg[t] \in ClusterConfigs /\ cfg[t] \in ToPlace
    BY <1>14 DEF AddConfig, EndpointsApart, ClusterConfigs, AllConfigs
  <2>2. CASE tgt[t] = NoNode
    <3>1. nodes' = nodes /\ nodeConfigs' = nodeConfigs
      BY <1>14, <2>2 DEF AddConfig, AddConfigTo
    <3>2. ToPlace \subseteq ToPlace'
      BY <1>14, <2>1, <2>2 DEF AddConfig, AddConfigTo
    <3> QED BY <1>0, <3>1, <3>2, AskStep
  <2>3. CASE tgt[t] # NoNode
    <3>0. PICK c \in ClusterConfigs, n \in Nodes : c = cfg[t] /\ n = tgt[t]
      BY <1>14, <2>1, <2>3
    <3>1. DispatchTo(c, n)
      BY <1>14, <2>3, <3>0 DEF AddConfig, AddConfigTo
    <3>2. Told' = [Told EXCEPT ![c] = {n}] /\ nodes' = nodes \cup {n}
      BY <3>1, DispatchTold DEF DispatchTo
    <3>3. ToPlace' \in {ToPlace, ToPlace \ {c}}
      BY <1>14, <2>3, <3>0 DEF AddConfig, AddConfigTo
    <3>4. Placement!Place(c, n)
      BY <2>1, <3>0, <3>2, <3>3 DEF Placement!Place
    <3> QED BY <3>4 DEF Placement!PlacementNext
  <2> QED BY <2>2, <2>3
<1>15. ASSUME NEW t \in {"loop", "http"}, UpdateRunnersStats(t) PROVE Placement!PlacementNext
  BY <1>0, <1>15, AskStep DEF UpdateRunnersStats, CanRebalance, storeVars, adVars
<1>16. ASSUME NEW t \in {"loop", "http"}, MoveCheck(t) PROVE Placement!PlacementNext
  BY <1>0, <1>16, AskStep DEF MoveCheck, storeVars, adVars
<1>17. ASSUME NEW t \in {"loop", "http"}, MoveRemove(t) PROVE Placement!PlacementNext
  <2>1. cfg[t] \in ClusterConfigs /\ cfg' = cfg /\ pc' = [pc EXCEPT ![t] = "add"]
    BY <1>17 DEF MoveRemove, EndpointsApart, ClusterConfigs, AllConfigs
  <2>2. CASE cfg[t] = EmptyConfig
    <3>1. nodes' = nodes /\ nodeConfigs' = nodeConfigs
      BY <1>17, <2>2 DEF MoveRemove, storeVars
    <3>2. ToPlace \subseteq ToPlace'
      BY <1>17, <2>1, <2>2 DEF MoveRemove, storeVars
    <3> QED BY <1>0, <3>1, <3>2, AskStep
  <2>3. CASE cfg[t] # EmptyConfig
    <3>0. PICK c \in ClusterConfigs : c = cfg[t]
      BY <2>1
    <3>1. RemoveConfig(c) /\ nodes' = nodes
      BY <1>17, <2>3, <3>0 DEF MoveRemove
    <3>2. Told' = [Told EXCEPT ![c] = {}]
      BY <3>1, RemoveTold
    <3>3. ToPlace' = ToPlace \cup {c}
      BY <1>17, <2>1, <3>0, <3>1 DEF MoveRemove, RemoveConfig
    <3>4. Placement!TakeBack(c)
      BY <3>1, <3>2, <3>3 DEF Placement!TakeBack
    <3> QED BY <3>4 DEF Placement!PlacementNext
  <2> QED BY <2>2, <2>3
<1>18. ASSUME NEW t \in {"loop", "http"}, EndRebalance(t) PROVE Placement!PlacementNext
  BY <1>0, <1>18, AskStep DEF EndRebalance, storeVars, nodeVars, adVars
<1>19. ASSUME NEW n \in Nodes, PostStatus(n) PROVE Placement!PlacementNext
  <2>1. nodes' = nodes \cup {n} /\ ToPlace' = ToPlace
    BY <1>19 DEF PostStatus, threadVars
  <2>2. \A c \in ClusterConfigs : Told'[c] = Told[c]
    BY <1>19 DEF PostStatus, nodeVars, Told, Assignment, NoStray
  <2>3. Told' = Told
    BY <2>2 DEF Told
  <2> QED BY <2>1, <2>3 DEF Placement!PlacementNext, Placement!Join
<1>20. ASSUME NEW n \in Nodes, Heartbeat(n) PROVE Placement!PlacementNext
  BY <1>0, <1>20, AskStep DEF Heartbeat, storeVars, adVars, threadVars
<1>21. CASE Tick
  BY <1>0, <1>21, AskStep DEF Tick, storeVars, adVars, threadVars
<1>22. CASE UNCHANGED vars
  BY <1>0, <1>22, AskStep DEF vars, storeVars, nodeVars, adVars, threadVars
<1> QED
  BY <1>1, <1>2, <1>3, <1>4, <1>5, <1>6, <1>7, <1>8, <1>9, <1>10, <1>11, <1>12,
     <1>13, <1>14, <1>15, <1>16, <1>17, <1>18, <1>19, <1>20, <1>21, <1>22 DEF Next

\* The dispatcher implements CheckPlacement: whatever its goroutines interleave, a
\* configuration is told to one node agent at a time, and whatever has lost its node agent
\* is still to be placed.
THEOREM DispatcherImplementsPlacement == Spec => ImplementsPlacement
<1>1. Init => Placement!PlacementInit
  BY DEF Init, Placement!PlacementInit, Told, ToPlace, InFlight
<1>2. IndInv /\ [Next]_vars => [Placement!PlacementNext]_(Placement!placementVars)
  BY PlacementStep DEF IndInv, Placement!placementVars
<1> QED
  BY <1>1, <1>2, Inductive, PTL DEF Spec, ImplementsPlacement, Placement!PlacementSpec
=============================================================================
