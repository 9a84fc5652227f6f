------------------------------- MODULE Rebalance -------------------------------
(***************************************************************************)
(* The rebalancing of the cluster checks                                   *)
(* (pkg/clusteragent/clusterchecks/dispatcher_rebalance.go): which check    *)
(* moves from which node to which other one.  What a move does to the store *)
(* is in ClusterDispatcher.  rebalance() also runs in the goroutine of an   *)
(* API request, so a node can expire between any two of its steps.          *)
(***************************************************************************)
EXTENDS Integers, Sequences, FiniteSets, FiniteSetsExt, SequencesExt

CONSTANTS
    NbNodes,      \* the nodes are 1..NbNodes, in the order of their names
    RbChecks,     \* the cluster checks
    RbWeights     \* the values of busynessFunc

RbNodes == 1..NbNodes

ASSUME RbAssumption ==
    /\ NbNodes \in Nat /\ IsFiniteSet(RbChecks)
    /\ RbWeights \subseteq Nat

VARIABLES
    rbPc,         \* "start", "loop" or "done"
    rbAlive,      \* the keys of store.nodes
    rbWeight,     \* the weight of each check in the runners' statistics
    rbOn,         \* the node whose statistics have the check; 0 when none has
    rbFixed,      \* what the checks that are no cluster checks add to a node
    rbAvg,        \* totalAvg
    rbDiff,       \* diffMap
    rbOrder,      \* the nodes that are left of weights
    rbPeak        \* the highest busyness when the rebalancing began

rbStoreVars == <<rbAlive, rbWeight, rbOn, rbFixed>>
rebalanceVars == <<rbPc, rbStoreVars, rbAvg, rbDiff, rbOrder, rbPeak>>

\* nodeStore.GetBusyness, with the checks where on says.
Busyness(n, on) ==
    rbFixed[n] + SumFunctionOnSet(rbWeight, {c \in RbChecks : on[c] = n})

Peak(on) == Max({Busyness(n, on) : n \in rbAlive} \cup {0})

\* updateDiff, and reading its result: a missing key is zero.
DiffMap(avg, on) == [n \in rbAlive |-> Busyness(n, on) - avg]

Diff(n) == IF n \in DOMAIN rbDiff THEN rbDiff[n] ELSE 0

\* The statistics were just collected; each check is on one node at most.
RebalanceInit ==
    /\ rbPc = "start"
    /\ rbAlive = RbNodes
    /\ rbWeight \in [RbChecks -> RbWeights]
    /\ rbOn \in [RbChecks -> rbAlive]
    /\ rbFixed \in {[n \in RbNodes |-> IF n = 1 THEN w ELSE 0] : w \in RbWeights}
    /\ rbAvg = 0
    /\ rbDiff = <<>>
    /\ rbOrder = <<>>
    /\ rbPeak = 0

\* calculateAvg: the loop assigns the busyness of each node instead of adding it,
\* so that the result is that of the node the map's iteration ends with.
Averages == {Busyness(last, rbOn) \div Cardinality(rbAlive) : last \in rbAlive}

\* calculateAvg, getDiffAndWeights and the sort, which leaves equal nodes in any order.
RbBegin ==
    /\ rbPc = "start" /\ rbAlive # {}
    /\ rbPc' = "loop"
    /\ rbAvg' \in Averages
    /\ rbDiff' = DiffMap(rbAvg', rbOn)
    /\ rbOrder' \in {s \in SetToSeqs(rbAlive) :
                       \A i, j \in DOMAIN s : i < j => Busyness(s[i], rbOn) >= Busyness(s[j], rbOn)}
    /\ rbPeak' = Peak(rbOn)
    /\ UNCHANGED rbStoreVars

\* GetMostWeightedClusterCheck: any of the heaviest, for the order of a map is random.
Heaviest(n) ==
    LET here == {c \in RbChecks : rbOn[c] = n}
    IN  {c \in here : \A d \in here : rbWeight[d] <= rbWeight[c]}

\* pickNode: of the least diff, the first in the order of the names; "" (0) when there
\* is no other node.
PickNode(n) ==
    LET others == DOMAIN rbDiff \ {n}
        least  == {m \in others : \A o \in others : rbDiff[m] <= rbDiff[o]}
    IN  IF others = {} THEN 0 ELSE Min(least)

\* Mutant: the weight of the check is left out.
WorthMovingAnyway(n, c) == Diff(PickNode(n)) < (Diff(n) * 9) \div 10

\* The test with tolerationMargin; Diff(n) is positive here.
WorthMoving(n, c) == Diff(PickNode(n)) + rbWeight[c] < (Diff(n) * 9) \div 10

\* One turn of the inner loop that moves a check.  (A turn whose move fails, because
\* the destination is gone, changes nothing and is taken again: see RbStuck.)
RbMove ==
    /\ rbPc = "loop" /\ rbOrder # <<>>
    /\ LET n == Head(rbOrder)  dest == PickNode(n) IN
       /\ n \in rbAlive /\ dest \in rbAlive
       /\ Diff(n) > 0
       /\ \E c \in Heaviest(n) :
             /\ WorthMoving(n, c)
             /\ rbOn' = [rbOn EXCEPT ![c] = dest]
             /\ rbDiff' = DiffMap(rbAvg, rbOn')
    /\ UNCHANGED <<rbPc, rbAlive, rbWeight, rbFixed, rbAvg, rbOrder, rbPeak>>

\* Mutant: a node without a cluster check is tried again.
RbNextNodeRetries ==
    /\ rbPc = "loop" /\ rbOrder # <<>>
    /\ LET n == Head(rbOrder) IN
       \/ Diff(n) <= 0 \/ n \notin rbAlive
       \/ \E c \in Heaviest(n) : ~WorthMoving(n, c)
    /\ rbOrder' = Tail(rbOrder)
    /\ UNCHANGED <<rbPc, rbStoreVars, rbAvg, rbDiff, rbPeak>>

\* The inner loop ends: the node is not above the average or gone, it has no cluster
\* check, or moving the heaviest one is not worth it.
RbNextNode ==
    /\ rbPc = "loop" /\ rbOrder # <<>>
    /\ LET n == Head(rbOrder) IN
       \/ Diff(n) <= 0 \/ n \notin rbAlive \/ Heaviest(n) = {}
       \/ \E c \in Heaviest(n) : ~WorthMoving(n, c)
    /\ rbOrder' = Tail(rbOrder)
    /\ UNCHANGED <<rbPc, rbStoreVars, rbAvg, rbDiff, rbPeak>>

RbEnd ==
    /\ rbPc = "loop" /\ rbOrder = <<>>
    /\ rbPc' = "done"
    /\ UNCHANGED <<rbStoreVars, rbAvg, rbDiff, rbOrder, rbPeak>>

\* expireNodes, in the goroutine of dispatcher.run: the statistics of the node are gone.
RbExpire(n) ==
    /\ rbPc = "loop" /\ n \in rbAlive
    /\ rbAlive' = rbAlive \ {n}
    /\ rbOn' = [c \in RbChecks |-> IF rbOn[c] = n THEN 0 ELSE rbOn[c]]
    /\ UNCHANGED <<rbPc, rbWeight, rbFixed, rbAvg, rbDiff, rbOrder, rbPeak>>

RebalanceNext ==
    \/ RbBegin
    \/ RbMove
    \/ RbNextNode
    \/ RbEnd
    \/ \E n \in RbNodes : RbExpire(n)

RebalanceSpec == RebalanceInit /\ [][RebalanceNext]_rebalanceVars

RebalanceFairness == WF_rebalanceVars(RbBegin \/ RbMove \/ RbNextNode \/ RbEnd)

-----------------------------------------------------------------------------
(* Properties. *)

\* Moving checks never makes matters worse, although the average is that of one node
\* only and nodes expire meanwhile: no node gets busier than the busiest one was.
PeakNotRaised == rbPc # "start" => Peak(rbOn) <= rbPeak

\* The turn is taken for ever: the destination has expired since diffMap was computed.
RbStuck ==
    /\ rbPc = "loop" /\ rbOrder # <<>>
    /\ Diff(Head(rbOrder)) > 0
    /\ PickNode(Head(rbOrder)) \notin rbAlive

\* A rebalancing that has begun ends, but for that one case (a retry without an update of diffMap).
RebalanceEnds == (rbPc = "loop") ~> (rbPc = "done" \/ RbStuck)
===============================================================================
