--------------------------- MODULE AlgorithmsProofs ---------------------------
(* Proofs about Rebalance, EndpointBackoff and SparseBuckets, without their bounds: *)
(* any checks, nodes and weights, any configuration of the breaker, any interval.   *)
EXTENDS SparseBuckets, EndpointBackoff, Rebalance, DataTheorems

-----------------------------------------------------------------------------
(* Rebalance: no move raises the highest busyness.                         *)

\* GetBusyness of constant-level arguments.
Load(fixed, weight, n, on) ==
    fixed[n] + SumFunctionOnSet(weight, {c \in RbChecks : on[c] = n})

LEMMA BusynessIsLoad ==
    ASSUME NEW n, NEW on
    PROVE  Busyness(n, on) = Load(rbFixed, rbWeight, n, on)
BY DEF Busyness, Load

Weights == [RbChecks -> Nat]
Places  == [RbChecks -> RbNodes \cup {0}]

LEMMA ChecksFinite ==
    ASSUME NEW on, NEW n
    PROVE  IsFiniteSet({c \in RbChecks : on[c] = n})
BY RbAssumption, FS_Subset

LEMMA LoadType ==
    ASSUME NEW fixed \in [RbNodes -> Nat], NEW weight \in Weights, NEW n \in RbNodes, NEW on
    PROVE  Load(fixed, weight, n, on) \in Nat
<1> DEFINE H == {c \in RbChecks : on[c] = n}
<1>1. IsFiniteSet(H)
  BY ChecksFinite
<1>2. \A x \in H : weight[x] \in Nat
  BY DEF Weights
<1>3. SumFunctionOnSet(weight, H) \in Nat
  <2> HIDE DEF H
  <2> QED BY <1>1, <1>2, SumType
<1> QED BY <1>3 DEF Load

\* Nodes with the same checks are as busy.
LEMMA LoadSame ==
    ASSUME NEW fixed, NEW weight, NEW n, NEW on, NEW to,
           \A c \in RbChecks : on[c] = n <=> to[c] = n
    PROVE  Load(fixed, weight, n, to) = Load(fixed, weight, n, on)
<1>1. {c \in RbChecks : on[c] = n} = {c \in RbChecks : to[c] = n}
  OBVIOUS
<1> QED BY <1>1 DEF Load

\* A node is busier by the weight of the check it gets.
LEMMA LoadMore ==
    ASSUME NEW fixed \in [RbNodes -> Nat], NEW weight \in Weights, NEW n \in RbNodes, NEW on, NEW to,
           NEW c \in RbChecks, on[c] # n, to[c] = n,
           \A d \in RbChecks \ {c} : on[d] = n <=> to[d] = n
    PROVE  Load(fixed, weight, n, to) = Load(fixed, weight, n, on) + weight[c]
<1> DEFINE H(p) == {d \in RbChecks : p[d] = n}
           Sum(s) == SumFunctionOnSet(weight, s)
<1>1. H(to) \ {c} = H(on) /\ c \in H(to)
  OBVIOUS
<1>2. IsFiniteSet(H(to)) /\ IsFiniteSet(H(on))
  BY ChecksFinite
<1>3. \A x \in RbChecks : weight[x] \in Nat
  BY DEF Weights
<1>4. \A x \in H(to) : weight[x] \in Nat
  BY <1>3
<1>5. Sum(H(to)) = weight[c] + Sum(H(to) \ {c})
  <2> HIDE DEF H
  <2> QED BY <1>1, <1>2, <1>4, SumRemove
<1>6. Load(fixed, weight, n, to) \in Nat /\ Load(fixed, weight, n, on) \in Nat /\ weight[c] \in Nat
  BY <1>3, LoadType
<1>7. Sum(H(on)) \in Nat
  <2>1. \A x \in H(on) : weight[x] \in Nat
    BY <1>3
  <2> HIDE DEF H
  <2> QED BY <1>2, <2>1, SumType
<1>8. Load(fixed, weight, n, to) = fixed[n] + Sum(H(to)) /\ Load(fixed, weight, n, on) = fixed[n] + Sum(H(on))
  BY DEF Load
<1>9. fixed[n] \in Nat
  OBVIOUS
<1>10. Sum(H(to)) = weight[c] + Sum(H(on))
  BY <1>1, <1>5
<1> HIDE DEF H, Sum
<1> QED BY <1>6, <1>7, <1>8, <1>9, <1>10

RbTypes ==
    /\ rbPc \in {"start", "loop", "done"}
    /\ rbAlive \subseteq RbNodes
    /\ rbWeight \in Weights
    /\ rbFixed \in [RbNodes -> Nat]
    /\ rbOn \in Places
    /\ rbAvg \in Nat /\ rbPeak \in Nat
\* diffMap has the busyness of every node that is left.
DiffIsCurrent ==
    rbPc = "loop" => \A n \in rbAlive : /\ n \in DOMAIN rbDiff
                                        /\ rbDiff[n] = Load(rbFixed, rbWeight, n, rbOn) - rbAvg
BelowPeak == rbPc # "start" => \A n \in rbAlive : Load(rbFixed, rbWeight, n, rbOn) <= rbPeak

PeakInv == RbTypes /\ DiffIsCurrent /\ BelowPeak

\* The highest busyness, and what it is the highest of.
LEMMA PeakFacts ==
    ASSUME RbTypes
    PROVE  /\ Peak(rbOn) \in Nat
           /\ \A n \in rbAlive : Load(rbFixed, rbWeight, n, rbOn) <= Peak(rbOn)
           /\ \A m \in Nat : (\A n \in rbAlive : Load(rbFixed, rbWeight, n, rbOn) <= m) => Peak(rbOn) <= m
<1> DEFINE L(n) == Load(rbFixed, rbWeight, n, rbOn)
           S == {L(n) : n \in rbAlive}
           T == S \cup {0}
<1>1. \A n \in rbAlive : L(n) \in Nat
  BY LoadType DEF RbTypes
<1>2. IsFiniteSet(rbAlive)
  <2>1. IsFiniteSet(RbNodes)
    BY RbAssumption, FS_Interval DEF RbNodes
  <2> QED BY <2>1, FS_Subset DEF RbTypes
<1>3. IsFiniteSet(S)
  <2> DEFINE f == [n \in rbAlive |-> L(n)]
  <2>1. f \in Surjection(rbAlive, S)
    BY DEF Surjection
  <2> HIDE DEF f, S
  <2> QED BY <1>2, <2>1, FS_Surjection
<1>4. IsFiniteSet(T)
  <2> HIDE DEF S
  <2> QED BY <1>3, FS_AddElement
<1>5. T \in SUBSET Nat /\ T # {}
  BY <1>1
<1>6. Peak(rbOn) = Max(T)
  BY DEF Peak, Busyness, Load
<1>7. Max(T) \in T /\ \A x \in T : x <= Max(T)
  <2> HIDE DEF T
  <2>1. Numbers(T)
    BY <1>5 DEF Numbers
  <2> QED BY <1>4, <1>5, <2>1, FiniteMax
<1> HIDE DEF L
<1> QED BY <1>1, <1>5, <1>6, <1>7 DEF L

LEMMA PeakBegin ==
    ASSUME PeakInv, RbBegin
    PROVE  PeakInv'
<1>1. rbAvg' \in Nat
  <2>1. PICK last \in rbAlive : rbAvg' = Busyness(last, rbOn) \div Cardinality(rbAlive)
    BY DEF RbBegin, Averages
  <2>2. Busyness(last, rbOn) \in Nat
    BY BusynessIsLoad, LoadType DEF PeakInv, RbTypes
  <2>3. IsFiniteSet(rbAlive)
    <3>1. IsFiniteSet(RbNodes)
      BY RbAssumption, FS_Interval DEF RbNodes
    <3> QED BY <3>1, FS_Subset DEF PeakInv, RbTypes
  <2>4. Cardinality(rbAlive) \in Nat /\ Cardinality(rbAlive) # 0
    BY <2>1, <2>3, FS_CardinalityType, FS_EmptySet
  <2> QED BY <2>1, <2>2, <2>4
<1>2. UNCHANGED <<rbAlive, rbWeight, rbOn, rbFixed>> /\ rbPc' = "loop" /\ rbPeak' = Peak(rbOn)
  BY DEF RbBegin, rbStoreVars
<1>3. rbDiff' = [n \in rbAlive |-> Load(rbFixed, rbWeight, n, rbOn) - rbAvg']
  BY BusynessIsLoad DEF RbBegin, DiffMap
<1>4. rbPeak' \in Nat /\ \A n \in rbAlive : Load(rbFixed, rbWeight, n, rbOn) <= rbPeak'
  BY <1>2, PeakFacts DEF PeakInv
<1>5. RbTypes'
  BY <1>1, <1>2, <1>4 DEF PeakInv, RbTypes
<1>6. DiffIsCurrent'
  BY <1>2, <1>3 DEF DiffIsCurrent
<1>7. BelowPeak'
  BY <1>2, <1>4 DEF BelowPeak
<1> QED BY <1>5, <1>6, <1>7 DEF PeakInv

\* The destination ends below where the source was.
LEMMA PeakMove ==
    ASSUME PeakInv, RbMove
    PROVE  PeakInv'
<1> DEFINE n == Head(rbOrder)
           dest == PickNode(n)
           L(m, on) == Load(rbFixed, rbWeight, m, on)
<1>1. PICK c \in Heaviest(n) :
         /\ WorthMoving(n, c)
         /\ rbOn' = [rbOn EXCEPT ![c] = dest]
         /\ rbDiff' = DiffMap(rbAvg, rbOn')
  BY DEF RbMove
<1>2. /\ n \in rbAlive /\ dest \in rbAlive /\ Diff(n) > 0 /\ rbPc = "loop"
      /\ UNCHANGED <<rbPc, rbAlive, rbWeight, rbFixed, rbAvg, rbPeak>>
  BY DEF RbMove
<1>3. c \in RbChecks /\ rbOn[c] = n
  BY <1>1 DEF Heaviest
<1>4. n \in RbNodes /\ dest \in RbNodes /\ rbWeight[c] \in Nat
  BY <1>2, <1>3 DEF PeakInv, RbTypes, Weights
<1>5. Diff(n) = L(n, rbOn) - rbAvg /\ Diff(dest) = L(dest, rbOn) - rbAvg
  BY <1>2 DEF PeakInv, DiffIsCurrent, Diff
<1>6. Diff(dest) + rbWeight[c] < (Diff(n) * 9) \div 10
  BY <1>1 DEF WorthMoving
<1>7. \A m \in rbAlive : L(m, rbOn) \in Nat /\ L(m, rbOn') \in Nat /\ L(m, rbOn) <= rbPeak
  BY <1>2, LoadType DEF PeakInv, RbTypes, BelowPeak
<1>8. rbAvg \in Nat /\ rbPeak \in Nat
  BY DEF PeakInv, RbTypes
<1>9. rbOn' \in Places /\ rbOn'[c] = dest /\ \A d \in RbChecks \ {c} : rbOn'[d] = rbOn[d]
  BY <1>1, <1>3, <1>4 DEF PeakInv, RbTypes, Places
<1> HIDE DEF n, dest
<1>10. ASSUME NEW m \in rbAlive PROVE L(m, rbOn') <= rbPeak
  <2>1. m \in RbNodes
    BY DEF PeakInv, RbTypes
  <2>2. CASE (m # n /\ m # dest) \/ n = dest
    <3>1. L(m, rbOn') = L(m, rbOn)
      BY <1>3, <1>9, <2>2, LoadSame
    <3> QED BY <1>7, <3>1
  <2>3. CASE m = dest /\ n # dest
    <3>1. L(dest, rbOn') = L(dest, rbOn) + rbWeight[c]
      BY <1>3, <1>4, <1>9, <2>3, LoadMore DEF PeakInv, RbTypes
    <3>2. L(dest, rbOn) + rbWeight[c] < L(n, rbOn)
      <4> DEFINE x == L(n, rbOn)
                 y == L(dest, rbOn)
      <4>1. x \in Nat /\ y \in Nat /\ x - rbAvg > 0
        BY <1>2, <1>5, <1>7
      <4>2. y - rbAvg + rbWeight[c] < ((x - rbAvg) * 9) \div 10
        BY <1>5, <1>6
      <4> HIDE DEF x, y, L
      <4>3. ((x - rbAvg) * 9) \div 10 <= x - rbAvg
        BY <1>8, <4>1
      <4>4. y + rbWeight[c] < x
        BY <1>4, <1>8, <4>1, <4>2, <4>3
      <4> QED BY <4>4 DEF x, y
    <3>3. L(n, rbOn) <= rbPeak /\ L(n, rbOn) \in Nat /\ L(dest, rbOn) \in Nat
      BY <1>2, <1>7
    <3> HIDE DEF L
    <3> QED BY <1>4, <1>8, <2>3, <3>1, <3>2, <3>3
  <2>4. CASE m = n /\ n # dest
    <3>1. L(n, rbOn) = L(n, rbOn') + rbWeight[c]
      BY <1>3, <1>4, <1>9, <2>4, LoadMore DEF PeakInv, RbTypes
    <3>2. L(n, rbOn) <= rbPeak /\ L(n, rbOn) \in Nat /\ L(n, rbOn') \in Nat
      BY <1>2, <1>7
    <3> HIDE DEF L
    <3> QED BY <1>4, <1>8, <2>4, <3>1, <3>2
  <2> QED BY <2>2, <2>3, <2>4
<1>11. RbTypes'
  BY <1>2, <1>9 DEF PeakInv, RbTypes
<1>12. rbDiff' = [m \in rbAlive |-> L(m, rbOn') - rbAvg]
  BY <1>1 DEF DiffMap, Busyness, Load
<1>13. DiffIsCurrent'
  BY <1>2, <1>12 DEF DiffIsCurrent
<1>14. BelowPeak'
  BY <1>2, <1>10 DEF BelowPeak
<1> QED BY <1>11, <1>13, <1>14 DEF PeakInv

\* A node expires: those that are left have the checks they had.
LEMMA PeakExpire ==
    ASSUME PeakInv, NEW n \in RbNodes, RbExpire(n)
    PROVE  PeakInv'
<1>1. /\ rbAlive' = rbAlive \ {n}
      /\ rbOn' = [c \in RbChecks |-> IF rbOn[c] = n THEN 0 ELSE rbOn[c]]
      /\ UNCHANGED <<rbPc, rbWeight, rbFixed, rbAvg, rbDiff, rbPeak>>
  BY DEF RbExpire
<1>2. rbOn' \in Places
  BY <1>1 DEF PeakInv, RbTypes, Places
<1>3. ASSUME NEW m \in rbAlive'
      PROVE  m \in rbAlive /\ Load(rbFixed, rbWeight, m, rbOn') = Load(rbFixed, rbWeight, m, rbOn)
  <2>1. m \in rbAlive /\ m # n /\ m # 0
    BY <1>1 DEF PeakInv, RbTypes, RbNodes
  <2>2. \A c \in RbChecks : rbOn[c] = m <=> rbOn'[c] = m
    BY <1>1, <2>1
  <2> QED BY <2>1, <2>2, LoadSame
<1>4. RbTypes'
  BY <1>1, <1>2 DEF PeakInv, RbTypes
<1>5. DiffIsCurrent'
  BY <1>1, <1>3 DEF PeakInv, DiffIsCurrent
<1>6. BelowPeak'
  BY <1>1, <1>3 DEF PeakInv, BelowPeak
<1> QED BY <1>4, <1>5, <1>6 DEF PeakInv

LEMMA PeakOthers ==
    ASSUME PeakInv, RbNextNode \/ RbEnd \/ UNCHANGED rebalanceVars
    PROVE  PeakInv'
<1>1. UNCHANGED <<rbAlive, rbWeight, rbFixed, rbOn, rbAvg, rbDiff, rbPeak>> /\ (rbPc' = rbPc \/ (rbPc = "loop" /\ rbPc' = "done"))
  BY DEF RbNextNode, RbEnd, rebalanceVars, rbStoreVars
<1> QED BY <1>1 DEF PeakInv, RbTypes, DiffIsCurrent, BelowPeak

\* No node gets busier than the busiest one was when the rebalancing began, for any number
\* of checks and nodes and any weights, although diffMap is relative to the busyness of one
\* node instead of an average and nodes expire between any two moves.
THEOREM PeakIsNotRaised == RebalanceSpec => []PeakNotRaised
<1>1. RebalanceInit => PeakInv
  <2> SUFFICES ASSUME RebalanceInit PROVE PeakInv
    OBVIOUS
  <2>1. rbWeight \in Weights /\ rbOn \in Places
    BY RbAssumption DEF RebalanceInit, Weights, Places
  <2>2. rbFixed \in [RbNodes -> Nat]
    BY RbAssumption DEF RebalanceInit
  <2> QED BY <2>1, <2>2 DEF RebalanceInit, PeakInv, RbTypes, DiffIsCurrent, BelowPeak
<1>2. PeakInv /\ [RebalanceNext]_rebalanceVars => PeakInv'
  BY PeakBegin, PeakMove, PeakExpire, PeakOthers DEF RebalanceNext
<1>3. PeakInv => PeakNotRaised
  BY PeakFacts DEF PeakInv, RbTypes, BelowPeak, PeakNotRaised
<1> QED BY <1>1, <1>2, <1>3, PTL DEF RebalanceSpec

-----------------------------------------------------------------------------
(* EndpointBackoff: maxErrors is the least number of errors for which the   *)
(* exponential is above the maximum.                                        *)

Exponential(base, n) == base * 2^n

LEMMA ExponentialFacts ==
    ASSUME NEW base \in Nat \ {0}, NEW n \in Nat
    PROVE  /\ Exponential(base, n) \in Nat /\ n < Exponential(base, n)
           /\ Exponential(base, 0) = base
           /\ \A m \in Nat : m <= n => Exponential(base, m) <= Exponential(base, n)
<1> DEFINE p == 2^n
<1>1. p \in Nat /\ n < p
  BY PowerIsCount, PowerAbove
<1>2. 1 * p <= base * p /\ base * p \in Nat
  <2>1. p * 1 <= p * base /\ p * base \in Nat
    <3> HIDE DEF p
    <3> QED BY <1>1, ProductMonotone
  <2>2. p * 1 = 1 * p /\ p * base = base * p
    <3> HIDE DEF p
    <3> QED BY <1>1
  <2> HIDE DEF p
  <2> QED BY <2>1, <2>2
<1>3. n < base * p
  <2> HIDE DEF p
  <2> QED BY <1>1, <1>2
<1>4. base * 2^0 = base
  BY PowerZero
<1>5. ASSUME NEW m \in Nat, m <= n PROVE base * 2^m <= base * 2^n
  <2>1. 2^m \in Nat /\ 2^n \in Nat /\ 2^m <= 2^n
    BY <1>5, PowerIsCount, PowerMonotone
  <2> QED BY <2>1, ProductMonotone
<1> QED BY <1>2, <1>3, <1>4, <1>5 DEF Exponential

\* The least number of errors above the maximum, for a base that is not.
LEMMA ErrorsMaxFacts ==
    ASSUME NEW base \in Nat \ {0}, NEW max \in Nat \ {0}, base <= max
    PROVE  /\ ErrorsMax(base, max) \in Nat \ {0}
           /\ Exponential(base, ErrorsMax(base, max)) > max
           /\ Exponential(base, ErrorsMax(base, max) - 1) <= max
<1> DEFINE E(n) == Exponential(base, n)
           Exceeds(n) == IF n >= 0 THEN base * 2^n > max ELSE base > max * 2^(-n)
           T == {n \in Nat : E(n) > max}
           c == ErrorsMax(base, max)
<1>1. \A n \in Nat : Exceeds(n) <=> E(n) > max
  BY DEF Exponential
<1>2. \A n \in Nat : E(n) \in Nat /\ n < E(n)
  BY ExponentialFacts
<1>3. E(0) = base
  BY ExponentialFacts
<1>4. \A n \in Int : n < 0 => ~Exceeds(n)
  <2> SUFFICES ASSUME NEW n \in Int, n < 0 PROVE ~(base > max * 2^(-n))
    OBVIOUS
  <2>1. -n \in Nat
    OBVIOUS
  <2>2. 2^(-n) \in Nat /\ -n < 2^(-n)
    BY <2>1, PowerIsCount, PowerAbove
  <2> DEFINE q == 2^(-n)
  <2>3. q \in Nat /\ 1 <= q
    <3>1. q \in Nat /\ -n < q
      BY <2>2
    <3> HIDE DEF q
    <3> QED BY <2>1, <3>1
  <2>4. max * 1 <= max * q /\ max * q \in Nat
    <3> HIDE DEF q
    <3> QED BY <2>3, ProductMonotone
  <2> HIDE DEF q
  <2>5. ~(base > max * q)
    BY <2>4
  <2> QED BY <2>5 DEF q
<1> HIDE DEF E, Exceeds
<1>5. T \in SUBSET Nat /\ max \in T
  BY <1>2
<1>6. PICK m \in T : \A x \in T : m <= x
  <2> HIDE DEF T
  <2> QED BY <1>5, LeastNat
<1>7. m \in Nat /\ E(m) > max /\ m <= max
  BY <1>5, <1>6
<1>8. m # 0
  BY <1>3, <1>7
<1>9. m - 1 \in Nat /\ ~(E(m - 1) > max)
  <2>1. m - 1 \in Nat /\ ~(m <= m - 1)
    BY <1>7, <1>8
  <2> QED BY <1>6, <2>1
<1>10. m \in (-base)..max /\ Exceeds(m) /\ ~Exceeds(m - 1)
  BY <1>1, <1>7, <1>9
<1>11. c = CHOOSE n \in (-base)..max : Exceeds(n) /\ ~Exceeds(n - 1)
  BY DEF ErrorsMax, Exceeds
<1> HIDE DEF c
<1>12. c \in (-base)..max /\ Exceeds(c) /\ ~Exceeds(c - 1)
  BY <1>10, <1>11
<1>13. c \in Int /\ ~(c < 0)
  BY <1>4, <1>12
<1>14. c \in Nat /\ E(c) > max
  BY <1>1, <1>12, <1>13
<1>15. c # 0
  BY <1>3, <1>14
<1>16. c - 1 \in Nat
  BY <1>14, <1>15
<1>17. E(c - 1) <= max
  BY <1>1, <1>2, <1>12, <1>16
<1> QED BY <1>14, <1>15, <1>17 DEF c, E

Conf(c) ==
    /\ c.base \in Nat \ {0} /\ c.max \in Nat \ {0}
    /\ c.factor \in Nat /\ c.factor >= 2
    /\ c.maxErrors = ErrorsMax(c.base, c.max)
    /\ c.recoveryInterval = c.maxErrors \/ c.recoveryInterval \in Nat \ {0}

BackoffInv ==
    /\ Conf(beConf)
    /\ SaneBackoff => beErrors \in 0..beConf.maxErrors

\* newBlockedEndpoints has replaced the values that make no sense.
LEMMA NewConf ==
    ASSUME NEW f \in Nat, NEW b \in Nat, NEW m \in Nat, NEW r \in Nat, NEW reset \in BOOLEAN
    PROVE  Conf(NewBlockedEndpoints(f, b, m, r, reset))
BY DEF Conf, NewBlockedEndpoints, DefaultForwarderRecoveryInterval

\* What the number of errors says of the wait.
LEMMA Durations ==
    ASSUME NEW c, Conf(c), c.base <= c.max, NEW n \in 0..c.maxErrors
    PROVE  LET ds == BackoffDurations(c, n) IN
           /\ n >= c.maxErrors <=> ds = {c.max}
           /\ \A d \in ds : d <= c.max
           /\ n = 0 <=> 0 \in ds
<1> DEFINE E == c.maxErrors
           x == Exponential(c.base, n)
           ds == BackoffDurations(c, n)
<1>1. E \in Nat \ {0} /\ Exponential(c.base, E) > c.max /\ Exponential(c.base, E - 1) <= c.max
  BY ErrorsMaxFacts DEF Conf
<1>2. c.base \in Nat \ {0} /\ c.max \in Nat \ {0} /\ c.factor \in Nat /\ c.factor >= 2 /\ n \in Nat /\ n <= E
  BY <1>1 DEF Conf
<1>3. x \in Nat /\ n < x
  BY <1>2, ExponentialFacts
<1>4. ds = IF n <= 0 THEN {0} ELSE IF x > c.max THEN {c.max} ELSE {d \in 0..x : d * c.factor >= x}
  BY DEF BackoffDurations, Exponential
<1>5. CASE n = 0
  <2>1. ds = {0}
    BY <1>4, <1>5
  <2> QED BY <1>1, <1>2, <1>5, <2>1
<1>6. CASE n = E
  <2>1. x > c.max /\ ~(n <= 0)
    BY <1>1, <1>6
  <2>2. ds = {c.max}
    BY <1>4, <2>1
  <2> QED BY <1>1, <1>2, <1>6, <2>2
<1>7. CASE n # 0 /\ n # E
  <2>1. n <= E - 1 /\ E - 1 \in Nat /\ 1 <= n
    BY <1>1, <1>2, <1>7
  <2>2. x <= Exponential(c.base, E - 1) /\ Exponential(c.base, E - 1) \in Nat
    BY <1>2, <2>1, ExponentialFacts
  <2> HIDE DEF x, ds
  <2>3. x <= c.max /\ 2 <= x
    BY <1>1, <1>2, <1>3, <2>1, <2>2
  <2>4. ds = {d \in 0..x : d * c.factor >= x}
    BY <1>2, <1>3, <1>4, <2>1, <2>3
  <2>5. x - 1 \in ds
    <3>1. x - 1 \in Nat /\ c.factor \in Nat /\ (x - 1) * 2 <= (x - 1) * c.factor /\ (x - 1) * c.factor \in Nat
      <4>1. x - 1 \in Nat
        BY <1>3, <2>3
      <4> QED BY <1>2, <4>1, ProductMonotone
    <3>2. x <= (x - 1) * 2
      BY <1>3, <2>3
    <3> DEFINE y == (x - 1) * c.factor
               z == (x - 1) * 2
    <3>3. z \in Nat /\ y \in Nat /\ z <= y /\ x <= z
      BY <3>1, <3>2
    <3> HIDE DEF y, z
    <3>4. y >= x
      BY <1>3, <3>3
    <3>5. (x - 1) * c.factor >= x
      BY <3>4 DEF y
    <3>6. x - 1 \in 0..x
      BY <1>3, <3>1
    <3> QED BY <2>4, <3>5, <3>6
  <2>6. ds # {c.max}
    BY <1>2, <1>3, <2>3, <2>5
  <2>7. 0 \notin ds
    <3>1. 0 * c.factor = 0
      BY <1>2
    <3> QED BY <1>3, <2>3, <2>4, <3>1
  <2>8. \A d \in ds : d <= c.max
    BY <1>2, <1>3, <2>3, <2>4
  <2>9. ~(n >= E)
    BY <1>1, <1>2, <1>7
  <2> QED BY <1>7, <2>6, <2>7, <2>8, <2>9 DEF ds
<1> QED BY <1>5, <1>6, <1>7

\* The wait is the maximum after maxErrors errors in a row, not before and never more, and
\* every error blocks the endpoint: for every factor, base, maximum and recovery with a base
\* that is not above the maximum.
THEOREM MaxErrorsIsExact == BackoffSpec => []MaxErrorsReachesMax
<1>1. BackoffInit => BackoffInv
  <2> SUFFICES ASSUME BackoffInit PROVE BackoffInv
    OBVIOUS
  <2>1. Conf(beConf) /\ beErrors = 0
    BY SecondsAssumption, NewConf DEF BackoffInit
  <2>2. SaneBackoff => beConf.maxErrors \in Nat
    BY <2>1, ErrorsMaxFacts DEF Conf, SaneBackoff
  <2> QED BY <2>1, <2>2 DEF BackoffInv
<1>2. BackoffInv /\ [BackoffNext]_backoffVars => BackoffInv'
  <2> SUFFICES ASSUME BackoffInv, [BackoffNext]_backoffVars PROVE BackoffInv'
    OBVIOUS
  <2>1. beConf' = beConf
    BY DEF BackoffNext, CloseEndpoint, RecoverEndpoint, backoffVars
  <2>2. ASSUME SaneBackoff PROVE beErrors' \in 0..beConf.maxErrors
    <3>1. beConf.maxErrors \in Nat \ {0}
      BY <2>2, ErrorsMaxFacts DEF BackoffInv, Conf, SaneBackoff
    <3>2. beErrors \in 0..beConf.maxErrors /\ beConf.recoveryInterval \in Nat
      BY <2>2, <3>1 DEF BackoffInv, Conf
    <3> QED BY <3>1, <3>2 DEF BackoffNext, CloseEndpoint, RecoverEndpoint, ErrorsAfterClose,
            ErrorsAfterRecover, backoffVars
  <2> QED BY <2>1, <2>2 DEF BackoffInv, SaneBackoff
<1>3. BackoffInv => MaxErrorsReachesMax
  BY Durations DEF BackoffInv, SaneBackoff, MaxErrorsReachesMax
<1> QED BY <1>1, <1>2, <1>3, PTL DEF BackoffSpec

-----------------------------------------------------------------------------
(* SparseBuckets: the step of newJobQueue has no factor in common with the   *)
(* number of buckets, so that as many steps as there are buckets visit them  *)
(* all.                                                                      *)

\* A multiple of the step is not one of the number of buckets, before it has been
\* taken as often as there are buckets: for the three ways it is chosen.
LEMMA OddCoprime ==
    ASSUME NEW h \in Nat, NEW k \in Nat, 0 < k, k < 2 * h + 1, NEW q \in Int
    PROVE  k * h # q * (2 * h + 1)
<1> SUFFICES ASSUME k * h = q * (2 * h + 1) PROVE FALSE
  OBVIOUS
<1>1. k = (k - 2 * q) * (2 * h + 1)
  OBVIOUS
<1>2. 2 * h + 1 \in Nat \ {0} /\ k - 2 * q \in Int
  OBVIOUS
<1> QED BY <1>1, <1>2, NoMultiple

LEMMA FourCoprime ==
    ASSUME NEW g \in Nat, NEW k \in Nat, 0 < k, k < 4 * (g + 1), NEW q \in Int
    PROVE  k * (2 * g + 1) # q * (4 * (g + 1))
<1> SUFFICES ASSUME k * (2 * g + 1) = q * (4 * (g + 1)) PROVE FALSE
  OBVIOUS
<1> DEFINE h == 2 * (g + 1)
           j == h * q - k * g
<1>1. k = 2 * j /\ j \in Int /\ h \in Nat \ {0}
  OBVIOUS
<1>2. j \in Nat /\ 0 < j /\ j < h
  <2>1. k < 2 * h
    OBVIOUS
  <2> HIDE DEF j, h
  <2> QED BY <1>1, <2>1
<1>3. j = (j - q) * h
  <2>1. k * (h - 1) = 2 * (q * h)
    OBVIOUS
  <2> HIDE DEF j, h
  <2>2. j * (h - 1) = q * h
    BY <1>1, <2>1
  <2> QED BY <1>1, <2>2
<1>4. j - q \in Int
  BY <1>1
<1> HIDE DEF j, h
<1> QED BY <1>1, <1>2, <1>3, <1>4, NoMultiple

LEMMA TwiceOddCoprime ==
    ASSUME NEW g \in Nat \ {0}, NEW k \in Nat, 0 < k, k < 2 * (2 * g + 1), NEW q \in Int
    PROVE  k * (2 * g - 1) # q * (2 * (2 * g + 1))
<1> SUFFICES ASSUME k * (2 * g - 1) = q * (2 * (2 * g + 1)) PROVE FALSE
  OBVIOUS
<1> DEFINE h == 2 * g + 1
           j == k * g - q * h
           i == j - g * (j - q)
<1>1. k = 2 * j /\ j \in Int /\ h \in Nat \ {0}
  OBVIOUS
<1>2. j \in Nat /\ 0 < j /\ j < h
  <2>1. k < 2 * h
    OBVIOUS
  <2> HIDE DEF j, h
  <2> QED BY <1>1, <2>1
<1>3. j * (h - 2) = q * h
  <2>1. k * (h - 2) = 2 * (q * h)
    OBVIOUS
  <2> HIDE DEF j, h
  <2> QED BY <1>1, <2>1
<1>4. 2 * j = (j - q) * h
  <2> HIDE DEF j, h
  <2> QED BY <1>1, <1>3
<1>5. j - q = 2 * i
  <2>1. 2 * j = 2 * (g * (j - q)) + (j - q)
    <3>1. (j - q) * h = 2 * (g * (j - q)) + (j - q)
      <4> HIDE DEF j
      <4> QED BY <1>1
    <3> QED BY <1>4, <3>1
  <2> HIDE DEF j, h
  <2> QED BY <1>1, <2>1
<1>6. i \in Int
  <2> HIDE DEF j
  <2> QED BY <1>1
<1> HIDE DEF i, j, h
<1>7. j = i * h
  BY <1>1, <1>4, <1>5, <1>6
<1> QED BY <1>1, <1>2, <1>6, <1>7, NoMultiple

LEMMA StepCoprime ==
    ASSUME NEW n \in Nat \ {0}, NEW k \in Nat, 0 < k, k < n, NEW q \in Int
    PROVE  k * SparseStep(n) # q * n
<1> DEFINE half == n \div 2
<1>1. half \in Nat /\ (n = 2 * half \/ n = 2 * half + 1) /\ (n % 2 = 1 <=> n = 2 * half + 1) /\ n % 2 \in {0, 1}
  OBVIOUS
<1>2. CASE n <= 2
  <2>1. SparseStep(n) = 1
    BY <1>2 DEF SparseStep
  <2> QED BY <1>2, <2>1, NoMultiple
<1>3. CASE n > 2 /\ n % 2 = 1
  <2>1. SparseStep(n) = half
    BY <1>3 DEF SparseStep
  <2> HIDE DEF half
  <2>2. n = 2 * half + 1
    BY <1>1, <1>3
  <2>3. k * half # q * (2 * half + 1)
    BY <1>1, <2>2, OddCoprime
  <2> QED BY <2>1, <2>2, <2>3
<1>4. CASE n > 2 /\ n % 2 = 0 /\ half % 2 = 0
  <2>1. SparseStep(n) = half - 1
    BY <1>4 DEF SparseStep
  <2> HIDE DEF half
  <2>2. n = 2 * half
    BY <1>1, <1>4
  <2>3. PICK g \in Nat : half = 2 * (g + 1)
    <3>1. half \div 2 - 1 \in Nat /\ half = 2 * (half \div 2 - 1 + 1)
      BY <1>1, <1>4, <2>2
    <3> QED BY <3>1
  <2>4. half - 1 = 2 * g + 1 /\ n = 4 * (g + 1)
    BY <2>2, <2>3
  <2>5. k * (2 * g + 1) # q * (4 * (g + 1))
    BY <2>4, FourCoprime
  <2> QED BY <2>1, <2>4, <2>5
<1>5. CASE n > 2 /\ n % 2 = 0 /\ half % 2 = 1
  <2>1. SparseStep(n) = half - 2
    BY <1>5 DEF SparseStep
  <2> HIDE DEF half
  <2>2. n = 2 * half
    BY <1>1, <1>5
  <2>3. PICK g \in Nat \ {0} : half = 2 * g + 1
    <3>1. half \div 2 \in Nat \ {0} /\ half = 2 * (half \div 2) + 1
      BY <1>1, <1>5, <2>2
    <3> QED BY <3>1
  <2>4. half - 2 = 2 * g - 1 /\ n = 2 * (2 * g + 1)
    BY <2>2, <2>3
  <2>5. k * (2 * g - 1) # q * (2 * (2 * g + 1))
    BY <2>4, TwiceOddCoprime
  <2> QED BY <2>1, <2>4, <2>5
<1> QED BY <1>1, <1>2, <1>3, <1>4, <1>5

\* Where the kth job of a round goes, and the buckets the jobs before it went to.
Place(n, k) == (k * SparseStep(n)) % n
Visited(n, t) == {Place(n, k) : k \in 0..(t - 1)}

LEMMA StepType ==
    ASSUME NEW n \in Nat \ {0}
    PROVE  SparseStep(n) \in Nat
BY DEF SparseStep

LEMMA PlaceFacts ==
    ASSUME NEW n \in Nat \ {0}, NEW k \in Nat
    PROVE  /\ Place(n, k) \in 0..(n - 1)
           /\ \E q \in Nat : k * SparseStep(n) = q * n + Place(n, k)
<1>1. k * SparseStep(n) \in Nat
  <2> DEFINE s == SparseStep(n)
  <2>1. s \in Nat
    BY StepType
  <2> HIDE DEF s
  <2>2. k * s \in Nat
    BY <2>1
  <2> QED BY <2>2 DEF s
<1> QED BY <1>1, Division DEF Place

\* No bucket is visited twice in a round.
LEMMA PlaceInjective ==
    ASSUME NEW n \in Nat \ {0}, NEW j \in Nat, NEW k \in Nat, j < k, k < n
    PROVE  Place(n, j) # Place(n, k)
<1> SUFFICES ASSUME Place(n, j) = Place(n, k) PROVE FALSE
  OBVIOUS
<1> DEFINE s == SparseStep(n)
           r == Place(n, k)
<1>1. PICK p \in Nat : j * s = p * n + r
  BY PlaceFacts
<1>2. PICK q \in Nat : k * s = q * n + r
  BY PlaceFacts
<1>3. s \in Nat /\ r \in Nat
  BY StepType, PlaceFacts
<1> HIDE DEF r
<1>4. k - j \in Nat /\ 0 < k - j /\ k - j < n /\ q - p \in Int
  OBVIOUS
<1>5. (k - j) * s = (q - p) * n
  <2> HIDE DEF s
  <2> QED BY <1>1, <1>2, <1>3
<1> QED BY <1>4, <1>5, StepCoprime

\* A round visits every bucket.
LEMMA RoundVisitsAll ==
    ASSUME NEW n \in Nat \ {0}
    PROVE  Visited(n, n) = 0..(n - 1)
<1> DEFINE S == 0..(n - 1)
           f == [k \in S |-> Place(n, k)]
<1>1. f \in [S -> S]
  BY PlaceFacts
<1>2. \A j, k \in S : f[j] = f[k] => j = k
  <2> SUFFICES ASSUME NEW j \in S, NEW k \in S, Place(n, j) = Place(n, k), j # k PROVE FALSE
    OBVIOUS
  <2>1. j \in Nat /\ k \in Nat /\ j < n /\ k < n /\ (j < k \/ k < j)
    OBVIOUS
  <2> QED BY <2>1, PlaceInjective
<1>3. IsFiniteSet(S)
  BY FS_Interval
<1>4. f \in Injection(S, S)
  <2> HIDE DEF f, S
  <2> QED BY <1>1, <1>2 DEF Injection, IsInjective
<1>5. f \in Surjection(S, S)
  <2> HIDE DEF f, S
  <2> QED BY <1>3, <1>4, FS_Injection
<1>6. \A b \in S : \E k \in S : f[k] = b
  <2> HIDE DEF f, S
  <2> QED BY <1>5 DEF Surjection
<1>7. \A b \in S : \E k \in S : Place(n, k) = b
  BY <1>6
<1>8. \A k \in S : Place(n, k) \in S
  BY PlaceFacts
<1> QED BY <1>7, <1>8 DEF Visited

\* addJob goes on to the next place, and at the end of a round to the first.
LEMMA PlaceNext ==
    ASSUME NEW n \in Nat \ {0}, NEW t \in 0..(n - 1)
    PROVE  /\ NextSchedulingBucket(Place(n, t), n) = Place(n, t + 1)
           /\ Place(n, n) = 0 /\ Place(n, 0) = 0
<1> DEFINE s == SparseStep(n)
           a == Place(n, t)
           b == Place(n, t + 1)
<1>1. s \in Nat /\ a \in 0..(n - 1) /\ b \in 0..(n - 1) /\ t \in Nat /\ t + 1 \in Nat
  BY StepType, PlaceFacts
<1>2. PICK p \in Nat : t * s = p * n + a
  BY <1>1, PlaceFacts
<1>3. PICK q \in Nat : (t + 1) * s = q * n + b
  BY <1>1, PlaceFacts
<1>4. (a + s) % n = b
  <2> DEFINE c == (a + s) % n
  <2> HIDE DEF s, a, b
  <2>1. a + s \in Nat
    BY <1>1
  <2>2. c \in 0..(n - 1) /\ \E u \in Nat : a + s = u * n + c
    BY <2>1, Division
  <2> HIDE DEF c
  <2>3. PICK u \in Nat : a + s = u * n + c
    BY <2>2
  <2>4. (t + 1) * s = (p + u) * n + c
    BY <1>1, <1>2, <2>2, <2>3
  <2>5. (t + 1) * s \in Nat /\ p + u \in Nat
    BY <1>1
  <2>6. ((t + 1) * s) % n = c
    <3> DEFINE x == (t + 1) * s
               w == p + u
    <3>1. x \in Nat /\ w \in Nat /\ x = w * n + c
      BY <2>4, <2>5
    <3> HIDE DEF x, w
    <3>2. x % n = c
      BY <2>2, <3>1, Remainder
    <3> QED BY <3>2 DEF x
  <2>7. ((t + 1) * s) % n = b
    BY DEF b, s, Place
  <2> QED BY <2>6, <2>7 DEF c
<1>5. (n * s) % n = 0
  <2> HIDE DEF s
  <2>1. n * s \in Nat /\ 0 \in 0..(n - 1) /\ n * s = s * n + 0
    BY <1>1
  <2> QED BY <1>1, <2>1, Remainder
<1>6. (0 * s) % n = 0
  <2> HIDE DEF s
  <2>1. 0 * s \in Nat /\ 0 \in 0..(n - 1) /\ 0 * s = 0 * n + 0
    BY <1>1
  <2> QED BY <2>1, Remainder
<1> QED BY <1>4, <1>5, <1>6 DEF NextSchedulingBucket, Place

\* So many rounds are complete, and t jobs of the next one were added.
Filled(rounds, t) ==
    /\ schedulingBucketIdx = Place(nb, t)
    /\ \A b \in 0..(nb - 1) : sizes[b] = IF b \in Visited(nb, t) THEN rounds + 1 ELSE rounds
BucketsInv ==
    /\ nb \in Nat \ {0}
    /\ sizes = [b \in 0..(nb - 1) |-> sizes[b]]
    /\ \E rounds \in Nat, t \in 0..(nb - 1) : Filled(rounds, t)

LEMMA AddedJob ==
    ASSUME BucketsInv, addJob
    PROVE  BucketsInv'
<1>1. PICK r \in Nat, t \in 0..(nb - 1) : Filled(r, t)
  BY DEF BucketsInv
<1>2. nb \in Nat \ {0} /\ nb' = nb /\ t \in Nat /\ t < nb
  BY DEF BucketsInv, addJob
<1> DEFINE p == Place(nb, t)
<1>3. p \in 0..(nb - 1) /\ schedulingBucketIdx = p
  BY <1>1, <1>2, PlaceFacts DEF Filled
<1>4. sizes' = [sizes EXCEPT ![p] = @ + 1] /\ schedulingBucketIdx' = NextSchedulingBucket(p, nb)
  BY <1>3 DEF addJob
<1>5. p \notin Visited(nb, t)
  <2> SUFFICES ASSUME NEW k \in 0..(t - 1), Place(nb, k) = p PROVE FALSE
    BY DEF Visited
  <2>1. k \in Nat /\ k < t
    BY <1>2
  <2> QED BY <1>2, <2>1, PlaceInjective
<1>6. Visited(nb, t + 1) = Visited(nb, t) \cup {p}
  <2>1. 0..(t + 1 - 1) = (0..(t - 1)) \cup {t}
    BY <1>2
  <2> QED BY <2>1 DEF Visited
<1>7. \A b \in 0..(nb - 1) : sizes'[b] = IF b \in Visited(nb, t + 1) THEN r + 1 ELSE r
  <2> HIDE DEF p
  <2>1. \A b \in 0..(nb - 1) : sizes[b] = IF b \in Visited(nb, t) THEN r + 1 ELSE r
    BY <1>1 DEF Filled
  <2>2. \A b \in 0..(nb - 1) : sizes'[b] = IF b = p THEN sizes[b] + 1 ELSE sizes[b]
    BY <1>3, <1>4 DEF BucketsInv
  <2> QED BY <1>3, <1>5, <1>6, <2>1, <2>2
<1>8. schedulingBucketIdx' = Place(nb, t + 1)
  BY <1>2, <1>4, PlaceNext
<1>9. sizes' = [b \in 0..(nb - 1) |-> sizes'[b]]
  BY <1>4 DEF BucketsInv
<1>10. CASE t + 1 < nb
  <2>1. t + 1 \in 0..(nb - 1)
    BY <1>2, <1>10
  <2>2. Filled(r, t + 1)'
    BY <1>2, <1>7, <1>8 DEF Filled
  <2> QED BY <1>2, <1>9, <2>1, <2>2 DEF BucketsInv
<1>11. CASE t + 1 = nb
  <2>1. \A b \in 0..(nb - 1) : sizes'[b] = r + 1
    BY <1>2, <1>7, <1>11, RoundVisitsAll
  <2>2. schedulingBucketIdx' = Place(nb, 0)
    BY <1>2, <1>8, <1>11, PlaceNext
  <2>3. Visited(nb, 0) = {}
    BY DEF Visited
  <2>4. Filled(r + 1, 0)'
    BY <1>2, <2>1, <2>2, <2>3 DEF Filled
  <2>5. r + 1 \in Nat /\ 0 \in 0..(nb - 1)
    BY <1>2
  <2> QED BY <1>2, <1>9, <2>4, <2>5 DEF BucketsInv
<1> QED BY <1>2, <1>10, <1>11

\* The checks of an interval are spread over all of its seconds: no bucket ever has two
\* jobs more than another, for every interval and any number of jobs.
THEOREM BucketsAreBalanced == Spec => []Balanced
<1>1. Init => BucketsInv
  <2> SUFFICES ASSUME Init PROVE BucketsInv
    OBVIOUS
  <2>1. nb \in Nat \ {0} /\ 0 \in 0..(nb - 1)
    BY BoundsAssumption DEF Init
  <2>2. Visited(nb, 0) = {}
    BY DEF Visited
  <2>3. Place(nb, 0) = 0
    BY <2>1, PlaceNext
  <2>4. Filled(0, 0)
    BY <2>2, <2>3 DEF Filled, Init
  <2> QED BY <2>1, <2>4 DEF BucketsInv, Init
<1>2. BucketsInv /\ [addJob]_vars => BucketsInv'
  <2>1. BucketsInv /\ UNCHANGED vars => BucketsInv'
    BY DEF BucketsInv, Filled, vars
  <2> QED BY <2>1, AddedJob
<1>3. BucketsInv => Balanced
  BY DEF BucketsInv, Filled, Balanced
<1> QED BY <1>1, <1>2, <1>3, PTL DEF Spec
==============================================================================
