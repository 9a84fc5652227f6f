----------------------------- MODULE DataTheorems ----------------------------
(***************************************************************************)
(* Facts about the operators on data that the models share: the sums of a  *)
(* function over a finite set, least and greatest numbers, sequences one   *)
(* element of which is removed, remainders.                                *)
(***************************************************************************)
EXTENDS Integers, SequencesExt, FiniteSetTheorems, SequenceTheorems, WellFoundedInduction, TLAPS

-----------------------------------------------------------------------------
(* What SumFunctionOnSet computes, for every function and every finite set *)
(* of its arguments.  The operator is a fold: a recursive function over    *)
(* the subsets of its argument, which takes out one chosen element at a    *)
(* time.  Each fact is proved for a least subset that would violate it.    *)

\* A set of subsets of a finite set has an element that contains no other one.
LEMMA LeastSet ==
    ASSUME NEW S, IsFiniteSet(S), NEW B \in SUBSET SUBSET S, B # {}
    PROVE  \E s \in B : \A t \in B : ~(t \subseteq s /\ t # s)
<1>1. IsWellFoundedOn(StrictSubsetOrdering(S), SUBSET S)
  BY FS_StrictSubsetOrderingWellFounded, FS_FiniteSubsetsOfFinite
<1>2. \E s \in B : \A t \in B : <<t, s>> \notin StrictSubsetOrdering(S)
  BY <1>1, WFMin
<1> QED BY <1>2 DEF StrictSubsetOrdering

-----------------------------------------------------------------------------
(* The recursive function exists and is unique. *)

First(s) == CHOOSE x \in s : TRUE

Rest(s) == s \ {First(s)}

SumsUp(w, S, g) ==
    g = [s \in SUBSET S |-> IF s = {} THEN 0 ELSE w[First(s)] + g[Rest(s)]]

LEMMA SumIsChosen ==
    ASSUME NEW w, NEW S
    PROVE  SumFunctionOnSet(w, S) = (CHOOSE g : SumsUp(w, S, g))[S]
BY DEF SumFunctionOnSet, FoldFunctionOnSet, MapThenFoldSet, SumsUp, First, Rest

LEMMA FirstRest ==
    ASSUME NEW s, s # {}
    PROVE  First(s) \in s /\ Rest(s) \subseteq s /\ Rest(s) # s
BY DEF First, Rest

LEMMA SumsUpAt ==
    ASSUME NEW w, NEW S, NEW g, SumsUp(w, S, g), NEW s \in SUBSET S
    PROVE  g[s] = IF s = {} THEN 0 ELSE w[First(s)] + g[Rest(s)]
BY DEF SumsUp

LEMMA SumsUpUnique ==
    ASSUME NEW w, NEW S, IsFiniteSet(S), NEW g, NEW h, SumsUp(w, S, g), SumsUp(w, S, h)
    PROVE  g = h
<1> DEFINE B == {s \in SUBSET S : g[s] # h[s]}
<1>1. CASE B # {}
  <2>1. B \in SUBSET SUBSET S
    OBVIOUS
  <2>2. PICK s \in B : \A t \in B : ~(t \subseteq s /\ t # s)
    <3> HIDE DEF B
    <3> QED BY <1>1, <2>1, LeastSet
  <2>3. s # {}
    <3>1. {} \in SUBSET S
      OBVIOUS
    <3>2. g[{}] = 0 /\ h[{}] = 0
      BY <3>1, SumsUpAt
    <3> QED BY <3>2
  <2>4. Rest(s) \in SUBSET S /\ Rest(s) \notin B
    BY <2>2, <2>3, FirstRest
  <2>5. g[s] = w[First(s)] + g[Rest(s)] /\ h[s] = w[First(s)] + h[Rest(s)]
    BY <2>3, SumsUpAt
  <2> QED BY <2>4, <2>5
<1>2. CASE B = {}
  <2>1. \A s \in SUBSET S : g[s] = h[s]
    BY <1>2
  <2>2. g = [s \in SUBSET S |-> g[s]] /\ h = [s \in SUBSET S |-> h[s]]
    BY DEF SumsUp
  <2> QED BY <2>1, <2>2
<1> QED BY <1>1, <1>2

LEMMA SumsUpRestrict ==
    ASSUME NEW w, NEW S, NEW g, SumsUp(w, S, g), NEW T \in SUBSET S
    PROVE  SumsUp(w, T, [s \in SUBSET T |-> g[s]])
<1> DEFINE h == [s \in SUBSET T |-> g[s]]
<1>1. ASSUME NEW s \in SUBSET T
      PROVE  h[s] = IF s = {} THEN 0 ELSE w[First(s)] + h[Rest(s)]
  <2>1. g[s] = IF s = {} THEN 0 ELSE w[First(s)] + g[Rest(s)]
    BY SumsUpAt
  <2>2. s # {} => Rest(s) \in SUBSET T
    BY FirstRest
  <2> QED BY <2>1, <2>2
<1> QED BY <1>1 DEF SumsUp

\* The value of the function for a subset is the sum over the subset.
LEMMA SumsUpValue ==
    ASSUME NEW w, NEW S, IsFiniteSet(S), NEW g, SumsUp(w, S, g), NEW T \in SUBSET S
    PROVE  g[T] = SumFunctionOnSet(w, T)
<1> DEFINE h == [s \in SUBSET T |-> g[s]]
           c == CHOOSE f : SumsUp(w, T, f)
<1>1. SumsUp(w, T, h)
  BY SumsUpRestrict
<1>2. SumsUp(w, T, c)
  BY <1>1
<1>3. IsFiniteSet(T)
  BY FS_Subset
<1> HIDE DEF c
<1>4. c = h
  BY <1>1, <1>2, <1>3, SumsUpUnique
<1>5. c[T] = g[T]
  BY <1>4
<1> QED BY <1>5, SumIsChosen DEF c

LEMMA SumsUpExists ==
    ASSUME NEW w, NEW S, IsFiniteSet(S)
    PROVE  \E g : SumsUp(w, S, g)
<1> DEFINE B == {s \in SUBSET S : ~ \E g : SumsUp(w, s, g)}
<1>0. S \in SUBSET S /\ B \in SUBSET SUBSET S
  OBVIOUS
<1> SUFFICES ASSUME B # {}
             PROVE  FALSE
  BY <1>0
<1>1. PICK s \in B : \A t \in B : ~(t \subseteq s /\ t # s)
  <2> HIDE DEF B
  <2> QED BY <1>0, LeastSet
<1>2. ASSUME NEW t \in SUBSET s, t # s
      PROVE  /\ IsFiniteSet(t)
             /\ \E g : SumsUp(w, t, g)
  BY <1>1, <1>2, FS_Subset
<1> DEFINE G(t) == SumFunctionOnSet(w, t)
           Def(t) == IF t = {} THEN 0 ELSE w[First(t)] + G(Rest(t))
           h == [t \in SUBSET s |-> Def(t)]
<1>3. ASSUME NEW t \in SUBSET s, t # s
      PROVE  G(t) = Def(t)
  <2>1. PICK g : SumsUp(w, t, g)
    BY <1>2, <1>3
  <2>2. IsFiniteSet(t)
    BY <1>2, <1>3
  <2>3. g[t] = G(t)
    BY <2>1, <2>2, SumsUpValue
  <2>4. g[t] = IF t = {} THEN 0 ELSE w[First(t)] + g[Rest(t)]
    BY <2>1, SumsUpAt
  <2>5. t # {} => g[Rest(t)] = G(Rest(t))
    BY <2>1, <2>2, FirstRest, SumsUpValue
  <2> QED BY <2>3, <2>4, <2>5
<1>4. ASSUME NEW t \in SUBSET s
      PROVE  h[t] = IF t = {} THEN 0 ELSE w[First(t)] + h[Rest(t)]
  <2>1. t # {} => Rest(t) \in SUBSET s /\ Rest(t) # s
    BY FirstRest
  <2>2. t # {} => G(Rest(t)) = h[Rest(t)]
    BY <1>3, <2>1
  <2> QED BY <2>2
<1>5. SumsUp(w, s, h)
  BY <1>4 DEF SumsUp
<1> QED BY <1>5

-----------------------------------------------------------------------------
(* Sums. *)

\* The sum over no elements.
LEMMA SumEmpty ==
    ASSUME NEW w
    PROVE  SumFunctionOnSet(w, {}) = 0
<1>1. IsFiniteSet({})
  BY FS_EmptySet
<1>2. PICK g : SumsUp(w, {}, g)
  BY <1>1, SumsUpExists
<1>3. g[{}] = 0
  BY <1>2, SumsUpAt
<1> QED BY <1>1, <1>2, <1>3, SumsUpValue

LEMMA SumFirst ==
    ASSUME NEW w, NEW S, IsFiniteSet(S), S # {}
    PROVE  SumFunctionOnSet(w, S) = w[First(S)] + SumFunctionOnSet(w, Rest(S))
<1>1. PICK g : SumsUp(w, S, g)
  BY SumsUpExists
<1>2. Rest(S) \in SUBSET S
  BY FirstRest
<1>3. g[S] = w[First(S)] + g[Rest(S)]
  BY <1>1, SumsUpAt
<1>4. g[S] = SumFunctionOnSet(w, S) /\ g[Rest(S)] = SumFunctionOnSet(w, Rest(S))
  BY <1>1, <1>2, SumsUpValue
<1> QED BY <1>3, <1>4

\* A sum of natural numbers is one.
LEMMA SumType ==
    ASSUME NEW w, NEW S, IsFiniteSet(S), \A x \in S : w[x] \in Nat
    PROVE  SumFunctionOnSet(w, S) \in Nat
<1> DEFINE B == {s \in SUBSET S : SumFunctionOnSet(w, s) \notin Nat}
<1>0. S \in SUBSET S /\ B \in SUBSET SUBSET S
  OBVIOUS
<1> SUFFICES ASSUME B # {}
             PROVE  FALSE
  BY <1>0
<1>1. PICK s \in B : \A t \in B : ~(t \subseteq s /\ t # s)
  <2> HIDE DEF B
  <2> QED BY <1>0, LeastSet
<1>2. IsFiniteSet(s)
  BY FS_Subset
<1>3. s # {}
  BY SumEmpty
<1>4. First(s) \in s /\ Rest(s) \in SUBSET S /\ Rest(s) \notin B
  BY <1>1, <1>3, FirstRest
<1>5. SumFunctionOnSet(w, s) = w[First(s)] + SumFunctionOnSet(w, Rest(s))
  BY <1>2, <1>3, SumFirst
<1>6. w[First(s)] \in Nat /\ SumFunctionOnSet(w, Rest(s)) \in Nat
  BY <1>4
<1> QED BY <1>5, <1>6

\* One element may be taken out of the sum, whichever it is.
LEMMA SumRemove ==
    ASSUME NEW w, NEW S, IsFiniteSet(S), \A x \in S : w[x] \in Nat, NEW x \in S
    PROVE  SumFunctionOnSet(w, S) = w[x] + SumFunctionOnSet(w, S \ {x})
<1> DEFINE Sum(s) == SumFunctionOnSet(w, s)
           B == {s \in SUBSET S : \E y \in s : Sum(s) # w[y] + Sum(s \ {y})}
<1>0. S \in SUBSET S /\ B \in SUBSET SUBSET S
  OBVIOUS
<1> SUFFICES ASSUME B # {}
             PROVE  FALSE
  BY <1>0
<1>1. PICK s \in B : \A t \in B : ~(t \subseteq s /\ t # s)
  <2> HIDE DEF B
  <2> QED BY <1>0, LeastSet
<1>2. PICK y \in s : Sum(s) # w[y] + Sum(s \ {y})
  OBVIOUS
<1>3. \A t \in SUBSET s : IsFiniteSet(t) /\ Sum(t) \in Nat
  BY FS_Subset, SumType
<1>4. First(s) \in s /\ Sum(s) = w[First(s)] + Sum(s \ {First(s)})
  BY <1>3, FirstRest, SumFirst DEF Rest
<1>5. y # First(s)
  BY <1>2, <1>4
<1>6. s \ {First(s)} \notin B /\ s \ {y} \notin B
  BY <1>1, <1>4
<1>7. Sum(s \ {First(s)}) = w[y] + Sum((s \ {First(s)}) \ {y})
  BY <1>4, <1>5, <1>6
<1>8. Sum(s \ {y}) = w[First(s)] + Sum((s \ {y}) \ {First(s)})
  BY <1>4, <1>5, <1>6
<1>9. (s \ {First(s)}) \ {y} = (s \ {y}) \ {First(s)}
  OBVIOUS
<1>10. w[y] \in Nat /\ w[First(s)] \in Nat /\ Sum((s \ {y}) \ {First(s)}) \in Nat
  BY <1>3, <1>4
<1> HIDE DEF Sum, B
<1> QED BY <1>2, <1>4, <1>7, <1>8, <1>9, <1>10

\* A sum is the sum over a part and over what is left.
LEMMA SumSplit ==
    ASSUME NEW w, NEW S, IsFiniteSet(S), \A x \in S : w[x] \in Nat, NEW D \in SUBSET S
    PROVE  SumFunctionOnSet(w, S) = SumFunctionOnSet(w, D) + SumFunctionOnSet(w, S \ D)
<1> DEFINE Sum(s) == SumFunctionOnSet(w, s)
           B == {d \in SUBSET S : Sum(S) # Sum(d) + Sum(S \ d)}
<1>0. S \in SUBSET S /\ B \in SUBSET SUBSET S
  OBVIOUS
<1> SUFFICES ASSUME B # {}
             PROVE  FALSE
  BY <1>0
<1>1. PICK d \in B : \A t \in B : ~(t \subseteq d /\ t # d)
  <2> HIDE DEF B
  <2> QED BY <1>0, LeastSet
<1>2. \A t \in SUBSET S : IsFiniteSet(t) /\ Sum(t) \in Nat
  BY FS_Subset, SumType
<1>3. d # {}
  <2>1. S \ {} = S /\ Sum({}) = 0 /\ Sum(S) \in Nat
    BY SumEmpty, <1>2
  <2> QED BY <2>1
<1>4. PICK x \in d : TRUE
  BY <1>3
<1>5. d \ {x} \in SUBSET S /\ d \ {x} \notin B
  BY <1>1
<1>6. Sum(S) = Sum(d \ {x}) + Sum(S \ (d \ {x}))
  BY <1>5
<1>7. Sum(d) = w[x] + Sum(d \ {x})
  BY <1>2, SumRemove
<1>8. Sum(S \ (d \ {x})) = w[x] + Sum(S \ d)
  <2>1. (S \ (d \ {x})) \ {x} = S \ d /\ x \in S \ (d \ {x}) /\ S \ (d \ {x}) \in SUBSET S
    OBVIOUS
  <2>2. Sum(S \ (d \ {x})) = w[x] + Sum((S \ (d \ {x})) \ {x})
    BY <2>1, <1>2, SumRemove
  <2> QED BY <2>1, <2>2
<1>9. w[x] \in Nat /\ Sum(d \ {x}) \in Nat /\ Sum(S \ d) \in Nat
  BY <1>2
<1>10. Sum(S) # Sum(d) + Sum(S \ d)
  OBVIOUS
<1> HIDE DEF Sum, B
<1> QED BY <1>6, <1>7, <1>8, <1>9, <1>10

\* Only the values of the summands count.
LEMMA SumSame ==
    ASSUME NEW w, NEW v, NEW S, IsFiniteSet(S), \A x \in S : w[x] = v[x]
    PROVE  SumFunctionOnSet(w, S) = SumFunctionOnSet(v, S)
<1> DEFINE B == {s \in SUBSET S : SumFunctionOnSet(w, s) # SumFunctionOnSet(v, s)}
<1>0. S \in SUBSET S /\ B \in SUBSET SUBSET S
  OBVIOUS
<1> SUFFICES ASSUME B # {}
             PROVE  FALSE
  BY <1>0
<1>1. PICK s \in B : \A t \in B : ~(t \subseteq s /\ t # s)
  <2> HIDE DEF B
  <2> QED BY <1>0, LeastSet
<1>2. IsFiniteSet(s)
  BY FS_Subset
<1>3. s # {}
  BY SumEmpty
<1>4. First(s) \in S /\ Rest(s) \in SUBSET S /\ Rest(s) \notin B
  BY <1>1, <1>3, FirstRest
<1>5. /\ SumFunctionOnSet(w, s) = w[First(s)] + SumFunctionOnSet(w, Rest(s))
      /\ SumFunctionOnSet(v, s) = v[First(s)] + SumFunctionOnSet(v, Rest(s))
  BY <1>2, <1>3, SumFirst
<1>6. /\ w[First(s)] = v[First(s)]
      /\ SumFunctionOnSet(w, Rest(s)) = SumFunctionOnSet(v, Rest(s))
  BY <1>4
<1> QED BY <1>5, <1>6

Renamed(f, S) == {f[x] : x \in S}

\* The summands may be renamed.
LEMMA SumRenamed ==
    ASSUME NEW w, NEW v, NEW S, IsFiniteSet(S), NEW f,
           \A x \in S : v[f[x]] = w[x] /\ w[x] \in Nat,
           \A x, y \in S : f[x] = f[y] => x = y
    PROVE  SumFunctionOnSet(v, Renamed(f, S)) = SumFunctionOnSet(w, S)
<1> DEFINE Im(s) == {f[x] : x \in s}
           B == {s \in SUBSET S : SumFunctionOnSet(v, Im(s)) # SumFunctionOnSet(w, s)
                                  \/ ~IsFiniteSet(Im(s))}
<1>0. S \in SUBSET S /\ B \in SUBSET SUBSET S
  OBVIOUS
<1> SUFFICES ASSUME B # {}
             PROVE  FALSE
  BY <1>0 DEF Renamed
<1>1. PICK s \in B : \A t \in B : ~(t \subseteq s /\ t # s)
  <2> HIDE DEF B
  <2> QED BY <1>0, LeastSet
<1>2. IsFiniteSet(s)
  BY FS_Subset
<1>3. s # {}
  <2>1. Im({}) = {}
    OBVIOUS
  <2> QED BY <2>1, SumEmpty, FS_EmptySet
<1>4. PICK x \in s : TRUE
  BY <1>3
<1>5. s \ {x} \in SUBSET S /\ s \ {x} \notin B
  BY <1>1
<1>6. Im(s \ {x}) = Im(s) \ {f[x]} /\ f[x] \in Im(s) /\ Im(s) = Im(s \ {x}) \cup {f[x]}
  OBVIOUS
<1>7. IsFiniteSet(Im(s))
  <2>1. IsFiniteSet(Im(s \ {x}))
    BY <1>5
  <2>2. \A T, y : IsFiniteSet(T) => IsFiniteSet(T \cup {y})
    BY FS_AddElement
  <2> HIDE DEF Im, B
  <2>3. IsFiniteSet(Im(s \ {x}) \cup {f[x]})
    BY <2>1, <2>2
  <2>4. Im(s) = Im(s \ {x}) \cup {f[x]}
    BY <1>6
  <2> QED BY ONLY <2>3, <2>4
<1>8. SumFunctionOnSet(w, s) = w[x] + SumFunctionOnSet(w, s \ {x})
  BY <1>2, SumRemove
<1>9. \A z \in Im(s) : v[z] \in Nat
  OBVIOUS
<1>10. SumFunctionOnSet(v, Im(s)) = v[f[x]] + SumFunctionOnSet(v, Im(s) \ {f[x]})
  <2> HIDE DEF Im, B
  <2>1. f[x] \in Im(s)
    BY <1>6
  <2> QED BY ONLY <2>1, <1>7, <1>9, SumRemove
<1>11. SumFunctionOnSet(v, Im(s \ {x})) = SumFunctionOnSet(w, s \ {x})
  BY <1>5
<1>12. v[f[x]] = w[x]
  OBVIOUS
<1>13. SumFunctionOnSet(v, Im(s)) # SumFunctionOnSet(w, s)
  BY <1>7
<1> HIDE DEF Im
<1> QED BY <1>6, <1>8, <1>10, <1>11, <1>12, <1>13

-----------------------------------------------------------------------------
(* Least and greatest elements. *)

LEMMA LeastNat ==
    ASSUME NEW T \in SUBSET Nat, T # {}
    PROVE  \E m \in T : \A x \in T : m <= x
<1>1. \E m \in T : \A x \in T : <<x, m>> \notin OpToRel(<, Nat)
  BY NatLessThanWellFounded, WFMin
<1>2. \A m, x \in T : <<x, m>> \notin OpToRel(<, Nat) => m <= x
  BY DEF OpToRel
<1> QED BY <1>1, <1>2

LEMMA MinMax ==
    ASSUME NEW n \in Nat, NEW S \in SUBSET (1..n), S # {}
    PROVE  Min(S) \in S /\ Max(S) \in S
<1>1. \E m \in S : \A x \in S : m <= x
  BY LeastNat
<1>2. \E m \in S : \A x \in S : x <= m
  <2> DEFINE T == {m \in Nat : \A x \in S : x <= m}
  <2>1. n \in T
    OBVIOUS
  <2>2. T \in SUBSET Nat /\ T # {}
    BY <2>1
  <2>3. PICK m \in T : \A x \in T : m <= x
    <3> HIDE DEF T
    <3> QED BY <2>2, LeastNat
  <2>4. m \in S
    <3> SUFFICES ASSUME m \notin S
                 PROVE  FALSE
      OBVIOUS
    <3>1. \A x \in S : x <= m - 1
      OBVIOUS
    <3>2. m - 1 \in Nat
      <4>1. PICK x \in S : TRUE
        OBVIOUS
      <4> QED BY <3>1, <4>1
    <3>3. m - 1 \in T
      BY <3>1, <3>2
    <3> QED BY <2>3, <3>3
  <2> QED BY <2>4
<1>3. Min(S) \in S
  BY <1>1 DEF Min
<1>4. Max(S) \in S
  BY <1>2 DEF Max
<1> QED BY <1>3, <1>4

Numbers(S) == S \subseteq Nat

\* The highest of some numbers is one of them, and above the others.
LEMMA FiniteMax ==
    ASSUME NEW S, IsFiniteSet(S), Numbers(S), S # {}
    PROVE  Max(S) \in S /\ \A x \in S : x <= Max(S)
<1> DEFINE HasMax(s) == \E m \in s : \A x \in s : x <= m
           B == {s \in SUBSET S : s # {} /\ ~HasMax(s)}
<1>1. CASE B # {}
  <2>1. B \in SUBSET SUBSET S
    OBVIOUS
  <2>2. PICK s \in B : \A t \in B : ~(t \subseteq s /\ t # s)
    <3> HIDE DEF B
    <3> QED BY <1>1, <2>1, LeastSet
  <2>3. PICK y \in s : TRUE
    BY <2>2
  <2>4. CASE s = {y}
    <3>1. HasMax(s)
      BY <2>4 DEF Numbers
    <3> QED BY <3>1
  <2>5. CASE s # {y}
    <3>1. s \ {y} # {} /\ s \ {y} \in SUBSET S /\ s \ {y} \subseteq s /\ s \ {y} # s
      BY <2>3, <2>5
    <3>2. HasMax(s \ {y})
      <4> HIDE DEF HasMax
      <4>1. s \ {y} \notin B
        BY <2>2, <3>1
      <4> QED BY <3>1, <4>1
    <3>3. PICK m \in s \ {y} : \A x \in s \ {y} : x <= m
      BY <3>2
    <3>4. m \in Nat /\ y \in Nat /\ s \subseteq Nat
      BY <2>3 DEF Numbers
    <3>5. CASE y <= m
      <4>1. HasMax(s)
        BY <3>3, <3>5
      <4> QED BY <4>1
    <3>6. CASE ~(y <= m)
      <4>1. \A x \in s : x <= y
        BY <3>3, <3>4, <3>6
      <4>2. HasMax(s)
        BY <4>1
      <4> QED BY <4>2
    <3> QED BY <3>5, <3>6
  <2> QED BY <2>4, <2>5
<1>2. CASE B = {}
  <2>1. HasMax(S)
    BY <1>2
  <2>2. \E m \in S : \A x \in S : m >= x
    BY <2>1 DEF Numbers
  <2>3. Max(S) \in S /\ \A x \in S : Max(S) >= x
    BY <2>2 DEF Max
  <2> QED BY <2>3 DEF Numbers
<1> QED BY <1>1, <1>2

-----------------------------------------------------------------------------
(* Powers of two, as the number of subsets. *)

LEMMA PowerIsCount ==
    ASSUME NEW n \in Nat
    PROVE  /\ 2^n \in Nat /\ 2^n = Cardinality(SUBSET (1..n)) /\ IsFiniteSet(SUBSET (1..n))
<1>1. IsFiniteSet(1..n) /\ Cardinality(1..n) = n
  <2>1. 1 \in Int /\ n \in Int
    OBVIOUS
  <2>2. IsFiniteSet(1..n) /\ Cardinality(1..n) = IF 1 > n THEN 0 ELSE n - 1 + 1
    BY <2>1, FS_Interval
  <2> QED BY <2>2
<1>2. IsFiniteSet(SUBSET (1..n)) /\ Cardinality(SUBSET (1..n)) = 2^Cardinality(1..n)
  BY <1>1, FS_SUBSET
<1>3. Cardinality(SUBSET (1..n)) \in Nat
  BY <1>2, FS_CardinalityType
<1> QED BY <1>1, <1>2, <1>3

LEMMA PowerZero == 2^0 = 1
<1>1. 2^0 = Cardinality(SUBSET (1..0))
  BY PowerIsCount
<1>2. SUBSET (1..0) = {{}}
  OBVIOUS
<1>3. Cardinality({{}}) = 1
  BY FS_Singleton
<1> QED BY <1>1, <1>2, <1>3

\* A set with one more element has twice the subsets: those with it and those without.
LEMMA SubsetsDouble ==
    ASSUME NEW S, IsFiniteSet(S), NEW x, x \notin S
    PROVE  Cardinality(SUBSET (S \cup {x})) = 2 * Cardinality(SUBSET S)
<1> DEFINE A == SUBSET S
           W == {s \cup {x} : s \in A}
           f == [s \in A |-> s \cup {x}]
<1>1. IsFiniteSet(A)
  BY FS_SUBSET
<1>2. f \in Bijection(A, W)
  <2>1. f \in [A -> W]
    OBVIOUS
  <2>2. \A s, t \in A : f[s] = f[t] => s = t
    OBVIOUS
  <2>3. \A t \in W : \E s \in A : f[s] = t
    OBVIOUS
  <2> HIDE DEF f, A, W
  <2> QED BY <2>1, <2>2, <2>3 DEF Bijection, Injection, Surjection, IsInjective
<1>3. ExistsBijection(A, W)
  BY <1>2 DEF ExistsBijection
<1>4. IsFiniteSet(W) /\ Cardinality(W) = Cardinality(A)
  <2> HIDE DEF A, W
  <2> QED BY <1>1, <1>3, FS_Bijection
<1>5. SUBSET (S \cup {x}) = A \cup W
  <2>1. ASSUME NEW t \in SUBSET (S \cup {x}), x \in t PROVE t \in W
    <3>1. t \ {x} \in A /\ t = (t \ {x}) \cup {x}
      BY <2>1
    <3> QED BY <3>1
  <2>2. ASSUME NEW t \in SUBSET (S \cup {x}), x \notin t PROVE t \in A
    BY <2>2
  <2>3. A \cup W \subseteq SUBSET (S \cup {x})
    OBVIOUS
  <2> HIDE DEF A, W
  <2>4. SUBSET (S \cup {x}) \subseteq A \cup W
    BY <2>1, <2>2
  <2> QED BY <2>3, <2>4
<1>6. A \cap W = {}
  OBVIOUS
<1>7. Cardinality(A \cup W) = Cardinality(A) + Cardinality(W) - Cardinality(A \cap W)
  <2> HIDE DEF A, W
  <2> QED BY <1>1, <1>4, FS_Union
<1>8. Cardinality(A) \in Nat /\ Cardinality({}) = 0
  BY <1>1, FS_CardinalityType, FS_EmptySet
<1> HIDE DEF A, W
<1>9. Cardinality(A \cup W) = 2 * Cardinality(A)
  <2>1. Cardinality(A \cap W) = 0
    BY <1>6, <1>8
  <2> DEFINE a == Cardinality(A)
             u == Cardinality(A \cup W)
  <2>2. a \in Nat /\ u = a + a - 0
    BY <1>4, <1>7, <1>8, <2>1
  <2> HIDE DEF a, u
  <2>3. u = 2 * a
    BY <2>2
  <2> QED BY <2>3 DEF a, u
<1> QED BY <1>5, <1>9 DEF A

LEMMA PowerNext ==
    ASSUME NEW n \in Nat
    PROVE  2^(n + 1) = 2 * 2^n
<1>1. n + 1 \in Nat /\ n + 1 \notin 1..n /\ 1..(n + 1) = (1..n) \cup {n + 1}
  OBVIOUS
<1>2. IsFiniteSet(1..n)
  BY FS_Interval
<1>3. Cardinality(SUBSET (1..(n + 1))) = 2 * Cardinality(SUBSET (1..n))
  BY <1>1, <1>2, SubsetsDouble
<1>4. 2^n = Cardinality(SUBSET (1..n)) /\ 2^(n + 1) = Cardinality(SUBSET (1..(n + 1)))
  BY <1>1, PowerIsCount
<1> QED BY <1>3, <1>4

LEMMA ProductMonotone ==
    ASSUME NEW a \in Nat, NEW b \in Nat, NEW c \in Nat, b <= c
    PROVE  a * b \in Nat /\ a * c \in Nat /\ a * b <= a * c
<1>1. PICK k \in Nat : c = b + k
  <2>1. c - b \in Nat /\ c = b + (c - b)
    OBVIOUS
  <2> QED BY <2>1
<1>2. a * c = a * b + a * k
  BY <1>1
<1>3. a * b \in Nat /\ a * k \in Nat
  OBVIOUS
<1> QED BY <1>2, <1>3

\* A power of two is above its exponent, and grows with it.
LEMMA PowerAbove ==
    ASSUME NEW n \in Nat
    PROVE  n < 2^n
<1> DEFINE P(k) == 2^k
           B == {k \in Nat : ~(k < P(k))}
<1> SUFFICES ASSUME n \in B PROVE FALSE
  OBVIOUS
<1>1. B \in SUBSET Nat /\ B # {}
  OBVIOUS
<1>2. PICK m \in B : \A x \in B : m <= x
  <2> HIDE DEF B
  <2> QED BY <1>1, LeastNat
<1>3. m \in Nat /\ ~(m < P(m))
  BY <1>2
<1>4. m # 0
  <2>1. P(0) = 1
    BY PowerZero
  <2> HIDE DEF P
  <2> QED BY <1>3, <2>1
<1>5. m - 1 \in Nat /\ P(m - 1 + 1) = 2 * P(m - 1)
  <2>1. m - 1 \in Nat
    BY <1>3, <1>4
  <2> QED BY <2>1, PowerNext
<1>6. P(m - 1) \in Nat
  BY <1>5, PowerIsCount
<1> HIDE DEF P
<1>7. m - 1 < P(m - 1)
  BY <1>2, <1>5
<1>8. m - 1 + 1 = m
  BY <1>3
<1>9. P(m) = 2 * P(m - 1)
  BY <1>5, <1>8
<1> QED BY <1>3, <1>5, <1>6, <1>7, <1>9

LEMMA PowerMonotone ==
    ASSUME NEW m \in Nat, NEW n \in Nat, m <= n
    PROVE  2^m <= 2^n
<1> DEFINE P(k) == 2^k
           B == {k \in Nat : ~(P(m) <= P(m + k))}
<1>1. n - m \in Nat /\ m + (n - m) = n
  OBVIOUS
<1> SUFFICES ASSUME n - m \in B PROVE FALSE
  BY <1>1
<1>2. B \in SUBSET Nat /\ B # {}
  OBVIOUS
<1>3. PICK k \in B : \A x \in B : k <= x
  <2> HIDE DEF B
  <2> QED BY <1>2, LeastNat
<1>4. k \in Nat /\ ~(P(m) <= P(m + k))
  BY <1>3
<1>5. P(m) \in Nat
  BY PowerIsCount
<1>6. k # 0
  <2> HIDE DEF P
  <2>1. m + 0 = m
    OBVIOUS
  <2> QED BY <1>4, <1>5, <2>1
<1>7. k - 1 \in Nat /\ m + (k - 1) \in Nat /\ m + (k - 1) + 1 = m + k
  BY <1>4, <1>6
<1>8. P(m + (k - 1) + 1) = 2 * P(m + (k - 1)) /\ P(m + (k - 1)) \in Nat
  BY <1>7, PowerNext, PowerIsCount
<1> HIDE DEF P
<1>9. P(m) <= P(m + (k - 1))
  BY <1>3, <1>7
<1> QED BY <1>4, <1>5, <1>7, <1>8, <1>9

-----------------------------------------------------------------------------
(* Sequences. *)

LEMMA FunctionIsSeq ==
    ASSUME NEW S, NEW n \in Nat, NEW f \in [1..n -> S]
    PROVE  f \in Seq(S) /\ Len(f) = n
OBVIOUS

\* The elements of two sequences that are put together.
LEMMA ConcatParts ==
    ASSUME NEW S, NEW f \in Seq(S), NEW b \in Seq(S)
    PROVE  /\ f \o b \in Seq(S) /\ Len(f \o b) = Len(f) + Len(b)
           /\ \A j \in 1..Len(f) : (f \o b)[j] = f[j]
           /\ \A k \in 1..Len(b) : (f \o b)[Len(f) + k] = b[k]
OBVIOUS

LEMMA RemoveAtFacts ==
    ASSUME NEW S, NEW s \in Seq(S), NEW i \in DOMAIN s
    PROVE  /\ RemoveAt(s, i) \in Seq(S)
           /\ Len(RemoveAt(s, i)) = Len(s) - 1
           /\ \A j \in 1..(Len(s) - 1) :
                 RemoveAt(s, i)[j] = IF j < i THEN s[j] ELSE s[j + 1]
           /\ \A j \in DOMAIN s : j # i =>
                 \E k \in DOMAIN RemoveAt(s, i) : RemoveAt(s, i)[k] = s[j]
<1> DEFINE front == SubSeq(s, 1, i - 1)
           back  == SubSeq(s, i + 1, Len(s))
<1>1. i \in 1..Len(s) /\ Len(s) \in Nat
  OBVIOUS
<1>2. front \in Seq(S) /\ Len(front) = i - 1 /\ \A j \in 1..(i - 1) : front[j] = s[j]
  BY <1>1
<1>3. back \in Seq(S) /\ Len(back) = Len(s) - i
      /\ \A k \in 1..(Len(s) - i) : back[k] = s[i + k]
  BY <1>1
<1>4. RemoveAt(s, i) = front \o back
  BY DEF RemoveAt
<1> HIDE DEF front, back
<1>5. /\ front \o back \in Seq(S) /\ Len(front \o back) = Len(front) + Len(back)
      /\ \A j \in 1..Len(front) : (front \o back)[j] = front[j]
      /\ \A k \in 1..Len(back) : (front \o back)[Len(front) + k] = back[k]
  <2>1. front \in Seq(S) /\ back \in Seq(S)
    BY <1>2, <1>3
  <2> QED BY ONLY <2>1, ConcatParts
<1> DEFINE cat == front \o back
<1>6. /\ cat \in Seq(S) /\ Len(cat) = Len(s) - 1
      /\ \A j \in 1..(i - 1) : cat[j] = s[j]
      /\ \A k \in 1..(Len(s) - i) : cat[i - 1 + k] = s[i + k]
  <2>1. cat \in Seq(S) /\ Len(cat) = Len(s) - 1
    BY <1>1, <1>2, <1>3, <1>5
  <2>2. \A j \in 1..(i - 1) : cat[j] = s[j]
    BY <1>2, <1>5
  <2>3. \A k \in 1..(Len(s) - i) : cat[i - 1 + k] = back[k]
    BY <1>2, <1>3, <1>5
  <2> QED BY <1>3, <2>1, <2>2, <2>3
<1> HIDE DEF cat
<1>7. ASSUME NEW j \in 1..(Len(s) - 1)
      PROVE  cat[j] = IF j < i THEN s[j] ELSE s[j + 1]
  <2>1. CASE j < i
    BY <1>1, <1>6, <2>1
  <2>2. CASE j >= i
    <3>1. j - i + 1 \in 1..(Len(s) - i)
      BY <1>1, <2>2
    <3>2. cat[i - 1 + (j - i + 1)] = s[i + (j - i + 1)]
      BY <1>6, <3>1
    <3>3. i - 1 + (j - i + 1) = j /\ i + (j - i + 1) = j + 1
      BY <1>1
    <3>4. cat[j] = s[j + 1]
      BY <3>2, <3>3
    <3> QED BY <1>1, <2>2, <3>4
  <2> QED BY <1>1, <2>1, <2>2
<1>8. ASSUME NEW j \in DOMAIN s, j # i
      PROVE  \E k \in DOMAIN cat : cat[k] = s[j]
  <2>1. DOMAIN cat = 1..(Len(s) - 1) /\ DOMAIN s = 1..Len(s)
    BY <1>1, <1>6
  <2>2. CASE j < i
    <3>1. j \in DOMAIN cat /\ cat[j] = s[j]
      BY <1>1, <1>7, <2>1, <2>2
    <3> QED BY <3>1
  <2>3. CASE j > i
    <3>1. j - 1 \in 1..(Len(s) - 1) /\ ~(j - 1 < i) /\ (j - 1) + 1 = j
      BY <1>1, <2>1, <2>3
    <3>2. cat[j - 1] = s[j]
      BY <1>7, <3>1
    <3> QED BY <2>1, <3>1, <3>2
  <2> QED BY <1>1, <1>8, <2>1, <2>2, <2>3
<1> QED BY <1>4, <1>6, <1>7, <1>8 DEF cat

LEMMA HeadTail ==
    ASSUME NEW S, NEW s \in Seq(S), s # <<>>
    PROVE  /\ Head(s) \in S /\ Tail(s) \in Seq(S) /\ Head(s) = s[1] /\ 1 \in DOMAIN s
           /\ \A k \in DOMAIN Tail(s) : k + 1 \in DOMAIN s /\ Tail(s)[k] = s[k + 1]
OBVIOUS

\* A sequence is its head and its tail.
LEMMA HeadFirst ==
    ASSUME NEW S, NEW q \in Seq(S), q # <<>>
    PROVE  q = <<Head(q)>> \o Tail(q) /\ Tail(q) \in Seq(S) /\ <<Head(q)>> \in Seq(S) /\ Head(q) \in S
<1>1. Len(q) \in Nat \ {0} /\ DOMAIN q = 1..Len(q)
  BY EmptySeq
<1>2. /\ Head(q) \in S /\ Head(q) = q[1] /\ Tail(q) \in Seq(S) /\ Len(Tail(q)) = Len(q) - 1
      /\ \A k \in 1..(Len(q) - 1) : Tail(q)[k] = q[k + 1]
  BY <1>1
<1>3. <<Head(q)>> \in Seq(S) /\ Len(<<Head(q)>>) = 1 /\ <<Head(q)>>[1] = q[1]
  BY <1>2
<1> DEFINE h == <<Head(q)>>
           t == Tail(q)
<1> HIDE DEF h, t
<1>4. /\ h \o t \in Seq(S) /\ Len(h \o t) = Len(h) + Len(t)
      /\ \A j \in 1..Len(h) : (h \o t)[j] = h[j]
      /\ \A k \in 1..Len(t) : (h \o t)[Len(h) + k] = t[k]
  <2>1. h \in Seq(S) /\ t \in Seq(S)
    BY <1>2, <1>3 DEF h, t
  <2> QED BY ONLY <2>1, ConcatParts
<1>5. Len(h) = 1 /\ Len(t) = Len(q) - 1 /\ h[1] = q[1] /\ \A k \in 1..(Len(q) - 1) : t[k] = q[k + 1]
  BY <1>2, <1>3 DEF h, t
<1> DEFINE c == h \o t
<1> HIDE DEF c
<1>6. c \in Seq(S) /\ Len(c) = Len(q) /\ c[1] = q[1] /\ \A k \in 1..(Len(q) - 1) : c[1 + k] = t[k]
  BY <1>1, <1>4, <1>5 DEF c
<1>7. ASSUME NEW i \in 1..Len(q)
      PROVE  c[i] = q[i]
  <2>1. CASE i = 1
    BY <1>6, <2>1
  <2>2. CASE i # 1
    <3>1. i - 1 \in 1..(Len(q) - 1) /\ 1 + (i - 1) = i
      BY <1>1, <2>2
    <3>2. c[1 + (i - 1)] = t[i - 1] /\ t[i - 1] = q[(i - 1) + 1] /\ (i - 1) + 1 = i
      BY <1>5, <1>6, <3>1
    <3> QED BY <3>1, <3>2
  <2> QED BY <2>1, <2>2
<1>8. c = q
  BY <1>6, <1>7, SeqEqual
<1> QED BY <1>2, <1>3, <1>8 DEF h, t, c

LEMMA ConcatThree ==
    ASSUME NEW S
    PROVE  \A x, y, z \in Seq(S) : (x \o y) \o z = x \o (y \o z) /\ y \o z \in Seq(S)
BY ConcatAssociative, ConcatProperties

\* The first of the second part becomes the last of the first part.
LEMMA MoveHead ==
    ASSUME NEW S, NEW p \in Seq(S), NEW q \in Seq(S), NEW r \in Seq(S), q # <<>>
    PROVE  Append(p, Head(q)) \o (Tail(q) \o r) = p \o (q \o r)
<1>1. q = <<Head(q)>> \o Tail(q) /\ Tail(q) \in Seq(S) /\ <<Head(q)>> \in Seq(S) /\ Head(q) \in S
  BY HeadFirst
<1> DEFINE Q == Seq(S)
           Cat(a, b) == a \o b
           h == <<Head(q)>>
           t == Tail(q)
<1>2. Append(p, Head(q)) = Cat(p, h)
  BY <1>1, AppendIsConcat
<1>3. p \in Q /\ h \in Q /\ t \in Q /\ r \in Q /\ q = Cat(h, t)
  BY <1>1
<1>4. \A x, y, z \in Q : Cat(Cat(x, y), z) = Cat(x, Cat(y, z)) /\ Cat(y, z) \in Q
  BY ConcatThree
<1> HIDE DEF Q, Cat, h, t
<1>5. Cat(Cat(p, h), Cat(t, r)) = Cat(p, Cat(q, r))
  BY <1>3, <1>4
<1> QED BY <1>2, <1>5 DEF Cat, t

LEMMA AppendLast ==
    ASSUME NEW S, NEW p \in Seq(S), NEW q \in Seq(S), NEW m \in S
    PROVE  p \o Append(q, m) = Append(p \o q, m)
<1>1. <<m>> \in Seq(S) /\ p \o q \in Seq(S)
  BY ConcatProperties
<1>2. Append(q, m) = q \o <<m>> /\ Append(p \o q, m) = (p \o q) \o <<m>>
  BY <1>1, AppendIsConcat
<1> QED BY <1>1, <1>2, ConcatAssociative

\* A part is cut out of a sequence: where the elements that stay come from.
CutIndex(x, y, k) == IF k <= Len(x) THEN k ELSE k + Len(y)

LEMMA CutOut ==
    ASSUME NEW S, NEW x \in Seq(S), NEW y \in Seq(S), NEW z \in Seq(S)
    PROVE  /\ x \o (y \o z) \in Seq(S) /\ x \o z \in Seq(S)
           /\ \A k \in DOMAIN (x \o z) : /\ CutIndex(x, y, k) \in DOMAIN (x \o (y \o z))
                                         /\ (x \o (y \o z))[CutIndex(x, y, k)] = (x \o z)[k]
           /\ \A j \in DOMAIN (x \o (y \o z)) :
                 \/ \E i \in DOMAIN y : (x \o (y \o z))[j] = y[i]
                 \/ \E k \in DOMAIN (x \o z) : CutIndex(x, y, k) = j
           /\ \A j, k \in DOMAIN (x \o z) : CutIndex(x, y, j) < CutIndex(x, y, k) <=> j < k
<1> DEFINE a == x \o (y \o z)
           b == x \o z
           from(k) == CutIndex(x, y, k)
<1> USE DEF CutIndex
<1>1. Len(x) \in Nat /\ Len(y) \in Nat /\ Len(z) \in Nat /\ DOMAIN y = 1..Len(y)
  BY LenProperties
<1>2. /\ b \in Seq(S) /\ Len(b) = Len(x) + Len(z)
      /\ \A k \in 1..Len(x) : b[k] = x[k]
      /\ \A k \in 1..Len(z) : b[Len(x) + k] = z[k]
  BY ConcatParts
<1>3. /\ y \o z \in Seq(S) /\ Len(y \o z) = Len(y) + Len(z)
      /\ \A k \in 1..Len(y) : (y \o z)[k] = y[k]
      /\ \A k \in 1..Len(z) : (y \o z)[Len(y) + k] = z[k]
  BY ConcatParts
<1>4. /\ a \in Seq(S) /\ Len(a) = Len(x) + Len(y \o z)
      /\ \A k \in 1..Len(x) : a[k] = x[k]
      /\ \A k \in 1..Len(y \o z) : a[Len(x) + k] = (y \o z)[k]
  BY <1>3, ConcatParts
<1>5. DOMAIN a = 1..(Len(x) + Len(y) + Len(z)) /\ DOMAIN b = 1..(Len(x) + Len(z))
  BY <1>1, <1>2, <1>3, <1>4, LenProperties
<1> HIDE DEF a, b
<1>6. \A k \in 1..Len(y) : a[Len(x) + k] = y[k]
  BY <1>1, <1>3, <1>4
<1>7. \A k \in 1..Len(z) : a[Len(x) + Len(y) + k] = z[k]
  <2>1. ASSUME NEW k \in 1..Len(z)
        PROVE  a[Len(x) + Len(y) + k] = z[k]
    <3>1. Len(y) + k \in 1..Len(y \o z) /\ Len(x) + (Len(y) + k) = Len(x) + Len(y) + k
      BY <1>1, <1>3
    <3>2. a[Len(x) + (Len(y) + k)] = (y \o z)[Len(y) + k]
      BY <1>4, <3>1
    <3> QED BY <1>3, <3>1, <3>2
  <2> QED BY <2>1
<1>8. ASSUME NEW k \in DOMAIN b
      PROVE  from(k) \in DOMAIN a /\ a[from(k)] = b[k]
  <2>1. CASE k <= Len(x)
    BY <1>1, <1>2, <1>4, <1>5, <2>1
  <2>2. CASE k > Len(x)
    <3>1. k - Len(x) \in 1..Len(z) /\ Len(x) + (k - Len(x)) = k
          /\ Len(x) + Len(y) + (k - Len(x)) = k + Len(y) /\ from(k) = k + Len(y)
      BY <1>1, <1>5, <2>2
    <3>2. b[Len(x) + (k - Len(x))] = z[k - Len(x)]
      BY <1>2, <3>1
    <3>3. a[Len(x) + Len(y) + (k - Len(x))] = z[k - Len(x)]
      BY <1>7, <3>1
    <3>4. k + Len(y) \in DOMAIN a
      BY <1>1, <1>5
    <3> QED BY <3>1, <3>2, <3>3, <3>4
  <2> QED BY <1>1, <1>5, <2>1, <2>2
<1>9. ASSUME NEW j \in DOMAIN a
      PROVE  \/ \E i \in DOMAIN y : a[j] = y[i]
             \/ \E k \in DOMAIN b : from(k) = j
  <2>1. CASE j <= Len(x)
    <3>1. j \in DOMAIN b /\ from(j) = j
      BY <1>1, <1>5, <2>1
    <3> QED BY <3>1
  <2>2. CASE j > Len(x) /\ j <= Len(x) + Len(y)
    <3>1. j - Len(x) \in 1..Len(y) /\ Len(x) + (j - Len(x)) = j
      BY <1>1, <1>5, <2>2
    <3>2. a[Len(x) + (j - Len(x))] = y[j - Len(x)]
      BY <1>6, <3>1
    <3> QED BY <1>1, <3>1, <3>2
  <2>3. CASE j > Len(x) + Len(y)
    <3>1. j - Len(y) \in DOMAIN b /\ from(j - Len(y)) = j
      BY <1>1, <1>5, <2>3
    <3> QED BY <3>1
  <2> QED BY <1>1, <1>5, <2>1, <2>2, <2>3
<1>10. ASSUME NEW j \in DOMAIN b, NEW k \in DOMAIN b
       PROVE  from(j) < from(k) <=> j < k
  BY <1>1, <1>5
<1> HIDE DEF CutIndex
<1> QED BY <1>2, <1>4, <1>8, <1>9, <1>10 DEF a, b

-----------------------------------------------------------------------------
(* Remainders. *)

LEMMA NoMultiple ==
    ASSUME NEW n \in Nat \ {0}, NEW k \in Nat, 0 < k, k < n, NEW m \in Int
    PROVE  k # m * n
<1>1. CASE m <= 0
  <2>1. n * 0 <= n * (-m) /\ n * (-m) \in Nat
    <3>1. -m \in Nat /\ 0 <= -m
      BY <1>1
    <3> QED BY <3>1, ProductMonotone
  <2>2. m * n = -(n * (-m))
    OBVIOUS
  <2> QED BY <2>1, <2>2
<1>2. CASE m >= 1
  <2>1. n * 1 <= n * m
    BY <1>2, ProductMonotone
  <2>2. m * n = n * m
    OBVIOUS
  <2> QED BY <2>1, <2>2
<1> QED BY <1>1, <1>2

LEMMA Division ==
    ASSUME NEW a \in Nat, NEW n \in Nat \ {0}
    PROVE  a % n \in 0..(n - 1) /\ \E q \in Nat : a = q * n + (a % n)
<1> DEFINE d == a \div n
           r == a % n
<1>1. a = n * d + r /\ d \in Nat /\ r \in 0..(n - 1)
  OBVIOUS
<1> HIDE DEF d, r
<1>2. a = d * n + r
  BY <1>1
<1>3. r \in 0..(n - 1) /\ \E q \in Nat : a = q * n + r
  BY <1>1, <1>2
<1> QED BY <1>3 DEF r

\* The remainder is the only one.
LEMMA Remainder ==
    ASSUME NEW a \in Nat, NEW n \in Nat \ {0}, NEW q \in Nat, NEW r \in 0..(n - 1), a = q * n + r
    PROVE  a % n = r
<1>1. PICK p \in Nat : a = p * n + (a % n)
  BY Division
<1>2. a % n \in 0..(n - 1)
  BY Division
<1> DEFINE t == a % n
<1>3. t \in 0..(n - 1) /\ p * n + t = q * n + r
  BY <1>1, <1>2
<1> HIDE DEF t
<1>4. CASE t > r
  <2>1. t - r \in Nat /\ 0 < t - r /\ t - r < n /\ q - p \in Int
    BY <1>3, <1>4
  <2>2. t - r = (q - p) * n
    BY <1>3
  <2> QED BY <2>1, <2>2, NoMultiple
<1>5. CASE r > t
  <2>1. r - t \in Nat /\ 0 < r - t /\ r - t < n /\ p - q \in Int
    BY <1>3, <1>5
  <2>2. r - t = (p - q) * n
    BY <1>3
  <2> QED BY <2>1, <2>2, NoMultiple
<1>6. CASE t = r
  BY <1>6 DEF t
<1> QED BY <1>3, <1>4, <1>5, <1>6
==============================================================================
