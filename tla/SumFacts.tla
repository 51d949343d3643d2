------------------------------ MODULE SumFacts ------------------------------
(***************************************************************************)
(* Sums of the values of a function over a finite set, as SumFunctionOnSet *)
(* of module Functions computes them.                                      *)
(***************************************************************************)
EXTENDS Functions, Integers, FiniteSets, FiniteSetTheorems, WellFoundedInduction, TLAPS

\* Induction over the naturals, for a set of them.
LEMMA NatSetInduction ==
    ASSUME NEW P \in SUBSET Nat, 0 \in P, \A n \in P : n + 1 \in P
    PROVE  P = Nat
  <1> DEFINE R == OpToRel(<, Nat)
  <1>1. \A m, n \in Nat : m < n => <<m, n>> \in R
    BY DEF OpToRel
  <1>2. SUFFICES ASSUME Nat \ P # {} PROVE FALSE
    OBVIOUS
  <1>3. \E x \in Nat \ P : \A y \in Nat \ P : ~(<<y, x>> \in R)
    <2>1. IsWellFoundedOn(R, Nat)
      BY NatLessThanWellFounded
    <2> HIDE DEF R
    <2> QED
      BY <1>2, <2>1, WFMin
  <1>4. PICK x \in Nat \ P : \A y \in Nat \ P : ~(<<y, x>> \in R)
    BY <1>3
  <1> HIDE DEF R
  <1>5. x # 0 /\ x - 1 \in Nat /\ x - 1 < x
    OBVIOUS
  <1>6. x - 1 \in P
    BY <1>1, <1>4, <1>5
  <1> QED
    BY <1>5, <1>6

Pick(s) == CHOOSE x \in s : TRUE

\* The equation by which a sum is computed, for a function iter on the sets D.
Computes(iter, f, D) ==
    iter = [s \in D |-> IF s = {} THEN 0 ELSE f[Pick(s)] + iter[s \ {Pick(s)}]]

LEMMA SumByIteration ==
    ASSUME NEW f, NEW S
    PROVE  SumFunctionOnSet(f, S) = (CHOOSE iter : Computes(iter, f, SUBSET S))[S]
  BY DEF SumFunctionOnSet, FoldFunctionOnSet, MapThenFoldSet, Computes, Pick

LEMMA ComputesAt ==
    ASSUME NEW iter, NEW f, NEW D, Computes(iter, f, D), NEW s \in D
    PROVE  iter[s] = IF s = {} THEN 0 ELSE f[Pick(s)] + iter[s \ {Pick(s)}]
  <1> DEFINE Value(t) == IF t = {} THEN 0 ELSE f[Pick(t)] + iter[t \ {Pick(t)}]
  <1>1. iter = [t \in D |-> Value(t)]
    BY DEF Computes
  <1> HIDE DEF Value
  <1>2. iter[s] = Value(s)
    BY <1>1
  <1> QED
    BY <1>2 DEF Value

\* The equation has a solution: built up from the smaller sets to the larger.
LEMMA IterationExists ==
    ASSUME NEW f, NEW S, IsFiniteSet(S)
    PROVE  \E iter : Computes(iter, f, SUBSET S)
  <1> DEFINE D(n) == {s \in SUBSET S : Cardinality(s) <= n}
             P == {n \in Nat : \E iter : Computes(iter, f, D(n))}
  <1>1. \A s \in SUBSET S : /\ IsFiniteSet(s)
                            /\ Cardinality(s) \in Nat
                            /\ Cardinality(s) <= Cardinality(S)
                            /\ Cardinality(s) = 0 => s = {}
    BY FS_Subset, FS_CardinalityType, FS_EmptySet
  <1>2. \A s \in SUBSET S : s # {} =>
            /\ Pick(s) \in s
            /\ s \ {Pick(s)} \in SUBSET S
            /\ Cardinality(s \ {Pick(s)}) = Cardinality(s) - 1
    BY <1>1, FS_RemoveElement DEF Pick
  <1>3. 0 \in P
    <2>1. Computes([s \in D(0) |-> 0], f, D(0))
      BY <1>1 DEF Computes
    <2> QED
      BY <2>1
  <1>4. ASSUME NEW n \in P PROVE n + 1 \in P
    <2>1. PICK g : Computes(g, f, D(n))
      BY <1>4
    <2> DEFINE Value(s) == IF s = {} THEN 0 ELSE f[Pick(s)] + g[s \ {Pick(s)}]
               h == [s \in D(n + 1) |-> Value(s)]
    <2>2. \A s \in D(n) : s \in D(n + 1) /\ g[s] = Value(s)
      <3>1. \A s \in D(n) : s \in D(n + 1)
        BY <1>1
      <3>2. \A s \in D(n) : g[s] = Value(s)
        <4> HIDE DEF D
        <4> QED
          BY <2>1, ComputesAt
      <3> QED
        BY <3>1, <3>2
    <2>3. \A s \in D(n + 1) : s # {} => h[s \ {Pick(s)}] = g[s \ {Pick(s)}]
      <3>1. \A s \in D(n + 1) : s # {} => s \ {Pick(s)} \in D(n)
        BY <1>1, <1>2
      <3> HIDE DEF Value, D
      <3> QED
        BY <2>2, <3>1
    <2>4. Computes(h, f, D(n + 1))
      <3> HIDE DEF D
      <3> QED
        BY <2>3 DEF Computes
    <2> HIDE DEF h
    <2> QED
      BY <2>4
  <1>5. P = Nat
    <2> HIDE DEF P
    <2>1. P \in SUBSET Nat
      BY DEF P
    <2> QED
      BY <1>3, <1>4, <2>1, NatSetInduction
  <1>6. Cardinality(S) \in Nat /\ D(Cardinality(S)) = SUBSET S
    BY <1>1
  <1>7. \E iter : Computes(iter, f, D(Cardinality(S)))
    BY <1>5, <1>6
  <1> QED
    BY <1>6, <1>7

\* A collection of subsets of a finite set has a smallest one.
LEMMA SmallestSubset ==
    ASSUME NEW S, IsFiniteSet(S), NEW Q \in SUBSET (SUBSET S), Q # {}
    PROVE  \E s \in Q : \A t \in SUBSET s : t # s => t \notin Q
  <1> DEFINE R == StrictSubsetOrdering(S)
  <1>1. IsWellFoundedOn(R, SUBSET S)
    BY FS_StrictSubsetOrderingWellFounded, FS_FiniteSubsetsOfFinite
  <1>2. PICK s \in Q : \A t \in Q : ~(<<t, s>> \in R)
    <2> HIDE DEF R
    <2> QED
      BY <1>1, WFMin
  <1>3. \A t \in SUBSET s : t # s => <<t, s>> \in R
    BY DEF StrictSubsetOrdering
  <1> HIDE DEF R
  <1>4. \A t \in SUBSET s : t # s => t \notin Q
    BY Zenon, <1>2, <1>3
  <1> QED
    BY Zenon, <1>4

\* Two solutions agree where both are defined.
LEMMA IterationUnique ==
    ASSUME NEW f, NEW S, NEW T, NEW g, NEW h, IsFiniteSet(S), T \subseteq S,
           Computes(g, f, SUBSET S), Computes(h, f, SUBSET T)
    PROVE  \A s \in SUBSET T : g[s] = h[s]
  <1> DEFINE Q == {s \in SUBSET T : g[s] # h[s]}
  <1> SUFFICES ASSUME Q # {} PROVE FALSE
    OBVIOUS
  <1>1. IsFiniteSet(T) /\ Q \in SUBSET (SUBSET T)
    BY FS_Subset
  <1>2. PICK s \in Q : \A t \in SUBSET s : t # s => t \notin Q
    <2> HIDE DEF Q
    <2> QED
      BY <1>1, SmallestSubset
  <1>3. /\ g[s] = IF s = {} THEN 0 ELSE f[Pick(s)] + g[s \ {Pick(s)}]
        /\ h[s] = IF s = {} THEN 0 ELSE f[Pick(s)] + h[s \ {Pick(s)}]
    <2>1. s \in SUBSET S /\ s \in SUBSET T
      OBVIOUS
    <2> HIDE DEF Q
    <2> QED
      BY <2>1, ComputesAt
  <1>4. s # {} => Pick(s) \in s
    BY DEF Pick
  <1>5. s # {} => g[s \ {Pick(s)}] = h[s \ {Pick(s)}]
    BY <1>2, <1>4
  <1> QED
    BY <1>2, <1>3, <1>5

\* A solution for the subsets of S gives the sums over all of them.
LEMMA SumOfSubset ==
    ASSUME NEW f, NEW S, NEW T, NEW g, IsFiniteSet(S), T \subseteq S,
           Computes(g, f, SUBSET S)
    PROVE  SumFunctionOnSet(f, T) = g[T]
  <1>1. PICK h : h = CHOOSE iter : Computes(iter, f, SUBSET T)
    OBVIOUS
  <1>2. Computes(h, f, SUBSET T)
    BY <1>1, FS_Subset, IterationExists
  <1>3. SumFunctionOnSet(f, T) = h[T]
    BY <1>1, SumByIteration
  <1>4. \A s \in SUBSET T : g[s] = h[s]
    BY SMTT(20), <1>2, IterationUnique
  <1> QED
    BY <1>3, <1>4

\* So SumFunctionOnSet satisfies the equation it is computed by.
LEMMA SumEquation ==
    ASSUME NEW f, NEW S, IsFiniteSet(S)
    PROVE  SumFunctionOnSet(f, S) =
               IF S = {} THEN 0 ELSE f[Pick(S)] + SumFunctionOnSet(f, S \ {Pick(S)})
  <1>1. PICK g : Computes(g, f, SUBSET S)
    BY IterationExists
  <1>2. SumFunctionOnSet(f, S) = g[S]
    BY <1>1, SumOfSubset
  <1>3. SumFunctionOnSet(f, S \ {Pick(S)}) = g[S \ {Pick(S)}]
    BY <1>1, SumOfSubset
  <1>4. g[S] = IF S = {} THEN 0 ELSE f[Pick(S)] + g[S \ {Pick(S)}]
    BY <1>1, ComputesAt
  <1> QED
    BY <1>2, <1>3, <1>4

LEMMA SumEmpty == \A f : SumFunctionOnSet(f, {}) = 0
  BY FS_EmptySet, SumEquation

LEMMA PickInSet == \A s : s # {} => Pick(s) \in s
  BY DEF Pick

\* A sum of integers is an integer.
LEMMA SumType ==
    ASSUME NEW f, NEW S, IsFiniteSet(S), \A x \in S : f[x] \in Int
    PROVE  SumFunctionOnSet(f, S) \in Int
  <1> DEFINE Q == {s \in SUBSET S : SumFunctionOnSet(f, s) \notin Int}
  <1> SUFFICES ASSUME Q # {} PROVE FALSE
    OBVIOUS
  <1>1. PICK s \in Q : \A t \in SUBSET s : t # s => t \notin Q
    <2>1. Q \in SUBSET (SUBSET S)
      OBVIOUS
    <2> HIDE DEF Q
    <2> QED
      BY <2>1, SmallestSubset
  <1>2. IsFiniteSet(s) /\ (s # {} => Pick(s) \in s)
    BY FS_Subset, PickInSet
  <1>3. s # {} => SumFunctionOnSet(f, s \ {Pick(s)}) \in Int
    BY <1>1, <1>2
  <1> QED
    BY <1>2, <1>3, SumEquation

\* Functions that agree on a set have the same sum over it.
LEMMA SumSame ==
    ASSUME NEW f, NEW g, NEW S, IsFiniteSet(S), \A x \in S : f[x] = g[x]
    PROVE  SumFunctionOnSet(f, S) = SumFunctionOnSet(g, S)
  <1> DEFINE Q == {s \in SUBSET S : SumFunctionOnSet(f, s) # SumFunctionOnSet(g, s)}
  <1> SUFFICES ASSUME Q # {} PROVE FALSE
    OBVIOUS
  <1>1. PICK s \in Q : \A t \in SUBSET s : t # s => t \notin Q
    <2>1. Q \in SUBSET (SUBSET S)
      OBVIOUS
    <2> HIDE DEF Q
    <2> QED
      BY <2>1, SmallestSubset
  <1>2. IsFiniteSet(s) /\ (s # {} => Pick(s) \in s)
    BY FS_Subset, PickInSet
  <1>3. s # {} => SumFunctionOnSet(f, s \ {Pick(s)}) = SumFunctionOnSet(g, s \ {Pick(s)})
    BY <1>1, <1>2
  <1>4. /\ SumFunctionOnSet(f, s) =
               IF s = {} THEN 0 ELSE f[Pick(s)] + SumFunctionOnSet(f, s \ {Pick(s)})
        /\ SumFunctionOnSet(g, s) =
               IF s = {} THEN 0 ELSE g[Pick(s)] + SumFunctionOnSet(g, s \ {Pick(s)})
    BY <1>2, SumEquation
  <1>5. s # {} => f[Pick(s)] = g[Pick(s)]
    BY <1>2
  <1>6. SumFunctionOnSet(f, s) = SumFunctionOnSet(g, s)
    BY <1>3, <1>4, <1>5
  <1> QED
    BY <1>6

\* Zeros add up to zero.
LEMMA SumZero ==
    ASSUME NEW f, NEW S, IsFiniteSet(S), \A x \in S : f[x] = 0
    PROVE  SumFunctionOnSet(f, S) = 0
  <1> DEFINE Q == {s \in SUBSET S : SumFunctionOnSet(f, s) # 0}
  <1> SUFFICES ASSUME Q # {} PROVE FALSE
    OBVIOUS
  <1>1. PICK s \in Q : \A t \in SUBSET s : t # s => t \notin Q
    <2>1. Q \in SUBSET (SUBSET S)
      OBVIOUS
    <2> HIDE DEF Q
    <2> QED
      BY <2>1, SmallestSubset
  <1>2. IsFiniteSet(s) /\ (s # {} => Pick(s) \in s)
    BY FS_Subset, PickInSet
  <1>3. s # {} => f[Pick(s)] = 0 /\ SumFunctionOnSet(f, s \ {Pick(s)}) = 0
    BY <1>1, <1>2
  <1>4. SumFunctionOnSet(f, s) =
            IF s = {} THEN 0 ELSE f[Pick(s)] + SumFunctionOnSet(f, s \ {Pick(s)})
    BY <1>2, SumEquation
  <1>5. SumFunctionOnSet(f, s) = 0
    BY <1>3, <1>4
  <1> QED
    BY <1>5

\* Any element may be the one that is added last.
LEMMA SumRemove ==
    ASSUME NEW f, NEW S, IsFiniteSet(S), \A x \in S : f[x] \in Int, NEW x \in S
    PROVE  SumFunctionOnSet(f, S) = f[x] + SumFunctionOnSet(f, S \ {x})
  <1> DEFINE Sum(s) == SumFunctionOnSet(f, s)
             Q == {s \in SUBSET S : \E y \in s : Sum(s) # f[y] + Sum(s \ {y})}
  <1> SUFFICES ASSUME Q # {} PROVE FALSE
    BY Zenon
  <1>1. PICK s \in Q : \A t \in SUBSET s : t # s => t \notin Q
    <2>1. Q \in SUBSET (SUBSET S)
      OBVIOUS
    <2> HIDE DEF Q
    <2> QED
      BY <2>1, SmallestSubset
  <1>2. PICK y \in s : Sum(s) # f[y] + Sum(s \ {y})
    OBVIOUS
  <1> DEFINE z == Pick(s)
  <1>3. z \in s /\ IsFiniteSet(s) /\ s \subseteq S
    BY PickInSet, FS_Subset
  <1>4. Sum(s) = f[z] + Sum(s \ {z})
    BY <1>3, SumEquation
  <1>5. y # z
    BY <1>2, <1>4
  <1> HIDE DEF z, Sum
  <1> DEFINE rest == s \ {y, z}
  <1>6. Sum(s \ {z}) = f[y] + Sum(rest)
    <2>1. Sum(s \ {z}) = f[y] + Sum((s \ {z}) \ {y})
      BY <1>1, <1>3, <1>5
    <2>2. (s \ {z}) \ {y} = rest
      OBVIOUS
    <2> QED
      BY Zenon, <2>1, <2>2
  <1>7. Sum(s \ {y}) = f[z] + Sum(rest)
    <2>1. Sum(s \ {y}) = f[z] + Sum((s \ {y}) \ {z})
      BY <1>1, <1>3, <1>5
    <2>2. (s \ {y}) \ {z} = rest
      OBVIOUS
    <2> QED
      BY Zenon, <2>1, <2>2
  <1>8. Sum(rest) \in Int
    <2>1. IsFiniteSet(rest) /\ \A v \in rest : f[v] \in Int
      BY <1>3, FS_Subset
    <2> QED
      BY <2>1, SumType DEF Sum
  <1>9. f[y] \in Int /\ f[z] \in Int
    BY <1>3
  <1> HIDE DEF Q, rest
  <1> QED
    BY <1>2, <1>4, <1>6, <1>7, <1>8, <1>9

\* When one value changes, the sum changes by as much.
LEMMA SumChange ==
    ASSUME NEW f, NEW g, NEW S, NEW x \in S, IsFiniteSet(S),
           \A y \in S : f[y] \in Int /\ g[y] \in Int,
           \A y \in S \ {x} : g[y] = f[y]
    PROVE  SumFunctionOnSet(g, S) = SumFunctionOnSet(f, S) + g[x] - f[x]
  <1>1. IsFiniteSet(S \ {x})
    BY FS_Subset
  <1>2. SumFunctionOnSet(g, S \ {x}) = SumFunctionOnSet(f, S \ {x})
    BY <1>1, SumSame
  <1>3. /\ SumFunctionOnSet(f, S) = f[x] + SumFunctionOnSet(f, S \ {x})
        /\ SumFunctionOnSet(g, S) = g[x] + SumFunctionOnSet(g, S \ {x})
    BY SumRemove
  <1>4. SumFunctionOnSet(f, S \ {x}) \in Int
    BY <1>1, SumType
  <1> QED
    BY <1>2, <1>3, <1>4

\* A sum of natural numbers is none smaller than any of them.
LEMMA SumBound ==
    ASSUME NEW f, NEW S, IsFiniteSet(S), \A x \in S : f[x] \in Nat
    PROVE  SumFunctionOnSet(f, S) \in Nat /\ \A x \in S : f[x] <= SumFunctionOnSet(f, S)
  <1> DEFINE Q == {s \in SUBSET S : SumFunctionOnSet(f, s) \notin Nat}
  <1>1. Q = {}
    <2> SUFFICES ASSUME Q # {} PROVE FALSE
      OBVIOUS
    <2>1. PICK s \in Q : \A t \in SUBSET s : t # s => t \notin Q
      <3>1. Q \in SUBSET (SUBSET S)
        OBVIOUS
      <3> HIDE DEF Q
      <3> QED
        BY <3>1, SmallestSubset
    <2>2. IsFiniteSet(s) /\ (s # {} => Pick(s) \in s)
      BY FS_Subset, PickInSet
    <2>3. s # {} => SumFunctionOnSet(f, s \ {Pick(s)}) \in Nat
      BY <2>1, <2>2
    <2>4. SumFunctionOnSet(f, s) =
              IF s = {} THEN 0 ELSE f[Pick(s)] + SumFunctionOnSet(f, s \ {Pick(s)})
      BY <2>2, SumEquation
    <2>5. s # {} => f[Pick(s)] \in Nat
      BY <2>2
    <2>6. SumFunctionOnSet(f, s) \in Nat
      BY <2>3, <2>4, <2>5
    <2> QED
      BY <2>6
  <1>2. ASSUME NEW x \in S PROVE f[x] <= SumFunctionOnSet(f, S)
    <2>1. SumFunctionOnSet(f, S) = f[x] + SumFunctionOnSet(f, S \ {x})
      BY SumRemove
    <2>2. SumFunctionOnSet(f, S \ {x}) \in Nat
      BY <1>1
    <2> QED
      BY <2>1, <2>2
  <1> QED
    BY <1>1, <1>2

\* What is taken from one value and given to another leaves the sum as it was.
LEMMA SumMove ==
    ASSUME NEW f, NEW g, NEW S, NEW x \in S, NEW y \in S, NEW n \in Int,
           IsFiniteSet(S), x # y, \A z \in S : f[z] \in Int,
           g[x] = f[x] - n, g[y] = f[y] + n,
           \A z \in S \ {x, y} : g[z] = f[z]
    PROVE  SumFunctionOnSet(g, S) = SumFunctionOnSet(f, S)
  <1> DEFINE h == [z \in S |-> IF z = x THEN g[x] ELSE f[z]]
  <1>1. /\ \A z \in S : g[z] \in Int /\ h[z] \in Int
        /\ h[x] = g[x] /\ h[y] = f[y]
        /\ \A z \in S \ {x} : h[z] = f[z]
        /\ \A z \in S \ {y} : g[z] = h[z]
    OBVIOUS
  <1> HIDE DEF h
  <1>2. SumFunctionOnSet(h, S) = SumFunctionOnSet(f, S) + h[x] - f[x]
    BY <1>1, SumChange
  <1>3. SumFunctionOnSet(g, S) = SumFunctionOnSet(h, S) + g[y] - h[y]
    <2>1. /\ \A z \in S : h[z] \in Int /\ g[z] \in Int
          /\ \A z \in S \ {y} : g[z] = h[z]
      BY <1>1
    <2> QED
      BY ZenonT(30), <2>1, SumChange
  <1>4. SumFunctionOnSet(f, S) \in Int /\ f[x] \in Int /\ f[y] \in Int
    BY SumType
  <1>5. SumFunctionOnSet(h, S) = SumFunctionOnSet(f, S) - n
    BY <1>1, <1>2, <1>4
  <1> QED
    BY <1>1, <1>3, <1>4, <1>5

=============================================================================
