------------------------------ MODULE Induction ------------------------------
(***************************************************************************)
(* Induction without operator parameters: what is to hold of every number, *)
(* or of every subset of a finite set, is given as the set of those it     *)
(* holds of.  The libraries' theorems on well-founded relations give it,   *)
(* and it gives the existence of recursive functions: over the numbers,    *)
(* and over finite sets, as the folds of the community modules use them.   *)
(***************************************************************************)
EXTENDS Integers, FiniteSetTheorems, WellFoundedInduction, TLAPS

\* Every natural number is in a set that has 0 and every successor.
LEMMA NatSetInduction ==
  ASSUME NEW S, 0 \in S, \A n \in Nat : n \in S => n + 1 \in S
  PROVE  \A n \in Nat : n \in S
<1> DEFINE T == Nat \ S
           R == {ss \in Nat \X Nat : ss[1] < ss[2]}
<1> SUFFICES ASSUME T # {} PROVE FALSE
  OBVIOUS
<1>1. IsWellFoundedOn(R, Nat)
  BY NatLessThanWellFounded DEF OpToRel
<1>2. PICK m \in T : \A y \in T : ~(<<y, m>> \in R)
  <2>1. T \subseteq Nat
    OBVIOUS
  <2> HIDE DEF R, T
  <2> QED
    BY <1>1, <2>1, WFMin
<1>3. m # 0
  OBVIOUS
<1>4. m - 1 \in Nat /\ m - 1 < m /\ (m - 1) + 1 = m
  BY <1>3
<1>5. m - 1 \notin T
  BY <1>2, <1>4
<1> QED
  BY <1>4, <1>5

\* The same, up to a number.
LEMMA IntervalInduction ==
  ASSUME NEW n \in Nat, NEW S, 0 \in S, \A i \in 1 .. n : i - 1 \in S => i \in S
  PROVE  \A i \in 0 .. n : i \in S
<1> DEFINE G == {i \in Nat : i <= n => i \in S}
<1>1. 0 \in G
  OBVIOUS
<1>2. ASSUME NEW i \in Nat, i \in G PROVE i + 1 \in G
  <2>1. i + 1 <= n => i + 1 \in 1 .. n /\ (i + 1) - 1 = i /\ i <= n
    OBVIOUS
  <2> QED
    BY <1>2, <2>1
<1> HIDE DEF G
<1>3. \A i \in Nat : i \in G
  BY <1>1, <1>2, NatSetInduction
<1> QED
  BY <1>3 DEF G

\* What holds of a number up to n if it does of all numbers from there to n.
LEMMA Downwards ==
  ASSUME NEW n \in Nat, NEW S,
         \A i \in 1 .. n : (\A j \in i + 1 .. n : j \in S) => i \in S
  PROVE  \A i \in 1 .. n : i \in S
<1> DEFINE G == {m \in 0 .. n : \A j \in n - m + 1 .. n : j \in S}
<1>1. 0 \in G
  OBVIOUS
<1>2. ASSUME NEW m \in 1 .. n, m - 1 \in G PROVE m \in G
  <2> DEFINE i == n - m + 1
  <2>1. i \in 1 .. n /\ i + 1 = n - (m - 1) + 1 /\ \A j \in i .. n : j = i \/ j \in i + 1 .. n
    OBVIOUS
  <2>2. \A j \in i + 1 .. n : j \in S
    BY <1>2, <2>1
  <2>3. i \in S
    BY <2>1, <2>2
  <2> HIDE DEF i
  <2>4. \A j \in i .. n : j \in S
    BY <2>1, <2>2, <2>3
  <2> QED
    BY <2>4 DEF i
<1> HIDE DEF G
<1>3. n \in G
  BY <1>1, <1>2, IntervalInduction
<1> QED
  BY <1>3 DEF G

\* f is made from its last value on, each from those after it.
IsBackwards(f, g, n) == \A i \in 1 .. n : f[i] = g[<<i, [j \in i + 1 .. n |-> f[j]]>>]

\* The recursive function that is made so exists.
LEMMA Backwards ==
  ASSUME NEW n \in Nat, NEW S, NEW g,
         \A i \in 1 .. n : \A later \in [i + 1 .. n -> S] : g[<<i, later>>] \in S
  PROVE  \E f \in [1 .. n -> S] : IsBackwards(f, g, n)
<1> DEFINE Made(f, m) == \A i \in n - m + 1 .. n : f[i] = g[<<i, [j \in i + 1 .. n |-> f[j]]>>]
           G == {m \in 0 .. n : \E f \in [n - m + 1 .. n -> S] : Made(f, m)}
<1>1. 0 \in G
  <2> DEFINE h == [i \in n - 0 + 1 .. n |-> i]
  <2>1. Made(h, 0) /\ h \in [n - 0 + 1 .. n -> S] /\ 0 \in 0 .. n
    OBVIOUS
  <2> HIDE DEF h, Made
  <2> QED
    BY <2>1
<1>2. ASSUME NEW m \in 1 .. n, m - 1 \in G PROVE m \in G
  <2>1. PICK f \in [n - (m - 1) + 1 .. n -> S] : Made(f, m - 1)
    BY <1>2
  <2> DEFINE i == n - m + 1
  <2>2. /\ i \in 1 .. n /\ i + 1 = n - (m - 1) + 1
        /\ \A j \in i .. n : j = i \/ j \in i + 1 .. n
        /\ \A j \in i + 1 .. n : j \in i .. n /\ j # i /\ j \in 1 .. n
    OBVIOUS
  <2> DEFINE h == [j \in i .. n |-> IF j = i THEN g[<<i, f>>] ELSE f[j]]
  <2> HIDE DEF Made, i
  <2>3. f \in [i + 1 .. n -> S]
    BY <2>1, <2>2
  <2>4. g[<<i, f>>] \in S
    BY <2>2, <2>3
  <2>5. h[i] = g[<<i, f>>] /\ \A j \in i + 1 .. n : h[j] = f[j]
    BY <2>2
  <2>6. h \in [i .. n -> S]
    BY <2>2, <2>3, <2>4
  <2> HIDE DEF h
  <2>7. [j \in i + 1 .. n |-> h[j]] = f
    BY <2>3, <2>5
  <2>8. \A j \in i .. n : h[j] = g[<<j, [l \in j + 1 .. n |-> h[l]]>>]
    <3> TAKE j \in i .. n
    <3>1. CASE j = i
      BY <2>5, <2>7, <3>1
    <3>2. CASE j \in i + 1 .. n
      <4>1. f[j] = g[<<j, [l \in j + 1 .. n |-> f[l]]>>]
        BY <2>1, <2>2, <3>2 DEF Made
      <4>2. \A l \in j + 1 .. n : l \in i + 1 .. n
        BY <2>2, <3>2
      <4>3. [l \in j + 1 .. n |-> f[l]] = [l \in j + 1 .. n |-> h[l]]
        BY <2>5, <4>2
      <4> QED
        BY <2>5, <3>2, <4>1, <4>3
    <3> QED
      BY <2>2, <3>1, <3>2
  <2>9. Made(h, m)
    BY <2>8 DEF Made, i
  <2> QED
    BY <2>6, <2>9 DEF i
<1> HIDE DEF G
<1>3. n \in G
  BY <1>1, <1>2, IntervalInduction
<1>4. PICK f \in [n - n + 1 .. n -> S] : Made(f, n)
  BY <1>3 DEF G
<1>5. n - n + 1 = 1
  OBVIOUS
<1> QED
  BY <1>4, <1>5 DEF IsBackwards

\* The element that the folds of the community modules take next.
Pick(T) == CHOOSE x \in T : TRUE

\* What holds of {}, and of a set if it does of the set without that element,
\* holds of every subset of a finite set.
LEMMA PickInduction ==
  ASSUME NEW S, IsFiniteSet(S), NEW G, {} \in G,
         \A T \in SUBSET S : T # {} /\ T \ {Pick(T)} \in G => T \in G
  PROVE  \A T \in SUBSET S : T \in G
<1> DEFINE B == (SUBSET S) \ G
           R == StrictSubsetOrdering(S)
<1> SUFFICES ASSUME B # {} PROVE FALSE
  OBVIOUS
<1>1. IsWellFoundedOn(R, SUBSET S)
  BY FS_StrictSubsetOrderingWellFounded, FS_FiniteSubsetsOfFinite
<1>2. PICK m \in B : \A y \in B : ~(<<y, m>> \in R)
  <2>1. B \subseteq SUBSET S
    OBVIOUS
  <2> HIDE DEF R, B
  <2> QED
    BY <1>1, <2>1, WFMin
<1>3. m # {} /\ Pick(m) \in m
  BY DEF Pick
<1>4. m \ {Pick(m)} \in SUBSET S /\ m \ {Pick(m)} # m /\ m \ {Pick(m)} \subseteq m
  BY <1>3
<1>5. m \ {Pick(m)} \in G
  BY <1>2, <1>4 DEF StrictSubsetOrdering
<1> QED
  BY <1>3, <1>5

\* g leads from S to S at each of n steps; f records them, from a.
IsStep(g, S, n) == \A x \in S, i \in 1 .. n : g[<<x, i>>] \in S

Steps(f, g, S, a, n) ==
  f \in [0 .. n -> S] /\ f[0] = a /\ \A i \in 1 .. n : f[i] = g[<<f[i - 1], i>>]

\* The recursive function that takes n steps exists.
LEMMA Recursion ==
  ASSUME NEW S, NEW a \in S, NEW n \in Nat, NEW g, IsStep(g, S, n)
  PROVE  \E f : Steps(f, g, S, a, n)
<1> DEFINE G == {m \in 0 .. n : \E f : Steps(f, g, S, a, m)}
<1>1. 0 \in G
  <2> DEFINE f == [i \in 0 .. 0 |-> a]
  <2>1. Steps(f, g, S, a, 0)
    BY DEF Steps
  <2> QED
    BY <2>1
<1>2. ASSUME NEW k \in 1 .. n, k - 1 \in G
      PROVE  k \in G
  <2> DEFINE m == k - 1
  <2>1. PICK f : Steps(f, g, S, a, m)
    BY <1>2
  <2>2. m \in Nat /\ k = m + 1 /\ f[m] \in S
    BY <2>1 DEF Steps
  <2> DEFINE h == [i \in 0 .. k |-> IF i = k THEN g[<<f[m], k>>] ELSE f[i]]
  <2>3. h[k] = g[<<f[m], k>>] /\ h[k] \in S
    BY <2>2 DEF IsStep
  <2>4. \A i \in 0 .. m : i \in 0 .. k /\ h[i] = f[i] /\ h[i] \in S
    BY <2>1, <2>2 DEF Steps
  <2>5. \A i \in 1 .. m : h[i] = g[<<h[i - 1], i>>]
    <3> TAKE i \in 1 .. m
    <3>1. i \in 0 .. m /\ i - 1 \in 0 .. m
      BY <2>2
    <3> HIDE DEF h, m
    <3> QED
      BY <2>1, <2>4, <3>1 DEF Steps
  <2>6. h \in [0 .. k -> S]
    <3>1. \A i \in 0 .. k : i = k \/ i \in 0 .. m
      BY <2>2
    <3>2. \A i \in 0 .. k : h[i] \in S
      BY <2>3, <2>4, <3>1
    <3> QED
      BY <3>2
  <2>7. \A i \in 1 .. k : i = k \/ i \in 1 .. m
    BY <2>2
  <2>8. h[m] = f[m] /\ h[0] = a /\ k - 1 = m
    BY <2>1, <2>2, <2>4 DEF Steps
  <2> HIDE DEF h, m
  <2>9. Steps(h, g, S, a, k)
    BY <2>3, <2>5, <2>6, <2>7, <2>8 DEF Steps
  <2> QED
    BY <2>9
<1> HIDE DEF G
<1>3. \A m \in 0 .. n : m \in G
  BY <1>1, <1>2, IntervalInduction
<1> QED
  BY <1>3 DEF G

\* f records n steps of g from a.
IsTurns(f, g, a, n) == f = [i \in 0 .. n |-> IF i = 0 THEN a ELSE g[<<f[i - 1], i>>]]

\* The same when every step leads from one set to the next.
LEMMA Turns ==
  ASSUME NEW n \in Nat, NEW S, NEW a \in S[0], NEW g,
         \A i \in 1 .. n : \A x \in S[i - 1] : g[<<x, i>>] \in S[i]
  PROVE  \E f : IsTurns(f, g, a, n) /\ \A i \in 0 .. n : f[i] \in S[i]
<1> DEFINE G == {m \in 0 .. n : \E f : IsTurns(f, g, a, m)}
<1>1. 0 \in G
  <2> DEFINE f == [i \in 0 .. 0 |-> a]
  <2>1. IsTurns(f, g, a, 0)
    BY DEF IsTurns
  <2> HIDE DEF f
  <2> QED
    BY <2>1
<1>2. ASSUME NEW m \in 1 .. n, m - 1 \in G PROVE m \in G
  <2> DEFINE k == m - 1
  <2>1. PICK f : IsTurns(f, g, a, k)
    BY <1>2
  <2> DEFINE h == [i \in 0 .. m |-> IF i = m THEN g[<<f[k], m>>] ELSE f[i]]
  <2>2. \A i \in 0 .. m : h[i] = IF i = 0 THEN a ELSE g[<<h[i - 1], i>>]
    <3> TAKE i \in 0 .. m
    <3>1. CASE i = m
      <4>1. k \in 0 .. m /\ k # m /\ i - 1 = k /\ i # 0
        BY <3>1
      <4>2. h[i] = g[<<f[k], m>>] /\ h[i - 1] = f[k]
        BY <3>1, <4>1
      <4> HIDE DEF h
      <4> QED
        BY <3>1, <4>1, <4>2
    <3>2. CASE i \in 0 .. k
      <4>1. i # m /\ (i # 0 => i - 1 \in 0 .. m /\ i - 1 # m)
        BY <3>2
      <4>2. h[i] = f[i] /\ (i # 0 => h[i - 1] = f[i - 1])
        BY <4>1
      <4> HIDE DEF h
      <4> QED
        BY <2>1, <3>2, <4>2 DEF IsTurns
    <3> QED
      BY <3>1, <3>2
  <2>3. h = [i \in 0 .. m |-> h[i]]
    OBVIOUS
  <2> HIDE DEF h
  <2>4. IsTurns(h, g, a, m)
    BY <2>2, <2>3 DEF IsTurns
  <2> QED
    BY <2>4
<1> HIDE DEF G
<1>3. \A m \in 0 .. n : m \in G
  BY <1>1, <1>2, IntervalInduction
<1>4. PICK f : IsTurns(f, g, a, n)
  BY <1>3 DEF G
<1>5. \A i \in 0 .. n : f[i] = IF i = 0 THEN a ELSE g[<<f[i - 1], i>>]
  BY <1>4 DEF IsTurns
<1> DEFINE H == {i \in 0 .. n : f[i] \in S[i]}
<1>6. 0 \in H
  <2>1. 0 \in 0 .. n
    OBVIOUS
  <2>2. f[0] = a
    BY <1>5, <2>1
  <2> QED
    BY <2>1, <2>2
<1>7. ASSUME NEW i \in 1 .. n, i - 1 \in H PROVE i \in H
  <2>1. i \in 0 .. n /\ i # 0
    OBVIOUS
  <2>2. f[i] = g[<<f[i - 1], i>>]
    BY <1>5, <2>1
  <2>3. f[i - 1] \in S[i - 1]
    BY <1>7
  <2> QED
    BY <2>1, <2>2, <2>3
<1> HIDE DEF H
<1>8. \A i \in 0 .. n : i \in H
  BY <1>6, <1>7, IntervalInduction
<1> QED
  BY <1>4, <1>8 DEF H

\* f folds g, whose values are in V, over the subsets of S, from base.
StaysIn(g, S, V) == \A x \in S, v \in V : g[<<x, v>>] \in V

IsFold(f, g, S, V, base) ==
  /\ f \in [SUBSET S -> V]
  /\ \A T \in SUBSET S : f[T] = IF T = {} THEN base ELSE g[<<Pick(T), f[T \ {Pick(T)}]>>]

\* The recursive function that folds exists.
LEMMA FoldRecursion ==
  ASSUME NEW S, IsFiniteSet(S), NEW V, NEW base \in V, NEW g, StaysIn(g, S, V)
  PROVE  \E f : IsFold(f, g, S, V, base)
<1> DEFINE Small(n) == {T \in SUBSET S : Cardinality(T) <= n}
           Folds(f, n) == \A T \in Small(n) :
                            f[T] = IF T = {} THEN base ELSE g[<<Pick(T), f[T \ {Pick(T)}]>>]
           G == {n \in Nat : \E f \in [Small(n) -> V] : Folds(f, n)}
<1>1. \A T \in SUBSET S : IsFiniteSet(T) /\ Cardinality(T) \in Nat
  BY FS_Subset, FS_CardinalityType
<1>2. \A T \in SUBSET S : T # {} =>
        /\ Pick(T) \in S /\ T \ {Pick(T)} \in SUBSET S
        /\ Cardinality(T \ {Pick(T)}) = Cardinality(T) - 1
  <2> TAKE T \in SUBSET S
  <2> HAVE T # {}
  <2>1. Pick(T) \in T
    BY DEF Pick
  <2> QED
    BY <1>1, <2>1, FS_RemoveElement
<1>3. Cardinality({}) = 0
  BY FS_EmptySet
<1>4. 0 \in G
  <2>1. \A T \in Small(0) : T = {}
    BY <1>1, <1>2, FS_EmptySet
  <2> DEFINE f == [T \in Small(0) |-> base]
  <2>2. f \in [Small(0) -> V] /\ Folds(f, 0)
    BY <2>1
  <2> QED
    BY <2>2
<1>5. ASSUME NEW n \in Nat, n \in G
      PROVE  n + 1 \in G
  <2>1. PICK f \in [Small(n) -> V] : Folds(f, n)
    BY <1>5
  <2>2. \A T \in Small(n + 1) : T # {} => Pick(T) \in S /\ T \ {Pick(T)} \in Small(n)
    BY <1>1, <1>2
  <2> DEFINE h == [T \in Small(n + 1) |->
                     IF T = {} THEN base ELSE g[<<Pick(T), f[T \ {Pick(T)}]>>]]
  <2>3. h \in [Small(n + 1) -> V]
    BY <2>2 DEF StaysIn
  <2>4. \A T \in Small(n) : T \in Small(n + 1) /\ h[T] = f[T]
    BY <1>1, <2>1
  <2>5. Folds(h, n + 1)
    <3> SUFFICES ASSUME NEW T \in Small(n + 1)
                 PROVE  h[T] = IF T = {} THEN base ELSE g[<<Pick(T), h[T \ {Pick(T)}]>>]
      OBVIOUS
    <3>1. h[T] = IF T = {} THEN base ELSE g[<<Pick(T), f[T \ {Pick(T)}]>>]
      OBVIOUS
    <3>2. T # {} => h[T \ {Pick(T)}] = f[T \ {Pick(T)}]
      BY <2>2, <2>4
    <3> HIDE DEF h
    <3> QED
      BY <3>1, <3>2
  <2> HIDE DEF h, Folds, Small
  <2> QED
    BY <2>3, <2>5
<1>6. Cardinality(S) \in G
  <2> HIDE DEF G
  <2>1. \A n \in Nat : n \in G
    BY <1>4, <1>5, NatSetInduction
  <2> QED
    BY <1>1, <2>1
<1>7. Small(Cardinality(S)) = SUBSET S
  BY <1>1, FS_Subset
<1> QED
  BY <1>6, <1>7 DEF IsFold
=============================================================================
