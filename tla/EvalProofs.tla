------------------------------ MODULE EvalProofs -----------------------------
(***************************************************************************)
(* crates/engine/src/eval.rs for integers of every width, expressions of   *)
(* every depth and rows of every schema: what check_type accepts has a     *)
(* value of the type it was given, or NULL, or fails for a reason that     *)
(* depends on the data; and a WHERE clause, its negation and IS NULL split *)
(* every table in three.                                                   *)
(*                                                                         *)
(* Operators come first, then induction over the structure of expressions  *)
(* and the recursive functions that eval and check_type are, then the two  *)
(* theorems on whole expressions.                                          *)
(***************************************************************************)
EXTENDS Expressions, Induction

-----------------------------------------------------------------------------
(* Operators.                                                              *)

\* checked arithmetic yields an INTEGER or the overflow error.
LEMMA CheckedFits ==
  ASSUME NEW n \in Int
  PROVE  Fits(Checked(n), "integer") \/ Checked(n).t \in DataErrors
BY DEF Checked, Fits, Contents, Val, Null, Error, DataErrors

\* Quotients are integers; they are only asked for when the divisor is not 0.
LEMMA QuotientIsInt ==
  ASSUME NEW m \in Int, NEW n \in Int, n # 0
  PROVE  Quotient(m, n) \in Int
<1>1. Magnitude(n) \in Nat \ {0} /\ Magnitude(m) \in Nat
  BY DEF Magnitude
<1>2. Magnitude(m) \div Magnitude(n) \in Int
  BY <1>1
<1> QED
  BY <1>2 DEF Quotient

\* + - * / on integers yield an INTEGER or one of the two data errors.
LEMMA ArithmeticFits ==
  ASSUME NEW op \in ArithmeticOps, NEW m \in Int, NEW n \in Int
  PROVE  Fits(Arithmetic(op, m, n), "integer") \/ Arithmetic(op, m, n).t \in DataErrors
<1>1. CASE op = "+"
  <2>1. Arithmetic(op, m, n) = Checked(m + n)
    BY <1>1 DEF Arithmetic
  <2> QED  BY <2>1, CheckedFits
<1>2. CASE op = "-"
  <2>1. Arithmetic(op, m, n) = Checked(m - n)
    BY <1>2 DEF Arithmetic
  <2> QED  BY <2>1, CheckedFits
<1>3. CASE op = "*"
  <2>1. Arithmetic(op, m, n) = Checked(m * n)
    BY <1>3 DEF Arithmetic
  <2>2. m * n \in Int
    OBVIOUS
  <2> QED  BY <2>1, <2>2, CheckedFits
<1>4. CASE op = "/" /\ n = 0
  <2>1. Arithmetic(op, m, n) = Error("DivisionByZero")
    BY <1>4 DEF Arithmetic
  <2> QED  BY <2>1 DEF Error, Val, DataErrors
<1>5. CASE op = "/" /\ n # 0
  <2>1. Arithmetic(op, m, n) = Checked(Quotient(m, n))
    BY <1>5 DEF Arithmetic
  <2> QED  BY <2>1, <1>5, QuotientIsInt, CheckedFits
<1> QED
  BY <1>1, <1>2, <1>3, <1>4, <1>5 DEF ArithmeticOps

\* A boolean made by an operator is one.
LEMMA BoolFits ==
  ASSUME NEW b \in BOOLEAN
  PROVE  Fits(Bool(b), "boolean")
BY DEF Bool, Fits, Contents, Val

\* NULL fits every type.
LEMMA NullFits ==
  ASSUME NEW t
  PROVE  Fits(Null, t)
BY DEF Fits

\* What an operand of a type is.
LEMMA Operand ==
  ASSUME NEW v, NEW t \in Types, Fits(v, t), v # Null
  PROVE  /\ t \in ColumnTypes /\ v = Val(t, v.x) /\ v.t = t
         /\ t = "integer" => v.x \in Int
BY IntegerAssumption DEF Fits, Contents, Types, ColumnTypes, Val, Integers64, MinInt

\* The types of NULL and of the booleans.
LEMMA TypeOfNull == Null.t = "null"
BY DEF Null, Val

\* A binary operator that check_type accepts is safe on operands of its types.
THEOREM BinaryIsSound ==
  ASSUME NEW op \in BinaryOps, NEW s \in Types, NEW t \in Types,
         NEW a, NEW b, Fits(a, s), Fits(b, t),
         CheckBinary(op, s, t) \in Types
  PROVE  \/ Fits(Binary(op, a, b), CheckBinary(op, s, t))
         \/ Binary(op, a, b).t \in DataErrors
<1> USE DEF Is
<1>0. "TypeMismatch" \notin Types
  BY DEF Types, ColumnTypes
<1>1. CASE op \in LogicOps
  <2>1. op \notin ArithmeticOps /\ op \notin ComparisonOps
    BY <1>1 DEF LogicOps, ArithmeticOps, ComparisonOps
  <2>2. Is(s, "boolean") /\ Is(t, "boolean") /\ CheckBinary(op, s, t) = "boolean"
    BY <1>0, <1>1, <2>1 DEF CheckBinary
  <2>3. {a.t, b.t} \subseteq {"boolean", "null"}
    BY <2>2, Operand, TypeOfNull
  <2>4. Binary(op, a, b) = Logic(op, a, b)
    BY <1>1, <2>1, <2>3 DEF Binary
  <2>5. Fits(Logic(op, a, b), "boolean")
    BY BoolFits, NullFits DEF Logic
  <2> QED  BY <2>2, <2>4, <2>5
<1>2. CASE op \in ArithmeticOps
  <2>1. op \notin LogicOps /\ op \notin ComparisonOps
    BY <1>2 DEF LogicOps, ArithmeticOps, ComparisonOps
  <2>2. Is(s, "integer") /\ Is(t, "integer") /\ CheckBinary(op, s, t) = "integer"
    BY <1>0, <1>2, <2>1 DEF CheckBinary
  <2>3. CASE Null \in {a, b}
    <3>1. Binary(op, a, b) = Null
      BY <1>2, <2>1, <2>3 DEF Binary
    <3> QED  BY <3>1, NullFits
  <2>4. CASE Null \notin {a, b}
    <3>1. a.t = "integer" /\ b.t = "integer" /\ a.x \in Int /\ b.x \in Int
      BY <2>2, <2>4, Operand DEF ColumnTypes
    <3>2. Binary(op, a, b) = Arithmetic(op, a.x, b.x)
      BY <1>2, <2>1, <2>4, <3>1 DEF Binary
    <3> QED  BY <1>2, <2>2, <3>1, <3>2, ArithmeticFits
  <2> QED  BY <2>3, <2>4
<1>3. CASE op \in ComparisonOps
  <2>1. op \notin LogicOps /\ op \notin ArithmeticOps
    BY <1>3 DEF LogicOps, ArithmeticOps, ComparisonOps
  <2>2. (Is(s, t) \/ Is(t, s)) /\ CheckBinary(op, s, t) = "boolean"
    BY <1>0, <1>3, <2>1 DEF CheckBinary
  <2>3. CASE Null \in {a, b}
    <3>1. Binary(op, a, b) = Null
      BY <1>3, <2>1, <2>3 DEF Binary
    <3> QED  BY <3>1, NullFits
  <2>4. CASE Null \notin {a, b}
    <3>1. a.t = b.t
      BY <2>2, <2>4, Operand DEF ColumnTypes
    <3>2. Binary(op, a, b) = Bool(Compared(op, a.x, b.x))
      BY <1>3, <2>1, <2>4, <3>1 DEF Binary
    <3>3. Fits(Bool(Compared(op, a.x, b.x)), "boolean")
      BY DEF Bool, Fits, Contents, Val
    <3> QED  BY <2>2, <3>2, <3>3
  <2> QED  BY <2>3, <2>4
<1> QED
  BY <1>1, <1>2, <1>3 DEF BinaryOps

\* A unary operator that check_type accepts is safe on an operand of its type.
THEOREM UnaryIsSound ==
  ASSUME NEW op \in UnaryOps, NEW t \in Types, NEW v, Fits(v, t),
         CheckUnary(op, t) \in Types
  PROVE  Fits(Unary(op, v), CheckUnary(op, t)) \/ Unary(op, v).t \in DataErrors
<1> DEFINE want == IF op = "neg" THEN "integer" ELSE "boolean"
<1>1. Is(t, want) /\ CheckUnary(op, t) = want
  BY DEF CheckUnary, Types, ColumnTypes
<1>2. CASE v = Null
  <2>1. Unary(op, v) = Null
    BY <1>2 DEF Unary
  <2> QED  BY <2>1, NullFits
<1>3. CASE v # Null /\ op = "neg"
  <2>1. v.t = "integer" /\ v.x \in Int
    BY <1>1, <1>3, Operand DEF Is, ColumnTypes
  <2>2. Unary(op, v) = Checked(-v.x)
    BY <1>3, <2>1 DEF Unary
  <2> QED  BY <1>1, <1>3, <2>1, <2>2, CheckedFits
<1>4. CASE v # Null /\ op = "NOT"
  <2>1. v.t = "boolean"
    BY <1>1, <1>4, Operand DEF Is, ColumnTypes
  <2>2. Unary(op, v) = Bool(v # Bool(TRUE))
    BY <1>4, <2>1 DEF Unary
  <2> QED  BY <1>1, <1>4, <2>2, BoolFits
<1> QED
  BY <1>2, <1>3, <1>4 DEF UnaryOps

-----------------------------------------------------------------------------
(* Expressions.                                                            *)

\* All of them.
All(L) == Trees(L)[MaxHeight]

IsNesting(f, L, D) == f = [n \in D |-> IF n = 0 THEN L ELSE L \cup Over(f[n - 1])]

\* Expressions nest to the depth of the bound.
LEMMA TreesAre ==
  ASSUME NEW L
  PROVE  IsNesting(Trees(L), L, 0 .. MaxHeight)
<1> DEFINE G == {n \in 0 .. MaxHeight : \E f : IsNesting(f, L, 0 .. n)}
<1>1. 0 \in G
  <2> DEFINE f == [n \in 0 .. 0 |-> L]
  <2>1. IsNesting(f, L, 0 .. 0)
    BY DEF IsNesting
  <2> HIDE DEF f
  <2> QED
    BY <2>1, HeightAssumption
<1>2. ASSUME NEW m \in 1 .. MaxHeight, m - 1 \in G PROVE m \in G
  <2> DEFINE n == m - 1
  <2>1. PICK f : IsNesting(f, L, 0 .. n)
    BY <1>2
  <2> DEFINE h == [i \in 0 .. m |-> IF i = m THEN L \cup Over(f[n]) ELSE f[i]]
  <2>2. \A i \in 0 .. m : h[i] = IF i = 0 THEN L ELSE L \cup Over(h[i - 1])
    <3> TAKE i \in 0 .. m
    <3>1. CASE i = m
      <4>1. n \in 0 .. m /\ n # m /\ i - 1 = n /\ i # 0
        BY <3>1, HeightAssumption
      <4>2. h[i] = L \cup Over(f[n]) /\ h[i - 1] = f[n]
        BY <3>1, <4>1
      <4> QED
        BY <4>1, <4>2
    <3>2. CASE i \in 0 .. n
      <4>1. i # m /\ (i # 0 => i - 1 \in 0 .. m /\ i - 1 # m)
        BY <3>2, HeightAssumption
      <4>2. h[i] = f[i] /\ (i # 0 => h[i - 1] = f[i - 1])
        BY <4>1
      <4> HIDE DEF h
      <4> QED
        BY <2>1, <3>2, <4>2 DEF IsNesting
    <3> QED
      BY <3>1, <3>2, HeightAssumption
  <2>3. h = [i \in 0 .. m |-> h[i]]
    OBVIOUS
  <2> HIDE DEF h
  <2>4. IsNesting(h, L, 0 .. m)
    BY <2>2, <2>3 DEF IsNesting
  <2> QED
    BY <2>4, HeightAssumption
<1> HIDE DEF G
<1>3. \A n \in 0 .. MaxHeight : n \in G
  BY <1>1, <1>2, HeightAssumption, IntervalInduction
<1>4. \E f : IsNesting(f, L, 0 .. MaxHeight)
  <2>1. MaxHeight \in G
    BY <1>3, HeightAssumption
  <2> QED
    BY <2>1 DEF G
<1>5. Trees(L) = CHOOSE f : IsNesting(f, L, 0 .. MaxHeight)
  BY DEF Trees, IsNesting
<1> QED
  BY <1>4, <1>5

\* The expressions an expression is made of.
Kids(x) == IF x.k = "binary" THEN {x.l, x.r}
           ELSE IF x.k \in {"isnull", "unary"} THEN {x.e} ELSE {}

\* An expression is a leaf or one operator over expressions less deep.
LEMMA TreesAt ==
  ASSUME NEW L
  PROVE  /\ Trees(L)[0] = L
         /\ \A n \in 1 .. MaxHeight : Trees(L)[n] = L \cup Over(Trees(L)[n - 1])
<1>1. \A n \in 0 .. MaxHeight : Trees(L)[n] = IF n = 0 THEN L ELSE L \cup Over(Trees(L)[n - 1])
  BY TreesAre DEF IsNesting
<1>2. 0 \in 0 .. MaxHeight /\ \A n \in 1 .. MaxHeight : n \in 0 .. MaxHeight /\ n # 0
  BY HeightAssumption
<1> QED
  BY <1>1, <1>2

\* A leaf has no operands, and the others only have the given ones.
AreLeaves(L) == \A x \in L : x.k \in {"lit", "col"}

LEMMA LeafKids ==
  ASSUME NEW L, AreLeaves(L)
  PROVE  \A x \in L : Kids(x) = {} /\ x.k \in {"lit", "col"}
BY DEF AreLeaves, Kids

LEMMA OverKids ==
  ASSUME NEW E, NEW x \in Over(E)
  PROVE  Kids(x) \subseteq E /\ x.k \in {"isnull", "unary", "binary"}
BY DEF Over, Kids

LEMMA OverGrows ==
  ASSUME NEW E, NEW H, E \subseteq H
  PROVE  Over(E) \subseteq Over(H)
BY DEF Over

\* Deeper nesting adds expressions.
LEMMA TreesGrow ==
  ASSUME NEW L
  PROVE  \A n \in 1 .. MaxHeight : Trees(L)[n - 1] \subseteq Trees(L)[n]
<1> DEFINE G == {n \in 0 .. MaxHeight : n # 0 => Trees(L)[n - 1] \subseteq Trees(L)[n]}
<1>1. 0 \in G
  BY HeightAssumption
<1>2. ASSUME NEW n \in 1 .. MaxHeight, n - 1 \in G PROVE n \in G
  <2>1. CASE n = 1
    BY <2>1, TreesAt, HeightAssumption
  <2>2. CASE n # 1
    <3> DEFINE m == n - 1
    <3>1. m \in 1 .. MaxHeight /\ n = m + 1 /\ n - 1 = m
      BY <2>2, HeightAssumption
    <3>2. Trees(L)[m] = L \cup Over(Trees(L)[m - 1]) /\ Trees(L)[n] = L \cup Over(Trees(L)[m])
      BY <3>1, TreesAt
    <3>3. Trees(L)[m - 1] \subseteq Trees(L)[m]
      BY <1>2, <3>1
    <3> HIDE DEF m
    <3>4. Over(Trees(L)[m - 1]) \subseteq Over(Trees(L)[m])
      BY <3>3, OverGrows
    <3> QED
      BY <3>1, <3>2, <3>4
  <2> QED
    BY <2>1, <2>2
<1> HIDE DEF G
<1>3. \A n \in 0 .. MaxHeight : n \in G
  BY <1>1, <1>2, HeightAssumption, IntervalInduction
<1> QED
  BY <1>3, HeightAssumption DEF G

LEMMA KidsOfTrees ==
  ASSUME NEW L, AreLeaves(L), NEW n \in 1 .. MaxHeight, NEW x \in Trees(L)[n]
  PROVE  Kids(x) \subseteq Trees(L)[n - 1]
<1>1. x \in L \/ x \in Over(Trees(L)[n - 1])
  BY TreesAt
<1> QED
  BY <1>1, LeafKids, OverKids

\* Shallow expressions are among the deep ones.
LEMMA ShallowTrees ==
  ASSUME NEW L
  PROVE  \A n \in 0 .. MaxHeight : Trees(L)[n] \subseteq All(L)
<1> DEFINE H == {n \in 0 .. MaxHeight : Trees(L)[MaxHeight - n] \subseteq All(L)}
<1>1. 0 \in H
  BY HeightAssumption DEF All
<1>2. ASSUME NEW i \in 1 .. MaxHeight, i - 1 \in H PROVE i \in H
  <2> DEFINE m == MaxHeight - i
             k == MaxHeight - (i - 1)
  <2>1. k \in 1 .. MaxHeight /\ m = k - 1 /\ i \in 0 .. MaxHeight
    BY HeightAssumption
  <2>2. Trees(L)[k] \subseteq All(L)
    BY <1>2
  <2> HIDE DEF m, k
  <2>3. Trees(L)[m] \subseteq All(L)
    BY <2>1, <2>2, TreesGrow
  <2> QED
    BY <2>1, <2>3 DEF m
<1> HIDE DEF H
<1>3. \A i \in 0 .. MaxHeight : i \in H
  BY <1>1, <1>2, HeightAssumption, IntervalInduction
<1> TAKE n \in 0 .. MaxHeight
<1> DEFINE m == MaxHeight - n
<1>4. m \in 0 .. MaxHeight /\ MaxHeight - m = n
  BY HeightAssumption
<1> HIDE DEF m
<1> QED
  BY <1>3, <1>4 DEF H

\* The operands of an expression are expressions.
LEMMA KidsAreTrees ==
  ASSUME NEW L, AreLeaves(L), NEW x \in All(L)
  PROVE  /\ Kids(x) \subseteq All(L)
         /\ x \in L \/ x \in Over(All(L))
<1>1. CASE MaxHeight = 0
  <2>1. x \in L
    BY <1>1, TreesAt DEF All
  <2> QED
    BY <2>1, LeafKids
<1>2. CASE MaxHeight # 0
  <2>1. MaxHeight \in 1 .. MaxHeight /\ MaxHeight - 1 \in 0 .. MaxHeight
    BY <1>2, HeightAssumption
  <2>2. Trees(L)[MaxHeight - 1] \subseteq All(L) /\ x \in Trees(L)[MaxHeight]
    BY <2>1, ShallowTrees DEF All
  <2>3. x \in L \/ x \in Over(Trees(L)[MaxHeight - 1])
    BY <2>1, <2>2, TreesAt
  <2> QED
    BY <2>1, <2>2, <2>3, KidsOfTrees, OverGrows
<1> QED
  BY <1>1, <1>2

\* What holds of every expression when it holds of its operands holds of all.
LEMMA TreeInduction ==
  ASSUME NEW L, AreLeaves(L), NEW S, \A x \in All(L) : Kids(x) \subseteq S => x \in S
  PROVE  All(L) \subseteq S
<1> DEFINE G == {n \in 0 .. MaxHeight : Trees(L)[n] \subseteq S}
<1>0. \A n \in 0 .. MaxHeight : Trees(L)[n] \subseteq All(L)
  BY ShallowTrees
<1>1. 0 \in G
  <2>1. L \subseteq S
    <3> SUFFICES ASSUME NEW x \in L PROVE x \in S
      OBVIOUS
    <3>1. x \in All(L) /\ Kids(x) = {}
      BY <1>0, TreesAt, LeafKids, HeightAssumption
    <3> QED
      BY <3>1
  <2> QED
    BY <2>1, TreesAt, HeightAssumption
<1>2. ASSUME NEW n \in 1 .. MaxHeight, n - 1 \in G PROVE n \in G
  <2>1. n \in 0 .. MaxHeight /\ Trees(L)[n - 1] \subseteq S /\ Trees(L)[n] \subseteq All(L)
    BY <1>0, <1>2, HeightAssumption
  <2>2. ASSUME NEW x \in Trees(L)[n] PROVE x \in S
    BY <2>1, <2>2, KidsOfTrees
  <2> QED
    BY <2>1, <2>2
<1> HIDE DEF G
<1>3. \A n \in 0 .. MaxHeight : n \in G
  BY <1>1, <1>2, HeightAssumption, IntervalInduction
<1>4. MaxHeight \in G
  BY <1>3, HeightAssumption
<1> QED
  BY <1>4 DEF G, All

-----------------------------------------------------------------------------
(* Recursive functions on expressions.                                     *)

\* What f gives for the operands of x, d where there is none.
Fst(f, x, d) == IF x.k = "binary" THEN f[x.l]
                ELSE IF x.k \in {"isnull", "unary"} THEN f[x.e] ELSE d
Snd(f, x, d) == IF x.k = "binary" THEN f[x.r] ELSE d

\* g says what to make of an expression, given what was made of its operands.
Makes(g, V, d, E) == d \in V /\ \A x \in E, v, w \in V : g[<<x, v, w>>] \in V

IsMadeBy(f, g, V, d, E) ==
  f \in [E -> V] /\ \A x \in E : f[x] = g[<<x, Fst(f, x, d), Snd(f, x, d)>>]

\* The recursive function exists.
LEMMA TreeRecursion ==
  ASSUME NEW L, AreLeaves(L), NEW V, NEW d, NEW g, Makes(g, V, d, All(L))
  PROVE  \E f : IsMadeBy(f, g, V, d, All(L))
<1> DEFINE G == {n \in 0 .. MaxHeight : \E f : IsMadeBy(f, g, V, d, Trees(L)[n])}
<1>0. \A n \in 0 .. MaxHeight : Trees(L)[n] \subseteq All(L)
  BY ShallowTrees
<1>1. 0 \in G
  <2> DEFINE f == [x \in L |-> g[<<x, d, d>>]]
  <2>1. \A x \in L : Fst(f, x, d) = d /\ Snd(f, x, d) = d /\ x \in All(L)
    <3> TAKE x \in L
    <3>1. x.k \in {"lit", "col"} /\ x \in All(L)
      BY <1>0, TreesAt, LeafKids, HeightAssumption
    <3> QED
      BY <3>1 DEF Fst, Snd
  <2>2. f \in [L -> V]
    BY <2>1 DEF Makes
  <2>3. \A x \in L : f[x] = g[<<x, d, d>>]
    OBVIOUS
  <2> HIDE DEF f
  <2>4. IsMadeBy(f, g, V, d, L)
    BY <2>1, <2>2, <2>3 DEF IsMadeBy
  <2> QED
    BY <2>4, TreesAt, HeightAssumption
<1>2. ASSUME NEW i \in 1 .. MaxHeight, i - 1 \in G PROVE i \in G
  <2> DEFINE E == Trees(L)[i - 1]
             H == Trees(L)[i]
  <2>2. PICK f : IsMadeBy(f, g, V, d, E)
    BY <1>2
  <2>3. E \subseteq H /\ H \subseteq All(L) /\ \A x \in H : Kids(x) \subseteq E
    BY <1>0, TreesGrow, KidsOfTrees, HeightAssumption
  <2> HIDE DEF E, H
  <2> DEFINE h == [x \in H |-> g[<<x, Fst(f, x, d), Snd(f, x, d)>>]]
  <2>4. \A x \in E : h[x] = f[x]
    BY <2>2, <2>3 DEF IsMadeBy
  <2>5. \A x \in H : Fst(f, x, d) \in V /\ Snd(f, x, d) \in V
    <3> TAKE x \in H
    <3>1. Kids(x) \subseteq E
      BY <2>3
    <3> QED
      BY <2>2, <3>1 DEF Kids, Fst, Snd, IsMadeBy, Makes
  <2>6. h \in [H -> V]
    BY <2>3, <2>5 DEF Makes
  <2>7. \A x \in H : h[x] = g[<<x, Fst(f, x, d), Snd(f, x, d)>>]
    OBVIOUS
  <2> HIDE DEF h
  <2>8. \A x \in H : Fst(h, x, d) = Fst(f, x, d) /\ Snd(h, x, d) = Snd(f, x, d)
    <3> TAKE x \in H
    <3>1. Kids(x) \subseteq E
      BY <2>3
    <3> QED
      BY <2>4, <3>1 DEF Kids, Fst, Snd
  <2>9. IsMadeBy(h, g, V, d, H)
    BY <2>6, <2>7, <2>8 DEF IsMadeBy
  <2> QED
    BY <2>9, HeightAssumption DEF H
<1> HIDE DEF G
<1>3. \A i \in 0 .. MaxHeight : i \in G
  BY <1>1, <1>2, HeightAssumption, IntervalInduction
<1>4. MaxHeight \in G
  BY <1>3, HeightAssumption
<1> QED
  BY <1>4 DEF G, All

\* More leaves make more expressions.
LEMMA TreesOfMore ==
  ASSUME NEW L, NEW M, L \subseteq M
  PROVE  \A n \in 0 .. MaxHeight : Trees(L)[n] \subseteq Trees(M)[n]
<1> DEFINE G == {n \in 0 .. MaxHeight : Trees(L)[n] \subseteq Trees(M)[n]}
<1>1. 0 \in G
  BY TreesAt, HeightAssumption
<1>2. ASSUME NEW n \in 1 .. MaxHeight, n - 1 \in G PROVE n \in G
  <2>1. n \in 0 .. MaxHeight /\ Trees(L)[n - 1] \subseteq Trees(M)[n - 1]
    BY <1>2, HeightAssumption
  <2>2. Trees(L)[n] = L \cup Over(Trees(L)[n - 1]) /\ Trees(M)[n] = M \cup Over(Trees(M)[n - 1])
    BY TreesAt
  <2> QED
    BY <2>1, <2>2, OverGrows
<1> HIDE DEF G
<1>3. \A n \in 0 .. MaxHeight : n \in G
  BY <1>1, <1>2, HeightAssumption, IntervalInduction
<1> QED
  BY <1>3 DEF G

-----------------------------------------------------------------------------
(* The same of the expressions of Eval.                                    *)

LEMMA ExprsAre == Exprs = All(Leaves) /\ AreLeaves(Leaves)
BY DEF Exprs, Nested, All, AreLeaves, Leaves

\* The operands of an expression are expressions.
LEMMA KidsAreExprs ==
  ASSUME NEW x \in Exprs
  PROVE  /\ Kids(x) \subseteq Exprs
         /\ x \in Leaves \/ x \in Over(Exprs)
BY ExprsAre, KidsAreTrees

\* What holds of every expression when it holds of its operands holds of all.
LEMMA ExprInduction ==
  ASSUME NEW S, \A x \in Exprs : Kids(x) \subseteq S => x \in S
  PROVE  Exprs \subseteq S
BY ExprsAre, TreeInduction

\* A recursive function on all of them exists.
LEMMA ExprRecursion ==
  ASSUME NEW V, NEW d, NEW g, Makes(g, V, d, Exprs)
  PROVE  \E f : IsMadeBy(f, g, V, d, Exprs)
BY ExprsAre, TreeRecursion

-----------------------------------------------------------------------------
(* Evaluation.                                                             *)

\* What evaluation may give.
EvalErrors == DataErrors \cup {"UnknownColumn", "TypeMismatch"}
Values     == {v \in [t : Types, x : Int] : Fits(v, v.t)}
Results    == Values \cup {Error(e) : e \in EvalErrors}

LEMMA FitsIsValue ==
  ASSUME NEW v, NEW t \in Types, Fits(v, t)
  PROVE  v \in Values
<1>1. CASE v = Null
  BY <1>1 DEF Values, Null, Val, Types, Fits
<1>2. CASE v # Null
  <2>1. v = Val(t, v.x) /\ v.t = t /\ v.x \in Int
    BY <1>2, IntegerAssumption DEF Fits, Contents, Val, Integers64, MinInt
  <2> QED
    BY <2>1 DEF Values, Val
<1> QED
  BY <1>1, <1>2

\* Errors are no values.
LEMMA ResultKinds ==
  /\ \A v \in Values : IsValue(v) /\ v.t \in Types /\ Fits(v, v.t)
  /\ \A v \in Results : IsValue(v) => v \in Values
  /\ \A v \in Results : ~IsValue(v) => v.t \in EvalErrors
  /\ \A e \in EvalErrors : Error(e).t = e /\ e \notin Types /\ Error(e) \in Results
BY DEF IsValue, Values, Results, Error, Val, EvalErrors, DataErrors, Types, ColumnTypes

LEMMA FitsResult ==
  ASSUME NEW v, NEW t \in Types, Fits(v, t)
  PROVE  v \in Results
BY FitsIsValue DEF Results

LEMMA DataErrorResult ==
  ASSUME NEW n \in Int
  PROVE  Checked(n) \in Results
BY DEF Checked, Results, Values, Val, Error, EvalErrors, DataErrors, Fits, Contents, Types, ColumnTypes

LEMMA BoolResult == \A b : Bool(b) \in Results /\ Fits(Bool(b), "boolean")
BY DEF Bool, Results, Values, Val, Fits, Contents, Types, ColumnTypes

LEMMA NullResult == Null \in Results /\ Error("TypeMismatch") \in Results
                    /\ Error("UnknownColumn") \in Results /\ Error("DivisionByZero") \in Results
BY DEF Null, Results, Values, Val, Fits, Contents, Types, ColumnTypes, EvalErrors, DataErrors, Error

\* The operators give values or errors, whatever they are given.
LEMMA UnaryResult ==
  ASSUME NEW op \in UnaryOps, NEW v \in Values
  PROVE  Unary(op, v) \in Results
<1>1. v.x \in Int
  BY DEF Values
<1>2. -v.x \in Int
  BY <1>1
<1> QED
  BY <1>2, DataErrorResult, BoolResult, NullResult DEF Unary

LEMMA ArithmeticResult ==
  ASSUME NEW op \in ArithmeticOps, NEW m \in Int, NEW n \in Int
  PROVE  Arithmetic(op, m, n) \in Results
<1>1. CASE op = "+"
  <2>1. Arithmetic(op, m, n) = Checked(m + n)
    BY <1>1 DEF Arithmetic
  <2> QED  BY <2>1, DataErrorResult
<1>2. CASE op = "-"
  <2>1. Arithmetic(op, m, n) = Checked(m - n)
    BY <1>2 DEF Arithmetic
  <2> QED  BY <2>1, DataErrorResult
<1>3. CASE op = "*"
  <2>1. Arithmetic(op, m, n) = Checked(m * n)
    BY <1>3 DEF Arithmetic
  <2>2. m * n \in Int
    OBVIOUS
  <2> QED  BY <2>1, <2>2, DataErrorResult
<1>4. CASE op = "/" /\ n = 0
  <2>1. Arithmetic(op, m, n) = Error("DivisionByZero")
    BY <1>4 DEF Arithmetic
  <2> QED  BY <2>1, NullResult
<1>5. CASE op = "/" /\ n # 0
  <2>1. Arithmetic(op, m, n) = Checked(Quotient(m, n))
    BY <1>5 DEF Arithmetic
  <2> QED  BY <2>1, <1>5, QuotientIsInt, DataErrorResult
<1> QED
  BY <1>1, <1>2, <1>3, <1>4, <1>5 DEF ArithmeticOps

LEMMA BinaryResult ==
  ASSUME NEW op \in BinaryOps, NEW a \in Values, NEW b \in Values
  PROVE  Binary(op, a, b) \in Results
<1>1. a.x \in Int /\ b.x \in Int
  BY DEF Values
<1>2. Logic(op, a, b) \in Results
  BY BoolResult, NullResult DEF Logic
<1>3. op \in ArithmeticOps => Arithmetic(op, a.x, b.x) \in Results
  BY <1>1, ArithmeticResult
<1> QED
  BY <1>2, <1>3, BoolResult, NullResult DEF Binary

\* A column of the schema has a value in the row.
LEMMA PositionIs ==
  ASSUME NEW schema, NEW name, schema.columns \in Seq([name : STRING, ty : ColumnTypes, nullable : BOOLEAN])
  PROVE  Position(schema, name) = 0 \/
           /\ Position(schema, name) \in DOMAIN schema.columns
           /\ schema.columns[Position(schema, name)].name = name
BY DEF Position

LEMMA ColumnTyped ==
  ASSUME NEW schema, schema.columns \in Seq([name : STRING, ty : ColumnTypes, nullable : BOOLEAN])
  PROVE  \A i \in DOMAIN schema.columns :
           schema.columns[i].ty \in ColumnTypes /\ schema.columns[i].ty \in Types
<1> DEFINE cs == schema.columns
           C == [name : STRING, ty : ColumnTypes, nullable : BOOLEAN]
<1>1. cs \in Seq(C) /\ \A c \in C : c.ty \in ColumnTypes
  OBVIOUS
<1> HIDE DEF cs, C
<1>2. \A i \in DOMAIN cs : cs[i] \in C
  BY <1>1
<1>3. \A i \in DOMAIN cs : cs[i].ty \in ColumnTypes
  BY <1>1, <1>2
<1> QED
  BY <1>3 DEF cs, Types

LEMMA ExprShape ==
  ASSUME NEW x \in Exprs
  PROVE  \/ x.k = "lit" /\ x = Lit(x.v) /\ x.v \in Literals
         \/ x.k = "col" /\ x = Col(x.name) /\ x.name \in STRING
         \/ x.k = "isnull" /\ x = IsNull(x.e, x.negated) /\ x.e \in Exprs /\ x.negated \in BOOLEAN
         \/ x.k = "unary" /\ x = UnaryExpr(x.op, x.e) /\ x.op \in UnaryOps /\ x.e \in Exprs
         \/ x.k = "binary" /\ x = BinaryExpr(x.l, x.op, x.r) /\ x.op \in BinaryOps
            /\ x.l \in Exprs /\ x.r \in Exprs
<1>1. CASE x \in Leaves
  BY <1>1 DEF Leaves, Lit, Col
<1>2. CASE x \in Over(Exprs)
  BY <1>2 DEF Over, IsNull, UnaryExpr, BinaryExpr
<1> QED
  BY <1>1, <1>2, KidsAreExprs

\* A literal is a value of its own type.
LEMMA LiteralsAreValues ==
  ASSUME NEW v \in Literals PROVE v \in Values /\ v.t \in Types /\ Fits(v, v.t)
<1>1. v.t \in Types /\ Fits(v, v.t)
  BY DEF Literals, Null, Val, Fits, Contents, Types, ColumnTypes
<1> QED
  BY <1>1, FitsIsValue

\* What eval makes of an expression when its operands gave results.
LEMMA EvaluatedResult ==
  ASSUME NEW schema, NEW row, RowOf(schema, row), NEW x \in Exprs, NEW f,
         \A y \in Kids(x) : f[y] \in Results
  PROVE  Evaluated(x, schema, row, f) \in Results
<1>1. CASE x.k = "lit"
  BY <1>1, ExprShape, LiteralsAreValues DEF Evaluated, Results
<1>2. CASE x.k = "col"
  <2> DEFINE i == Position(schema, x.name)
  <2>1. CASE i = 0 \/ row = NoRow
    BY <1>2, <2>1, NullResult DEF Evaluated
  <2>2. CASE i # 0 /\ row # NoRow
    <3>1. i \in DOMAIN schema.columns /\ schema.columns[i].ty \in Types
      BY <2>2, PositionIs, ColumnTyped DEF RowOf
    <3>2. row[i] \in Results
      BY <3>1, FitsResult DEF RowOf
    <3> QED
      BY <1>2, <2>2, <3>2 DEF Evaluated
  <2> QED
    BY <2>1, <2>2
<1>3. CASE x.k = "isnull"
  BY <1>3, BoolResult DEF Evaluated, Kids
<1>4. CASE x.k = "unary"
  BY <1>4, ExprShape, ResultKinds, UnaryResult DEF Evaluated, Kids
<1>5. CASE x.k = "binary"
  BY <1>5, ExprShape, ResultKinds, BinaryResult DEF Evaluated, Kids
<1> QED
  BY <1>1, <1>2, <1>3, <1>4, <1>5, ExprShape

\* f is what a recursive function gives.
IsEval(f, schema, row) ==
  /\ f \in [Exprs -> Results]
  /\ \A x \in Exprs : f[x] = Evaluated(x, schema, row, f) /\ EvalIn(x, schema, row) = f[x]

\* The value of an expression, by its operands.
LEMMA EvalEquation ==
  ASSUME NEW schema, NEW row, RowOf(schema, row)
  PROVE  \E f : IsEval(f, schema, row)
<1> DEFINE With(x, v, w) ==
             Evaluated(x, schema, row, [y \in Kids(x) |-> IF x.k = "binary" /\ y # x.l THEN w ELSE v])
           g == [p \in Exprs \X Results \X Results |-> With(p[1], p[2], p[3])]
           Solves(f) == f = [x \in Exprs |-> Evaluated(x, schema, row, f)]
           value == CHOOSE f : Solves(f)
<1>1. Null \in Results
  BY NullResult
<1>2. ASSUME NEW x \in Exprs, NEW v \in Results, NEW w \in Results
      PROVE  g[<<x, v, w>>] = With(x, v, w) /\ g[<<x, v, w>>] \in Results
  <2>1. With(x, v, w) \in Results
    BY EvaluatedResult
  <2> HIDE DEF With
  <2> QED
    BY <2>1
<1>3. Makes(g, Results, Null, Exprs)
  BY <1>1, <1>2 DEF Makes
<1> HIDE DEF g
<1>4. PICK f : IsMadeBy(f, g, Results, Null, Exprs)
  BY <1>3, ExprRecursion
<1>5. ASSUME NEW x \in Exprs PROVE f[x] = Evaluated(x, schema, row, f)
  <2>1. Kids(x) \subseteq Exprs
    BY KidsAreExprs
  <2> DEFINE v == Fst(f, x, Null)
             w == Snd(f, x, Null)
  <2>2. v \in Results /\ w \in Results
    BY <1>1, <1>4, <2>1 DEF IsMadeBy, Fst, Snd, Kids
  <2>3. f[x] = With(x, v, w)
    BY <1>2, <1>4, <2>2 DEF IsMadeBy
  <2>4. With(x, v, w) = Evaluated(x, schema, row, f)
    BY ExprShape DEF Evaluated, Fst, Snd, Kids
  <2> QED
    BY <2>3, <2>4
<1>6. \A x \in Exprs : EvalIn(x, schema, row) = value[x]
  BY DEF EvalIn
<1> HIDE DEF With
<1>7. Solves(f)
  BY <1>4, <1>5 DEF IsMadeBy
<1>8. Solves(value)
  BY <1>7
<1> HIDE DEF value
<1>9. \A x \in Exprs : value[x] = Evaluated(x, schema, row, value)
  BY <1>8
<1>10. Exprs \subseteq {x \in Exprs : value[x] \in Results}
  <2> DEFINE S == {x \in Exprs : value[x] \in Results}
  <2>1. ASSUME NEW x \in Exprs, Kids(x) \subseteq S PROVE x \in S
    BY <1>9, <2>1, EvaluatedResult
  <2> HIDE DEF S
  <2> QED
    BY <2>1, ExprInduction DEF S
<1>11. value \in [Exprs -> Results]
  BY <1>8, <1>10
<1> QED
  BY <1>6, <1>9, <1>11 DEF IsEval

-----------------------------------------------------------------------------
(* Static types.                                                           *)

\* What check_type may give.
TypeVerdicts == Types \cup {"UnknownColumn", "TypeMismatch"}

LEMMA TypedVerdict ==
  ASSUME NEW schema,
         schema.columns \in Seq([name : STRING, ty : ColumnTypes, nullable : BOOLEAN]),
         NEW x \in Exprs, NEW f, \A y \in Kids(x) : f[y] \in TypeVerdicts
  PROVE  Typed(x, schema, f) \in TypeVerdicts
<1>1. CASE x.k = "lit"
  <2>1. x.v.t \in Types
    BY <1>1, ExprShape, LiteralsAreValues
  <2> QED
    BY <1>1, <2>1 DEF Typed, TypeVerdicts
<1>2. CASE x.k = "col"
  BY <1>2, PositionIs, ColumnTyped DEF Typed, TypeVerdicts
<1>3. CASE x.k = "isnull"
  BY <1>3 DEF Typed, Kids, TypeVerdicts, Types, ColumnTypes
<1>4. CASE x.k = "unary"
  <2>1. \A t : CheckUnary(x.op, t) \in TypeVerdicts
    BY DEF CheckUnary, TypeVerdicts, Types, ColumnTypes
  <2> QED
    BY <1>4, <2>1 DEF Typed, Kids
<1>5. CASE x.k = "binary"
  <2>1. \A t, u : CheckBinary(x.op, t, u) \in TypeVerdicts
    BY DEF CheckBinary, TypeVerdicts, Types, ColumnTypes
  <2> QED
    BY <1>5, <2>1 DEF Typed, Kids
<1> QED
  BY <1>1, <1>2, <1>3, <1>4, <1>5, ExprShape

IsTyping(f, schema) ==
  /\ f \in [Exprs -> TypeVerdicts]
  /\ \A x \in Exprs : f[x] = Typed(x, schema, f) /\ CheckType(x, schema) = f[x]

\* The type of an expression, by its operands.
LEMMA TypeEquation ==
  ASSUME NEW schema,
         schema.columns \in Seq([name : STRING, ty : ColumnTypes, nullable : BOOLEAN])
  PROVE  \E f : IsTyping(f, schema)
<1> DEFINE With(x, v, w) ==
             Typed(x, schema, [y \in Kids(x) |-> IF x.k = "binary" /\ y # x.l THEN w ELSE v])
           g == [p \in Exprs \X TypeVerdicts \X TypeVerdicts |-> With(p[1], p[2], p[3])]
           Solves(f) == f = [x \in Exprs |-> Typed(x, schema, f)]
           type == CHOOSE f : Solves(f)
<1>1. "null" \in TypeVerdicts
  BY DEF TypeVerdicts, Types
<1>2. ASSUME NEW x \in Exprs, NEW v \in TypeVerdicts, NEW w \in TypeVerdicts
      PROVE  g[<<x, v, w>>] = With(x, v, w) /\ g[<<x, v, w>>] \in TypeVerdicts
  <2>1. With(x, v, w) \in TypeVerdicts
    BY TypedVerdict
  <2> HIDE DEF With
  <2> QED
    BY <2>1
<1>3. Makes(g, TypeVerdicts, "null", Exprs)
  BY <1>1, <1>2 DEF Makes
<1> HIDE DEF g
<1>4. PICK f : IsMadeBy(f, g, TypeVerdicts, "null", Exprs)
  BY <1>3, ExprRecursion
<1>5. ASSUME NEW x \in Exprs PROVE f[x] = Typed(x, schema, f)
  <2>1. Kids(x) \subseteq Exprs
    BY KidsAreExprs
  <2> DEFINE v == Fst(f, x, "null")
             w == Snd(f, x, "null")
  <2>2. v \in TypeVerdicts /\ w \in TypeVerdicts
    BY <1>1, <1>4, <2>1 DEF IsMadeBy, Fst, Snd, Kids
  <2>3. f[x] = With(x, v, w)
    BY <1>2, <1>4, <2>2 DEF IsMadeBy
  <2>4. With(x, v, w) = Typed(x, schema, f)
    BY ExprShape DEF Typed, Fst, Snd, Kids
  <2> QED
    BY <2>3, <2>4
<1>6. \A x \in Exprs : CheckType(x, schema) = type[x]
  BY DEF CheckType
<1> HIDE DEF With
<1>7. Solves(f)
  BY <1>4, <1>5 DEF IsMadeBy
<1>8. Solves(type)
  BY <1>7
<1> HIDE DEF type
<1>9. \A x \in Exprs : type[x] = Typed(x, schema, type)
  BY <1>8
<1>10. Exprs \subseteq {x \in Exprs : type[x] \in TypeVerdicts}
  <2> DEFINE S == {x \in Exprs : type[x] \in TypeVerdicts}
  <2>1. ASSUME NEW x \in Exprs, Kids(x) \subseteq S PROVE x \in S
    BY <1>9, <2>1, TypedVerdict
  <2> HIDE DEF S
  <2> QED
    BY <2>1, ExprInduction DEF S
<1>11. type \in [Exprs -> TypeVerdicts]
  BY <1>8, <1>10
<1> QED
  BY <1>6, <1>9, <1>11 DEF IsTyping

-----------------------------------------------------------------------------
(* Soundness.                                                              *)

\* v is what an expression of type t may give.
Sound(v, t) == t \in Types => Fits(v, t) \/ v.t \in DataErrors

LEMMA DataErrorsAreErrors ==
  ASSUME NEW v, v.t \in DataErrors PROVE ~IsValue(v)
BY DEF DataErrors, IsValue, Types, ColumnTypes

LEMMA FitsMeansValue ==
  ASSUME NEW v, NEW t \in Types, Fits(v, t) PROVE IsValue(v)
BY FitsIsValue, ResultKinds

LEMMA EvaluatedIsSound ==
  ASSUME NEW schema, NEW row, RowOf(schema, row), NEW x \in Exprs, NEW value, NEW type,
         \A y \in Kids(x) : Sound(value[y], type[y]) /\ type[y] \in TypeVerdicts
  PROVE  Sound(Evaluated(x, schema, row, value), Typed(x, schema, type))
<1> SUFFICES ASSUME Typed(x, schema, type) \in Types
             PROVE  \/ Fits(Evaluated(x, schema, row, value), Typed(x, schema, type))
                    \/ Evaluated(x, schema, row, value).t \in DataErrors
  BY DEF Sound
<1>1. CASE x.k = "lit"
  BY <1>1, ExprShape, LiteralsAreValues DEF Evaluated, Typed
<1>2. CASE x.k = "col"
  <2> DEFINE i == Position(schema, x.name)
  <2>1. i # 0
    BY <1>2 DEF Typed, Types, ColumnTypes
  <2>2. i \in DOMAIN schema.columns /\ Typed(x, schema, type) = schema.columns[i].ty
    BY <1>2, <2>1, PositionIs DEF RowOf, Typed
  <2>3. row # NoRow
    BY <2>2 DEF RowOf, NoRow
  <2>4. Evaluated(x, schema, row, value) = row[i]
    BY <1>2, <2>1, <2>3 DEF Evaluated
  <2> QED
    BY <2>2, <2>4 DEF RowOf
<1>3. CASE x.k = "isnull"
  <2>1. x.e \in Kids(x)
    BY <1>3 DEF Kids
  <2>2. type[x.e] \in Types /\ Typed(x, schema, type) = "boolean"
    BY <1>3 DEF Typed
  <2>3. CASE Fits(value[x.e], type[x.e])
    BY <1>3, <2>2, <2>3, FitsMeansValue, BoolResult DEF Evaluated
  <2>4. CASE value[x.e].t \in DataErrors
    BY <1>3, <2>4, DataErrorsAreErrors DEF Evaluated
  <2> QED
    BY <2>1, <2>2, <2>3, <2>4 DEF Sound
<1>4. CASE x.k = "unary"
  <2>1. x.e \in Kids(x) /\ x.op \in UnaryOps
    BY <1>4, ExprShape DEF Kids
  <2>2. type[x.e] \in Types /\ Typed(x, schema, type) = CheckUnary(x.op, type[x.e])
    BY <1>4 DEF Typed
  <2>3. CASE Fits(value[x.e], type[x.e])
    <3>1. Evaluated(x, schema, row, value) = Unary(x.op, value[x.e])
      BY <1>4, <2>2, <2>3, FitsMeansValue DEF Evaluated
    <3> QED
      BY <2>1, <2>2, <2>3, <3>1, UnaryIsSound
  <2>4. CASE value[x.e].t \in DataErrors
    BY <1>4, <2>4, DataErrorsAreErrors DEF Evaluated
  <2> QED
    BY <2>1, <2>2, <2>3, <2>4 DEF Sound
<1>5. CASE x.k = "binary"
  <2>1. x.l \in Kids(x) /\ x.r \in Kids(x) /\ x.op \in BinaryOps
    BY <1>5, ExprShape DEF Kids
  <2>2. /\ type[x.l] \in Types /\ type[x.r] \in Types
        /\ Typed(x, schema, type) = CheckBinary(x.op, type[x.l], type[x.r])
    BY <1>5 DEF Typed
  <2>3. CASE value[x.l].t \in DataErrors
    BY <1>5, <2>3, DataErrorsAreErrors DEF Evaluated
  <2>4. CASE Fits(value[x.l], type[x.l]) /\ value[x.r].t \in DataErrors
    <3>1. IsValue(value[x.l]) /\ ~IsValue(value[x.r])
      BY <2>2, <2>4, FitsMeansValue, DataErrorsAreErrors
    <3> QED
      BY <1>5, <2>4, <3>1 DEF Evaluated
  <2>5. CASE Fits(value[x.l], type[x.l]) /\ Fits(value[x.r], type[x.r])
    <3>1. Evaluated(x, schema, row, value) = Binary(x.op, value[x.l], value[x.r])
      BY <1>5, <2>2, <2>5, FitsMeansValue DEF Evaluated
    <3> QED
      BY <2>1, <2>2, <2>5, <3>1, BinaryIsSound
  <2> QED
    BY <2>1, <2>2, <2>3, <2>4, <2>5 DEF Sound
<1> QED
  BY <1>1, <1>2, <1>3, <1>4, <1>5, ExprShape

\* check_type is sound: on every row of a table of the schema, and however deep
\* the expression, it has a value of the type it was given, or NULL, or an
\* error that depends on the data (eval.rs check_type and eval).
THEOREM TypesAreSoundForAll ==
  ASSUME NEW e \in Exprs, NEW schema, NEW rows, \A row \in rows : RowOf(schema, row)
  PROVE  TypeIsSound(e, schema, rows)
<1> SUFFICES ASSUME NEW row \in rows
             PROVE  Sound(EvalIn(e, schema, row), CheckType(e, schema))
  BY DEF TypeIsSound, Sound
<1>1. PICK value : IsEval(value, schema, row)
  BY EvalEquation
<1>2. PICK type : IsTyping(type, schema)
  BY TypeEquation DEF RowOf
<1> DEFINE S == {x \in Exprs : Sound(value[x], type[x])}
<1>3. ASSUME NEW x \in Exprs, Kids(x) \subseteq S PROVE x \in S
  <2>1. \A y \in Kids(x) : Sound(value[y], type[y]) /\ type[y] \in TypeVerdicts
    BY <1>2, <1>3 DEF IsTyping
  <2>2. Sound(Evaluated(x, schema, row, value), Typed(x, schema, type))
    BY <2>1, EvaluatedIsSound
  <2> QED
    BY <1>1, <1>2, <2>2 DEF IsEval, IsTyping
<1> HIDE DEF S
<1>4. e \in S
  BY <1>3, ExprInduction
<1> QED
  BY <1>1, <1>2, <1>4 DEF S, IsEval, IsTyping

\* A WHERE clause that check_filter accepts is TRUE, FALSE or NULL on a row, or
\* an error that depends on the data.
LEMMA FilterResult ==
  ASSUME NEW f \in Exprs, NEW schema, NEW row, RowOf(schema, row),
         CheckFilter(f, schema) = "ok"
  PROVE  EvalIn(f, schema, row) \in {Null, Bool(TRUE), Bool(FALSE)}
         \/ EvalIn(f, schema, row).t \in DataErrors
<1> DEFINE v == EvalIn(f, schema, row)
           t == CheckType(f, schema)
<1>1. f # NoFilter
  BY ExprShape DEF NoFilter
<1>2. t \in TypeVerdicts
  <2>1. PICK type : IsTyping(type, schema)
    BY TypeEquation DEF RowOf
  <2> QED
    BY <2>1 DEF IsTyping
<1>3. t \in {"boolean", "null"} /\ t \in Types
  <2>1. "ok" \notin TypeVerdicts
    BY DEF TypeVerdicts, Types, ColumnTypes
  <2> QED
    BY <1>1, <1>2, <2>1 DEF CheckFilter, BooleanOnly, Is
<1>4. TypeIsSound(f, schema, {row})
  BY TypesAreSoundForAll
<1>5. Fits(v, t) \/ v.t \in DataErrors
  BY <1>3, <1>4 DEF TypeIsSound
<1> QED
  BY <1>3, <1>5 DEF Fits, Contents, Null, Bool, Val

LEMMA KeepsRowAt ==
  ASSUME NEW f, f # NoFilter, NEW schema, NEW row, NEW v, v = EvalIn(f, schema, row)
  PROVE  /\ ~IsValue(v) => KeepsRow(f, schema, row) = v
         /\ IsValue(v) /\ v.t \in {"boolean", "null"} => KeepsRow(f, schema, row) = Bool(v = Bool(TRUE))
BY DEF KeepsRow, Truth, Is

LEMMA BoolKinds ==
  /\ \A b : IsValue(Bool(b)) /\ Bool(b).t = "boolean" /\ Bool(b) # Null
  /\ IsValue(Null) /\ Null.t = "null"
  /\ Bool(TRUE) # Bool(FALSE)
BY DEF IsValue, Bool, Null, Val, Types, ColumnTypes

\* The values of NOT f and of f IS NULL, by the value of f.
NotAndIsNullAre(v, no, null) ==
  /\ IsValue(v) => no = Unary("NOT", v) /\ null = Bool(v = Null)
  /\ ~IsValue(v) => no = v /\ null = v

LEMMA NotAndIsNull ==
  ASSUME NEW f \in Exprs, NEW schema, NEW row, RowOf(schema, row),
         UnaryExpr("NOT", f) \in Exprs, IsNull(f, FALSE) \in Exprs
  PROVE  NotAndIsNullAre(EvalIn(f, schema, row), EvalIn(UnaryExpr("NOT", f), schema, row),
                         EvalIn(IsNull(f, FALSE), schema, row))
<1> DEFINE no == UnaryExpr("NOT", f)
           null == IsNull(f, FALSE)
           v == EvalIn(f, schema, row)
           a == EvalIn(no, schema, row)
           b == EvalIn(null, schema, row)
<1> SUFFICES NotAndIsNullAre(v, a, b)
  OBVIOUS
<1>1. PICK value : IsEval(value, schema, row)
  BY EvalEquation
<1>2. no.k = "unary" /\ no.op = "NOT" /\ no.e = f
      /\ null.k = "isnull" /\ null.e = f /\ null.negated = FALSE
  BY DEF UnaryExpr, IsNull
<1>3. v = value[f] /\ EvalIn(no, schema, row) = Evaluated(no, schema, row, value)
      /\ EvalIn(null, schema, row) = Evaluated(null, schema, row, value)
  BY <1>1 DEF IsEval
<1>4. Evaluated(no, schema, row, value) = IF IsValue(v) THEN Unary("NOT", v) ELSE v
  BY <1>2, <1>3 DEF Evaluated
<1>5. Evaluated(null, schema, row, value) = IF IsValue(v) THEN Bool((v = Null) # FALSE) ELSE v
  BY <1>2, <1>3 DEF Evaluated
<1>6. Bool((v = Null) # FALSE) = Bool(v = Null)
  BY DEF Bool
<1>7. a = (IF IsValue(v) THEN Unary("NOT", v) ELSE v) /\ b = IF IsValue(v) THEN Bool(v = Null) ELSE v
  BY <1>3, <1>4, <1>5, <1>6
<1> HIDE DEF v, a, b
<1> QED
  BY <1>7 DEF NotAndIsNullAre

\* One clause of three keeps a row, or all three fail on it.
IsSplit(verdicts) ==
  \/ \E i \in 1 .. 3 : \A j \in 1 .. 3 : verdicts[j] = Bool(i = j)
  \/ verdicts[1].t \in DataErrors /\ verdicts[1] = verdicts[2] /\ verdicts[2] = verdicts[3]

\* Three-valued logic loses no row, whatever the clause: f, NOT f and f IS NULL
\* split every table (eval.rs keeps_row).
THEOREM WhereSplitsForAll ==
  ASSUME NEW f \in Exprs, NEW schema, NEW rows, \A row \in rows : RowOf(schema, row),
         UnaryExpr("NOT", f) \in Exprs, IsNull(f, FALSE) \in Exprs
  PROVE  SplitsInThree(f, schema, rows)
<1> DEFINE no == UnaryExpr("NOT", f)
           null == IsNull(f, FALSE)
<1> SUFFICES ASSUME CheckFilter(f, schema) = "ok", NEW row \in rows
             PROVE  IsSplit(<<KeepsRow(f, schema, row), KeepsRow(no, schema, row),
                              KeepsRow(null, schema, row)>>)
  BY DEF SplitsInThree, IsSplit
<1> DEFINE v == EvalIn(f, schema, row)
           k1 == KeepsRow(f, schema, row)
           k2 == KeepsRow(no, schema, row)
           k3 == KeepsRow(null, schema, row)
<1> SUFFICES IsSplit(<<k1, k2, k3>>)
  OBVIOUS
<1>1. f # NoFilter /\ no # NoFilter /\ null # NoFilter
  BY ExprShape DEF NoFilter, UnaryExpr, IsNull
<1>2. NotAndIsNullAre(v, EvalIn(no, schema, row), EvalIn(null, schema, row))
  <2>1. no \in Exprs /\ null \in Exprs /\ RowOf(schema, row)
    OBVIOUS
  <2> QED
    BY <2>1, NotAndIsNull
<1>3. v \in {Null, Bool(TRUE), Bool(FALSE)} \/ v.t \in DataErrors
  BY FilterResult
<1> HIDE DEF no, null, v
<1>4. /\ ~IsValue(v) => k1 = v
      /\ IsValue(v) /\ v.t \in {"boolean", "null"} => k1 = Bool(v = Bool(TRUE))
  BY <1>1, KeepsRowAt DEF v
<1>5. ~IsValue(v) => k2 = v /\ k3 = v
  BY <1>1, <1>2, KeepsRowAt DEF NotAndIsNullAre
<1>6. CASE v.t \in DataErrors
  <2>1. ~IsValue(v)
    BY <1>6, DataErrorsAreErrors
  <2> HIDE DEF k1, k2, k3
  <2> QED
    BY <1>4, <1>5, <1>6, <2>1 DEF IsSplit
<1>7. CASE v \in {Null, Bool(TRUE), Bool(FALSE)}
  <2>1. IsValue(v) /\ v.t \in {"boolean", "null"}
    BY <1>7, BoolKinds
  <2>2. k1 = Bool(v = Bool(TRUE))
    BY <1>4, <2>1
  <2>3. EvalIn(no, schema, row) = IF v = Null THEN Null ELSE Bool(v # Bool(TRUE))
    BY <1>2, <1>7, BoolKinds DEF Unary, NotAndIsNullAre
  <2>4. k2 = Bool(v = Bool(FALSE))
    <3> DEFINE u == EvalIn(no, schema, row)
    <3>1. u \in {Null, Bool(TRUE), Bool(FALSE)} /\ (u = Bool(TRUE) <=> v = Bool(FALSE))
      <4> HIDE DEF u
      <4>1. u = IF v = Null THEN Null ELSE Bool(v # Bool(TRUE))
        BY <2>3 DEF u
      <4>2. CASE v = Null
        BY <4>1, <4>2, BoolKinds
      <4>3. CASE v = Bool(TRUE)
        <5>1. u = Bool(FALSE)
          BY <4>1, <4>3, BoolKinds DEF Bool
        <5> QED
          BY <4>3, <5>1, BoolKinds
      <4>4. CASE v = Bool(FALSE)
        <5>1. u = Bool(TRUE)
          BY <4>1, <4>4, BoolKinds DEF Bool
        <5> QED
          BY <4>4, <5>1, BoolKinds
      <4> QED
        BY <1>7, <4>2, <4>3, <4>4
    <3>2. k2 = Bool(u = Bool(TRUE))
      <4>1. IsValue(u) /\ u.t \in {"boolean", "null"}
        BY <3>1, BoolKinds
      <4> QED
        BY <1>1, <4>1, KeepsRowAt
    <3> HIDE DEF u, k2
    <3> QED
      BY <3>1, <3>2 DEF Bool
  <2>5. k3 = Bool(v = Null)
    <3> DEFINE u == EvalIn(null, schema, row)
    <3>1. u = Bool(v = Null)
      BY <1>2, <2>1 DEF NotAndIsNullAre
    <3>2. k3 = Bool(u = Bool(TRUE))
      <4>1. IsValue(u) /\ u.t \in {"boolean", "null"}
        BY <3>1, BoolKinds
      <4> QED
        BY <1>1, <4>1, KeepsRowAt
    <3> HIDE DEF u, k3
    <3>3. u = Bool(TRUE) <=> v = Null
      BY <3>1, BoolKinds DEF Bool
    <3> QED
      BY <3>2, <3>3 DEF Bool
  <2> HIDE DEF k1, k2, k3
  <2>6. CASE v = Bool(TRUE)
    <3>1. k1 = Bool(TRUE) /\ k2 = Bool(FALSE) /\ k3 = Bool(FALSE)
      BY <2>2, <2>4, <2>5, <2>6, BoolKinds DEF Bool
    <3>2. \A j \in 1 .. 3 : <<k1, k2, k3>>[j] = Bool(1 = j)
      BY <3>1 DEF Bool
    <3> QED
      BY <3>2 DEF IsSplit
  <2>7. CASE v = Bool(FALSE)
    <3>1. k1 = Bool(FALSE) /\ k2 = Bool(TRUE) /\ k3 = Bool(FALSE)
      BY <2>2, <2>4, <2>5, <2>7, BoolKinds DEF Bool
    <3>2. \A j \in 1 .. 3 : <<k1, k2, k3>>[j] = Bool(2 = j)
      BY <3>1 DEF Bool
    <3> QED
      BY <3>2 DEF IsSplit
  <2>8. CASE v = Null
    <3>1. k1 = Bool(FALSE) /\ k2 = Bool(FALSE) /\ k3 = Bool(TRUE)
      BY <2>2, <2>4, <2>5, <2>8, BoolKinds DEF Bool
    <3>2. \A j \in 1 .. 3 : <<k1, k2, k3>>[j] = Bool(3 = j)
      BY <3>1 DEF Bool
    <3> QED
      BY <3>2 DEF IsSplit
  <2> QED
    BY <1>7, <2>6, <2>7, <2>8
<1> QED
  BY <1>3, <1>6, <1>7

-----------------------------------------------------------------------------
(* Expressions that grow.                                                  *)

\* The leaves of all of them.
Given == Roots \cup Partners

ExprInv == depth \in 0 .. Depth /\ expr \in Trees(Given)[depth]

\* After n operators, an expression has no more than n between its root and a leaf (Expr of
\* ast.rs).
THEOREM ExpressionsStayShallow == ExprSpec => []ExprInv
<1>1. ExprInit => ExprInv
  <2>1. Trees(Given)[0] = Given /\ 0 \in 0 .. Depth
    BY TreesAt, ExpressionsAssumption
  <2> QED
    BY <2>1 DEF ExprInit, ExprInv, Given
<1>2. ExprInv /\ [Grow]_<<expr, depth>> => ExprInv'
  <2>1. CASE UNCHANGED <<expr, depth>>
    BY <2>1 DEF ExprInv
  <2>2. ASSUME ExprInv, Grow PROVE ExprInv'
    <3> DEFINE E == Trees(Given)[depth]
    <3>1. depth \in Nat /\ depth + 1 \in 0 .. Depth /\ depth + 1 \in 1 .. MaxHeight
           /\ (depth + 1) - 1 = depth /\ depth' = depth + 1
      BY <2>2, ExpressionsAssumption, HeightAssumption DEF ExprInv, Grow
    <3>2. Trees(Given)[depth + 1] = Given \cup Over(E)
      BY <3>1, TreesAt
    <3>3. Given \subseteq E
      <4>1. depth = 0 \/ depth \in 1 .. MaxHeight
        BY <3>1, HeightAssumption
      <4> QED
        BY <4>1, TreesAt
    <3>4. expr \in E /\ Partners \subseteq E
      BY <2>2, <3>3 DEF ExprInv, Given
    <3> HIDE DEF E
    <3>5. expr' \in Over(E)
      BY <2>2, <3>4 DEF Grow, Over, UnaryExpr, IsNull, BinaryExpr
    <3> QED
      BY <3>1, <3>2, <3>5 DEF ExprInv, Given
  <2> QED
    BY <2>1, <2>2
<1> QED
  BY <1>1, <1>2, PTL DEF ExprSpec

\* An expression that has grown from some of the leaves is an expression over them, and so are its
\* negation and the question whether it is NULL.
LEMMA GrownAreTrees ==
  ASSUME ExprInv, NEW L, Given \subseteq L
  PROVE  /\ expr \in All(L)
         /\ UnaryExpr("NOT", expr) \in All(L) /\ IsNull(expr, FALSE) \in All(L)
<1>1. depth \in 0 .. MaxHeight /\ depth + 1 \in 1 .. MaxHeight /\ depth + 1 \in 0 .. MaxHeight
       /\ (depth + 1) - 1 = depth
  BY ExpressionsAssumption, HeightAssumption DEF ExprInv
<1>2. Trees(L)[depth + 1] = L \cup Over(Trees(L)[depth])
  BY <1>1, TreesAt
<1>3. expr \in Trees(L)[depth]
  BY <1>1, TreesOfMore DEF ExprInv
<1>4. UnaryExpr("NOT", expr) \in Over(Trees(L)[depth]) /\ IsNull(expr, FALSE) \in Over(Trees(L)[depth])
  BY <1>3 DEF Over, UnaryExpr, IsNull, UnaryOps
<1>5. Trees(L)[depth] \subseteq All(L) /\ Trees(L)[depth + 1] \subseteq All(L)
  BY <1>1, ShallowTrees
<1> QED
  BY <1>2, <1>3, <1>4, <1>5

LEMMA GrownAreExprs ==
  ASSUME ExprInv
  PROVE  /\ expr \in Exprs
         /\ UnaryExpr("NOT", expr) \in Exprs /\ IsNull(expr, FALSE) \in Exprs
BY GrownAreTrees, ExprsAre, ExpressionsAssumption DEF Given

\* check_type is sound for every expression that can be written (eval.rs check_type and eval).
THEOREM TypesAreAlwaysSound == ExprSpec => []TypesAreSound
<1>1. ExprInv => TypesAreSound
  BY GrownAreExprs, TypesAreSoundForAll, ExpressionsAssumption DEF TypesAreSound
<1> QED
  BY <1>1, ExpressionsStayShallow, PTL

\* As a WHERE clause, every expression that can be written splits every table in three (eval.rs
\* keeps_row).
THEOREM WhereAlwaysSplitsInThree == ExprSpec => []WhereSplitsInThree
<1>1. ExprInv => WhereSplitsInThree
  BY GrownAreExprs, WhereSplitsForAll, ExpressionsAssumption DEF WhereSplitsInThree
<1> QED
  BY <1>1, ExpressionsStayShallow, PTL
=============================================================================
