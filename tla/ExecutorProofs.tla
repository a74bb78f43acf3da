--------------------------- MODULE ExecutorProofs ----------------------------
(***************************************************************************)
(* The statements of crates/engine/src/lib.rs on one table, for every      *)
(* schema, every table of it and every statement: what the checks of a     *)
(* write keep out of the table, what the point lookup may skip, what one   *)
(* statement does to each row, and in which order SELECT returns them.     *)
(*                                                                         *)
(* The invariant is that the table is one of its schema (ExecInv).  A      *)
(* statement keeps it because it goes through a Good state after each of   *)
(* its rows: loops over the rows of INSERT, UPDATE and DELETE are functions*)
(* on 0 .. n, and Turns of Induction leads from one row to the next.  The  *)
(* properties of a single statement are lemmas on every table, and follow  *)
(* for the reachable ones from the invariant.                              *)
(***************************************************************************)
EXTENDS Executor, EvalProofs

-----------------------------------------------------------------------------
(* The first of several checks.                                            *)

\* A set of numbers has a least one.
LEMMA LeastNat ==
  ASSUME NEW T, T \subseteq Nat, T # {}
  PROVE  \E m \in T : \A y \in T : m <= y
<1> DEFINE R == {ss \in Nat \X Nat : ss[1] < ss[2]}
<1>1. IsWellFoundedOn(R, Nat)
  BY NatLessThanWellFounded DEF OpToRel
<1>2. PICK m \in T : \A y \in T : ~(<<y, m>> \in R)
  <2> HIDE DEF R
  <2> QED
    BY <1>1, WFMin
<1>3. \A y \in T : m \in Nat /\ y \in Nat /\ ~(y < m)
  BY <1>2
<1> QED
  BY <1>3

\* checks are n of them.
Checks(checks, n) == n \in Nat /\ DOMAIN checks = 1 .. n

\* e is the first of checks that fails, or "ok".
IsFirstError(e, checks) ==
  \/ e = "ok" /\ \A i \in DOMAIN checks : checks[i] = "ok"
  \/ /\ e # "ok"
     /\ \E i \in DOMAIN checks : e = checks[i] /\ \A j \in DOMAIN checks : j < i => checks[j] = "ok"

\* What FirstError finds.
LEMMA FirstErrorIs ==
  ASSUME NEW n, NEW checks, Checks(checks, n)
  PROVE  IsFirstError(FirstError(checks), checks)
<1> DEFINE failed == {i \in DOMAIN checks : checks[i] # "ok"}
           first == CHOOSE i \in failed : \A j \in failed : i <= j
<1>1. CASE failed = {}
  BY <1>1 DEF FirstError, IsFirstError
<1>2. CASE failed # {}
  <2>1. failed \subseteq Nat /\ failed \subseteq DOMAIN checks
    BY DEF Checks
  <2> HIDE DEF failed
  <2>2. first \in failed /\ \A j \in failed : first <= j
    BY <1>2, <2>1, LeastNat
  <2>3. FirstError(checks) = checks[first]
    BY <1>2 DEF FirstError, failed
  <2> HIDE DEF first
  <2>4. checks[first] # "ok" /\ first \in DOMAIN checks
    BY <2>2 DEF failed
  <2>5. \A j \in DOMAIN checks : j < first => checks[j] = "ok"
    BY <2>1, <2>2 DEF Checks, failed
  <2> QED
    BY <2>3, <2>4, <2>5 DEF IsFirstError
<1> QED
  BY <1>1, <1>2

\* There is one first error.
LEMMA OneFirstError ==
  ASSUME NEW n, NEW checks, Checks(checks, n), NEW d, NEW e,
         IsFirstError(d, checks), IsFirstError(e, checks)
  PROVE  d = e
BY DEF IsFirstError, Checks

\* It is "ok" when all the checks are.
LEMMA FirstErrorOk ==
  ASSUME NEW n, NEW checks, Checks(checks, n)
  PROVE  FirstError(checks) = "ok" <=> \A i \in DOMAIN checks : checks[i] = "ok"
BY FirstErrorIs DEF IsFirstError

\* Otherwise it is one of them.
LEMMA FirstErrorIn ==
  ASSUME NEW n, NEW checks, Checks(checks, n), NEW E,
         \A i \in DOMAIN checks : checks[i] \in E
  PROVE  FirstError(checks) = "ok" \/ FirstError(checks) \in E
BY FirstErrorIs DEF IsFirstError

\* Some checks and then others.
LEMMA FirstErrorAppended ==
  ASSUME NEW E, NEW s \in Seq(E), NEW t \in Seq(E)
  PROVE  FirstError(s \o t) = IF FirstError(s) = "ok" THEN FirstError(t) ELSE FirstError(s)
<1> DEFINE m == Len(s)
           n == Len(t)
           c == s \o t
<1>1. /\ m \in Nat /\ n \in Nat /\ DOMAIN s = 1 .. m /\ DOMAIN t = 1 .. n
      /\ DOMAIN c = 1 .. (m + n)
      /\ \A i \in 1 .. m : c[i] = s[i]
      /\ \A i \in 1 .. n : c[m + i] = t[i]
  OBVIOUS
<1> HIDE DEF m, n, c
<1>2. Checks(s, m) /\ Checks(t, n) /\ Checks(c, m + n)
  BY <1>1 DEF Checks
<1>3. CASE FirstError(s) = "ok"
  <2>1. IsFirstError(FirstError(t), c)
    <3>1. \A i \in DOMAIN s : s[i] = "ok"
      BY <1>2, <1>3, FirstErrorOk
    <3>2. \A i \in 1 .. (m + n) : i \in 1 .. m \/ (i - m \in 1 .. n /\ i = m + (i - m))
      BY <1>1
    <3>3. CASE FirstError(t) = "ok"
      <4>1. \A i \in DOMAIN t : t[i] = "ok"
        BY <1>2, <3>3, FirstErrorOk
      <4>2. ASSUME NEW i \in DOMAIN c PROVE c[i] = "ok"
        <5>1. CASE i \in 1 .. m
          BY <1>1, <3>1, <5>1
        <5>2. CASE i - m \in 1 .. n
          <6>1. t[i - m] = "ok" /\ c[m + (i - m)] = t[i - m] /\ m + (i - m) = i
            BY <1>1, <4>1, <5>2
          <6> QED
            BY <6>1
        <5> QED
          BY <1>1, <3>2, <5>1, <5>2
      <4> QED
        BY <3>3, <4>2 DEF IsFirstError
    <3>4. CASE FirstError(t) # "ok"
      <4>1. PICK i \in 1 .. n : FirstError(t) = t[i] /\ \A j \in 1 .. n : j < i => t[j] = "ok"
        <5>1. IsFirstError(FirstError(t), t)
          BY <1>2, FirstErrorIs
        <5> QED
          BY <1>1, <3>4, <5>1 DEF IsFirstError
      <4>2. m + i \in DOMAIN c /\ c[m + i] = FirstError(t)
        BY <1>1, <4>1
      <4>3. ASSUME NEW j \in DOMAIN c, j < m + i PROVE c[j] = "ok"
        <5>1. CASE j \in 1 .. m
          BY <1>1, <3>1, <5>1
        <5>2. CASE j - m \in 1 .. n
          <6>1. j - m < i
            BY <1>1, <4>3
          <6>2. t[j - m] = "ok" /\ c[m + (j - m)] = t[j - m] /\ m + (j - m) = j
            BY <1>1, <4>1, <5>2, <6>1
          <6> QED
            BY <6>2
        <5> QED
          BY <1>1, <3>2, <5>1, <5>2
      <4> QED
        BY <3>4, <4>2, <4>3 DEF IsFirstError
    <3> QED
      BY <3>3, <3>4
  <2>2. IsFirstError(FirstError(c), c)
    BY <1>2, FirstErrorIs
  <2>3. FirstError(c) = FirstError(t)
    BY <1>2, <2>1, <2>2, OneFirstError
  <2> QED
    BY <1>3, <2>3 DEF c
<1>4. CASE FirstError(s) # "ok"
  <2>1. PICK i \in 1 .. m : FirstError(s) = s[i] /\ \A j \in 1 .. m : j < i => s[j] = "ok"
    BY <1>1, <1>2, <1>4, FirstErrorIs DEF IsFirstError
  <2>2. i \in DOMAIN c /\ c[i] = FirstError(s)
    BY <1>1, <2>1
  <2>3. \A j \in DOMAIN c : j < i => c[j] = "ok"
    BY <1>1, <2>1
  <2>4. IsFirstError(FirstError(s), c)
    BY <1>4, <2>2, <2>3 DEF IsFirstError
  <2>5. IsFirstError(FirstError(c), c)
    BY <1>2, FirstErrorIs
  <2>6. FirstError(c) = FirstError(s)
    BY <1>2, <2>4, <2>5, OneFirstError
  <2> QED
    BY <1>4, <2>6 DEF c
<1> QED
  BY <1>3, <1>4

\* One check alone.
LEMMA FirstErrorOfOne ==
  ASSUME NEW a PROVE FirstError(<<a>>) = a
<1> DEFINE c == <<a>>
<1>1. Checks(c, 1) /\ c[1] = a /\ DOMAIN c = 1 .. 1
  BY DEF Checks
<1> HIDE DEF c
<1>2. IsFirstError(FirstError(c), c)
  BY <1>1, FirstErrorIs
<1> QED
  BY <1>1, <1>2 DEF IsFirstError, c

\* Two checks, as UPDATE and DELETE make them.
LEMMA FirstErrorOfTwo ==
  ASSUME NEW a, NEW b PROVE FirstError(<<a, b>>) = IF a = "ok" THEN b ELSE a
<1> DEFINE c == <<a, b>>
<1>1. Checks(c, 2) /\ c[1] = a /\ c[2] = b /\ DOMAIN c = 1 .. 2
  BY DEF Checks
<1> HIDE DEF c
<1>2. IsFirstError(FirstError(c), c)
  BY <1>1, FirstErrorIs
<1> QED
  BY <1>1, <1>2 DEF IsFirstError, c

\* Keys that a scan can go through in order.
KeySet(keys) ==
  /\ IsFiniteSet(keys)
  /\ \A k \in keys : k.x \in Int
  /\ \A k, l \in keys : k.x = l.x => k = l

\* s goes through the keys in order.
IsScan(s, keys) ==
  /\ s \in [1 .. Cardinality(keys) -> keys]
  /\ \A i, j \in DOMAIN s : i < j => s[i].x < s[j].x

\* Finitely many keys have a last one.
LEMMA LastKey ==
  ASSUME NEW keys, KeySet(keys)
  PROVE  \A T \in SUBSET keys : T # {} => \E m \in T : \A k \in T : k.x <= m.x
<1> DEFINE G == {T \in SUBSET keys : T # {} => \E m \in T : \A k \in T : k.x <= m.x}
<1>1. {} \in G
  OBVIOUS
<1>2. ASSUME NEW T \in SUBSET keys, T # {}, T \ {Pick(T)} \in G PROVE T \in G
  <2> DEFINE p == Pick(T)
             R == T \ {p}
  <2>1. p \in T /\ \A k \in T : k.x \in Int
    BY <1>2 DEF Pick, KeySet
  <2>2. CASE R = {}
    BY <2>1, <2>2
  <2>3. CASE R # {}
    <3>1. PICK m \in R : \A k \in R : k.x <= m.x
      BY <1>2, <2>3
    <3> HIDE DEF p
    <3>2. CASE p.x <= m.x
      BY <2>1, <3>1, <3>2
    <3>3. CASE ~(p.x <= m.x)
      <4>1. \A k \in T : k.x <= p.x
        BY <2>1, <3>1, <3>3
      <4> QED
        BY <2>1, <4>1
    <3> QED
      BY <3>2, <3>3
  <2> QED
    BY <2>2, <2>3
<1> HIDE DEF G
<1>3. \A T \in SUBSET keys : T \in G
  BY <1>1, <1>2, PickInduction DEF KeySet
<1> QED
  BY <1>3 DEF G

\* There is an order to scan them in.
LEMMA ScanExists ==
  ASSUME NEW keys, KeySet(keys)
  PROVE  \E s : IsScan(s, keys)
<1> DEFINE G == {n \in Nat : \A T \in SUBSET keys : Cardinality(T) = n => \E s : IsScan(s, T)}
<1>0. \A T \in SUBSET keys : IsFiniteSet(T) /\ Cardinality(T) \in Nat /\ \A k \in T : k.x \in Int
  BY FS_Subset, FS_CardinalityType DEF KeySet
<1>1. 0 \in G
  <2> SUFFICES ASSUME NEW T \in SUBSET keys, Cardinality(T) = 0 PROVE \E s : IsScan(s, T)
    OBVIOUS
  <2> DEFINE s == [i \in 1 .. 0 |-> Null]
  <2>1. s \in [1 .. 0 -> T] /\ \A i, j \in DOMAIN s : i < j => s[i].x < s[j].x
    OBVIOUS
  <2> HIDE DEF s
  <2>2. IsScan(s, T)
    BY <2>1 DEF IsScan
  <2> QED
    BY <2>2
<1>2. ASSUME NEW n \in Nat, n \in G PROVE n + 1 \in G
  <2> SUFFICES ASSUME NEW T \in SUBSET keys, Cardinality(T) = n + 1 PROVE \E s : IsScan(s, T)
    OBVIOUS
  <2>1. T # {}
    BY FS_EmptySet
  <2>2. PICK m \in T : \A k \in T : k.x <= m.x
    BY <2>1, LastKey
  <2> DEFINE R == T \ {m}
  <2>3. R \in SUBSET keys /\ Cardinality(R) = n
    BY <1>0, FS_RemoveElement
  <2>4. PICK s : IsScan(s, R)
    BY <1>2, <2>3
  <2>5. s \in [1 .. n -> R] /\ \A i, j \in 1 .. n : i < j => s[i].x < s[j].x
    BY <2>3, <2>4 DEF IsScan
  <2>6. \A k \in R : k.x < m.x
    BY <1>0, <2>2 DEF KeySet
  <2> HIDE DEF R
  <2>7. R \subseteq T
    BY DEF R
  <2> DEFINE h == [i \in 1 .. n + 1 |-> IF i = n + 1 THEN m ELSE s[i]]
  <2>8. h \in [1 .. n + 1 -> T]
    BY <2>5, <2>7
  <2>9. h[n + 1] = m /\ \A i \in 1 .. n : h[i] = s[i] /\ s[i] \in R
    BY <2>5
  <2> HIDE DEF h
  <2>10. \A i, j \in 1 .. n + 1 : i < j => h[i].x < h[j].x
    <3> TAKE i, j \in 1 .. n + 1
    <3> HAVE i < j
    <3>1. i \in 1 .. n /\ (j \in 1 .. n \/ j = n + 1)
      OBVIOUS
    <3>2. CASE j \in 1 .. n
      BY <2>5, <2>9, <3>1, <3>2
    <3>3. CASE j = n + 1
      BY <2>6, <2>9, <3>1, <3>3
    <3> QED
      BY <3>1, <3>2, <3>3
  <2>11. IsScan(h, T)
    BY <2>8, <2>10 DEF IsScan
  <2> QED
    BY <2>11
<1> HIDE DEF G
<1>3. \A n \in Nat : n \in G
  BY <1>1, <1>2, NatSetInduction
<1>4. keys \in SUBSET keys /\ Cardinality(keys) \in G
  BY <1>0, <1>3
<1> QED
  BY <1>4 DEF G

\* It meets every key.
LEMMA ScanCovers ==
  ASSUME NEW keys, KeySet(keys), NEW s, IsScan(s, keys)
  PROVE  \A k \in keys : \E i \in DOMAIN s : s[i] = k
<1> DEFINE n == Cardinality(keys)
<1>1. n \in Nat /\ IsFiniteSet(keys)
  BY FS_CardinalityType DEF KeySet
<1>2. s \in [1 .. n -> keys] /\ DOMAIN s = 1 .. n
  BY DEF IsScan
<1>3. \A i, j \in 1 .. n : s[i] = s[j] => i = j
  <2> TAKE i, j \in 1 .. n
  <2>1. s[i].x \in Int /\ s[j].x \in Int /\ i \in Int /\ j \in Int
    BY <1>1, <1>2 DEF KeySet
  <2>2. (i < j => s[i].x < s[j].x) /\ (j < i => s[j].x < s[i].x)
    BY <1>2 DEF IsScan
  <2> QED
    BY <2>1, <2>2
<1>4. IsFiniteSet(1 .. n) /\ Cardinality(1 .. n) = n
  BY <1>1, FS_Interval
<1> HIDE DEF n
<1>5. s \in Injection(1 .. n, keys)
  BY <1>2, <1>3 DEF Injection, IsInjective
<1>6. s \in Surjection(1 .. n, keys)
  BY <1>1, <1>4, <1>5, FS_Injection DEF n
<1> QED
  BY <1>2, <1>6 DEF Surjection

\* What a scan of a table returns.
IsScanOf(r, keys, rows) ==
  /\ IsScan(keys, DOMAIN rows)
  /\ \A k \in DOMAIN rows : \E i \in DOMAIN keys : keys[i] = k
  /\ r = [i \in DOMAIN keys |-> rows[keys[i]]]

\* ScanRows returns every row, by primary key.
LEMMA ScanRowsIs ==
  ASSUME NEW rows, KeySet(DOMAIN rows)
  PROVE  IsScanOf(ScanRows(rows), ScanOrder(DOMAIN rows), rows)
<1> DEFINE D == DOMAIN rows
           keys == ScanOrder(D)
<1> HIDE DEF D
<1>1. KeySet(D)
  BY DEF D
<1>2. keys = CHOOSE s : IsScan(s, D)
  <2> DEFINE S == [1 .. Cardinality(D) -> D]
  <2>1. keys = CHOOSE s \in S : \A i, j \in DOMAIN s : i < j => s[i].x < s[j].x
    BY DEF ScanOrder
  <2> QED
    BY <2>1, Zenon DEF IsScan
<1>3. IsScan(keys, D)
  BY <1>1, <1>2, ScanExists
<1>4. \A k \in D : \E i \in DOMAIN keys : keys[i] = k
  BY <1>1, <1>3, ScanCovers
<1>5. ScanRows(rows) = [i \in DOMAIN keys |-> rows[keys[i]]]
  BY DEF ScanRows, D
<1> HIDE DEF keys
<1> QED
  BY <1>3, <1>4, <1>5 DEF IsScanOf, D, keys

-----------------------------------------------------------------------------
(* Rows and tables.                                                        *)

\* The rows a table of the schema may hold, the primary keys they may have, and
\* the tables.
FitRows(schema) ==
  {row \in [DOMAIN schema.columns -> Values] : \A i \in DOMAIN schema.columns :
     Fits(row[i], schema.columns[i].ty) /\ (row[i] = Null => schema.columns[i].nullable)}

KeysOf(schema) == {v \in Values : v.t = PkType(schema)}

TablesOf(schema) ==
  {t \in UNION {[D -> FitRows(schema)] : D \in SUBSET KeysOf(schema)} :
     IsFiniteSet(DOMAIN t) /\ \A pk \in DOMAIN t : t[pk][schema.pk] = pk}

\* The columns schemas are made of.
ColumnDefs == [name : STRING, ty : ColumnTypes, nullable : BOOLEAN]

\* A schema has a primary key that is not nullable, and a column is found by its
\* name where it stands.
LEMMA SchemaIs ==
  ASSUME NEW schema \in RowSchemas
  PROVE  /\ schema.columns \in Seq(ColumnDefs)
         /\ schema.pk \in DOMAIN schema.columns
         /\ PkType(schema) \in ColumnTypes /\ PkType(schema) \in Types
         /\ ~schema.columns[schema.pk].nullable
         /\ \A i \in DOMAIN schema.columns : Position(schema, schema.columns[i].name) = i
<1> DEFINE cs == schema.columns
           S == [columns : Seq(ColumnDefs), pk : Nat]
<1>1. schema \in S /\ schema.pk \in DOMAIN cs /\ ~cs[schema.pk].nullable
      /\ \A i, j \in DOMAIN cs : cs[i].name = cs[j].name => i = j
  BY DEF RowSchemas, ColumnDefs
<1>2. cs \in Seq(ColumnDefs)
  BY <1>1
<1>3. \A i \in DOMAIN cs : cs[i].ty \in ColumnTypes /\ cs[i].ty \in Types
  BY <1>2, ColumnTyped DEF ColumnDefs
<1>4. DOMAIN cs = 1 .. Len(cs)
  BY <1>2
<1> HIDE DEF S
<1>5. \A i \in DOMAIN cs : Position(schema, cs[i].name) = i
  BY <1>1, <1>4 DEF Position
<1> QED
  BY <1>1, <1>2, <1>3, <1>5 DEF PkType

\* The parts of being a table.
LEMMA TableIs ==
  ASSUME NEW schema, NEW t
  PROVE  t \in TablesOf(schema) <=>
           /\ t = [pk \in DOMAIN t |-> t[pk]]
           /\ IsFiniteSet(DOMAIN t)
           /\ DOMAIN t \subseteq KeysOf(schema)
           /\ \A pk \in DOMAIN t : t[pk] \in FitRows(schema) /\ t[pk][schema.pk] = pk
BY DEF TablesOf

\* A row that fits can be evaluated on, and has a key of the schema.
LEMMA FitRowIs ==
  ASSUME NEW schema \in RowSchemas, NEW row \in FitRows(schema)
  PROVE  /\ RowOf(schema, row)
         /\ row[schema.pk] \in KeysOf(schema)
         /\ row # NoRow
<1>1. /\ row \in [DOMAIN schema.columns -> Values]
      /\ \A i \in DOMAIN schema.columns :
           Fits(row[i], schema.columns[i].ty) /\ (row[i] = Null => schema.columns[i].nullable)
  BY DEF FitRows
<1>2. RowOf(schema, row)
  BY <1>1, SchemaIs DEF RowOf, ColumnDefs
<1>3. row[schema.pk] # Null /\ Fits(row[schema.pk], PkType(schema)) /\ row[schema.pk] \in Values
  BY <1>1, SchemaIs DEF PkType
<1>4. row[schema.pk].t = PkType(schema)
  BY <1>3 DEF Fits, Val
<1>5. row # NoRow
  BY <1>1, SchemaIs DEF NoRow
<1> QED
  BY <1>2, <1>3, <1>4, <1>5 DEF KeysOf

\* Keys of one table are told apart by their contents.
LEMMA KeysAreKeySet ==
  ASSUME NEW schema, NEW keys, IsFiniteSet(keys), keys \subseteq KeysOf(schema)
  PROVE  KeySet(keys)
BY DEF KeySet, KeysOf, Values

-----------------------------------------------------------------------------
(* Constants.                                                              *)

\* The schema that an expression outside of any row is evaluated in.
NoColumns == [columns |-> <<>>, pk |-> 0]

\* It has one row.
LEMMA NoRowOfNoColumns == RowOf(NoColumns, NoRow)
BY DEF RowOf, NoColumns, NoRow

\* An expression outside of any row has a value, or an error.
LEMMA ConstantResult ==
  ASSUME NEW e \in Exprs
  PROVE  EvalConstant(e) \in Results
<1>1. PICK value : IsEval(value, NoColumns, NoRow)
  BY NoRowOfNoColumns, EvalEquation
<1> QED
  BY <1>1 DEF IsEval, EvalConstant, NoColumns

\* So has one on a row.
LEMMA EvalResult ==
  ASSUME NEW schema, NEW row, RowOf(schema, row), NEW e \in Exprs
  PROVE  EvalIn(e, schema, row) \in Results
<1>1. PICK value : IsEval(value, schema, row)
  BY EvalEquation
<1> QED
  BY <1>1 DEF IsEval

\* What has a value without a row has the same value on every row.
LEMMA ConstantEverywhere ==
  ASSUME NEW schema, NEW row, RowOf(schema, row), NEW e \in Exprs, IsValue(EvalConstant(e))
  PROVE  EvalIn(e, schema, row) = EvalConstant(e)
<1>1. PICK value : IsEval(value, schema, row)
  BY EvalEquation
<1>2. PICK const : IsEval(const, NoColumns, NoRow)
  BY NoRowOfNoColumns, EvalEquation
<1> DEFINE S == {x \in Exprs : IsValue(const[x]) => value[x] = const[x]}
<1>3. ASSUME NEW x \in Exprs, Kids(x) \subseteq S PROVE x \in S
  <2> SUFFICES ASSUME IsValue(const[x]) PROVE value[x] = const[x]
    OBVIOUS
  <2>1. value[x] = Evaluated(x, schema, row, value) /\ const[x] = Evaluated(x, NoColumns, NoRow, const)
    BY <1>1, <1>2 DEF IsEval
  <2>2. \A y \in Kids(x) : IsValue(const[y]) => value[y] = const[y]
    BY <1>3
  <2>3. CASE x.k = "lit"
    BY <2>1, <2>3 DEF Evaluated
  <2>4. CASE x.k = "col"
    <3>1. const[x] = Error("UnknownColumn")
      BY <2>1, <2>4 DEF Evaluated
    <3> QED
      BY <3>1, ResultKinds DEF EvalErrors, IsValue
  <2>5. CASE x.k = "isnull"
    BY <2>1, <2>2, <2>5 DEF Evaluated, Kids
  <2>6. CASE x.k = "unary"
    BY <2>1, <2>2, <2>6 DEF Evaluated, Kids
  <2>7. CASE x.k = "binary"
    BY <2>1, <2>2, <2>7 DEF Evaluated, Kids
  <2> QED
    BY <2>3, <2>4, <2>5, <2>6, <2>7, ExprShape
<1>4. Exprs \subseteq S
  <2> HIDE DEF S
  <2> QED
    BY <1>3, ExprInduction
<1>5. EvalConstant(e) = const[e] /\ EvalIn(e, schema, row) = value[e]
  BY <1>1, <1>2 DEF IsEval, EvalConstant, NoColumns
<1> QED
  BY <1>4, <1>5

-----------------------------------------------------------------------------
(* The access path.                                                        *)

\* f is the recursion that access_path is, on all expressions.
IsPathing(f, schema) ==
  /\ f \in [Exprs -> Values]
  /\ \A x \in Exprs : f[x] = Pinned(x, schema, f) /\ AccessPath(schema, x) = f[x]

\* A column is an expression.
LEMMA PinsKeyIs ==
  ASSUME NEW schema \in RowSchemas, NEW x \in Exprs, x.k = "binary"
  PROVE  PinsKey(schema, x) \in Values
<1> DEFINE pk == Col(schema.columns[schema.pk].name)
           other == IF x.l = pk THEN x.r ELSE x.l
           v == EvalConstant(other)
<1>1. other \in Exprs
  BY ExprShape
<1>2. v \in Results
  BY <1>1, ConstantResult
<1>3. Null \in Values
  BY NullResult, ResultKinds, BoolKinds
<1>4. v.t = PkType(schema) => v \in Values
  BY <1>2, SchemaIs, ResultKinds DEF IsValue
<1> QED
  BY <1>3, <1>4 DEF PinsKey, KeyOf, FullScan

\* One of its steps.
LEMMA PinnedIs ==
  ASSUME NEW schema \in RowSchemas, NEW x \in Exprs, NEW f, \A y \in Kids(x) : f[y] \in Values
  PROVE  Pinned(x, schema, f) \in Values
<1>1. Null \in Values
  BY NullResult, ResultKinds, BoolKinds
<1> QED
  BY <1>1, PinsKeyIs DEF Pinned, FullScan, Kids

\* AccessPath satisfies its recursive definition.
LEMMA PathEquation ==
  ASSUME NEW schema \in RowSchemas
  PROVE  \E f : IsPathing(f, schema)
<1> DEFINE With(x, v, w) ==
             Pinned(x, schema, [y \in Kids(x) |-> IF x.k = "binary" /\ y # x.l THEN w ELSE v])
           g == [p \in Exprs \X Values \X Values |-> With(p[1], p[2], p[3])]
           PathIs(f) == f = [x \in Exprs |-> Pinned(x, schema, f)]
           path == CHOOSE f : PathIs(f)
<1>1. Null \in Values
  BY NullResult, ResultKinds, BoolKinds
<1>2. ASSUME NEW x \in Exprs, NEW v \in Values, NEW w \in Values
      PROVE  g[<<x, v, w>>] = With(x, v, w) /\ g[<<x, v, w>>] \in Values
  <2>1. With(x, v, w) \in Values
    BY PinnedIs
  <2> HIDE DEF With
  <2> QED
    BY <2>1
<1>3. Makes(g, Values, Null, Exprs)
  BY <1>1, <1>2 DEF Makes
<1> HIDE DEF g
<1>4. PICK f : IsMadeBy(f, g, Values, Null, Exprs)
  BY <1>3, ExprRecursion
<1>5. ASSUME NEW x \in Exprs PROVE f[x] = Pinned(x, schema, f)
  <2>1. Kids(x) \subseteq Exprs
    BY KidsAreExprs
  <2> DEFINE v == Fst(f, x, Null)
             w == Snd(f, x, Null)
  <2>2. v \in Values /\ w \in Values
    BY <1>1, <1>4, <2>1 DEF IsMadeBy, Fst, Snd, Kids
  <2>3. f[x] = With(x, v, w)
    BY <1>2, <1>4, <2>2 DEF IsMadeBy
  <2>4. With(x, v, w) = Pinned(x, schema, f)
    BY ExprShape DEF Pinned, Fst, Snd, Kids
  <2> QED
    BY <2>3, <2>4
<1>6. \A x \in Exprs : AccessPath(schema, x) = path[x]
  <2>1. \A x \in Exprs : x # NoFilter
    BY ExprShape DEF NoFilter
  <2> QED
    BY <2>1 DEF AccessPath
<1> HIDE DEF With
<1>7. PathIs(f)
  BY <1>4, <1>5 DEF IsMadeBy
<1>8. PathIs(path)
  BY <1>7
<1> HIDE DEF path
<1>9. \A x \in Exprs : path[x] = Pinned(x, schema, path)
  BY <1>8
<1>10. Exprs \subseteq {x \in Exprs : path[x] \in Values}
  <2> DEFINE S == {x \in Exprs : path[x] \in Values}
  <2>1. ASSUME NEW x \in Exprs, Kids(x) \subseteq S PROVE x \in S
    BY <1>9, <2>1, PinnedIs
  <2> HIDE DEF S
  <2> QED
    BY <2>1, ExprInduction DEF S
<1>11. path \in [Exprs -> Values]
  BY <1>8, <1>10
<1> QED
  BY <1>6, <1>9, <1>11 DEF IsPathing

\* A value is its type and its contents.
LEMMA ValuesDiffer ==
  ASSUME NEW v \in Values, NEW w \in Values, v.t = w.t, v.x = w.x
  PROVE  v = w
BY DEF Values

\* a = b is TRUE only of equal values.
LEMMA EqualIsTrue ==
  ASSUME NEW a \in Values, NEW b \in Values, Binary("=", a, b) = Bool(TRUE)
  PROVE  a = b
<1>1. Null \notin {a, b}
  BY BoolKinds DEF Binary, LogicOps, Null, Val
<1>2. a.t = b.t
  <2>1. "=" \notin LogicOps /\ "=" \notin ArithmeticOps /\ "=" \in ComparisonOps
    BY DEF LogicOps, ArithmeticOps, ComparisonOps
  <2> QED
    BY <1>1, <2>1, ResultKinds, BoolKinds DEF Binary, Error, Val, Bool
<1>3. Bool(Compared("=", a.x, b.x)) = Bool(TRUE)
  BY <1>1, <1>2 DEF Binary, LogicOps, ComparisonOps
<1>4. a.x = b.x
  BY <1>3 DEF Bool, Val, Compared
<1> QED
  BY <1>2, <1>4, ValuesDiffer

\* a AND b is TRUE only if both are.
LEMMA AndIsTrue ==
  ASSUME NEW a \in Values, NEW b \in Values, Binary("AND", a, b) = Bool(TRUE)
  PROVE  a = Bool(TRUE) /\ b = Bool(TRUE)
<1>1. {a.t, b.t} \subseteq {"boolean", "null"} /\ Logic("AND", a, b) = Bool(TRUE)
  BY DEF Binary, LogicOps, Error, Bool, Val
<1>2. Bool(FALSE) \notin {a, b} /\ Null \notin {a, b}
  BY <1>1, BoolKinds DEF Logic
<1>3. \A v \in Values : v.t \in {"boolean", "null"} => v \in {Null, Bool(TRUE), Bool(FALSE)}
  BY DEF Values, Fits, Contents, Null, Bool, Val
<1> QED
  BY <1>1, <1>2, <1>3

\* Where a filter that pins the primary key is TRUE, the row is under that key.
LEMMA PinnedRow ==
  ASSUME NEW schema \in RowSchemas, NEW row \in FitRows(schema), NEW f \in Exprs,
         AccessPath(schema, f) # FullScan, EvalIn(f, schema, row) = Bool(TRUE)
  PROVE  row[schema.pk] = AccessPath(schema, f)
<1>0. RowOf(schema, row) /\ row # NoRow /\ row[schema.pk] \in Values
  BY FitRowIs DEF KeysOf
<1>1. PICK value : IsEval(value, schema, row)
  BY <1>0, EvalEquation
<1>2. PICK path : IsPathing(path, schema)
  BY PathEquation
<1> DEFINE S == {x \in Exprs : path[x] # FullScan /\ value[x] = Bool(TRUE) => row[schema.pk] = path[x]}
<1>3. ASSUME NEW x \in Exprs, Kids(x) \subseteq S PROVE x \in S
  <2> SUFFICES ASSUME path[x] # FullScan, value[x] = Bool(TRUE) PROVE row[schema.pk] = path[x]
    OBVIOUS
  <2>1. path[x] = Pinned(x, schema, path) /\ value[x] = Evaluated(x, schema, row, value)
    BY <1>1, <1>2 DEF IsEval, IsPathing
  <2>2. x.k = "binary"
    BY <2>1 DEF Pinned
  <2>3. x.l \in Exprs /\ x.r \in Exprs /\ Kids(x) = {x.l, x.r}
    BY <2>2, ExprShape DEF Kids
  <2>4. value[x.l] \in Values /\ value[x.r] \in Values /\ Binary(x.op, value[x.l], value[x.r]) = Bool(TRUE)
    <3>1. value[x.l] \in Results /\ value[x.r] \in Results
      BY <1>1, <2>3 DEF IsEval
    <3>2. IsValue(value[x.l]) /\ IsValue(value[x.r])
      BY <2>1, <2>2, BoolKinds DEF Evaluated
    <3> QED
      BY <2>1, <2>2, <3>1, <3>2, ResultKinds DEF Evaluated
  <2>5. CASE x.op = "AND"
    <3>1. value[x.l] = Bool(TRUE) /\ value[x.r] = Bool(TRUE)
      BY <2>4, <2>5, AndIsTrue
    <3>2. path[x] = IF path[x.l] # FullScan THEN path[x.l] ELSE path[x.r]
      BY <2>1, <2>2, <2>5 DEF Pinned
    <3> QED
      BY <1>3, <2>3, <3>1, <3>2
  <2>6. CASE x.op = "="
    <3> DEFINE pk == Col(schema.columns[schema.pk].name)
               other == IF x.l = pk THEN x.r ELSE x.l
               v == EvalConstant(other)
    <3>1. path[x] = PinsKey(schema, x)
      BY <2>1, <2>2, <2>6 DEF Pinned
    <3>2. pk \in {x.l, x.r} /\ v.t = PkType(schema) /\ path[x] = v
      BY <3>1 DEF PinsKey, KeyOf
    <3>3. other \in Exprs /\ pk \in Exprs /\ {pk, other} = {x.l, x.r}
      BY <2>3, <3>2
    <3>4. value[other] = v
      <4>1. IsValue(v)
        BY <3>2, SchemaIs DEF IsValue
      <4>2. EvalIn(other, schema, row) = v
        BY <1>0, <3>3, <4>1, ConstantEverywhere
      <4> QED
        BY <1>1, <3>3, <4>2 DEF IsEval
    <3>5. value[pk] = row[schema.pk]
      <4>1. value[pk] = Evaluated(pk, schema, row, value)
        BY <1>1, <3>3 DEF IsEval
      <4>2. pk.k = "col" /\ pk.name = schema.columns[schema.pk].name
        BY DEF Col
      <4>3. Position(schema, pk.name) = schema.pk /\ schema.pk # 0
        BY <4>2, SchemaIs
      <4> HIDE DEF pk
      <4> QED
        BY <1>0, <4>1, <4>2, <4>3 DEF Evaluated
    <3>6. value[x.l] = value[x.r]
      BY <2>4, <2>6, EqualIsTrue
    <3> HIDE DEF other, pk, v
    <3> QED
      BY <3>2, <3>3, <3>4, <3>5, <3>6
  <2>7. x.op \in {"AND", "="}
    BY <2>1, <2>2 DEF Pinned
  <2> QED
    BY <2>5, <2>6, <2>7
<1>4. Exprs \subseteq S
  <2> HIDE DEF S
  <2> QED
    BY <1>3, ExprInduction
<1>5. AccessPath(schema, f) = path[f] /\ EvalIn(f, schema, row) = value[f]
  BY <1>1, <1>2 DEF IsEval, IsPathing
<1> QED
  BY <1>4, <1>5

-----------------------------------------------------------------------------
(* The rows a WHERE clause keeps.                                          *)

\* What a filter that passed its check says of a row: TRUE, FALSE or a data error.
LEMMA KeepsRowIs ==
  ASSUME NEW schema \in RowSchemas, NEW row, RowOf(schema, row), NEW f \in Wheres, CheckFilter(f, schema) = "ok"
  PROVE  /\ KeepsRow(f, schema, row) \in {Bool(TRUE), Bool(FALSE)}
              \/ KeepsRow(f, schema, row).t \in DataErrors
         /\ KeepsRow(f, schema, row) = Bool(TRUE) => f = NoFilter \/ EvalIn(f, schema, row) = Bool(TRUE)
<1>1. CASE f = NoFilter
  BY <1>1 DEF KeepsRow, Truth
<1>2. CASE f # NoFilter
  <2> DEFINE v == EvalIn(f, schema, row)
  <2>1. f \in Exprs
    BY <1>2 DEF Wheres
  <2>2. v \in {Null, Bool(TRUE), Bool(FALSE)} \/ v.t \in DataErrors
    BY <2>1, FilterResult
  <2>3. v \in Results
    BY <2>1, EvalResult
  <2> HIDE DEF v
  <2>4. CASE v.t \in DataErrors
    <3>1. ~IsValue(v)
      BY <2>4, DataErrorsAreErrors
    <3>2. KeepsRow(f, schema, row) = v
      BY <1>2, <3>1, KeepsRowAt DEF v
    <3>3. v # Bool(TRUE)
      BY <3>1, BoolKinds
    <3> QED
      BY <2>4, <3>2, <3>3
  <2>5. CASE v \in {Null, Bool(TRUE), Bool(FALSE)}
    <3>1. IsValue(v) /\ v.t \in {"boolean", "null"}
      BY <2>5, BoolKinds
    <3>2. KeepsRow(f, schema, row) = Bool(v = Bool(TRUE))
      BY <1>2, <3>1, KeepsRowAt DEF v
    <3>3. Bool(v = Bool(TRUE)) = Bool(TRUE) => v = Bool(TRUE)
      BY BoolKinds DEF Bool, Val
    <3>4. Bool(v = Bool(TRUE)) \in {Bool(TRUE), Bool(FALSE)}
      BY DEF Bool
    <3> QED
      BY <3>2, <3>3, <3>4 DEF v
  <2> QED
    BY <2>2, <2>4, <2>5
<1> QED
  BY <1>1, <1>2

\* A verdict is a value or a data error.
LEMMA OutcomeIs ==
  ASSUME NEW v, v \in {Bool(TRUE), Bool(FALSE)} \/ v.t \in DataErrors
  PROVE  /\ Outcome(v) \in {"ok"} \cup DataErrors
         /\ Outcome(v) = "ok" <=> v \in {Bool(TRUE), Bool(FALSE)}
<1>1. CASE v \in {Bool(TRUE), Bool(FALSE)}
  BY <1>1, BoolKinds DEF Outcome
<1>2. CASE v.t \in DataErrors
  <2>1. ~IsValue(v) /\ v.t # "ok"
    BY <1>2, DataErrorsAreErrors DEF DataErrors
  <2>2. v \notin {Bool(TRUE), Bool(FALSE)}
    BY <2>1, BoolKinds
  <2> QED
    BY <1>2, <2>1, <2>2 DEF Outcome
<1> QED
  BY <1>1, <1>2

\* The keys of the rows the filter keeps.
Kept(rows, schema, f) == {pk \in DOMAIN rows : KeepsRow(f, schema, rows[pk]) = Bool(TRUE)}

\* What Keep makes of a table.
IsKept(k, rows, schema, f) ==
  /\ k.error \in {"ok"} \cup DataErrors
  /\ k.error = "ok" <=> \A pk \in DOMAIN rows : Outcome(KeepsRow(f, schema, rows[pk])) = "ok"
  /\ k = [error |-> k.error,
          rows  |-> IF k.error # "ok" THEN <<>> ELSE ScanRows(Restrict(rows, Kept(rows, schema, f)))]

\* Keep fails when it does on one of the rows, and otherwise returns the rows kept,
\* in key order.
LEMMA KeepIs ==
  ASSUME NEW schema \in RowSchemas, NEW rows \in TablesOf(schema), NEW f \in Wheres,
         CheckFilter(f, schema) = "ok"
  PROVE  IsKept(Keep(rows, schema, f), rows, schema, f)
<1> DEFINE D == DOMAIN rows
           keys == ScanOrder(D)
           scanned == ScanRows(rows)
           checks == [i \in DOMAIN scanned |-> Outcome(KeepsRow(f, schema, scanned[i]))]
           error == FirstError(checks)
           k == Keep(rows, schema, f)
           n == Cardinality(D)
<1>1. IsFiniteSet(D) /\ D \subseteq KeysOf(schema) /\ \A pk \in D : RowOf(schema, rows[pk])
  BY TableIs, FitRowIs
<1>2. KeySet(D) /\ n \in Nat
  BY <1>1, KeysAreKeySet, FS_CardinalityType
<1>3. IsScanOf(scanned, keys, rows)
  BY <1>2, ScanRowsIs
<1>4. keys \in [1 .. n -> D] /\ scanned = [i \in 1 .. n |-> rows[keys[i]]]
      /\ \A pk \in D : \E i \in 1 .. n : keys[i] = pk
  BY <1>3 DEF IsScanOf, IsScan
<1>5. k = [error |-> error,
           rows  |-> IF error # "ok" THEN <<>> ELSE ScanRows(Restrict(rows, Kept(rows, schema, f)))]
  BY DEF Keep, Found, Kept
<1> HIDE DEF keys, scanned, k, n
<1>6. Checks(checks, n) /\ DOMAIN checks = 1 .. n
      /\ \A i \in 1 .. n : checks[i] = Outcome(KeepsRow(f, schema, rows[keys[i]]))
  BY <1>2, <1>4 DEF Checks
<1>7. \A pk \in D : Outcome(KeepsRow(f, schema, rows[pk])) \in {"ok"} \cup DataErrors
  BY <1>1, KeepsRowIs, OutcomeIs
<1> HIDE DEF checks
<1>8. error = "ok" <=> \A i \in 1 .. n : checks[i] = "ok"
  BY <1>6, FirstErrorOk
<1>9. error = "ok" <=> \A pk \in D : Outcome(KeepsRow(f, schema, rows[pk])) = "ok"
  BY <1>4, <1>6, <1>8
<1>10. error \in {"ok"} \cup DataErrors
  <2>1. \A i \in DOMAIN checks : checks[i] \in {"ok"} \cup DataErrors
    BY <1>4, <1>6, <1>7
  <2> DEFINE E == {"ok"} \cup DataErrors
  <2>2. \A i \in DOMAIN checks : checks[i] \in E
    BY <2>1
  <2> HIDE DEF E
  <2>3. FirstError(checks) = "ok" \/ FirstError(checks) \in E
    BY <1>6, <2>2, FirstErrorIn
  <2> QED
    BY <2>3 DEF E
<1> HIDE DEF error, D
<1>11. k.error = error
  BY <1>5
<1> QED
  BY <1>5, <1>9, <1>10, <1>11 DEF IsKept, k, D

\* Part of a table is a table.
LEMMA RestrictedTable ==
  ASSUME NEW schema, NEW rows \in TablesOf(schema), NEW D \in SUBSET DOMAIN rows
  PROVE  /\ Restrict(rows, D) \in TablesOf(schema)
         /\ DOMAIN Restrict(rows, D) = D
         /\ \A pk \in D : Restrict(rows, D)[pk] = rows[pk]
<1> DEFINE r == Restrict(rows, D)
<1>1. r = [pk \in D |-> rows[pk]]
  BY DEF Restrict
<1>2. DOMAIN r = D /\ \A pk \in D : r[pk] = rows[pk]
  BY <1>1
<1>3. IsFiniteSet(D)
  BY TableIs, FS_Subset
<1>4. r = [pk \in DOMAIN r |-> r[pk]]
  BY <1>1, <1>2
<1> HIDE DEF r
<1>5. \A pk \in D : pk \in DOMAIN rows /\ pk \in KeysOf(schema)
                    /\ rows[pk] \in FitRows(schema) /\ rows[pk][schema.pk] = pk
  BY TableIs
<1>6. r \in TablesOf(schema)
  BY <1>2, <1>3, <1>4, <1>5, TableIs
<1> QED
  BY <1>2, <1>6 DEF r

\* The candidates are part of the table, and miss no row that the filter keeps.
IsCandidates(c, rows, schema, f) ==
  /\ c \in TablesOf(schema)
  /\ DOMAIN c \subseteq DOMAIN rows
  /\ \A pk \in DOMAIN c : c[pk] = rows[pk]
  /\ Kept(rows, schema, f) = Kept(c, schema, f)

\* The rows that the access path visits.
LEMMA CandidatesAre ==
  ASSUME NEW schema \in RowSchemas, NEW rows \in TablesOf(schema), NEW f \in Wheres,
         CheckFilter(f, schema) = "ok"
  PROVE  IsCandidates(Candidates(rows, schema, f), rows, schema, f)
<1> DEFINE c == Candidates(rows, schema, f)
           pin == AccessPath(schema, f)
<1> SUFFICES IsCandidates(c, rows, schema, f)
  OBVIOUS
<1>1. CASE pin = FullScan
  <2>1. c = rows
    BY <1>1 DEF Candidates
  <2> HIDE DEF c
  <2> QED
    BY <2>1 DEF IsCandidates
<1>2. CASE pin # FullScan
  <2> DEFINE D == DOMAIN rows \cap {pin}
  <2>1. c = Restrict(rows, D)
    BY <1>2 DEF Candidates
  <2>2. c \in TablesOf(schema) /\ DOMAIN c = D /\ \A pk \in D : c[pk] = rows[pk]
    BY <2>1, RestrictedTable
  <2>3. f \in Exprs
    BY <1>2 DEF Wheres, AccessPath
  <2>4. ASSUME NEW pk \in DOMAIN rows, KeepsRow(f, schema, rows[pk]) = Bool(TRUE)
        PROVE  pk = pin
    <3>1. rows[pk] \in FitRows(schema) /\ rows[pk][schema.pk] = pk
      BY TableIs
    <3>2. RowOf(schema, rows[pk]) /\ f # NoFilter
      BY <2>3, <3>1, FitRowIs, ExprShape DEF NoFilter
    <3>3. EvalIn(f, schema, rows[pk]) = Bool(TRUE)
      BY <2>4, <3>2, KeepsRowIs
    <3> QED
      BY <1>2, <2>3, <3>1, <3>3, PinnedRow
  <2> HIDE DEF c, pin
  <2>5. Kept(rows, schema, f) = Kept(c, schema, f)
    BY <2>2, <2>4 DEF Kept
  <2> QED
    BY <2>2, <2>5 DEF IsCandidates
<1> QED
  BY <1>1, <1>2

\* What a full scan finds.
FoundBy(m, rows, schema, f) ==
  IF CheckFilter(f, schema) # "ok" THEN m = [error |-> CheckFilter(f, schema), rows |-> <<>>]
  ELSE m = Keep(rows, schema, f)

\* A lookup finds what a scan finds, and fails only where it does.
OnlySkips(chosen, scanned) ==
  /\ scanned.error = "ok" => chosen = scanned
  /\ chosen.error # "ok" => scanned.error # "ok"

\* The point lookup against the scan, on every table.
LEMMA LookupOnlySkips ==
  ASSUME NEW schema \in RowSchemas, NEW rows \in TablesOf(schema), NEW f \in Wheres,
         NEW scanned, FoundBy(scanned, rows, schema, f)
  PROVE  OnlySkips(MatchingRows(rows, schema, f), scanned)
<1> DEFINE chosen == MatchingRows(rows, schema, f)
<1> SUFFICES OnlySkips(chosen, scanned)
  OBVIOUS
<1>1. CASE CheckFilter(f, schema) # "ok"
  BY <1>1 DEF MatchingRows, FoundBy, OnlySkips
<1>2. CASE CheckFilter(f, schema) = "ok"
  <2> DEFINE c == Candidates(rows, schema, f)
  <2>1. IsCandidates(c, rows, schema, f)
    BY <1>2, CandidatesAre
  <2>2. chosen = Keep(c, schema, f) /\ scanned = Keep(rows, schema, f)
    BY <1>2 DEF MatchingRows, FoundBy
  <2> HIDE DEF c, chosen
  <2>3. IsKept(scanned, rows, schema, f) /\ IsKept(chosen, c, schema, f)
    BY <1>2, <2>1, <2>2, KeepIs DEF IsCandidates
  <2>4. scanned.error = "ok" => chosen.error = "ok"
    BY <2>1, <2>3 DEF IsKept, IsCandidates
  <2>5. Restrict(c, Kept(c, schema, f)) = Restrict(rows, Kept(rows, schema, f))
    <3> DEFINE K == Kept(c, schema, f)
    <3>1. \A pk \in K : c[pk] = rows[pk]
      BY <2>1 DEF IsCandidates, Kept
    <3>2. Kept(rows, schema, f) = K
      BY <2>1 DEF IsCandidates
    <3> HIDE DEF K
    <3>3. Restrict(c, K) = Restrict(rows, K)
      BY <3>1 DEF Restrict
    <3> QED
      BY <3>2, <3>3 DEF K
  <2>6. scanned.error = "ok" => chosen = scanned
    <3> SUFFICES ASSUME scanned.error = "ok" PROVE chosen = scanned
      OBVIOUS
    <3> DEFINE a == ScanRows(Restrict(c, Kept(c, schema, f)))
               b == ScanRows(Restrict(rows, Kept(rows, schema, f)))
    <3>1. a = b
      BY <2>5
    <3>2. chosen.error = "ok" /\ chosen = [error |-> chosen.error, rows |-> IF chosen.error # "ok" THEN <<>> ELSE a]
      BY <2>3, <2>4 DEF IsKept
    <3>3. scanned = [error |-> scanned.error, rows |-> IF scanned.error # "ok" THEN <<>> ELSE b]
      BY <2>3 DEF IsKept
    <3> HIDE DEF a, b
    <3> QED
      BY <3>1, <3>2, <3>3
  <2> QED
    BY <2>4, <2>6 DEF OnlySkips
<1> QED
  BY <1>1, <1>2

\* The rows that SELECT, UPDATE and DELETE go through: rows of the table, each
\* once, unless a check or a row is refused.
IsMatched(m, rows, schema, f) ==
  /\ m.error = CheckFilter(f, schema) \/ (CheckFilter(f, schema) = "ok" /\ m.error \in DataErrors)
  /\ m.error # "ok" => m.rows = <<>>
  /\ m.rows \in Seq(FitRows(schema))
  /\ \A i \in DOMAIN m.rows : m.rows[i][schema.pk] \in DOMAIN rows /\ m.rows[i] = rows[m.rows[i][schema.pk]]
  /\ \A i, j \in DOMAIN m.rows : i < j => m.rows[i][schema.pk].x < m.rows[j][schema.pk].x

\* MatchingRows on every table.
LEMMA MatchedAre ==
  ASSUME NEW schema \in RowSchemas, NEW rows \in TablesOf(schema), NEW f \in Wheres
  PROVE  IsMatched(MatchingRows(rows, schema, f), rows, schema, f)
<1> DEFINE m == MatchingRows(rows, schema, f)
<1> SUFFICES IsMatched(m, rows, schema, f)
  OBVIOUS
<1>1. CASE CheckFilter(f, schema) # "ok"
  <2>1. m.error = CheckFilter(f, schema) /\ m.rows = <<>>
    BY <1>1 DEF MatchingRows
  <2> HIDE DEF m
  <2> QED
    BY <2>1 DEF IsMatched
<1>2. CASE CheckFilter(f, schema) = "ok"
  <2> DEFINE c == Candidates(rows, schema, f)
             t == Restrict(c, Kept(c, schema, f))
             D == Kept(c, schema, f)
             keys == ScanOrder(D)
  <2>1. IsCandidates(c, rows, schema, f)
    BY <1>2, CandidatesAre
  <2>2. m = Keep(c, schema, f)
    BY <1>2 DEF MatchingRows
  <2> HIDE DEF c, m
  <2>3. IsKept(m, c, schema, f)
    BY <1>2, <2>1, <2>2, KeepIs DEF IsCandidates
  <2>4. D \subseteq DOMAIN c /\ c \in TablesOf(schema)
    BY <2>1 DEF Kept, IsCandidates
  <2>5. t \in TablesOf(schema) /\ DOMAIN t = D /\ \A pk \in D : t[pk] = c[pk]
    BY <2>4, RestrictedTable
  <2>6. m.error # "ok" => m.rows = <<>>
    BY <2>3 DEF IsKept
  <2>7. m.error = "ok" => m.rows = ScanRows(t)
    BY <2>3 DEF IsKept
  <2>8. m.error \in {"ok"} \cup DataErrors
    BY <2>3 DEF IsKept
  <2> HIDE DEF t, D, keys
  <2>9. KeySet(D) /\ Cardinality(D) \in Nat
    BY <2>5, TableIs, KeysAreKeySet, FS_CardinalityType
  <2>10. IsScanOf(ScanRows(t), keys, t)
    BY <2>5, <2>9, ScanRowsIs DEF keys
  <2> DEFINE n == Cardinality(D)
             s == ScanRows(t)
  <2>11. keys \in [1 .. n -> D] /\ s = [i \in 1 .. n |-> t[keys[i]]]
         /\ \A i, j \in 1 .. n : i < j => keys[i].x < keys[j].x
    BY <2>5, <2>10 DEF IsScanOf, IsScan
  <2> HIDE DEF n, s
  <2>12. \A pk \in D : t[pk] \in FitRows(schema) /\ t[pk][schema.pk] = pk /\ t[pk] = rows[pk] /\ pk \in DOMAIN rows
    BY <2>1, <2>4, <2>5, TableIs DEF IsCandidates
  <2>13. \A i \in 1 .. n : s[i] \in FitRows(schema) /\ s[i][schema.pk] = keys[i] /\ keys[i] \in DOMAIN rows /\ s[i] = rows[keys[i]]
    BY <2>11, <2>12
  <2>14. s \in Seq(FitRows(schema)) /\ DOMAIN s = 1 .. n
    <3>1. n \in Nat
      BY <2>9 DEF n
    <3>2. s \in [1 .. n -> FitRows(schema)]
      BY <2>11, <2>13
    <3> QED
      BY <3>1, <3>2
  <2>15. CASE m.error # "ok"
    <3>1. m.rows = <<>>
      BY <2>6, <2>15
    <3> QED
      BY <1>2, <2>8, <2>15, <3>1 DEF IsMatched
  <2>16. CASE m.error = "ok"
    <3>1. m.rows = s
      BY <2>7, <2>16 DEF s
    <3> QED
      BY <1>2, <2>11, <2>13, <2>14, <2>16, <3>1 DEF IsMatched
  <2> QED
    BY <2>15, <2>16
<1> QED
  BY <1>1, <1>2

-----------------------------------------------------------------------------
(* Changes.                                                                *)

\* What rows holds under a key.
HeldIn(rows, pk) == IF pk \in DOMAIN rows THEN rows[pk] ELSE NoRow

\* The changes a statement may record.
Changes(schema) ==
  [pk : KeysOf(schema), from : FitRows(schema) \cup {NoRow}, to : FitRows(schema) \cup {NoRow}]

\* c may be made in a table of the schema.
Fitting(c, schema) ==
  c \in Changes(schema) /\ (c.to = NoRow \/ c.to[schema.pk] = c.pk)

\* t is rows after the change.
IsChanged(t, rows, c, schema) ==
  /\ t \in TablesOf(schema)
  /\ HeldIn(t, c.pk) = c.to
  /\ \A pk : pk # c.pk => HeldIn(t, pk) = HeldIn(rows, pk)

\* Changed makes a table of the schema, and touches one key.
LEMMA ChangedIs ==
  ASSUME NEW schema \in RowSchemas, NEW rows \in TablesOf(schema), NEW c, Fitting(c, schema)
  PROVE  IsChanged(Changed(rows, c), rows, c, schema)
<1> DEFINE t == Changed(rows, c)
           D == (DOMAIN rows \ {c.pk}) \cup (IF c.to = NoRow THEN {} ELSE {c.pk})
<1>1. t = [pk \in D |-> IF pk = c.pk THEN c.to ELSE rows[pk]]
  BY DEF Changed
<1>2. DOMAIN t = D /\ (\A pk \in D : t[pk] = IF pk = c.pk THEN c.to ELSE rows[pk])
      /\ t = [pk \in DOMAIN t |-> t[pk]]
  BY <1>1
<1> HIDE DEF t
<1>3. /\ IsFiniteSet(DOMAIN rows) /\ DOMAIN rows \subseteq KeysOf(schema)
      /\ \A pk \in DOMAIN rows : rows[pk] \in FitRows(schema) /\ rows[pk][schema.pk] = pk
  BY TableIs
<1>4. c.pk \in KeysOf(schema) /\ c.to \in FitRows(schema) \cup {NoRow}
      /\ (c.to = NoRow \/ c.to[schema.pk] = c.pk)
  BY DEF Fitting, Changes
<1>5. IsFiniteSet(D)
  <2>1. IsFiniteSet(DOMAIN rows \ {c.pk})
    BY <1>3, FS_Subset
  <2> DEFINE E == DOMAIN rows \ {c.pk}
  <2> HIDE DEF E
  <2>2. IsFiniteSet(E) /\ IsFiniteSet(E \cup {c.pk})
    BY <2>1, FS_AddElement DEF E
  <2> QED
    BY <2>1, <2>2 DEF E
<1>6. D \subseteq KeysOf(schema) /\ \A pk \in D : t[pk] \in FitRows(schema) /\ t[pk][schema.pk] = pk
  BY <1>2, <1>3, <1>4
<1>7. t \in TablesOf(schema)
  BY <1>2, <1>5, <1>6, TableIs
<1>8. HeldIn(t, c.pk) = c.to
  BY <1>2 DEF HeldIn
<1>9. \A pk : pk # c.pk => HeldIn(t, pk) = HeldIn(rows, pk)
  BY <1>2 DEF HeldIn
<1> QED
  BY <1>7, <1>8, <1>9 DEF IsChanged, t

\* r is where a statement that began on rows may have come to, with a verdict in E.
ResultsOf(schema, E) ==
  [error : E, rows : TablesOf(schema), returned : {<<>>}, changes : Seq(Changes(schema))]

\* The keys a statement has changed.
ChangedKeys(r) == {r.changes[i].pk : i \in DOMAIN r.changes}

\* Each key was changed once, from what rows held to what r holds; the others are
\* as they were.
Good(schema, rows, E, r) ==
  /\ r \in ResultsOf(schema, E)
  /\ \A i, j \in DOMAIN r.changes : r.changes[i].pk = r.changes[j].pk => i = j
  /\ \A i \in DOMAIN r.changes : /\ r.changes[i].from = HeldIn(rows, r.changes[i].pk)
                                 /\ r.changes[i].to = HeldIn(r.rows, r.changes[i].pk)
  /\ \A pk : pk \notin ChangedKeys(r) => HeldIn(r.rows, pk) = HeldIn(rows, pk)

\* A statement that has done nothing.
LEMMA StartIsGood ==
  ASSUME NEW schema \in RowSchemas, NEW rows \in TablesOf(schema), NEW E, NEW error \in E
  PROVE  Good(schema, rows, E, Result(error, rows, <<>>))
<1> DEFINE r == Result(error, rows, <<>>)
<1>1. r = [error |-> error, rows |-> rows, returned |-> <<>>, changes |-> <<>>]
  BY DEF Result
<1>2. <<>> \in Seq(Changes(schema))
  <2> DEFINE C == Changes(schema)
  <2> HIDE DEF C
  <2>1. <<>> \in Seq(C)
    OBVIOUS
  <2> QED
    BY <2>1 DEF C
<1> HIDE DEF r
<1>3. r \in ResultsOf(schema, E) /\ r.changes = <<>> /\ r.rows = rows
  BY <1>1, <1>2 DEF ResultsOf
<1> QED
  BY <1>3 DEF Good, r

\* The change of one more key is made.
LEMMA StepIsGood ==
  ASSUME NEW schema \in RowSchemas, NEW rows \in TablesOf(schema), NEW E, NEW r, Good(schema, rows, E, r),
         NEW check, r.error = "ok" => check \in E, NEW c,
         r.error = "ok" /\ check = "ok" =>
           Fitting(c, schema) /\ c.pk \notin ChangedKeys(r) /\ c.from = HeldIn(rows, c.pk)
  PROVE  Good(schema, rows, E, Stepwise(r, check, c))
<1> DEFINE q == Stepwise(r, check, c)
<1> SUFFICES Good(schema, rows, E, q)
  OBVIOUS
<1>1. r \in ResultsOf(schema, E) /\ r.rows \in TablesOf(schema) /\ r.changes \in Seq(Changes(schema))
      /\ r.error \in E /\ r.returned = <<>>
  BY DEF Good, ResultsOf
<1>2. CASE r.error # "ok"
  <2>1. q = r
    BY <1>2 DEF Stepwise
  <2> HIDE DEF q
  <2> QED
    BY <2>1
<1>3. CASE r.error = "ok" /\ check # "ok"
  <2>1. q = [r EXCEPT !.error = check]
    BY <1>3 DEF Stepwise
  <2>2. q \in ResultsOf(schema, E) /\ q.rows = r.rows /\ q.changes = r.changes
    BY <1>1, <1>3, <2>1 DEF ResultsOf
  <2> HIDE DEF q
  <2> QED
    BY <2>2 DEF Good, ChangedKeys
<1>4. CASE r.error = "ok" /\ check = "ok"
  <2> DEFINE t == Changed(r.rows, c)
             cs == Append(r.changes, c)
             n == Len(r.changes)
  <2>1. q = [r EXCEPT !.rows = t, !.changes = cs]
    BY <1>4 DEF Stepwise
  <2>2. Fitting(c, schema) /\ c.pk \notin ChangedKeys(r) /\ c.from = HeldIn(rows, c.pk) /\ c \in Changes(schema)
    BY <1>4 DEF Fitting
  <2>3. IsChanged(t, r.rows, c, schema)
    BY <1>1, <2>2, ChangedIs
  <2>4. cs \in Seq(Changes(schema)) /\ DOMAIN cs = 1 .. n + 1 /\ n \in Nat /\ DOMAIN r.changes = 1 .. n
        /\ cs[n + 1] = c /\ \A i \in 1 .. n : cs[i] = r.changes[i]
    BY <1>1, <2>2
  <2> HIDE DEF t, cs
  <2>5. q \in ResultsOf(schema, E) /\ q.rows = t /\ q.changes = cs
    BY <1>1, <2>1, <2>3, <2>4 DEF ResultsOf, IsChanged
  <2> HIDE DEF q, n
  <2>6. \A i \in 1 .. n : r.changes[i].pk # c.pk
    BY <2>2, <2>4 DEF ChangedKeys
  <2>7. \A i \in 1 .. n + 1 : i = n + 1 \/ i \in 1 .. n
    BY <2>4
  <2>8. \A i, j \in DOMAIN q.changes : q.changes[i].pk = q.changes[j].pk => i = j
    BY <2>4, <2>5, <2>6, <2>7 DEF Good
  <2>9. \A i \in DOMAIN q.changes : /\ q.changes[i].from = HeldIn(rows, q.changes[i].pk)
                                    /\ q.changes[i].to = HeldIn(q.rows, q.changes[i].pk)
    <3> TAKE i \in DOMAIN q.changes
    <3>1. CASE i = n + 1
      BY <2>2, <2>3, <2>4, <2>5, <3>1 DEF IsChanged
    <3>2. CASE i \in 1 .. n
      <4>1. q.changes[i] = r.changes[i] /\ r.changes[i].pk # c.pk
        BY <2>4, <2>5, <2>6, <3>2
      <4>2. HeldIn(q.rows, r.changes[i].pk) = HeldIn(r.rows, r.changes[i].pk)
        BY <2>3, <2>5, <4>1 DEF IsChanged
      <4> QED
        BY <2>4, <3>2, <4>1, <4>2 DEF Good
    <3> QED
      BY <2>4, <2>5, <2>7, <3>1, <3>2
  <2>10. ASSUME NEW pk, pk \notin ChangedKeys(q) PROVE HeldIn(q.rows, pk) = HeldIn(rows, pk)
    <3>1. ChangedKeys(q) = ChangedKeys(r) \cup {c.pk}
      <4>1. \A i \in 1 .. n : i \in 1 .. n + 1
        BY <2>4
      <4>2. n + 1 \in 1 .. n + 1
        BY <2>4
      <4> QED
        BY <2>4, <2>5, <2>7, <4>1, <4>2 DEF ChangedKeys
    <3>2. pk \notin ChangedKeys(r) /\ pk # c.pk
      BY <2>10, <3>1
    <3> QED
      BY <2>3, <2>5, <3>2 DEF IsChanged, Good
  <2> QED
    BY <2>5, <2>8, <2>9, <2>10 DEF Good
<1> QED
  BY <1>2, <1>3, <1>4

-----------------------------------------------------------------------------
(* Checks of rows.                                                         *)

\* What INSERT refuses, the names of its columns aside.
InsertErrors ==
  EvalErrors \cup {"ok", "ValueCount", "NullPrimaryKey", "DuplicatePrimaryKey",
                   "RowTypeMismatch", "UnexpectedNull"}

\* The outcome of a value.
LEMMA OutcomeOf ==
  ASSUME NEW v \in Results
  PROVE  /\ Outcome(v) \in InsertErrors
         /\ Outcome(v) = "ok" <=> v \in Values
<1>1. CASE IsValue(v)
  BY <1>1, ResultKinds DEF Outcome, InsertErrors
<1>2. CASE ~IsValue(v)
  <2>1. v.t \in EvalErrors /\ v \notin Values
    BY <1>2, ResultKinds
  <2>2. v.t # "ok"
    BY <2>1 DEF EvalErrors, DataErrors
  <2> QED
    BY <1>2, <2>1, <2>2 DEF Outcome, InsertErrors
<1> QED
  BY <1>1, <1>2

\* The row has a place for every column.
IsRow(schema, row) == DOMAIN row = DOMAIN schema.columns

\* e is what encode_row says of a row with a place for every column.
EncodedAs(e, schema, row) ==
  /\ e \in {"ok", "UnexpectedNull", "RowTypeMismatch"}
  /\ e = "ok" <=> \A i \in DOMAIN schema.columns :
                    IF row[i] = Null THEN schema.columns[i].nullable
                    ELSE row[i].t = schema.columns[i].ty
  /\ e = "RowTypeMismatch" => \E i \in DOMAIN schema.columns :
                                row[i] # Null /\ row[i].t # schema.columns[i].ty

\* encode_row refuses a value of another type and a NULL where there may be none.
LEMMA EncodeRowIs ==
  ASSUME NEW schema \in RowSchemas, NEW row, IsRow(schema, row)
  PROVE  EncodedAs(EncodeRow(schema, row), schema, row)
<1> DEFINE cs == schema.columns
           n == Len(cs)
           E == {"ok", "UnexpectedNull", "RowTypeMismatch"}
           checks == [i \in DOMAIN row |->
                        IF row[i] = Null
                        THEN IF schema.columns[i].nullable THEN "ok" ELSE "UnexpectedNull"
                        ELSE IF row[i].t = schema.columns[i].ty THEN "ok" ELSE "RowTypeMismatch"]
           e == EncodeRow(schema, row)
<1>1. n \in Nat /\ DOMAIN cs = 1 .. n
  BY SchemaIs
<1>2. e = FirstError(checks)
  BY DEF EncodeRow
<1>3. Checks(checks, n) /\ DOMAIN checks = DOMAIN cs
  BY <1>1 DEF Checks, IsRow
<1>4. \A i \in DOMAIN cs : checks[i] = IF row[i] = Null
                        THEN IF cs[i].nullable THEN "ok" ELSE "UnexpectedNull"
                        ELSE IF row[i].t = cs[i].ty THEN "ok" ELSE "RowTypeMismatch"
  BY DEF IsRow
<1> HIDE DEF checks, e
<1>5. IsFirstError(e, checks)
  BY <1>2, <1>3, FirstErrorIs
<1>6. e = "ok" <=> \A i \in DOMAIN cs : checks[i] = "ok"
  BY <1>2, <1>3, FirstErrorOk
<1>7. e \in E
  BY <1>3, <1>4, <1>5 DEF IsFirstError
<1>8. e = "RowTypeMismatch" => \E i \in DOMAIN cs : checks[i] = "RowTypeMismatch"
  BY <1>3, <1>5 DEF IsFirstError
<1>9. e = "RowTypeMismatch" => \E i \in DOMAIN cs : row[i] # Null /\ row[i].t # cs[i].ty
  BY <1>4, <1>8
<1>10. \A i \in DOMAIN cs : checks[i] = "ok" <=> IF row[i] = Null THEN cs[i].nullable ELSE row[i].t = cs[i].ty
  BY <1>4
<1> HIDE DEF cs
<1> QED
  BY <1>6, <1>7, <1>9, <1>10 DEF EncodedAs, e, cs

\* WriteCheck adds the check of the primary key.
LEMMA WriteCheckIs ==
  ASSUME NEW schema \in RowSchemas, NEW row, IsRow(schema, row)
  PROVE  /\ WriteCheck(schema, row) \in {"ok", "UnexpectedNull", "RowTypeMismatch"}
         /\ WriteCheck(schema, row) = "ok" =>
              row[schema.pk].t = PkType(schema) /\ EncodeRow(schema, row) = "ok"
         /\ row[schema.pk].t = PkType(schema) => WriteCheck(schema, row) = EncodeRow(schema, row)
<1> DEFINE k == KeyCheck(schema, row[schema.pk])
           e == EncodeRow(schema, row)
<1>1. k = (IF row[schema.pk].t = PkType(schema) THEN "ok" ELSE "RowTypeMismatch")
  BY DEF KeyCheck
<1>2. e \in {"ok", "UnexpectedNull", "RowTypeMismatch"}
  BY EncodeRowIs DEF EncodedAs
<1>3. WriteCheck(schema, row) = IF k = "ok" THEN e ELSE k
  <2> HIDE DEF k, e
  <2>1. FirstError(<<k, e>>) = IF k = "ok" THEN e ELSE k
    BY FirstErrorOfTwo
  <2> QED
    BY <2>1 DEF WriteCheck, k, e
<1> HIDE DEF k, e
<1> QED
  BY <1>1, <1>2, <1>3 DEF e

\* A row that WriteCheck lets through fits.
LEMMA WrittenFits ==
  ASSUME NEW schema \in RowSchemas, NEW row \in [DOMAIN schema.columns -> Values],
         WriteCheck(schema, row) = "ok"
  PROVE  row \in FitRows(schema) /\ row[schema.pk] \in KeysOf(schema)
<1>1. EncodeRow(schema, row) = "ok"
  BY WriteCheckIs DEF IsRow
<1>2. \A i \in DOMAIN schema.columns : IF row[i] = Null THEN schema.columns[i].nullable
                                       ELSE row[i].t = schema.columns[i].ty
  BY <1>1, EncodeRowIs DEF EncodedAs, IsRow
<1>3. \A i \in DOMAIN schema.columns : row[i] \in Values /\ Fits(row[i], row[i].t)
  BY ResultKinds
<1>4. \A t : Fits(Null, t)
  BY DEF Fits
<1>5. row \in FitRows(schema)
  BY <1>2, <1>3, <1>4 DEF FitRows
<1> QED
  BY <1>5, FitRowIs

-----------------------------------------------------------------------------
(* INSERT.                                                                 *)

\* The columns a statement names.
LEMMA NamesAre ==
  ASSUME NEW schema \in RowSchemas, NEW columns, columns = AllColumns \/ columns \in Seq(STRING)
  PROVE  ColumnNames(schema, columns) \in Seq(STRING)
<1> DEFINE cs == schema.columns
<1>1. cs \in Seq(ColumnDefs) /\ \A c \in ColumnDefs : c.name \in STRING
  BY SchemaIs DEF ColumnDefs
<1> HIDE DEF cs
<1>2. [i \in DOMAIN cs |-> cs[i].name] \in Seq(STRING)
  <2>1. \A i \in 1 .. Len(cs) : cs[i] \in ColumnDefs
    BY <1>1
  <2>2. \A i \in 1 .. Len(cs) : cs[i].name \in STRING
    BY <1>1, <2>1
  <2>3. DOMAIN cs = 1 .. Len(cs) /\ Len(cs) \in Nat
    BY <1>1
  <2> QED
    BY <2>2, <2>3
<1> QED
  BY <1>2 DEF ColumnNames, cs

\* The checks of a row of an INSERT, and what they make sure of.
IsInsertable(e, schema, row, rows) ==
  /\ e \in InsertErrors
  /\ e = "ok" => /\ row \in FitRows(schema)
                 /\ row[schema.pk] \in KeysOf(schema)
                 /\ row[schema.pk] \notin DOMAIN rows

\* InsertCheck on every list of expressions.
LEMMA InsertCheckIs ==
  ASSUME NEW schema \in RowSchemas, NEW names \in Seq(STRING), NEW exprs \in Seq(Exprs), NEW rows
  PROVE  IsInsertable(InsertCheck(schema, names, exprs, rows), schema,
                      InsertedRow(schema, names, exprs), rows)
<1> DEFINE e == InsertCheck(schema, names, exprs, rows)
           row == InsertedRow(schema, names, exprs)
           pk == row[schema.pk]
<1> SUFFICES IsInsertable(e, schema, row, rows)
  OBVIOUS
<1>1. CASE Len(exprs) # Len(names)
  <2>1. e = "ValueCount"
    BY <1>1 DEF InsertCheck
  <2> HIDE DEF e, row
  <2> QED
    BY <2>1 DEF IsInsertable, InsertErrors
<1>2. CASE Len(exprs) = Len(names)
  <2> DEFINE values == [j \in DOMAIN exprs |-> Outcome(EvalConstant(exprs[j]))]
             k == KeyCheck(schema, pk)
             w == WriteCheck(schema, row)
             others == << IF pk = Null THEN "NullPrimaryKey" ELSE "ok",
                          k,
                          IF pk \in DOMAIN rows THEN "DuplicatePrimaryKey" ELSE "ok",
                          w >>
  <2>1. e = FirstError(values \o others)
    BY <1>2 DEF InsertCheck
  <2>2. IsRow(schema, row)
    BY DEF InsertedRow, IsRow
  <2>3. \A j \in DOMAIN exprs : exprs[j] \in Exprs /\ EvalConstant(exprs[j]) \in Results
    <3> TAKE j \in DOMAIN exprs
    <3>1. exprs[j] \in Exprs
      OBVIOUS
    <3> QED
      BY <3>1, ConstantResult
  <2>4. values \in Seq(InsertErrors) /\ Checks(values, Len(exprs)) /\ DOMAIN values = DOMAIN exprs
    <3>1. \A j \in DOMAIN exprs : values[j] \in InsertErrors
      BY <2>3, OutcomeOf
    <3> QED
      BY <3>1 DEF Checks
  <2>5. w \in InsertErrors /\ k \in InsertErrors
    BY <2>2, WriteCheckIs DEF KeyCheck, InsertErrors
  <2>6. ASSUME \A j \in DOMAIN exprs : values[j] = "ok"
        PROVE  row \in [DOMAIN schema.columns -> Values]
    <3>1. \A j \in DOMAIN exprs : EvalConstant(exprs[j]) \in Values
      BY <2>3, <2>6, OutcomeOf
    <3>2. DOMAIN names = DOMAIN exprs
      BY <1>2
    <3>3. Null \in Values
      BY NullResult, ResultKinds, BoolKinds
    <3> QED
      BY <3>1, <3>2, <3>3 DEF InsertedRow
  <2> HIDE DEF values, k, w, row
  <2>7. others \in Seq(InsertErrors) /\ Checks(others, 4) /\ DOMAIN others = 1 .. 4
    <3> DEFINE a == IF pk = Null THEN "NullPrimaryKey" ELSE "ok"
               c == IF pk \in DOMAIN rows THEN "DuplicatePrimaryKey" ELSE "ok"
    <3>1. a \in InsertErrors /\ c \in InsertErrors
      BY DEF InsertErrors
    <3>2. others = <<a, k, c, w>>
      OBVIOUS
    <3> HIDE DEF a, c, others
    <3> QED
      BY <2>5, <3>1, <3>2 DEF Checks
  <2>8. others[3] = (IF pk \in DOMAIN rows THEN "DuplicatePrimaryKey" ELSE "ok") /\ others[4] = w
    OBVIOUS
  <2>9. \A i \in DOMAIN others : others[i] \in InsertErrors
    BY <2>7
  <2> HIDE DEF others, e, pk
  <2>10. e = IF FirstError(values) = "ok" THEN FirstError(others) ELSE FirstError(values)
    BY <2>1, <2>4, <2>7, FirstErrorAppended
  <2>0. "ok" \in InsertErrors
    BY DEF InsertErrors
  <2>11. FirstError(values) \in InsertErrors
    <3>1. \A i \in DOMAIN values : values[i] \in InsertErrors
      BY <2>4
    <3> QED
      BY <2>0, <2>4, <3>1, FirstErrorIn
  <2>12. FirstError(others) \in InsertErrors
    BY <2>0, <2>7, <2>9, FirstErrorIn
  <2>13. e = "ok" => row \in FitRows(schema) /\ pk \in KeysOf(schema) /\ pk \notin DOMAIN rows
    <3> SUFFICES ASSUME e = "ok" PROVE row \in FitRows(schema) /\ pk \in KeysOf(schema) /\ pk \notin DOMAIN rows
      OBVIOUS
    <3>1. FirstError(values) = "ok" /\ FirstError(others) = "ok"
      BY <2>10
    <3>2. \A j \in DOMAIN exprs : values[j] = "ok"
      BY <2>4, <3>1, FirstErrorOk
    <3>3. others[3] = "ok" /\ others[4] = "ok"
      BY <2>7, <3>1, FirstErrorOk
    <3>4. row \in [DOMAIN schema.columns -> Values] /\ WriteCheck(schema, row) = "ok"
      BY <2>6, <2>8, <3>2, <3>3 DEF w
    <3> QED
      BY <2>8, <3>3, <3>4, WrittenFits DEF pk
  <2> QED
    BY <2>10, <2>11, <2>12, <2>13 DEF IsInsertable, pk
<1> QED
  BY <1>1, <1>2

\* Every row there is after the inserts so far was put there, or was there before.
InsertGood(schema, rows, E, r) ==
  Good(schema, rows, E, r) /\ \A i \in DOMAIN r.changes : r.changes[i].to # NoRow

\* Inserting one row.
LEMMA InsertStep ==
  ASSUME NEW schema \in RowSchemas, NEW rows \in TablesOf(schema), NEW names \in Seq(STRING),
         NEW exprs \in Seq(Exprs), NEW E, InsertErrors \subseteq E, NEW r, InsertGood(schema, rows, E, r)
  PROVE  InsertGood(schema, rows, E,
                    Stepwise(r, InsertCheck(schema, names, exprs, r.rows),
                             Inserting(schema, InsertedRow(schema, names, exprs))))
<1> DEFINE check == InsertCheck(schema, names, exprs, r.rows)
           row == InsertedRow(schema, names, exprs)
           c == Inserting(schema, row)
           q == Stepwise(r, check, c)
<1> SUFFICES InsertGood(schema, rows, E, q)
  OBVIOUS
<1>1. IsInsertable(check, schema, row, r.rows)
  BY InsertCheckIs
<1>2. c.pk = row[schema.pk] /\ c.from = NoRow /\ c.to = row
      /\ c = [pk |-> row[schema.pk], from |-> NoRow, to |-> row]
  BY DEF Inserting, Change
<1> HIDE DEF check, row, c
<1>3. Good(schema, rows, E, r) /\ r.rows \in TablesOf(schema) /\ r.changes \in Seq(Changes(schema))
  BY DEF InsertGood, Good, ResultsOf
<1>4. ASSUME check = "ok"
      PROVE  Fitting(c, schema) /\ c.pk \notin ChangedKeys(r) /\ c.from = HeldIn(rows, c.pk) /\ c.to # NoRow
  <2>1. row \in FitRows(schema) /\ c.pk \in KeysOf(schema) /\ c.pk \notin DOMAIN r.rows
    BY <1>1, <1>2, <1>4 DEF IsInsertable
  <2>2. Fitting(c, schema)
    BY <1>2, <2>1 DEF Fitting, Changes
  <2>3. HeldIn(r.rows, c.pk) = NoRow
    BY <2>1 DEF HeldIn
  <2>4. c.pk \notin ChangedKeys(r)
    BY <2>3 DEF ChangedKeys, InsertGood, Good
  <2>5. HeldIn(rows, c.pk) = NoRow
    BY <1>3, <2>3, <2>4 DEF Good
  <2> QED
    BY <1>2, <2>1, <2>2, <2>4, <2>5, FitRowIs
<1>5. check \in InsertErrors
  BY <1>1 DEF IsInsertable
<1>6. Good(schema, rows, E, q)
  BY <1>3, <1>4, <1>5, StepIsGood
<1>7. q.changes = r.changes \/ (q.changes = Append(r.changes, c) /\ check = "ok")
  BY <1>3 DEF Stepwise, Good, ResultsOf
<1>8. \A i \in DOMAIN q.changes : q.changes[i].to # NoRow
  <2>1. CASE q.changes = r.changes
    BY <2>1 DEF InsertGood
  <2>2. CASE q.changes = Append(r.changes, c) /\ check = "ok"
    <3> DEFINE n == Len(r.changes)
    <3>1. DOMAIN q.changes = 1 .. n + 1 /\ n \in Nat /\ DOMAIN r.changes = 1 .. n /\ q.changes[n + 1] = c
          /\ \A i \in 1 .. n : q.changes[i] = r.changes[i]
      <4>1. c \in Changes(schema)
        BY <1>4, <2>2 DEF Fitting
      <4> QED
        BY <1>3, <2>2, <4>1
    <3> HIDE DEF n, q
    <3>2. \A i \in 1 .. n + 1 : i = n + 1 \/ i \in 1 .. n
      BY <3>1
    <3>3. c.to # NoRow
      BY <1>4, <2>2
    <3> QED
      BY <3>1, <3>2, <3>3 DEF InsertGood
  <2> QED
    BY <1>7, <2>1, <2>2
<1> QED
  BY <1>6, <1>8 DEF InsertGood

\* What INSERT may say.
InsertVerdicts(schema, stmt) ==
  InsertErrors \cup {TargetsCheck(schema, ColumnNames(schema, stmt.columns))}

\* The turn of one row.
InsertTurn(schema, names, exprs, result) ==
  Stepwise(result, InsertCheck(schema, names, exprs, result.rows),
           Inserting(schema, InsertedRow(schema, names, exprs)))

\* u records the turns of an INSERT.
IsInserting(u, schema, rows, stmt) ==
  LET names == ColumnNames(schema, stmt.columns)
      n     == Len(stmt.rows)
  IN  /\ u[0] = Result(TargetsCheck(schema, names), rows, <<>>)
      /\ \A i \in 1 .. n : u[i] = InsertTurn(schema, names, stmt.rows[i], u[i - 1])
      /\ \A i \in 0 .. n : InsertGood(schema, rows, InsertVerdicts(schema, stmt), u[i])
      /\ RunInsert(schema, rows, stmt) = u[n]

\* INSERT is a sequence of turns, good after each.
LEMMA InsertTurns ==
  ASSUME NEW schema \in RowSchemas, NEW rows \in TablesOf(schema),
         NEW stmt, stmt.columns \in Seq(STRING), stmt.rows \in Seq(Seq(Exprs))
  PROVE  \E u : IsInserting(u, schema, rows, stmt)
<1> DEFINE names == ColumnNames(schema, stmt.columns)
           InsertOne(result, i) ==
             Stepwise(result, InsertCheck(schema, names, stmt.rows[i], result.rows),
                      Inserting(schema, InsertedRow(schema, names, stmt.rows[i])))
           E == InsertVerdicts(schema, stmt)
           start == Result(TargetsCheck(schema, names), rows, <<>>)
           n == Len(stmt.rows)
           TurnsOf(f) == f = [i \in 0 .. n |-> IF i = 0 THEN start ELSE InsertOne(f[i - 1], i)]
           upTo == CHOOSE f : TurnsOf(f)
           G == {r \in ResultsOf(schema, E) : InsertGood(schema, rows, E, r)}
           S == [i \in 0 .. n |-> G]
           g == [p \in G \X (1 .. n) |-> InsertOne(p[1], p[2])]
<1>1. RunInsert(schema, rows, stmt) = upTo[n]
  BY DEF RunInsert, InTurn
<1>2. names \in Seq(STRING) /\ n \in Nat /\ \A i \in 1 .. n : stmt.rows[i] \in Seq(Exprs)
  BY NamesAre
<1>3. start \in G
  <2>1. TargetsCheck(schema, names) \in E
    BY DEF InsertVerdicts
  <2> HIDE DEF names, E
  <2>2. Good(schema, rows, E, start)
    BY <2>1, StartIsGood
  <2>3. start.changes = <<>>
    BY DEF Result
  <2> HIDE DEF start
  <2> QED
    BY <2>2, <2>3 DEF InsertGood, Good
<1>4. \A i \in 1 .. n : \A x \in G : InsertOne(x, i) \in G
  <2> SUFFICES ASSUME NEW i \in 1 .. n, NEW x \in G PROVE InsertOne(x, i) \in G
    OBVIOUS
  <2>0. InsertErrors \subseteq E
    BY DEF InsertVerdicts
  <2> HIDE DEF names, E
  <2>1. InsertGood(schema, rows, E, InsertOne(x, i))
    BY <1>2, <2>0, InsertStep
  <2> HIDE DEF InsertOne
  <2> QED
    BY <2>1 DEF InsertGood, Good
<1> HIDE DEF names, start, InsertOne, G, n, E
<1>5. \A i \in 1 .. n : \A x \in S[i - 1] : g[<<x, i>>] = InsertOne(x, i) /\ g[<<x, i>>] \in S[i]
  BY <1>2, <1>4
<1>6. start \in S[0]
  BY <1>2, <1>3
<1> HIDE DEF S, g
<1>7. PICK f : IsTurns(f, g, start, n) /\ \A i \in 0 .. n : f[i] \in S[i]
  BY <1>2, <1>5, <1>6, Turns
<1>8. TurnsOf(f)
  <2>1. \A i \in 0 .. n : f[i] = IF i = 0 THEN start ELSE InsertOne(f[i - 1], i)
    <3> TAKE i \in 0 .. n
    <3>1. f[i] = IF i = 0 THEN start ELSE g[<<f[i - 1], i>>]
      BY <1>7 DEF IsTurns
    <3>2. i # 0 => i \in 1 .. n /\ i - 1 \in 0 .. n
      BY <1>2
    <3> QED
      BY <1>5, <1>7, <3>1, <3>2
  <2>2. f = [i \in 0 .. n |-> f[i]]
    BY <1>7 DEF IsTurns
  <2> QED
    BY <2>1, <2>2
<1>9. TurnsOf(upTo)
  BY <1>8
<1> HIDE DEF upTo
<1>10. \A i \in 0 .. n : upTo[i] = IF i = 0 THEN start ELSE InsertOne(upTo[i - 1], i)
  BY <1>9
<1> DEFINE H == {i \in 0 .. n : upTo[i] \in G}
<1>11. 0 \in H
  BY <1>2, <1>3, <1>10
<1>12. ASSUME NEW i \in 1 .. n, i - 1 \in H PROVE i \in H
  BY <1>2, <1>4, <1>10, <1>12
<1> HIDE DEF H
<1>13. \A i \in 0 .. n : i \in H
  BY <1>2, <1>11, <1>12, IntervalInduction
<1>14. \A i \in 0 .. n : InsertGood(schema, rows, E, upTo[i])
  BY <1>13 DEF H, G
<1>15. upTo[0] = start /\ \A i \in 1 .. n : upTo[i] = InsertOne(upTo[i - 1], i)
  <2>1. 0 \in 0 .. n /\ \A i \in 1 .. n : i \in 0 .. n /\ i # 0
    BY <1>2
  <2> QED
    BY <1>10, <2>1
<1>16. \A i \in 1 .. n : upTo[i] = InsertTurn(schema, names, stmt.rows[i], upTo[i - 1])
  BY <1>15 DEF InsertTurn, InsertOne
<1>17. IsInserting(upTo, schema, rows, stmt)
  BY <1>1, <1>14, <1>15, <1>16 DEF IsInserting, start, E, n, names
<1> QED
  BY <1>17

\* INSERT as a whole.
LEMMA InsertIsGood ==
  ASSUME NEW schema \in RowSchemas, NEW rows \in TablesOf(schema),
         NEW stmt, stmt.columns \in Seq(STRING), stmt.rows \in Seq(Seq(Exprs))
  PROVE  InsertGood(schema, rows, InsertVerdicts(schema, stmt), RunInsert(schema, rows, stmt))
<1>1. PICK u : IsInserting(u, schema, rows, stmt)
  BY InsertTurns
<1>2. Len(stmt.rows) \in 0 .. Len(stmt.rows)
  OBVIOUS
<1> QED
  BY <1>1, <1>2 DEF IsInserting

-----------------------------------------------------------------------------
(* UPDATE.                                                                 *)

\* What UPDATE is given.
Assignments == [column : STRING, value : Exprs]

\* The assignments of an UPDATE that passed its checks.
IsAssigning(schema, assignments) ==
  /\ assignments \in Seq(Assignments)
  /\ \A j \in DOMAIN assignments :
       LET p == Position(schema, assignments[j].column)
           t == CheckType(assignments[j].value, schema)
       IN  /\ p \in DOMAIN schema.columns
           /\ p # schema.pk
           /\ t \in Types
           /\ Is(t, schema.columns[p].ty)

\* UpdateCheck lets through what assigns each column a value of its type, and none
\* to the primary key.
LEMMA AssigningIs ==
  ASSUME NEW schema \in RowSchemas, NEW assignments \in Seq(Assignments),
         UpdateCheck(schema, assignments) = "ok"
  PROVE  IsAssigning(schema, assignments)
<1> DEFINE n == Len(assignments)
           names == [i \in DOMAIN assignments |-> assignments[i].column]
           checks == [i \in DOMAIN assignments |->
             IF Position(schema, names[i]) = 0 THEN "UnknownColumn"
             ELSE IF Position(schema, names[i]) = schema.pk THEN "UpdatePrimaryKey"
             ELSE IF \E j \in 1 .. i - 1 : names[j] = names[i] THEN "DuplicateColumn"
             ELSE AssignmentCheck(schema, assignments[i])]
<1>1. Checks(checks, n) /\ DOMAIN checks = DOMAIN assignments
  BY DEF Checks
<1>2. FirstError(checks) = "ok"
  BY DEF UpdateCheck
<1> HIDE DEF checks
<1>3. \A j \in DOMAIN assignments : checks[j] = "ok"
  BY <1>1, <1>2, FirstErrorOk
<1>4. ASSUME NEW j \in DOMAIN assignments
      PROVE  LET p == Position(schema, assignments[j].column)
                 t == CheckType(assignments[j].value, schema)
             IN  /\ p \in DOMAIN schema.columns
                 /\ p # schema.pk
                 /\ t \in Types
                 /\ Is(t, schema.columns[p].ty)
  <2> DEFINE a == assignments[j]
             p == Position(schema, a.column)
             t == CheckType(a.value, schema)
  <2>1. a \in Assignments
    OBVIOUS
  <2>2. checks[j] = "ok" /\ names[j] = a.column
    BY <1>3
  <2>3. p # 0 /\ p # schema.pk /\ AssignmentCheck(schema, a) = "ok"
    BY <2>2 DEF checks
  <2> HIDE DEF a
  <2>4. p \in DOMAIN schema.columns
    BY <2>3, SchemaIs, PositionIs DEF ColumnDefs
  <2>5. t \in TypeVerdicts
    <3>1. PICK type : IsTyping(type, schema)
      BY SchemaIs, TypeEquation DEF ColumnDefs
    <3>2. a.value \in Exprs
      BY <2>1 DEF Assignments
    <3> QED
      BY <3>1, <3>2 DEF IsTyping
  <2>6. t \in Types /\ Is(t, schema.columns[p].ty)
    <3>1. "ok" \notin TypeVerdicts
      BY DEF TypeVerdicts, Types, ColumnTypes
    <3> QED
      BY <2>3, <2>5, <3>1 DEF AssignmentCheck
  <2> QED
    BY <2>3, <2>4, <2>6 DEF a
<1> HIDE DEF n
<1> QED
  BY <1>4 DEF IsAssigning

\* The value an assignment makes for its column.
NewValue(schema, a, old) == EvalIn(a.value, schema, old)

\* The new value fits its column, NULL aside, or is a data error.
LEMMA NewValueFits ==
  ASSUME NEW schema \in RowSchemas, NEW assignments, IsAssigning(schema, assignments),
         NEW j \in DOMAIN assignments, NEW old \in FitRows(schema)
  PROVE  LET v == NewValue(schema, assignments[j], old)
         IN  \/ v \in Values /\ Fits(v, schema.columns[Position(schema, assignments[j].column)].ty)
             \/ v.t \in DataErrors
<1> DEFINE a == assignments[j]
           v == NewValue(schema, a, old)
           t == CheckType(a.value, schema)
           p == Position(schema, a.column)
<1>1. a \in Assignments
  BY DEF IsAssigning
<1>2. t \in Types /\ Is(t, schema.columns[p].ty)
  BY DEF IsAssigning
<1> HIDE DEF a
<1>3. a.value \in Exprs /\ RowOf(schema, old)
  BY <1>1, FitRowIs DEF Assignments
<1>4. TypeIsSound(a.value, schema, {old})
  BY <1>3, TypesAreSoundForAll
<1>5. Fits(v, t) \/ v.t \in DataErrors
  BY <1>2, <1>4 DEF TypeIsSound, NewValue
<1>6. CASE Fits(v, t)
  <2>1. v \in Values
    BY <1>2, <1>6, FitsIsValue
  <2>2. t = schema.columns[p].ty \/ v = Null
    BY <1>2, <1>6 DEF Is, Fits, Contents
  <2> QED
    BY <1>6, <2>1, <2>2, NullFits DEF a
<1> QED
  BY <1>5, <1>6 DEF a

\* One assignment.
Assigned(schema, a, old, row) ==
  [row EXCEPT ![Position(schema, a.column)] = EvalIn(a.value, schema, old)]

\* A row gets where the assignments lead it.
LEMMA UpdatedRowAt ==
  ASSUME NEW schema, NEW assignments \in Seq(Assignments), NEW S, NEW old \in S[0],
         \A i \in 1 .. Len(assignments) : \A row \in S[i - 1] :
           Assigned(schema, assignments[i], old, row) \in S[i]
  PROVE  UpdatedRow(schema, assignments, old) \in S[Len(assignments)]
<1> DEFINE n == Len(assignments)
           Assign(row, j) == [row EXCEPT ![Position(schema, assignments[j].column)] =
                                           EvalIn(assignments[j].value, schema, old)]
           TurnsOf(f) == f = [i \in 0 .. n |-> IF i = 0 THEN old ELSE Assign(f[i - 1], i)]
           upTo == CHOOSE f : TurnsOf(f)
           U == UNION {S[i] : i \in 0 .. n}
           g == [p \in U \X (1 .. n) |-> Assign(p[1], p[2])]
<1>1. UpdatedRow(schema, assignments, old) = upTo[n]
  BY DEF UpdatedRow, InTurn
<1>2. n \in Nat /\ DOMAIN assignments = 1 .. n
  OBVIOUS
<1>3. \A i \in 1 .. n : \A x \in S[i - 1] : Assign(x, i) \in S[i]
  BY <1>2 DEF Assigned
<1> HIDE DEF Assign, n
<1>4. \A i \in 1 .. n : \A x \in S[i - 1] : g[<<x, i>>] = Assign(x, i) /\ g[<<x, i>>] \in S[i]
  <2>1. \A i \in 1 .. n : i - 1 \in 0 .. n
    BY <1>2
  <2>2. \A i \in 1 .. n : \A x \in S[i - 1] : x \in U
    BY <2>1
  <2> HIDE DEF U
  <2> QED
    BY <1>3, <2>2
<1> HIDE DEF g
<1>7. PICK f : IsTurns(f, g, old, n) /\ \A i \in 0 .. n : f[i] \in S[i]
  BY <1>2, <1>4, Turns
<1>8. TurnsOf(f)
  <2>1. \A i \in 0 .. n : f[i] = IF i = 0 THEN old ELSE Assign(f[i - 1], i)
    <3> TAKE i \in 0 .. n
    <3>1. f[i] = IF i = 0 THEN old ELSE g[<<f[i - 1], i>>]
      BY <1>7 DEF IsTurns
    <3>2. i # 0 => i \in 1 .. n /\ i - 1 \in 0 .. n
      BY <1>2
    <3> QED
      BY <1>4, <1>7, <3>1, <3>2
  <2>2. f = [i \in 0 .. n |-> f[i]]
    BY <1>7 DEF IsTurns
  <2> QED
    BY <2>1, <2>2
<1>9. TurnsOf(upTo)
  BY <1>8
<1> HIDE DEF upTo
<1>10. \A i \in 0 .. n : upTo[i] = IF i = 0 THEN old ELSE Assign(upTo[i - 1], i)
  BY <1>9
<1> DEFINE H == {i \in 0 .. n : upTo[i] \in S[i]}
<1>11. 0 \in H
  BY <1>2, <1>10
<1>12. ASSUME NEW i \in 1 .. n, i - 1 \in H PROVE i \in H
  BY <1>2, <1>3, <1>10, <1>12
<1> HIDE DEF H
<1>13. \A i \in 0 .. n : i \in H
  BY <1>2, <1>11, <1>12, IntervalInduction
<1>14. upTo[n] \in S[n]
  BY <1>2, <1>13 DEF H
<1> QED
  BY <1>1, <1>14 DEF n

\* A row stays in R if every assignment keeps it there.
LEMMA UpdatedRowIn ==
  ASSUME NEW schema, NEW assignments \in Seq(Assignments), NEW R, NEW old \in R,
         \A row \in R, j \in DOMAIN assignments : Assigned(schema, assignments[j], old, row) \in R
  PROVE  UpdatedRow(schema, assignments, old) \in R
<1> DEFINE n == Len(assignments)
           S == [i \in 0 .. n |-> R]
<1>1. n \in Nat /\ DOMAIN assignments = 1 .. n
  OBVIOUS
<1> HIDE DEF n
<1>2. S[0] = R /\ S[n] = R /\ \A i \in 1 .. n : S[i - 1] = R /\ S[i] = R
  BY <1>1
<1> HIDE DEF S
<1>3. UpdatedRow(schema, assignments, old) \in S[Len(assignments)]
  <2>1. \A i \in 1 .. Len(assignments) : \A row \in S[i - 1] :
          Assigned(schema, assignments[i], old, row) \in S[i]
    BY <1>1, <1>2 DEF n
  <2> QED
    BY <1>2, <2>1, UpdatedRowAt
<1> QED
  BY <1>2, <1>3 DEF n

\* What depends on the rows, or nothing wrong.
RowVerdicts == {"ok"} \cup DependsOnRows

\* An updated row has a place for every column.
LEMMA UpdatedIsRow ==
  ASSUME NEW schema \in RowSchemas, NEW assignments, IsAssigning(schema, assignments),
         NEW old \in FitRows(schema)
  PROVE  LET row == UpdatedRow(schema, assignments, old)
         IN  IsRow(schema, row) /\ row = [i \in DOMAIN schema.columns |-> row[i]]
<1> DEFINE D == DOMAIN schema.columns
           V == Values \cup {NewValue(schema, assignments[j], old) : j \in DOMAIN assignments}
           R == [D -> V]
<1>1. assignments \in Seq(Assignments)
  BY DEF IsAssigning
<1>2. old \in R
  BY DEF FitRows
<1>3. ASSUME NEW row \in R, NEW j \in DOMAIN assignments
      PROVE  Assigned(schema, assignments[j], old, row) \in R
  <2>1. EvalIn(assignments[j].value, schema, old) \in V
    BY DEF NewValue
  <2> HIDE DEF V, D
  <2> QED
    BY <2>1 DEF Assigned
<1> HIDE DEF R
<1>4. UpdatedRow(schema, assignments, old) \in R
  BY <1>1, <1>2, <1>3, UpdatedRowIn
<1> QED
  BY <1>4 DEF R, IsRow

\* Where every expression has a value, the row after an UPDATE keeps its key, and
\* what is wrong with it can only be a NULL.
LEMMA UpdatedRowIs ==
  ASSUME NEW schema \in RowSchemas, NEW assignments, IsAssigning(schema, assignments),
         NEW old \in FitRows(schema),
         \A j \in DOMAIN assignments : Outcome(NewValue(schema, assignments[j], old)) = "ok"
  PROVE  LET row == UpdatedRow(schema, assignments, old)
         IN  /\ row \in [DOMAIN schema.columns -> Values]
             /\ row[schema.pk] = old[schema.pk]
             /\ \A i \in DOMAIN schema.columns : Fits(row[i], schema.columns[i].ty)
<1> DEFINE D == DOMAIN schema.columns
           R == {row \in [D -> Values] : /\ row[schema.pk] = old[schema.pk]
                                         /\ \A i \in D : Fits(row[i], schema.columns[i].ty)}
<1>1. assignments \in Seq(Assignments)
  BY DEF IsAssigning
<1>2. old \in R
  BY DEF FitRows
<1>3. ASSUME NEW row \in R, NEW j \in DOMAIN assignments
      PROVE  Assigned(schema, assignments[j], old, row) \in R
  <2> DEFINE v == NewValue(schema, assignments[j], old)
             p == Position(schema, assignments[j].column)
             q == Assigned(schema, assignments[j], old, row)
  <2>1. v \in Values /\ Fits(v, schema.columns[p].ty)
    <3>1. v.t \notin DataErrors
      <4>1. v.t \in DataErrors => ~IsValue(v) /\ v.t # "ok"
        BY DataErrorsAreErrors DEF DataErrors
      <4> QED
        BY <4>1 DEF Outcome
    <3> QED
      BY <3>1, NewValueFits
  <2>2. p # schema.pk /\ p \in D
    BY DEF IsAssigning
  <2>3. q = [row EXCEPT ![p] = v]
    BY DEF Assigned, NewValue
  <2>4. row \in [D -> Values] /\ row[schema.pk] = old[schema.pk]
        /\ \A i \in D : Fits(row[i], schema.columns[i].ty)
    OBVIOUS
  <2>5. schema.pk \in D
    BY SchemaIs
  <2> HIDE DEF q, p, v, R, D
  <2>6. q \in [D -> Values] /\ q[p] = v /\ \A i \in D : i # p => q[i] = row[i]
    BY <2>1, <2>2, <2>3, <2>4
  <2>7. \A i \in D : Fits(q[i], schema.columns[i].ty)
    BY <2>1, <2>4, <2>6
  <2> QED
    BY <2>2, <2>4, <2>5, <2>6, <2>7 DEF R, q
<1> HIDE DEF R
<1>4. UpdatedRow(schema, assignments, old) \in R
  BY <1>1, <1>2, <1>3, UpdatedRowIn
<1> QED
  BY <1>4 DEF R

\* e is the verdict on the row that old becomes.
IsUpdatable(e, schema, old, row) ==
  /\ e \in RowVerdicts
  /\ e = "ok" => row \in FitRows(schema) /\ row[schema.pk] = old[schema.pk]

\* UpdatedCheck lets through rows that fit, under the key they had.
LEMMA UpdatedCheckIs ==
  ASSUME NEW schema \in RowSchemas, NEW assignments, IsAssigning(schema, assignments),
         NEW old \in FitRows(schema)
  PROVE  IsUpdatable(UpdatedCheck(schema, assignments, old, UpdatedRow(schema, assignments, old)),
                     schema, old, UpdatedRow(schema, assignments, old))
<1> DEFINE row == UpdatedRow(schema, assignments, old)
           e == UpdatedCheck(schema, assignments, old, row)
           w == WriteCheck(schema, row)
           values == [j \in DOMAIN assignments |-> Outcome(EvalIn(assignments[j].value, schema, old))]
           others == <<w>>
           n == Len(assignments)
           E == {"RowTypeMismatch"} \cup RowVerdicts
<1> SUFFICES IsUpdatable(e, schema, old, row)
  OBVIOUS
<1>1. e = FirstError(values \o others)
  BY DEF UpdatedCheck
<1>2. IsRow(schema, row)
  BY UpdatedIsRow
<1>3. assignments \in Seq(Assignments) /\ n \in Nat /\ DOMAIN assignments = 1 .. n
  BY DEF IsAssigning
<1>4. \A j \in DOMAIN assignments : values[j] \in {"ok"} \cup DataErrors
  <2> TAKE j \in DOMAIN assignments
  <2> DEFINE v == NewValue(schema, assignments[j], old)
  <2>1. v \in Values \/ v.t \in DataErrors
    BY NewValueFits
  <2>2. Outcome(v) \in {"ok"} \cup DataErrors
    BY <2>1, ResultKinds, DataErrorsAreErrors DEF Outcome
  <2> QED
    BY <2>2 DEF NewValue
<1>5. values \in Seq(E) /\ Checks(values, n) /\ DOMAIN values = DOMAIN assignments
  <2>1. \A j \in 1 .. n : values[j] \in E
    BY <1>3, <1>4 DEF RowVerdicts, DependsOnRows
  <2> HIDE DEF E
  <2>2. values \in [1 .. n -> E]
    BY <1>3, <2>1
  <2> HIDE DEF values
  <2> QED
    BY <1>3, <2>2 DEF Checks
<1>6. w \in {"ok", "UnexpectedNull", "RowTypeMismatch"} /\ w \in E
  <2> HIDE DEF row
  <2> QED
    BY <1>2, WriteCheckIs DEF RowVerdicts, DependsOnRows
<1>7. ASSUME \A j \in DOMAIN assignments : values[j] = "ok"
      PROVE  /\ row \in [DOMAIN schema.columns -> Values] /\ row[schema.pk] = old[schema.pk]
             /\ w \in RowVerdicts
             /\ w = "ok" => row \in FitRows(schema)
  <2>1. \A j \in DOMAIN assignments : Outcome(NewValue(schema, assignments[j], old)) = "ok"
    BY <1>7 DEF NewValue
  <2>2. /\ row \in [DOMAIN schema.columns -> Values] /\ row[schema.pk] = old[schema.pk]
        /\ \A i \in DOMAIN schema.columns : Fits(row[i], schema.columns[i].ty)
    BY <2>1, UpdatedRowIs
  <2> HIDE DEF row
  <2>3. row[schema.pk].t = PkType(schema)
    BY <2>2, FitRowIs DEF KeysOf
  <2>4. w = EncodeRow(schema, row)
    BY <1>2, <2>3, WriteCheckIs
  <2>5. \A i \in DOMAIN schema.columns : row[i] = Null \/ row[i].t = schema.columns[i].ty
    <3>1. \A v, t : Fits(v, t) => v = Null \/ v.t = t
      BY DEF Fits, Val
    <3> QED
      BY <2>2, <3>1
  <2>6. EncodedAs(EncodeRow(schema, row), schema, row)
    BY <1>2, EncodeRowIs
  <2>7. w # "RowTypeMismatch"
    BY <2>4, <2>5, <2>6 DEF EncodedAs
  <2>8. w \in RowVerdicts
    BY <1>6, <2>7 DEF RowVerdicts, DependsOnRows
  <2>9. w = "ok" => row \in FitRows(schema)
    BY <2>2, WrittenFits
  <2> QED
    BY <2>2, <2>8, <2>9
<1> HIDE DEF values, row, w
<1>8. others \in Seq(E) /\ FirstError(others) = w
  <2> HIDE DEF E
  <2> QED
    BY <1>6, FirstErrorOfOne
<1> HIDE DEF others, e
<1>9. e = IF FirstError(values) = "ok" THEN w ELSE FirstError(values)
  <2> HIDE DEF E
  <2> QED
    BY <1>1, <1>5, <1>8, FirstErrorAppended
<1>10. FirstError(values) \in RowVerdicts
  <2> DEFINE F == {"ok"} \cup DataErrors
  <2>1. \A j \in DOMAIN values : values[j] \in F
    BY <1>4, <1>5
  <2> HIDE DEF F
  <2>2. FirstError(values) = "ok" \/ FirstError(values) \in F
    BY <1>5, <2>1, FirstErrorIn
  <2> QED
    BY <2>2 DEF F, RowVerdicts, DependsOnRows
<1>11. FirstError(values) = "ok" => \A j \in DOMAIN assignments : values[j] = "ok"
  <2> HIDE DEF E
  <2> QED
    BY <1>5, FirstErrorOk
<1> QED
  BY <1>7, <1>9, <1>10, <1>11 DEF IsUpdatable

-----------------------------------------------------------------------------
(* Going through the rows found.                                           *)

\* The key of the i-th row found.
KeyAt(schema, m, i) == m.rows[i][schema.pk]

\* r is where a statement may be after i of the rows in m.
Visited(schema, rows, E, m, i, r) ==
  Good(schema, rows, E, r) /\ ChangedKeys(r) \subseteq {KeyAt(schema, m, j) : j \in 1 .. i}

\* What the next row becomes.
IsNext(schema, old, check, to) ==
  check = "ok" => to = NoRow \/ (to \in FitRows(schema) /\ to[schema.pk] = old[schema.pk])

\* Each row found has a key of its own, so a turn changes one more key.
LEMMA VisitIsGood ==
  ASSUME NEW schema \in RowSchemas, NEW rows \in TablesOf(schema), NEW E, NEW f, NEW m,
         IsMatched(m, rows, schema, f), NEW i \in 1 .. Len(m.rows), NEW r,
         Visited(schema, rows, E, m, i - 1, r), NEW check, r.error = "ok" => check \in E,
         NEW to, r.error = "ok" => IsNext(schema, m.rows[i], check, to)
  PROVE  Visited(schema, rows, E, m, i,
                 Stepwise(r, check, Change(m.rows[i][schema.pk], m.rows[i], to)))
<1> DEFINE old == m.rows[i]
           pk == old[schema.pk]
           c == Change(pk, old, to)
           q == Stepwise(r, check, c)
<1> SUFFICES Visited(schema, rows, E, m, i, q)
  OBVIOUS
<1>1. Good(schema, rows, E, r) /\ ChangedKeys(r) \subseteq {KeyAt(schema, m, j) : j \in 1 .. i - 1}
  BY DEF Visited
<1>2. m.rows \in Seq(FitRows(schema)) /\ DOMAIN m.rows = 1 .. Len(m.rows) /\ Len(m.rows) \in Nat
  BY DEF IsMatched
<1>3. old \in FitRows(schema) /\ pk \in DOMAIN rows /\ old = rows[pk]
  <2> DEFINE F == FitRows(schema)
  <2>1. m.rows \in Seq(F)
    BY <1>2
  <2> HIDE DEF F
  <2>2. old \in F
    BY <2>1
  <2> QED
    BY <1>2, <2>2 DEF IsMatched, F
<1>4. ASSUME NEW j \in 1 .. i - 1 PROVE KeyAt(schema, m, j) # pk
  <2>1. j \in DOMAIN m.rows /\ i \in DOMAIN m.rows /\ j < i
    BY <1>2
  <2>2. KeyAt(schema, m, j).x < pk.x
    BY <2>1 DEF IsMatched, KeyAt
  <2>3. pk.x \in Int
    BY <1>3, FitRowIs DEF KeysOf, Values
  <2> QED
    BY <2>2, <2>3
<1>5. pk \notin ChangedKeys(r)
  BY <1>1, <1>4
<1>6. c = [pk |-> pk, from |-> old, to |-> to]
  BY DEF Change
<1>7. pk \in KeysOf(schema) /\ HeldIn(rows, pk) = old
  BY <1>3, FitRowIs DEF HeldIn
<1> HIDE DEF c, old, pk
<1>8. r.error = "ok" /\ check = "ok" =>
        Fitting(c, schema) /\ c.pk \notin ChangedKeys(r) /\ c.from = HeldIn(rows, c.pk)
  <2> SUFFICES ASSUME r.error = "ok", check = "ok"
               PROVE  Fitting(c, schema) /\ c.pk \notin ChangedKeys(r) /\ c.from = HeldIn(rows, c.pk)
    OBVIOUS
  <2>1. to = NoRow \/ (to \in FitRows(schema) /\ to[schema.pk] = pk)
    BY DEF IsNext, old, pk
  <2>2. Fitting(c, schema)
    BY <1>3, <1>6, <1>7, <2>1 DEF Fitting, Changes
  <2> QED
    BY <1>5, <1>6, <1>7, <2>2
<1>9. Good(schema, rows, E, q)
  BY <1>1, <1>8, StepIsGood
<1>10. ChangedKeys(q) \subseteq ChangedKeys(r) \cup {pk}
  <2>1. r.changes \in Seq(Changes(schema)) /\ r \in ResultsOf(schema, E)
    BY <1>1 DEF Good, ResultsOf
  <2>2. q.changes = r.changes \/ (q.changes = Append(r.changes, c) /\ c \in Changes(schema))
    BY <1>8, <2>1 DEF Stepwise, ResultsOf, Fitting
  <2>3. CASE q.changes = r.changes
    BY <2>3 DEF ChangedKeys
  <2>4. CASE q.changes = Append(r.changes, c) /\ c \in Changes(schema)
    <3> DEFINE n == Len(r.changes)
    <3>1. DOMAIN q.changes = 1 .. n + 1 /\ n \in Nat /\ DOMAIN r.changes = 1 .. n
          /\ q.changes[n + 1] = c /\ \A k \in 1 .. n : q.changes[k] = r.changes[k]
      BY <2>1, <2>4
    <3> HIDE DEF n, q
    <3>2. \A k \in 1 .. n + 1 : k = n + 1 \/ k \in 1 .. n
      BY <3>1
    <3> QED
      BY <1>6, <3>1, <3>2 DEF ChangedKeys
  <2> QED
    BY <2>2, <2>3, <2>4
<1>11. pk = KeyAt(schema, m, i) /\ i \in 1 .. i /\ 1 .. i - 1 \subseteq 1 .. i
  BY <1>2 DEF KeyAt, pk, old
<1> HIDE DEF q
<1> QED
  BY <1>1, <1>9, <1>10, <1>11 DEF Visited

\* No row has been visited.
LEMMA NothingVisited ==
  ASSUME NEW schema \in RowSchemas, NEW rows \in TablesOf(schema), NEW E, NEW m, NEW error \in E
  PROVE  Visited(schema, rows, E, m, 0, Result(error, rows, <<>>))
<1> DEFINE r == Result(error, rows, <<>>)
<1>1. Good(schema, rows, E, r)
  BY StartIsGood
<1>2. r.changes = <<>>
  BY DEF Result
<1> HIDE DEF r
<1>3. ChangedKeys(r) = {}
  BY <1>2 DEF ChangedKeys
<1> QED
  BY <1>1, <1>3 DEF Visited, r

\* A statement that begins with an error ends with it.
LEMMA StartStays ==
  ASSUME NEW schema, NEW rows, NEW start, NEW r, Good(schema, rows, Verdicts(start), r), r.error = "ok"
  PROVE  start = "ok"
BY DEF Good, ResultsOf, Verdicts

\* The verdicts of an UPDATE, and of a DELETE, that starts with an error.
UpdateStart(schema, rows, stmt) ==
  FirstError(<<UpdateCheck(schema, stmt.assignments), MatchingRows(rows, schema, stmt.f).error>>)

\* The turn of the i-th row.
UpdateTurn(schema, assignments, m, result, i) ==
  UpdateRow(schema, assignments, result, m.rows[i])

\* u records the turns of an UPDATE.
IsUpdating(u, schema, rows, stmt) ==
  LET m     == MatchingRows(rows, schema, stmt.f)
      first == UpdateStart(schema, rows, stmt)
  IN  /\ u[0] = Result(first, rows, <<>>)
      /\ \A i \in 1 .. Len(m.rows) : u[i] = UpdateTurn(schema, stmt.assignments, m, u[i - 1], i)
      /\ \A i \in 0 .. Len(m.rows) : Visited(schema, rows, Verdicts(first), m, i, u[i])
      /\ RunUpdate(schema, rows, stmt) = u[Len(m.rows)]

\* UPDATE is a sequence of turns, good after each.
LEMMA UpdateTurns ==
  ASSUME NEW schema \in RowSchemas, NEW rows \in TablesOf(schema), NEW stmt,
         stmt.assignments \in Seq(Assignments), stmt.f \in Wheres
  PROVE  \E u : IsUpdating(u, schema, rows, stmt)
<1> DEFINE m == MatchingRows(rows, schema, stmt.f)
           first == UpdateStart(schema, rows, stmt)
           E == Verdicts(first)
           start == Result(first, rows, <<>>)
           n == Len(m.rows)
           UpdateOne(result, i) == UpdateRow(schema, stmt.assignments, result, m.rows[i])
           TurnsOf(f) == f = [i \in 0 .. n |-> IF i = 0 THEN start ELSE UpdateOne(f[i - 1], i)]
           upTo == CHOOSE f : TurnsOf(f)
           S == [i \in 0 .. n |-> {r \in ResultsOf(schema, E) : Visited(schema, rows, E, m, i, r)}]
           g == [p \in ResultsOf(schema, E) \X (1 .. n) |-> UpdateOne(p[1], p[2])]
<1>1. RunUpdate(schema, rows, stmt) = upTo[n]
  BY DEF RunUpdate, InTurn, UpdateStart
<1>2. IsMatched(m, rows, schema, stmt.f)
  BY MatchedAre
<1>3. n \in Nat
  BY <1>2 DEF IsMatched
<1>4. first \in E
  BY DEF Verdicts
<1>5. first = "ok" => UpdateCheck(schema, stmt.assignments) = "ok"
  BY FirstErrorOfTwo DEF UpdateStart
<1> HIDE DEF m, first, n
<1>6. start \in S[0]
  <2>1. Visited(schema, rows, E, m, 0, start)
    BY <1>4, NothingVisited
  <2> HIDE DEF E, start
  <2>2. start \in ResultsOf(schema, E)
    BY <2>1 DEF Visited, Good
  <2>3. 0 \in 0 .. n
    BY <1>3
  <2> QED
    BY <2>1, <2>2, <2>3
<1>7. ASSUME NEW i \in 1 .. n, NEW x \in S[i - 1] PROVE UpdateOne(x, i) \in S[i]
  <2> DEFINE old == m.rows[i]
             row == UpdatedRow(schema, stmt.assignments, old)
             check == UpdatedCheck(schema, stmt.assignments, old, row)
             q == Stepwise(x, check, Change(old[schema.pk], old, row))
  <2>1. i - 1 \in 0 .. n /\ i \in 0 .. n /\ i \in 1 .. Len(m.rows)
    BY <1>3 DEF n
  <2>2. Visited(schema, rows, E, m, i - 1, x)
    BY <2>1
  <2>3. old \in FitRows(schema)
    <3> DEFINE F == FitRows(schema)
    <3>1. m.rows \in Seq(F)
      BY <1>2 DEF IsMatched
    <3> HIDE DEF F
    <3>2. old \in F
      BY <2>1, <3>1
    <3> QED
      BY <3>2 DEF F
  <2>4. ASSUME x.error = "ok"
        PROVE  check \in E /\ IsNext(schema, old, check, row)
    <3>1. first = "ok"
      BY <2>2, <2>4, StartStays DEF Visited
    <3>2. IsAssigning(schema, stmt.assignments)
      BY <1>5, <3>1, AssigningIs
    <3> HIDE DEF old
    <3>3. IsUpdatable(check, schema, old, row)
      BY <2>3, <3>2, UpdatedCheckIs
    <3> HIDE DEF check, row
    <3> QED
      BY <3>1, <3>3 DEF IsUpdatable, IsNext, Verdicts, RowVerdicts
  <2> HIDE DEF row, check
  <2>5. Visited(schema, rows, E, m, i, q)
    <3> HIDE DEF E
    <3> QED
      BY <1>2, <2>1, <2>2, <2>4, VisitIsGood
  <2>6. q = UpdateOne(x, i)
    BY DEF row, check, UpdateRow
  <2> HIDE DEF q, E, UpdateOne
  <2>7. q \in ResultsOf(schema, E)
    BY <2>5 DEF Visited, Good
  <2> QED
    BY <2>1, <2>5, <2>6, <2>7
<1>8. \A i \in 0 .. n : S[i] \subseteq ResultsOf(schema, E)
  OBVIOUS
<1> HIDE DEF E, start, UpdateOne, S
<1>9. \A i \in 1 .. n : \A x \in S[i - 1] : g[<<x, i>>] = UpdateOne(x, i) /\ g[<<x, i>>] \in S[i]
  <2>1. \A i \in 1 .. n : i - 1 \in 0 .. n
    BY <1>3
  <2> QED
    BY <1>7, <1>8, <2>1
<1> HIDE DEF g
<1>10. PICK f : IsTurns(f, g, start, n) /\ \A i \in 0 .. n : f[i] \in S[i]
  BY <1>3, <1>6, <1>9, Turns
<1>11. TurnsOf(f)
  <2>1. \A i \in 0 .. n : f[i] = IF i = 0 THEN start ELSE UpdateOne(f[i - 1], i)
    <3> TAKE i \in 0 .. n
    <3>1. f[i] = IF i = 0 THEN start ELSE g[<<f[i - 1], i>>]
      BY <1>10 DEF IsTurns
    <3>2. i # 0 => i \in 1 .. n /\ i - 1 \in 0 .. n
      BY <1>3
    <3> QED
      BY <1>9, <1>10, <3>1, <3>2
  <2>2. f = [i \in 0 .. n |-> f[i]]
    BY <1>10 DEF IsTurns
  <2> QED
    BY <2>1, <2>2
<1>12. TurnsOf(upTo)
  BY <1>11
<1> HIDE DEF upTo
<1>13. \A i \in 0 .. n : upTo[i] = IF i = 0 THEN start ELSE UpdateOne(upTo[i - 1], i)
  BY <1>12
<1> DEFINE H == {i \in 0 .. n : upTo[i] \in S[i]}
<1>14. 0 \in H
  BY <1>3, <1>6, <1>13
<1>15. ASSUME NEW i \in 1 .. n, i - 1 \in H PROVE i \in H
  BY <1>3, <1>7, <1>13, <1>15
<1> HIDE DEF H
<1>16. \A i \in 0 .. n : i \in H
  BY <1>3, <1>14, <1>15, IntervalInduction
<1>17. \A i \in 0 .. n : Visited(schema, rows, E, m, i, upTo[i])
  BY <1>16 DEF H, S
<1>18. upTo[0] = start /\ \A i \in 1 .. n : upTo[i] = UpdateOne(upTo[i - 1], i)
  <2>1. 0 \in 0 .. n /\ \A i \in 1 .. n : i \in 0 .. n /\ i # 0
    BY <1>3
  <2> QED
    BY <1>13, <2>1
<1>19. \A i \in 1 .. n : upTo[i] = UpdateTurn(schema, stmt.assignments, m, upTo[i - 1], i)
  BY <1>18 DEF UpdateTurn, UpdateOne
<1>20. IsUpdating(upTo, schema, rows, stmt)
  BY <1>1, <1>17, <1>18, <1>19 DEF IsUpdating, start, E, first, m, n
<1> QED
  BY <1>20

\* UPDATE as a whole.
LEMMA UpdateIsGood ==
  ASSUME NEW schema \in RowSchemas, NEW rows \in TablesOf(schema), NEW stmt,
         stmt.assignments \in Seq(Assignments), stmt.f \in Wheres
  PROVE  Good(schema, rows, Verdicts(UpdateStart(schema, rows, stmt)), RunUpdate(schema, rows, stmt))
<1> DEFINE m == MatchingRows(rows, schema, stmt.f)
<1>1. PICK u : IsUpdating(u, schema, rows, stmt)
  BY UpdateTurns
<1>2. IsMatched(m, rows, schema, stmt.f)
  BY MatchedAre
<1>3. Len(m.rows) \in 0 .. Len(m.rows)
  BY <1>2 DEF IsMatched
<1> QED
  BY <1>1, <1>3 DEF IsUpdating, Visited

-----------------------------------------------------------------------------
(* DELETE, SELECT and all the statements.                                  *)

\* u records the turns of a DELETE.
IsDeleting(u, schema, rows, stmt) ==
  LET m == MatchingRows(rows, schema, stmt.f)
  IN  /\ u[0] = Result(m.error, rows, <<>>)
      /\ \A i \in 1 .. Len(m.rows) : u[i] = DeleteRow(schema, u[i - 1], m.rows[i])
      /\ \A i \in 0 .. Len(m.rows) : Visited(schema, rows, Verdicts(m.error), m, i, u[i])
      /\ RunDelete(schema, rows, stmt) = u[Len(m.rows)]

\* DELETE is a sequence of turns, good after each.
LEMMA DeleteTurns ==
  ASSUME NEW schema \in RowSchemas, NEW rows \in TablesOf(schema), NEW stmt,
         stmt.f \in Wheres
  PROVE  \E u : IsDeleting(u, schema, rows, stmt)
<1> DEFINE m == MatchingRows(rows, schema, stmt.f)
           first == m.error
           E == Verdicts(first)
           start == Result(first, rows, <<>>)
           n == Len(m.rows)
           DeleteOne(result, i) == DeleteRow(schema, result, m.rows[i])
           TurnsOf(f) == f = [i \in 0 .. n |-> IF i = 0 THEN start ELSE DeleteOne(f[i - 1], i)]
           upTo == CHOOSE f : TurnsOf(f)
           S == [i \in 0 .. n |-> {r \in ResultsOf(schema, E) : Visited(schema, rows, E, m, i, r)}]
           g == [p \in ResultsOf(schema, E) \X (1 .. n) |-> DeleteOne(p[1], p[2])]
<1>1. RunDelete(schema, rows, stmt) = upTo[n]
  BY DEF RunDelete, InTurn
<1>2. IsMatched(m, rows, schema, stmt.f)
  BY MatchedAre
<1>3. n \in Nat
  BY <1>2 DEF IsMatched
<1>4. first \in E
  BY DEF Verdicts
<1> HIDE DEF m, first, n
<1>5. start \in S[0]
  <2>1. Visited(schema, rows, E, m, 0, start)
    BY <1>4, NothingVisited
  <2> HIDE DEF E, start
  <2>2. start \in ResultsOf(schema, E)
    BY <2>1 DEF Visited, Good
  <2>3. 0 \in 0 .. n
    BY <1>3
  <2> QED
    BY <2>1, <2>2, <2>3
<1>6. ASSUME NEW i \in 1 .. n, NEW x \in S[i - 1] PROVE DeleteOne(x, i) \in S[i]
  <2> DEFINE old == m.rows[i]
             q == Stepwise(x, "ok", Change(old[schema.pk], old, NoRow))
  <2>1. i - 1 \in 0 .. n /\ i \in 0 .. n /\ i \in 1 .. Len(m.rows)
    BY <1>3 DEF n
  <2>2. Visited(schema, rows, E, m, i - 1, x)
    BY <2>1
  <2>3. x.error = "ok" => "ok" \in E
    <3> SUFFICES ASSUME x.error = "ok" PROVE "ok" \in E
      OBVIOUS
    <3>1. first = "ok"
      BY <2>2, StartStays DEF Visited
    <3> QED
      BY <3>1 DEF Verdicts
  <2>4. IsNext(schema, old, "ok", NoRow)
    BY DEF IsNext
  <2>5. Visited(schema, rows, E, m, i, q)
    <3> HIDE DEF E
    <3> QED
      BY <1>2, <2>1, <2>2, <2>3, <2>4, VisitIsGood
  <2>6. q = DeleteOne(x, i)
    BY DEF DeleteRow
  <2> HIDE DEF q, E, DeleteOne
  <2>7. q \in ResultsOf(schema, E)
    BY <2>5 DEF Visited, Good
  <2> QED
    BY <2>1, <2>5, <2>6, <2>7
<1>7. \A i \in 0 .. n : S[i] \subseteq ResultsOf(schema, E)
  OBVIOUS
<1> HIDE DEF E, start, DeleteOne, S
<1>8. \A i \in 1 .. n : \A x \in S[i - 1] : g[<<x, i>>] = DeleteOne(x, i) /\ g[<<x, i>>] \in S[i]
  <2>1. \A i \in 1 .. n : i - 1 \in 0 .. n
    BY <1>3
  <2> QED
    BY <1>6, <1>7, <2>1
<1> HIDE DEF g
<1>9. PICK f : IsTurns(f, g, start, n) /\ \A i \in 0 .. n : f[i] \in S[i]
  BY <1>3, <1>5, <1>8, Turns
<1>10. TurnsOf(f)
  <2>1. \A i \in 0 .. n : f[i] = IF i = 0 THEN start ELSE DeleteOne(f[i - 1], i)
    <3> TAKE i \in 0 .. n
    <3>1. f[i] = IF i = 0 THEN start ELSE g[<<f[i - 1], i>>]
      BY <1>9 DEF IsTurns
    <3>2. i # 0 => i \in 1 .. n /\ i - 1 \in 0 .. n
      BY <1>3
    <3> QED
      BY <1>8, <1>9, <3>1, <3>2
  <2>2. f = [i \in 0 .. n |-> f[i]]
    BY <1>9 DEF IsTurns
  <2> QED
    BY <2>1, <2>2
<1>11. TurnsOf(upTo)
  BY <1>10
<1> HIDE DEF upTo
<1>12. \A i \in 0 .. n : upTo[i] = IF i = 0 THEN start ELSE DeleteOne(upTo[i - 1], i)
  BY <1>11
<1> DEFINE H == {i \in 0 .. n : upTo[i] \in S[i]}
<1>13. 0 \in H
  BY <1>3, <1>5, <1>12
<1>14. ASSUME NEW i \in 1 .. n, i - 1 \in H PROVE i \in H
  BY <1>3, <1>6, <1>12, <1>14
<1> HIDE DEF H
<1>15. \A i \in 0 .. n : i \in H
  BY <1>3, <1>13, <1>14, IntervalInduction
<1>16. \A i \in 0 .. n : Visited(schema, rows, E, m, i, upTo[i])
  BY <1>15 DEF H, S
<1>17. upTo[0] = start /\ \A i \in 1 .. n : upTo[i] = DeleteOne(upTo[i - 1], i)
  <2>1. 0 \in 0 .. n /\ \A i \in 1 .. n : i \in 0 .. n /\ i # 0
    BY <1>3
  <2> QED
    BY <1>12, <2>1
<1>18. IsDeleting(upTo, schema, rows, stmt)
  BY <1>1, <1>16, <1>17 DEF IsDeleting, DeleteOne, start, E, first, m, n
<1> QED
  BY <1>18

\* DELETE as a whole.
LEMMA DeleteIsGood ==
  ASSUME NEW schema \in RowSchemas, NEW rows \in TablesOf(schema), NEW stmt,
         stmt.f \in Wheres
  PROVE  Good(schema, rows, Verdicts(MatchingRows(rows, schema, stmt.f).error), RunDelete(schema, rows, stmt))
<1> DEFINE m == MatchingRows(rows, schema, stmt.f)
<1>1. PICK u : IsDeleting(u, schema, rows, stmt)
  BY DeleteTurns
<1>2. IsMatched(m, rows, schema, stmt.f)
  BY MatchedAre
<1>3. Len(m.rows) \in 0 .. Len(m.rows)
  BY <1>2 DEF IsMatched
<1> QED
  BY <1>1, <1>3 DEF IsDeleting, Visited

\* SELECT changes nothing.
LEMMA SelectIsGood ==
  ASSUME NEW schema \in RowSchemas, NEW rows \in TablesOf(schema), NEW stmt
  PROVE  LET r == RunSelect(schema, rows, stmt) IN r.rows = rows /\ r.changes = <<>>
BY DEF RunSelect, Projected, Result


\* What every statement leaves on the table it ran on, with what it says it
\* changed: each row at most once, from what it was before the statement to what
\* it is after it.
IsTidy(schema, rows, r) ==
  /\ r.rows \in TablesOf(schema)
  /\ r.changes \in Seq(Changes(schema))
  /\ \A i, j \in DOMAIN r.changes : r.changes[i].pk = r.changes[j].pk => i = j
  /\ \A i \in DOMAIN r.changes : /\ r.changes[i].from = HeldIn(rows, r.changes[i].pk)
                                 /\ r.changes[i].to = HeldIn(r.rows, r.changes[i].pk)
  /\ \A pk : pk \notin ChangedKeys(r) => HeldIn(r.rows, pk) = HeldIn(rows, pk)

\* What is good is tidy, whatever the verdict.
LEMMA GoodIsTidy ==
  ASSUME NEW schema, NEW rows, NEW E, NEW r, Good(schema, rows, E, r)
  PROVE  IsTidy(schema, rows, r)
BY DEF Good, IsTidy, ResultsOf

\* The four kinds of statements.
IsStatement(stmt) ==
  \/ stmt.k = "insert" /\ stmt.columns \in Seq(STRING) /\ stmt.rows \in Seq(Seq(Exprs))
  \/ stmt.k = "select" /\ stmt.columns \in Seq(STRING) /\ stmt.f \in Wheres
  \/ stmt.k = "update" /\ stmt.assignments \in Seq(Assignments) /\ stmt.f \in Wheres
  \/ stmt.k = "delete" /\ stmt.f \in Wheres

\* There are no other kinds.
LEMMA StatementIs ==
  ASSUME NEW stmt \in RowStatement PROVE IsStatement(stmt)
BY DEF RowStatement, IsStatement, Assignments

\* Every statement on every table.
LEMMA RunIsTidy ==
  ASSUME NEW schema \in RowSchemas, NEW rows \in TablesOf(schema), NEW stmt \in RowStatement
  PROVE  IsTidy(schema, rows, Run(schema, rows, stmt))
<1>1. IsStatement(stmt)
  BY StatementIs
<1>2. CASE stmt.k = "insert"
  <2>1. InsertGood(schema, rows, InsertVerdicts(schema, stmt), RunInsert(schema, rows, stmt))
    BY <1>1, <1>2, InsertIsGood DEF IsStatement
  <2>2. Run(schema, rows, stmt) = RunInsert(schema, rows, stmt)
    BY <1>2 DEF Run
  <2> QED
    BY <2>1, <2>2, GoodIsTidy DEF InsertGood
<1>3. CASE stmt.k = "select"
  <2> DEFINE r == Run(schema, rows, stmt)
  <2>1. r = RunSelect(schema, rows, stmt)
    BY <1>3 DEF Run
  <2>2. r.rows = rows /\ r.changes = <<>>
    BY <2>1, SelectIsGood
  <2> HIDE DEF r
  <2>3. r.changes \in Seq(Changes(schema))
    <3> DEFINE C == Changes(schema)
    <3> HIDE DEF C
    <3>1. <<>> \in Seq(C)
      OBVIOUS
    <3> QED
      BY <2>2, <3>1 DEF C
  <2>4. IsTidy(schema, rows, r)
    BY <2>2, <2>3 DEF IsTidy
  <2> QED
    BY <2>4 DEF r
<1>4. CASE stmt.k = "update"
  <2>1. Good(schema, rows, Verdicts(UpdateStart(schema, rows, stmt)), RunUpdate(schema, rows, stmt))
    BY <1>1, <1>4, UpdateIsGood DEF IsStatement
  <2>2. Run(schema, rows, stmt) = RunUpdate(schema, rows, stmt)
    BY <1>4 DEF Run
  <2> QED
    BY <2>1, <2>2, GoodIsTidy
<1>5. CASE stmt.k = "delete"
  <2>1. Good(schema, rows, Verdicts(MatchingRows(rows, schema, stmt.f).error), RunDelete(schema, rows, stmt))
    BY <1>1, <1>5, DeleteIsGood DEF IsStatement
  <2>2. Run(schema, rows, stmt) = RunDelete(schema, rows, stmt)
    BY <1>5 DEF Run
  <2> QED
    BY <2>1, <2>2, GoodIsTidy
<1> QED
  BY <1>1, <1>2, <1>3, <1>4, <1>5 DEF IsStatement

-----------------------------------------------------------------------------
(* The theorems.                                                           *)

\* The table is one of its schema.
ExecInv == table \in TablesOf(TableSchema)

\* The empty table is a table of every schema.
LEMMA EmptyTableIs ==
  ASSUME NEW schema PROVE EmptyTable \in TablesOf(schema)
<1>1. DOMAIN EmptyTable = {} /\ EmptyTable = [pk \in DOMAIN EmptyTable |-> EmptyTable[pk]]
  BY DEF EmptyTable
<1>2. IsFiniteSet({})
  BY FS_EmptySet
<1> QED
  BY <1>1, <1>2, TableIs

\* The invariant holds: a statement that succeeds leaves a table of the schema.
LEMMA ExecutorInvariant == Spec => []ExecInv
<1>1. Init => ExecInv
  BY EmptyTableIs DEF Init, ExecInv
<1>2. ExecInv /\ [Next]_table => ExecInv'
  <2> SUFFICES ASSUME ExecInv, [Next]_table PROVE ExecInv'
    OBVIOUS
  <2>1. CASE Next
    <3>1. PICK stmt \in Statements : Execute(stmt)
      BY <2>1 DEF Next
    <3> DEFINE r == Run(TableSchema, table, stmt)
    <3>2. table' = IF r.error = "ok" THEN r.rows ELSE table
      BY <3>1 DEF Execute, Settled
    <3>3. stmt \in RowStatement /\ TableSchema \in RowSchemas /\ table \in TablesOf(TableSchema)
      BY ExecutorAssumption DEF ExecInv
    <3>4. IsTidy(TableSchema, table, r)
      BY <3>3, RunIsTidy
    <3> HIDE DEF r
    <3> QED
      BY <3>2, <3>3, <3>4 DEF IsTidy, ExecInv
  <2>2. CASE UNCHANGED table
    BY <2>2 DEF ExecInv
  <2> QED
    BY <2>1, <2>2
<1> QED
  BY <1>1, <1>2, PTL DEF Spec

\* Every row fits the schema and lies under its own key, whatever the statements
\* (engine lib.rs insert, update; row.rs encode_row).
THEOREM RowsFitSchemaHolds == Spec => []RowsFitSchema
<1>1. ExecInv => RowsFitSchema
  <2> SUFFICES ASSUME ExecInv, NEW pk \in DOMAIN table
               PROVE  /\ pk = table[pk][TableSchema.pk]
                      /\ DOMAIN table[pk] = DOMAIN TableSchema.columns
                      /\ \A i \in DOMAIN table[pk] :
                           LET column == TableSchema.columns[i]
                           IN  /\ Fits(table[pk][i], column.ty)
                               /\ table[pk][i] = Null => column.nullable
    BY DEF RowsFitSchema
  <2>1. table[pk] \in FitRows(TableSchema) /\ table[pk][TableSchema.pk] = pk
    BY TableIs DEF ExecInv
  <2> QED
    BY <2>1 DEF FitRows
<1> QED
  BY <1>1, ExecutorInvariant, PTL

\* A point lookup only skips work, for every schema and every WHERE clause
\* (engine lib.rs access_path; ADR-004).
THEOREM LookupSkipsWorkHolds == Spec => []LookupSkipsWork
<1>1. ExecInv => LookupSkipsWork
  <2> SUFFICES ASSUME ExecInv, NEW f \in Filters
               PROVE  OnlySkips(MatchingRows(table, TableSchema, f), ScannedRows(f))
    BY DEF LookupSkipsWork, OnlySkips
  <2>1. TableSchema \in RowSchemas /\ table \in TablesOf(TableSchema)
    BY ExecutorAssumption DEF ExecInv
  <2>2. f \in Wheres
    <3>1. PICK stmt \in Statements : stmt.k # "insert" /\ f = stmt.f
      BY DEF Filters
    <3>2. IsStatement(stmt)
      BY <3>1, ExecutorAssumption, StatementIs
    <3> QED
      BY <3>1, <3>2 DEF IsStatement
  <2>3. FoundBy(ScannedRows(f), table, TableSchema, f)
    BY DEF FoundBy, ScannedRows
  <2> QED
    BY <2>1, <2>2, <2>3, LookupOnlySkips
<1> QED
  BY <1>1, ExecutorInvariant, PTL

\* As many keys as changes.
LEMMA ChangedKeysCounted ==
  ASSUME NEW schema, NEW rows, NEW r, IsTidy(schema, rows, r)
  PROVE  Cardinality(ChangedKeys(r)) = Len(r.changes)
<1> DEFINE n == Len(r.changes)
           f == [i \in 1 .. n |-> r.changes[i].pk]
           K == ChangedKeys(r)
<1>1. n \in Nat /\ DOMAIN r.changes = 1 .. n
  BY DEF IsTidy
<1>2. f \in [1 .. n -> K] /\ \A k \in K : \E i \in 1 .. n : f[i] = k
  BY <1>1 DEF ChangedKeys
<1>3. \A i, j \in 1 .. n : f[i] = f[j] => i = j
  BY <1>1 DEF IsTidy
<1> HIDE DEF n, f, K
<1>4. f \in Bijection(1 .. n, K)
  BY <1>2, <1>3 DEF Bijection, Injection, Surjection, IsInjective
<1>5. ExistsBijection(1 .. n, K)
  BY <1>4 DEF ExistsBijection
<1>6. Cardinality(K) = n
  BY <1>1, <1>5, FS_CountingElements
<1> QED
  BY <1>6 DEF n, K

\* A statement changes each row at most once and leaves the others alone, for
\* every statement on every table (engine lib.rs insert, update, run).
THEOREM RowsChangeOnceHolds == Spec => []RowsChangeOnce
<1>1. ExecInv => RowsChangeOnce
  <2> SUFFICES ASSUME ExecInv, NEW stmt \in Statements
               PROVE  ChangesOnlyOnce(Run(TableSchema, table, stmt))
    BY DEF RowsChangeOnce
  <2> DEFINE r == Run(TableSchema, table, stmt)
             K == ChangedKeys(r)
  <2>1. TableSchema \in RowSchemas /\ table \in TablesOf(TableSchema) /\ stmt \in RowStatement
    BY ExecutorAssumption DEF ExecInv
  <2>2. IsTidy(TableSchema, table, r)
    BY <2>1, RunIsTidy
  <2> HIDE DEF r
  <2>3. Cardinality(K) = Len(r.changes)
    BY <2>2, ChangedKeysCounted
  <2>4. \A pk : Held(pk) = HeldIn(table, pk)
    BY DEF Held, HeldIn
  <2>5. \A i \in DOMAIN r.changes : r.changes[i].from = Held(r.changes[i].pk)
    BY <2>2, <2>4 DEF IsTidy
  <2>6. Restrict(r.rows, DOMAIN r.rows \ K) = Restrict(table, DOMAIN table \ K)
    <3>1. \A t \in TablesOf(TableSchema) : \A pk \in DOMAIN t : t[pk] # NoRow
      BY <2>1, TableIs, FitRowIs
    <3>2. r.rows \in TablesOf(TableSchema) /\ \A pk : pk \notin K => HeldIn(r.rows, pk) = HeldIn(table, pk)
      BY <2>2 DEF IsTidy
    <3> HIDE DEF K
    <3>3. DOMAIN r.rows \ K = DOMAIN table \ K
      BY <2>1, <3>1, <3>2 DEF HeldIn
    <3>4. \A pk \in DOMAIN table \ K : r.rows[pk] = table[pk]
      BY <3>2, <3>3 DEF HeldIn
    <3> QED
      BY <3>3, <3>4 DEF Restrict
  <2>7. K = {r.changes[i].pk : i \in DOMAIN r.changes}
    BY DEF ChangedKeys
  <2>8. ChangesOnce(r, K)
    BY <2>3, <2>5, <2>6 DEF ChangesOnce
  <2> HIDE DEF K
  <2> QED
    BY <2>7, <2>8 DEF ChangesOnlyOnce, r
<1> QED
  BY <1>1, ExecutorInvariant, PTL

-----------------------------------------------------------------------------
(* Verdicts.                                                               *)

\* On no rows there is nothing to find.
IsNone(m, schema, f) == m.error = CheckFilter(f, schema) /\ m.rows = <<>>

\* MatchingRows of the empty table.
LEMMA NoneMatched ==
  ASSUME NEW schema \in RowSchemas, NEW f \in Wheres
  PROVE  IsNone(MatchingRows(EmptyTable, schema, f), schema, f)
<1> DEFINE m == MatchingRows(EmptyTable, schema, f)
<1> SUFFICES IsNone(m, schema, f)
  OBVIOUS
<1>1. EmptyTable \in TablesOf(schema) /\ DOMAIN EmptyTable = {}
  BY EmptyTableIs DEF EmptyTable
<1>2. CASE CheckFilter(f, schema) # "ok"
  BY <1>2 DEF MatchingRows, IsNone
<1>3. CASE CheckFilter(f, schema) = "ok"
  <2> DEFINE c == Candidates(EmptyTable, schema, f)
  <2>1. IsCandidates(c, EmptyTable, schema, f)
    BY <1>1, <1>3, CandidatesAre
  <2>2. m = Keep(c, schema, f)
    BY <1>3 DEF MatchingRows
  <2>3. IsMatched(m, EmptyTable, schema, f)
    BY <1>1, MatchedAre
  <2> HIDE DEF c, m
  <2>4. IsKept(m, c, schema, f)
    BY <1>3, <2>1, <2>2, KeepIs DEF IsCandidates
  <2>5. m.error = "ok"
    BY <1>1, <2>1, <2>4 DEF IsKept, IsCandidates
  <2>6. \A i \in DOMAIN m.rows : FALSE
    BY <1>1, <2>3 DEF IsMatched
  <2>7. m.rows = <<>>
    <3> DEFINE F == FitRows(schema)
    <3>1. m.rows \in Seq(F)
      BY <2>3 DEF IsMatched
    <3> DEFINE t == m.rows
    <3> HIDE DEF F, t
    <3>2. t \in Seq(F) /\ 1 \notin DOMAIN t
      BY <2>6, <3>1 DEF t
    <3>3. t = <<>>
      BY <3>2
    <3> QED
      BY <3>3 DEF t
  <2> QED
    BY <1>3, <2>5, <2>7 DEF IsNone
<1> QED
  BY <1>2, <1>3

\* An UPDATE or a DELETE that finds nothing ends as it began.
LEMMA UpdateOfNone ==
  ASSUME NEW schema \in RowSchemas, NEW stmt, stmt.f \in Wheres
  PROVE  RunUpdate(schema, EmptyTable, stmt).error = UpdateStart(schema, EmptyTable, stmt)
<1> DEFINE m == MatchingRows(EmptyTable, schema, stmt.f)
           first == UpdateStart(schema, EmptyTable, stmt)
           start == Result(first, EmptyTable, <<>>)
           n == Len(m.rows)
           UpdateOne(result, i) == UpdateRow(schema, stmt.assignments, result, m.rows[i])
           TurnsOf(f) == f = [i \in 0 .. n |-> IF i = 0 THEN start ELSE UpdateOne(f[i - 1], i)]
           upTo == CHOOSE f : TurnsOf(f)
           one == [i \in 0 .. n |-> start]
<1>1. RunUpdate(schema, EmptyTable, stmt) = upTo[n]
  BY DEF RunUpdate, InTurn, UpdateStart
<1>2. n = 0
  <2>1. m.rows = <<>>
    BY NoneMatched DEF IsNone
  <2> HIDE DEF m
  <2> QED
    BY <2>1
<1>3. start.error = first
  BY DEF Result
<1> HIDE DEF start, UpdateOne, n, first, m
<1>4. TurnsOf(one)
  BY <1>2
<1>5. TurnsOf(upTo)
  BY <1>4
<1> HIDE DEF upTo
<1>6. upTo[n] = start
  BY <1>2, <1>5
<1> QED
  BY <1>1, <1>3, <1>6 DEF first

LEMMA DeleteOfNone ==
  ASSUME NEW schema \in RowSchemas, NEW stmt, stmt.f \in Wheres
  PROVE  RunDelete(schema, EmptyTable, stmt).error = CheckFilter(stmt.f, schema)
<1> DEFINE m == MatchingRows(EmptyTable, schema, stmt.f)
           first == m.error
           start == Result(first, EmptyTable, <<>>)
           n == Len(m.rows)
           DeleteOne(result, i) == DeleteRow(schema, result, m.rows[i])
           TurnsOf(f) == f = [i \in 0 .. n |-> IF i = 0 THEN start ELSE DeleteOne(f[i - 1], i)]
           upTo == CHOOSE f : TurnsOf(f)
           one == [i \in 0 .. n |-> start]
<1>1. RunDelete(schema, EmptyTable, stmt) = upTo[n]
  BY DEF RunDelete, InTurn
<1>2. n = 0 /\ first = CheckFilter(stmt.f, schema)
  <2>1. m.rows = <<>> /\ m.error = CheckFilter(stmt.f, schema)
    BY NoneMatched DEF IsNone
  <2> HIDE DEF m
  <2> QED
    BY <2>1
<1>3. start.error = first
  BY DEF Result
<1> HIDE DEF start, DeleteOne, n, first, m
<1>4. TurnsOf(one)
  BY <1>2
<1>5. TurnsOf(upTo)
  BY <1>4
<1> HIDE DEF upTo
<1>6. upTo[n] = start
  BY <1>2, <1>5
<1> QED
  BY <1>1, <1>2, <1>3, <1>6

\* What SELECT meets first: an unknown column, or what it meets on the rows.
NamesError(schema, stmt) ==
  LET names == ColumnNames(schema, stmt.columns)
  IN  FirstError([i \in DOMAIN names |-> Known(schema, names[i])])
OrderError(schema, stmt) ==
  IF stmt.order = NoOrder THEN "ok" ELSE Known(schema, stmt.order.column)

\* SELECT's verdict.
LEMMA SelectErrorIs ==
  ASSUME NEW schema \in RowSchemas, NEW rows, NEW stmt,
         stmt.columns = AllColumns \/ stmt.columns \in Seq(STRING)
  PROVE  RunSelect(schema, rows, stmt).error =
           IF NamesError(schema, stmt) # "ok" THEN NamesError(schema, stmt)
           ELSE IF OrderError(schema, stmt) # "ok" THEN OrderError(schema, stmt)
           ELSE MatchingRows(rows, schema, stmt.f).error
<1> DEFINE names == ColumnNames(schema, stmt.columns)
           known == [i \in DOMAIN names |-> Known(schema, names[i])]
           a == OrderError(schema, stmt)
           b == MatchingRows(rows, schema, stmt.f).error
           E == {"ok", "UnknownColumn", b}
           e == RunSelect(schema, rows, stmt).error
<1>1. e = FirstError(known \o <<a, b>>)
  BY DEF RunSelect, Projected, Result, OrderError
<1>2. names \in Seq(STRING)
  BY NamesAre
<1>3. NamesError(schema, stmt) = FirstError(known)
  BY DEF NamesError
<1> HIDE DEF names
<1>4. \A i \in DOMAIN names : known[i] \in {"ok", "UnknownColumn"}
  BY DEF Known
<1>5. a \in {"ok", "UnknownColumn"}
  BY DEF OrderError, Known
<1> HIDE DEF b, a, known, e
<1>6. known \in Seq(E) /\ <<a, b>> \in Seq(E)
  <2>1. Len(names) \in Nat /\ DOMAIN names = 1 .. Len(names)
    BY <1>2
  <2>2. \A i \in 1 .. Len(names) : known[i] \in E
    BY <1>4, <2>1
  <2>3. a \in E /\ b \in E
    BY <1>5
  <2> HIDE DEF E
  <2>4. known \in Seq(E)
    BY <2>1, <2>2 DEF known
  <2> QED
    BY <2>3, <2>4
<1>7. e = IF FirstError(known) = "ok" THEN FirstError(<<a, b>>) ELSE FirstError(known)
  <2> HIDE DEF E
  <2> QED
    BY <1>1, <1>6, FirstErrorAppended
<1>8. FirstError(<<a, b>>) = IF a = "ok" THEN b ELSE a
  BY FirstErrorOfTwo
<1> QED
  BY <1>3, <1>7, <1>8 DEF a, b, e

\* What the rows add to the verdict on none.
LEMMA MatchedVerdict ==
  ASSUME NEW schema \in RowSchemas, NEW rows \in TablesOf(schema), NEW f \in Wheres
  PROVE  MatchingRows(rows, schema, f).error \in Verdicts(CheckFilter(f, schema))
BY MatchedAre DEF IsMatched, Verdicts, DependsOnRows

\* Apart from overflow, division by zero and a NULL for a NOT NULL column, the
\* verdict on SELECT, UPDATE and DELETE does not depend on the rows, for every
\* statement on every table (engine eval.rs check_type, check_filter; ADR-003).
THEOREM ErrorsIgnoreRowsHolds == Spec => []ErrorsIgnoreRows
<1>1. ExecInv => ErrorsIgnoreRows
  <2> SUFFICES ASSUME ExecInv, NEW stmt \in Statements, stmt.k # "insert"
               PROVE  Run(TableSchema, table, stmt).error
                        \in Verdicts(Run(TableSchema, EmptyTable, stmt).error)
    BY DEF ErrorsIgnoreRows
  <2> DEFINE schema == TableSchema
             b == MatchingRows(table, schema, stmt.f).error
             d == MatchingRows(EmptyTable, schema, stmt.f).error
             check == CheckFilter(stmt.f, schema)
  <2>1. schema \in RowSchemas /\ table \in TablesOf(schema) /\ IsStatement(stmt)
    BY ExecutorAssumption, StatementIs DEF ExecInv
  <2>2. stmt.f \in Wheres
    BY <2>1 DEF IsStatement
  <2>3. b \in Verdicts(check) /\ d = check
    BY <2>1, <2>2, MatchedVerdict, NoneMatched DEF IsNone
  <2>4. CASE stmt.k = "select"
    <3>1. RunSelect(schema, table, stmt).error \in Verdicts(RunSelect(schema, EmptyTable, stmt).error)
      <4> DEFINE n == NamesError(schema, stmt)
                 o == OrderError(schema, stmt)
      <4>1. stmt.columns \in Seq(STRING)
        BY <2>1, <2>4 DEF IsStatement
      <4>2. RunSelect(schema, table, stmt).error = IF n # "ok" THEN n ELSE IF o # "ok" THEN o ELSE b
        BY <2>1, <4>1, SelectErrorIs
      <4>3. RunSelect(schema, EmptyTable, stmt).error = IF n # "ok" THEN n ELSE IF o # "ok" THEN o ELSE d
        BY <2>1, <4>1, SelectErrorIs
      <4> HIDE DEF n, o, b, d, check
      <4> QED
        BY <2>3, <4>2, <4>3 DEF Verdicts
    <3> QED
      BY <2>4, <3>1 DEF Run
  <2>5. CASE stmt.k = "update"
    <3> DEFINE a == UpdateCheck(schema, stmt.assignments)
    <3>1. RunUpdate(schema, table, stmt).error \in Verdicts(UpdateStart(schema, table, stmt))
      <4>1. stmt.assignments \in Seq(Assignments)
        BY <2>1, <2>5 DEF IsStatement
      <4>2. Good(schema, table, Verdicts(UpdateStart(schema, table, stmt)), RunUpdate(schema, table, stmt))
        BY <2>1, <2>2, <4>1, UpdateIsGood
      <4> QED
        BY <4>2 DEF Good, ResultsOf
    <3>2. UpdateStart(schema, table, stmt) = (IF a = "ok" THEN b ELSE a)
          /\ UpdateStart(schema, EmptyTable, stmt) = (IF a = "ok" THEN d ELSE a)
      BY FirstErrorOfTwo DEF UpdateStart
    <3>3. RunUpdate(schema, EmptyTable, stmt).error = UpdateStart(schema, EmptyTable, stmt)
      BY <2>1, <2>2, UpdateOfNone
    <3> HIDE DEF a, b, d, check
    <3>4. RunUpdate(schema, table, stmt).error \in Verdicts(RunUpdate(schema, EmptyTable, stmt).error)
      BY <2>3, <3>1, <3>2, <3>3 DEF Verdicts, DependsOnRows
    <3> QED
      BY <2>5, <3>4 DEF Run
  <2>6. CASE stmt.k = "delete"
    <3>1. RunDelete(schema, table, stmt).error \in Verdicts(b)
      <4>1. Good(schema, table, Verdicts(b), RunDelete(schema, table, stmt))
        BY <2>1, <2>2, DeleteIsGood
      <4> QED
        BY <4>1 DEF Good, ResultsOf
    <3>2. RunDelete(schema, EmptyTable, stmt).error = check
      BY <2>1, <2>2, DeleteOfNone
    <3> HIDE DEF b, check
    <3>3. RunDelete(schema, table, stmt).error \in Verdicts(RunDelete(schema, EmptyTable, stmt).error)
      BY <2>3, <3>1, <3>2 DEF Verdicts, DependsOnRows
    <3> QED
      BY <2>6, <3>3 DEF Run
  <2> QED
    BY <2>1, <2>4, <2>5, <2>6 DEF IsStatement
<1> QED
  BY <1>1, ExecutorInvariant, PTL

-----------------------------------------------------------------------------
(* Assignments happen at once.                                             *)

\* What UpdateCheck asks of each assignment.
IsAccepted(schema, a, j) ==
  LET p == Position(schema, a[j].column)
  IN  /\ p # 0
      /\ p # schema.pk
      /\ \A i \in 1 .. j - 1 : a[i].column # a[j].column
      /\ AssignmentCheck(schema, a[j]) = "ok"

\* UpdateCheck in these terms.
LEMMA UpdateCheckOk ==
  ASSUME NEW schema, NEW a \in Seq(Assignments)
  PROVE  UpdateCheck(schema, a) = "ok" <=> \A j \in DOMAIN a : IsAccepted(schema, a, j)
<1> DEFINE n == Len(a)
           names == [i \in DOMAIN a |-> a[i].column]
           checks == [i \in DOMAIN a |->
             IF Position(schema, names[i]) = 0 THEN "UnknownColumn"
             ELSE IF Position(schema, names[i]) = schema.pk THEN "UpdatePrimaryKey"
             ELSE IF \E j \in 1 .. i - 1 : names[j] = names[i] THEN "DuplicateColumn"
             ELSE AssignmentCheck(schema, a[i])]
<1>1. Checks(checks, n) /\ DOMAIN checks = DOMAIN a
  BY DEF Checks
<1>2. UpdateCheck(schema, a) = FirstError(checks)
  BY DEF UpdateCheck
<1> HIDE DEF checks
<1>3. FirstError(checks) = "ok" <=> \A j \in DOMAIN a : checks[j] = "ok"
  BY <1>1, FirstErrorOk
<1>4. ASSUME NEW j \in DOMAIN a PROVE checks[j] = "ok" <=> IsAccepted(schema, a, j)
  <2>1. names[j] = a[j].column /\ \A i \in 1 .. j - 1 : i \in DOMAIN a /\ names[i] = a[i].column
    OBVIOUS
  <2> HIDE DEF names
  <2>2. (\E i \in 1 .. j - 1 : names[i] = names[j]) <=> ~\A i \in 1 .. j - 1 : a[i].column # a[j].column
    BY <2>1
  <2> QED
    BY <2>1, <2>2 DEF checks, IsAccepted
<1> QED
  BY <1>2, <1>3, <1>4

\* The assignments in another order: f tells where each was.
IsReordered(b, a, f) ==
  /\ b \in Seq(Assignments)
  /\ Len(b) = Len(a)
  /\ \A j \in 1 .. Len(a) : f[j] \in 1 .. Len(a) /\ b[j] = a[f[j]]
  /\ \A i, j \in 1 .. Len(a) : f[i] = f[j] => i = j
  /\ \A k \in 1 .. Len(a) : \E j \in 1 .. Len(a) : f[j] = k

\* Every bijection gives such an order.
LEMMA ReorderedIs ==
  ASSUME NEW a \in Seq(Assignments), NEW f \in Bijection(DOMAIN a, DOMAIN a)
  PROVE  IsReordered(Reordered(a, f), a, f)
<1> DEFINE n == Len(a)
           b == Reordered(a, f)
           A == Assignments
<1>1. n \in Nat /\ DOMAIN a = 1 .. n /\ \A j \in 1 .. n : a[j] \in A
  OBVIOUS
<1>2. b = [j \in 1 .. n |-> a[f[j]]]
  BY <1>1 DEF Reordered
<1> HIDE DEF n, A, b
<1>3. f \in [1 .. n -> 1 .. n]
  BY <1>1 DEF Bijection, Injection
<1>4. \A i, j \in 1 .. n : f[i] = f[j] => i = j
  BY <1>1, <1>3 DEF Bijection, Injection, IsInjective
<1>5. \A k \in 1 .. n : \E j \in 1 .. n : f[j] = k
  BY <1>1 DEF Bijection, Surjection
<1>6. \A j \in 1 .. n : f[j] \in 1 .. n /\ b[j] = a[f[j]] /\ b[j] \in A
  BY <1>1, <1>2, <1>3
<1>7. b \in Seq(A) /\ Len(b) = n
  BY <1>1, <1>2, <1>6
<1> QED
  BY <1>4, <1>5, <1>6, <1>7 DEF IsReordered, n, b, A

\* Whatever is in the one is in the other.
LEMMA ReorderedHas ==
  ASSUME NEW a \in Seq(Assignments), NEW b, NEW f, IsReordered(b, a, f)
  PROVE  \A j \in DOMAIN b : \E k \in DOMAIN a : b[j] = a[k]
<1>1. DOMAIN a = 1 .. Len(a) /\ DOMAIN b = 1 .. Len(a)
  BY DEF IsReordered
<1> QED
  BY <1>1 DEF IsReordered

\* UpdateCheck does not care for the order, as to what it accepts.
LEMMA ReorderedAccepted ==
  ASSUME NEW schema, NEW a \in Seq(Assignments), NEW b, NEW f, IsReordered(b, a, f),
         UpdateCheck(schema, a) = "ok"
  PROVE  UpdateCheck(schema, b) = "ok"
<1> DEFINE n == Len(a)
<1>1. n \in Nat /\ DOMAIN a = 1 .. n /\ DOMAIN b = 1 .. n
  BY DEF IsReordered
<1>2. \A j \in DOMAIN a : IsAccepted(schema, a, j)
  BY UpdateCheckOk
<1>3. ASSUME NEW j \in 1 .. n PROVE IsAccepted(schema, b, j)
  <2> DEFINE k == f[j]
  <2>1. k \in 1 .. n /\ b[j] = a[k]
    BY DEF IsReordered
  <2>2. IsAccepted(schema, a, k)
    BY <1>1, <1>2, <2>1
  <2>3. ASSUME NEW i \in 1 .. j - 1 PROVE b[i].column # b[j].column
    <3> DEFINE l == f[i]
    <3>1. i \in 1 .. n /\ i # j
      BY <1>1
    <3>2. l \in 1 .. n /\ b[i] = a[l] /\ l # k
      BY <3>1 DEF IsReordered
    <3>3. IsAccepted(schema, a, l)
      BY <1>1, <1>2, <3>2
    <3> HIDE DEF k, l, n
    <3>4. k \in 1 .. l - 1 \/ l \in 1 .. k - 1
      BY <1>1, <2>1, <3>2
    <3> QED
      BY <2>1, <2>2, <3>2, <3>3, <3>4 DEF IsAccepted
  <2> HIDE DEF k
  <2> QED
    BY <2>1, <2>2, <2>3 DEF IsAccepted
<1> QED
  BY <1>1, <1>3, UpdateCheckOk DEF IsReordered

\* Each assignment has a column of its own.
LEMMA ColumnsDiffer ==
  ASSUME NEW schema \in RowSchemas, NEW a \in Seq(Assignments), UpdateCheck(schema, a) = "ok",
         NEW i \in DOMAIN a, NEW j \in DOMAIN a,
         Position(schema, a[i].column) = Position(schema, a[j].column)
  PROVE  i = j
<1>1. IsAccepted(schema, a, i) /\ IsAccepted(schema, a, j)
  BY UpdateCheckOk
<1>2. a[i].column = a[j].column
  <2> DEFINE c == a[i].column
             d == a[j].column
             p == Position(schema, c)
  <2>1. p # 0 /\ p = Position(schema, d)
    BY <1>1 DEF IsAccepted
  <2> HIDE DEF c, d
  <2>2. schema.columns \in Seq([name : STRING, ty : ColumnTypes, nullable : BOOLEAN])
    BY SchemaIs DEF ColumnDefs
  <2>3. schema.columns[p].name = c /\ schema.columns[Position(schema, d)].name = d
    BY <2>1, <2>2, PositionIs
  <2> QED
    BY <2>1, <2>3 DEF c, d
<1>3. i \in Int /\ j \in Int /\ (i < j => i \in 1 .. j - 1) /\ (j < i => j \in 1 .. i - 1)
  OBVIOUS
<1>4. ~(i < j)
  BY <1>1, <1>2, <1>3 DEF IsAccepted
<1>5. ~(j < i)
  BY <1>1, <1>2, <1>3 DEF IsAccepted
<1> QED
  BY <1>3, <1>4, <1>5

\* row is old with the first n assignments.
IsOldWith(row, old, schema, a, n) ==
  /\ DOMAIN row = DOMAIN schema.columns
  /\ \A j \in 1 .. n : row[Position(schema, a[j].column)] = NewValue(schema, a[j], old)
  /\ \A i \in DOMAIN schema.columns :
       (\A j \in 1 .. n : Position(schema, a[j].column) # i) => row[i] = old[i]

\* UpdatedRow makes all the assignments.
LEMMA UpdatedRowHas ==
  ASSUME NEW schema \in RowSchemas, NEW a \in Seq(Assignments), UpdateCheck(schema, a) = "ok",
         NEW old \in FitRows(schema)
  PROVE  IsOldWith(UpdatedRow(schema, a, old), old, schema, a, Len(a))
<1> DEFINE n == Len(a)
           D == DOMAIN schema.columns
           V == Values \cup {NewValue(schema, a[j], old) : j \in DOMAIN a}
           S == [k \in 0 .. n |-> {row \in [D -> V] : IsOldWith(row, old, schema, a, k)}]
           Pos(j) == Position(schema, a[j].column)
<1>1. n \in Nat /\ DOMAIN a = 1 .. n
  OBVIOUS
<1>2. old \in S[0]
  <2>1. old \in [D -> V]
    BY DEF FitRows
  <2>2. DOMAIN old = D
    BY <2>1
  <2> HIDE DEF V, D
  <2>3. IsOldWith(old, old, schema, a, 0)
    BY <2>2 DEF IsOldWith, D
  <2>4. 0 \in 0 .. n
    BY <1>1
  <2> QED
    BY <2>1, <2>3, <2>4
<1>3. ASSUME NEW k \in 1 .. n, NEW row \in S[k - 1]
      PROVE  Assigned(schema, a[k], old, row) \in S[k]
  <2> DEFINE q == Assigned(schema, a[k], old, row)
             v == NewValue(schema, a[k], old)
             p == Pos(k)
  <2>1. k - 1 \in 0 .. n /\ k \in 0 .. n
    BY <1>1
  <2>2. row \in [D -> V] /\ IsOldWith(row, old, schema, a, k - 1)
    BY <2>1
  <2>3. v \in V
    BY <1>1
  <2>4. q = [row EXCEPT ![p] = v]
    BY DEF Assigned, NewValue
  <2>5. p \in D
    <3>1. IsAccepted(schema, a, k)
      BY <1>1, UpdateCheckOk
    <3> QED
      BY <3>1, SchemaIs, PositionIs DEF IsAccepted, ColumnDefs
  <2>6. \A j \in 1 .. k : j = k \/ (j \in 1 .. k - 1 /\ j \in 1 .. n /\ j # k)
    BY <1>1
  <2>7. \A j \in 1 .. n : j # k => Pos(j) # p
    BY <1>1, ColumnsDiffer
  <2> HIDE DEF q, v, p, V, S, Pos, D
  <2>8. q \in [D -> V] /\ q[p] = v /\ \A i \in D : i # p => q[i] = row[i]
    BY <2>2, <2>3, <2>4, <2>5
  <2>9. \A j \in 1 .. k - 1 : Pos(j) \in D
    <3> TAKE j \in 1 .. k - 1
    <3>1. j \in DOMAIN a
      BY <1>1
    <3>2. IsAccepted(schema, a, j)
      BY <3>1, UpdateCheckOk
    <3> QED
      BY <3>2, SchemaIs, PositionIs DEF IsAccepted, ColumnDefs, Pos, D
  <2>10. \A j \in 1 .. k : q[Pos(j)] = NewValue(schema, a[j], old)
    <3> TAKE j \in 1 .. k
    <3>1. CASE j = k
      BY <2>8, <3>1 DEF p, v
    <3>2. CASE j \in 1 .. k - 1 /\ j \in 1 .. n /\ j # k
      <4>1. q[Pos(j)] = row[Pos(j)]
        BY <2>7, <2>8, <2>9, <3>2
      <4> QED
        BY <2>2, <3>2, <4>1 DEF IsOldWith, Pos
    <3> QED
      BY <2>6, <3>1, <3>2
  <2>11. ASSUME NEW i \in D, \A j \in 1 .. k : Pos(j) # i PROVE q[i] = old[i]
    <3>1. k \in 1 .. k /\ \A j \in 1 .. k - 1 : j \in 1 .. k
      BY <1>1
    <3>2. i # p /\ \A j \in 1 .. k - 1 : Pos(j) # i
      BY <2>11, <3>1 DEF p
    <3> QED
      BY <2>2, <2>8, <3>2 DEF IsOldWith, Pos, D
  <2>12. IsOldWith(q, old, schema, a, k)
    BY <2>8, <2>10, <2>11 DEF IsOldWith, Pos, D
  <2> QED
    BY <2>1, <2>8, <2>12 DEF S, q
<1>4. UpdatedRow(schema, a, old) \in S[n]
  <2> HIDE DEF S
  <2> QED
    BY <1>2, <1>3, UpdatedRowAt
<1>5. n \in 0 .. n
  BY <1>1
<1> QED
  BY <1>4, <1>5

\* Two orders of the same assignments make the same row.
LEMMA ReorderedRow ==
  ASSUME NEW schema \in RowSchemas, NEW a \in Seq(Assignments), NEW b, NEW f, IsReordered(b, a, f),
         UpdateCheck(schema, a) = "ok", NEW old \in FitRows(schema)
  PROVE  UpdatedRow(schema, b, old) = UpdatedRow(schema, a, old)
<1> DEFINE n == Len(a)
           r == UpdatedRow(schema, a, old)
           s == UpdatedRow(schema, b, old)
           D == DOMAIN schema.columns
<1>1. n \in Nat /\ b \in Seq(Assignments) /\ Len(b) = n
  BY DEF IsReordered
<1>2. UpdateCheck(schema, b) = "ok"
  BY ReorderedAccepted
<1>3. IsOldWith(r, old, schema, a, n) /\ IsOldWith(s, old, schema, b, n)
  BY <1>1, <1>2, UpdatedRowHas
<1>4. r = [i \in D |-> r[i]] /\ s = [i \in D |-> s[i]]
  <2>1. IsAssigning(schema, a) /\ IsAssigning(schema, b)
    BY <1>1, <1>2, AssigningIs
  <2> QED
    BY <2>1, UpdatedIsRow
<1> HIDE DEF r, s, n
<1>5. ASSUME NEW i \in D PROVE r[i] = s[i]
  <2>1. CASE \E j \in 1 .. n : Position(schema, a[j].column) = i
    <3>1. PICK j \in 1 .. n : Position(schema, a[j].column) = i
      BY <2>1
    <3>2. PICK k \in 1 .. n : f[k] = j
      BY <3>1 DEF IsReordered, n
    <3>3. b[k] = a[j]
      BY <3>2 DEF IsReordered, n
    <3>4. r[i] = NewValue(schema, a[j], old)
      BY <1>3, <3>1 DEF IsOldWith
    <3>5. s[i] = NewValue(schema, b[k], old)
      BY <1>3, <3>1, <3>2, <3>3 DEF IsOldWith
    <3> QED
      BY <3>3, <3>4, <3>5
  <2>2. CASE \A j \in 1 .. n : Position(schema, a[j].column) # i
    <3>1. \A j \in 1 .. n : Position(schema, b[j].column) # i
      <4>1. ASSUME NEW j \in 1 .. n PROVE \E k \in 1 .. n : b[j] = a[k]
        BY DEF IsReordered, n
      <4> QED
        BY <2>2, <4>1
    <3> QED
      BY <1>3, <2>2, <3>1 DEF IsOldWith
  <2> QED
    BY <2>1, <2>2
<1> QED
  BY <1>4, <1>5 DEF r, s

\* Every expression of the assignments has a value on the row, which may be written.
AllFine(schema, a, old, row) ==
  /\ \A j \in DOMAIN a : Outcome(NewValue(schema, a[j], old)) = "ok"
  /\ WriteCheck(schema, row) = "ok"

\* UpdatedCheck in these terms.
LEMMA UpdatedCheckOk ==
  ASSUME NEW schema, NEW a \in Seq(Assignments), NEW old, NEW row
  PROVE  UpdatedCheck(schema, a, old, row) = "ok" <=> AllFine(schema, a, old, row)
<1> DEFINE n == Len(a)
           w == WriteCheck(schema, row)
           values == [j \in DOMAIN a |-> Outcome(EvalIn(a[j].value, schema, old))]
           others == <<w>>
           E == {w} \cup {values[j] : j \in DOMAIN a}
           e == UpdatedCheck(schema, a, old, row)
<1>1. e = FirstError(values \o others)
  BY DEF UpdatedCheck
<1>2. n \in Nat /\ DOMAIN a = 1 .. n
  OBVIOUS
<1>3. DOMAIN values = DOMAIN a /\ \A j \in DOMAIN a : values[j] = Outcome(NewValue(schema, a[j], old))
  BY DEF NewValue
<1>4. values = [j \in 1 .. n |-> values[j]]
  BY <1>2
<1> HIDE DEF values, n, w, e
<1>5. values \in Seq(E) /\ others \in Seq(E)
  <2>1. (\A j \in 1 .. n : values[j] \in E) /\ w \in E
    BY <1>2
  <2> HIDE DEF E
  <2>2. values \in [1 .. n -> E]
    BY <1>4, <2>1
  <2> QED
    BY <1>2, <2>1, <2>2
<1>6. Checks(values, n)
  BY <1>2, <1>3 DEF Checks
<1>7. FirstError(others) = w
  BY FirstErrorOfOne
<1> HIDE DEF others
<1>8. e = IF FirstError(values) = "ok" THEN w ELSE FirstError(values)
  <2> HIDE DEF E
  <2> QED
    BY <1>1, <1>5, <1>7, FirstErrorAppended
<1>9. FirstError(values) = "ok" <=> \A j \in DOMAIN a : values[j] = "ok"
  BY <1>3, <1>6, FirstErrorOk
<1> QED
  BY <1>3, <1>8, <1>9 DEF AllFine, w, e

\* A turn that goes well goes the same way in the other order.
LEMMA ReorderedTurn ==
  ASSUME NEW schema \in RowSchemas, NEW rows, NEW E, NEW a \in Seq(Assignments), NEW b, NEW f,
         IsReordered(b, a, f),
         UpdateCheck(schema, a) = "ok", NEW m, NEW i, m.rows[i] \in FitRows(schema),
         NEW x, Good(schema, rows, E, x), UpdateTurn(schema, a, m, x, i).error = "ok"
  PROVE  /\ x.error = "ok"
         /\ UpdateTurn(schema, b, m, x, i) = UpdateTurn(schema, a, m, x, i)
<1> DEFINE old == m.rows[i]
           row == UpdatedRow(schema, a, old)
           check == UpdatedCheck(schema, a, old, row)
           again == UpdatedCheck(schema, b, old, row)
           c == Change(old[schema.pk], old, row)
<1>1. UpdatedRow(schema, b, old) = row
  BY ReorderedRow
<1>2. UpdateTurn(schema, a, m, x, i) = Stepwise(x, check, c)
      /\ UpdateTurn(schema, b, m, x, i) = Stepwise(x, again, c)
  BY <1>1 DEF UpdateTurn, UpdateRow
<1>3. check = "ok" => again = "ok"
  <2> HIDE DEF row, old
  <2> SUFFICES ASSUME check = "ok" PROVE again = "ok"
    OBVIOUS
  <2>1. AllFine(schema, a, old, row)
    BY UpdatedCheckOk
  <2>2. \A j \in DOMAIN b : \E k \in DOMAIN a : b[j] = a[k]
    BY ReorderedHas
  <2>3. AllFine(schema, b, old, row)
    BY <2>1, <2>2 DEF AllFine
  <2> QED
    BY <2>3, UpdatedCheckOk DEF IsReordered
<1> HIDE DEF c, check, again
<1>4. x = [error |-> x.error, rows |-> x.rows, returned |-> x.returned, changes |-> x.changes]
  BY DEF Good, ResultsOf
<1>5. x.error = "ok" /\ check = "ok"
  BY <1>2, <1>4 DEF Stepwise
<1> QED
  BY <1>2, <1>3, <1>5

\* Nor does the whole UPDATE.
LEMMA ReorderedUpdate ==
  ASSUME NEW schema \in RowSchemas, NEW rows \in TablesOf(schema), NEW stmt,
         stmt.assignments \in Seq(Assignments), stmt.f \in Wheres,
         NEW f \in Bijection(DOMAIN stmt.assignments, DOMAIN stmt.assignments),
         NEW back, back.assignments = Reordered(stmt.assignments, f), back.f = stmt.f,
         RunUpdate(schema, rows, stmt).error = "ok"
  PROVE  RunUpdate(schema, rows, back) = RunUpdate(schema, rows, stmt)
<1> DEFINE a == stmt.assignments
           b == back.assignments
           m == MatchingRows(rows, schema, stmt.f)
           first == UpdateStart(schema, rows, stmt)
           n == Len(m.rows)
           E == Verdicts(first)
<1>1. IsReordered(b, a, f) /\ a \in Seq(Assignments) /\ b \in Seq(Assignments)
  <2>1. a \in Seq(Assignments) /\ b = Reordered(a, f) /\ f \in Bijection(DOMAIN a, DOMAIN a)
    OBVIOUS
  <2> HIDE DEF a, b
  <2>2. IsReordered(b, a, f)
    BY <2>1, ReorderedIs
  <2> QED
    BY <2>1, <2>2 DEF IsReordered
<1>2. PICK u : IsUpdating(u, schema, rows, stmt)
  BY UpdateTurns
<1>3. PICK v : IsUpdating(v, schema, rows, back)
  BY <1>1, UpdateTurns
<1>4. IsMatched(m, rows, schema, stmt.f)
  BY MatchedAre
<1>5. n \in Nat /\ \A i \in 1 .. n : m.rows[i] \in FitRows(schema)
  <2> DEFINE F == FitRows(schema)
  <2>1. m.rows \in Seq(F)
    BY <1>4 DEF IsMatched
  <2> HIDE DEF F, m
  <2>2. n \in Nat /\ \A i \in 1 .. n : m.rows[i] \in F
    BY <2>1
  <2> QED
    BY <2>2 DEF F
<1>6. /\ u[0] = Result(first, rows, <<>>)
      /\ \A i \in 1 .. n : u[i] = UpdateTurn(schema, a, m, u[i - 1], i)
      /\ \A i \in 0 .. n : Good(schema, rows, E, u[i])
      /\ RunUpdate(schema, rows, stmt) = u[n]
  BY <1>2 DEF IsUpdating, Visited
<1>7. /\ v[0] = Result(UpdateStart(schema, rows, back), rows, <<>>)
      /\ \A i \in 1 .. n : v[i] = UpdateTurn(schema, b, m, v[i - 1], i)
      /\ RunUpdate(schema, rows, back) = v[n]
  BY <1>3 DEF IsUpdating
<1>8. n \in 0 .. n /\ 0 \in 0 .. n
  BY <1>5
<1>9. first = "ok"
  BY <1>6, <1>8, StartStays
<1>10. UpdateCheck(schema, a) = "ok" /\ m.error = "ok"
  BY <1>9, FirstErrorOfTwo DEF UpdateStart
<1>11. UpdateStart(schema, rows, back) = "ok"
  <2>1. UpdateCheck(schema, b) = "ok"
    BY <1>1, <1>10, ReorderedAccepted
  <2> QED
    BY <1>10, <2>1, FirstErrorOfTwo DEF UpdateStart
<1> HIDE DEF a, b, m, first, E, n
<1>12. ASSUME NEW i \in 1 .. n, u[i].error = "ok"
       PROVE  u[i - 1].error = "ok" /\ UpdateTurn(schema, b, m, u[i - 1], i) = u[i]
  <2> DEFINE x == u[i - 1]
  <2>1. i - 1 \in 0 .. n
    BY <1>5
  <2>2. Good(schema, rows, E, x) /\ m.rows[i] \in FitRows(schema)
        /\ UpdateTurn(schema, a, m, x, i) = u[i]
    BY <1>5, <1>6, <2>1
  <2> HIDE DEF x
  <2>3. x.error = "ok" /\ UpdateTurn(schema, b, m, x, i) = UpdateTurn(schema, a, m, x, i)
    BY <1>1, <1>10, <1>12, <2>2, ReorderedTurn
  <2> QED
    BY <2>2, <2>3 DEF x
<1> DEFINE H == {k \in 0 .. n : u[n - k].error = "ok"}
<1>13. 0 \in H
  BY <1>5, <1>6
<1>14. ASSUME NEW k \in 1 .. n, k - 1 \in H PROVE k \in H
  <2> DEFINE i == n - (k - 1)
  <2>1. i \in 1 .. n /\ i - 1 = n - k /\ u[i].error = "ok" /\ k \in 0 .. n
    BY <1>5, <1>14
  <2> HIDE DEF i
  <2>2. u[i - 1].error = "ok"
    BY <1>12, <2>1
  <2> QED
    BY <2>1, <2>2
<1>15. \A k \in 0 .. n : u[n - k].error = "ok"
  <2> HIDE DEF H
  <2>1. \A k \in 0 .. n : k \in H
    BY <1>5, <1>13, <1>14, IntervalInduction
  <2> QED
    BY <2>1 DEF H
<1>16. ASSUME NEW i \in 1 .. n PROVE u[i].error = "ok"
  <2>1. n - i \in 0 .. n /\ n - (n - i) = i
    BY <1>5
  <2> QED
    BY <1>15, <2>1
<1> DEFINE G == {i \in 0 .. n : v[i] = u[i]}
<1>17. 0 \in G
  BY <1>6, <1>7, <1>8, <1>9, <1>11
<1>18. ASSUME NEW i \in 1 .. n, i - 1 \in G PROVE i \in G
  <2>1. i \in 0 .. n /\ v[i - 1] = u[i - 1]
    BY <1>18
  <2>2. UpdateTurn(schema, b, m, u[i - 1], i) = u[i]
    BY <1>12, <1>16
  <2>3. v[i] = UpdateTurn(schema, b, m, v[i - 1], i)
    BY <1>7
  <2> QED
    BY <2>1, <2>2, <2>3
<1> HIDE DEF G
<1>19. \A i \in 0 .. n : i \in G
  BY <1>5, <1>17, <1>18, IntervalInduction
<1> QED
  BY <1>6, <1>7, <1>8, <1>19 DEF G

\* An UPDATE that succeeds leaves the same rows whatever the order of its
\* assignments, for every UPDATE on every table: every expression sees the old
\* row (engine lib.rs update).
THEOREM AssignmentsCommuteHolds == Spec => []AssignmentsCommute
<1>1. ExecInv => AssignmentsCommute
  <2> SUFFICES ASSUME ExecInv, NEW stmt \in Statements, stmt.k = "update",
                      NEW f \in Bijection(DOMAIN stmt.assignments, DOMAIN stmt.assignments)
               PROVE  Agree(RunUpdate(TableSchema, table, stmt),
                            RunUpdate(TableSchema, table, [stmt EXCEPT !.assignments = Reordered(@, f)]))
    BY DEF AssignmentsCommute
  <2> DEFINE back == [stmt EXCEPT !.assignments = Reordered(@, f)]
  <2>1. TableSchema \in RowSchemas /\ table \in TablesOf(TableSchema) /\ IsStatement(stmt)
    BY ExecutorAssumption, StatementIs DEF ExecInv
  <2>2. stmt.assignments \in Seq(Assignments) /\ stmt.f \in Wheres
    BY <2>1 DEF IsStatement
  <2>3. back.assignments = Reordered(stmt.assignments, f) /\ back.f = stmt.f
    <3>1. stmt \in RowStatement
      BY ExecutorAssumption
    <3>2. stmt \in [k : {"update"}, assignments : Seq(Assignments), f : Wheres]
      BY <3>1 DEF RowStatement, Assignments
    <3> QED
      BY <3>2
  <2> HIDE DEF back
  <2>4. RunUpdate(TableSchema, table, stmt).error = "ok" =>
          RunUpdate(TableSchema, table, back) = RunUpdate(TableSchema, table, stmt)
    BY <2>1, <2>2, <2>3, ReorderedUpdate
  <2> QED
    BY <2>4 DEF Agree, back
<1> QED
  BY <1>1, ExecutorInvariant, PTL

-----------------------------------------------------------------------------
(* Sorting.                                                                *)

\* R puts the first N numbers in a line.
IsLine(R, N) ==
  /\ \A i \in 1 .. N : <<i, i>> \notin R
  /\ \A i, j \in 1 .. N : i # j => <<i, j>> \in R \/ <<j, i>> \in R
  /\ \A i, j, k \in 1 .. N : <<i, j>> \in R /\ <<j, k>> \in R => <<i, k>> \in R

\* The numbers ahead of i.
Ahead(R, N, i) == {j \in 1 .. N : <<j, i>> \in R}

\* Counting those ahead gives each its place.
IsRanking(place, R, N) ==
  /\ place \in [1 .. N -> 1 .. N]
  /\ \A n \in 1 .. N : \E i \in 1 .. N : place[i] = n
  /\ \A i, j \in 1 .. N : place[i] < place[j] => <<i, j>> \in R

\* A line has a ranking.
LEMMA RankingIs ==
  ASSUME NEW N \in Nat, NEW R, IsLine(R, N),
         NEW place, place = [i \in 1 .. N |-> 1 + Cardinality(Ahead(R, N, i))]
  PROVE  IsRanking(place, R, N)
<1>1. IsFiniteSet(1 .. N) /\ Cardinality(1 .. N) = N
  BY FS_Interval
<1>2. \A i \in 1 .. N : IsFiniteSet(Ahead(R, N, i)) /\ Cardinality(Ahead(R, N, i)) \in Nat
  <2> TAKE i \in 1 .. N
  <2>1. Ahead(R, N, i) \in SUBSET (1 .. N)
    BY DEF Ahead
  <2> QED
    BY <1>1, <2>1, FS_Subset, FS_CardinalityType
<1>3. ASSUME NEW i \in 1 .. N, NEW j \in 1 .. N, <<i, j>> \in R
      PROVE  place[i] < place[j]
  <2> DEFINE A == Ahead(R, N, i)
             B == Ahead(R, N, j)
  <2>1. A \subseteq B /\ i \in B /\ i \notin A
    BY <1>3 DEF Ahead, IsLine
  <2>2. IsFiniteSet(B) /\ Cardinality(A) \in Nat /\ Cardinality(B) \in Nat
    BY <1>2
  <2>3. place[i] = 1 + Cardinality(A) /\ place[j] = 1 + Cardinality(B)
    OBVIOUS
  <2> HIDE DEF A, B
  <2>4. Cardinality(A) <= Cardinality(B) /\ Cardinality(A) # Cardinality(B)
    BY <2>1, <2>2, FS_Subset
  <2> QED
    BY <2>2, <2>3, <2>4
<1>4. ASSUME NEW i \in 1 .. N PROVE place[i] \in 1 .. N
  <2> DEFINE A == Ahead(R, N, i)
             T == 1 .. N
  <2>1. A \subseteq T /\ i \in T /\ i \notin A
    BY DEF Ahead, IsLine
  <2>2. Cardinality(A) \in Nat /\ place[i] = 1 + Cardinality(A)
    BY <1>2
  <2> HIDE DEF A, T
  <2>3. Cardinality(A) <= Cardinality(T) /\ Cardinality(A) # Cardinality(T)
    BY <1>1, <2>1, FS_Subset DEF T
  <2> QED
    BY <1>1, <2>2, <2>3 DEF T
<1>5. \A i \in 1 .. N : place[i] \in Int
  BY <1>4
<1>6. \A i, j \in 1 .. N : i # j => place[i] # place[j]
  <2> TAKE i, j \in 1 .. N
  <2>1. i # j => <<i, j>> \in R \/ <<j, i>> \in R
    BY DEF IsLine
  <2> QED
    BY <1>3, <1>5, <2>1
<1>7. \A i, j \in 1 .. N : place[i] < place[j] => <<i, j>> \in R
  <2> TAKE i, j \in 1 .. N
  <2>1. i # j => <<i, j>> \in R \/ <<j, i>> \in R
    BY DEF IsLine
  <2>2. <<j, i>> \in R => place[j] < place[i]
    BY <1>3
  <2> QED
    BY <1>5, <2>1, <2>2
<1>8. place \in [1 .. N -> 1 .. N]
  BY <1>4
<1>9. \A n \in 1 .. N : \E i \in 1 .. N : place[i] = n
  <2> DEFINE T == 1 .. N
  <2>1. IsFiniteSet(T) /\ place \in [T -> T] /\ \A i, j \in T : i # j => place[i] # place[j]
    BY <1>1, <1>6, <1>8
  <2> HIDE DEF T
  <2>2. place \in Injection(T, T)
    BY <2>1 DEF Injection, IsInjective
  <2>3. place \in Surjection(T, T)
    BY <2>1, <2>2, FS_Injection
  <2> QED
    BY <2>3 DEF Surjection, T
<1> QED
  BY <1>7, <1>8, <1>9 DEF IsRanking

\* Values of one column.
ColumnValues(t) == {v \in Values : Fits(v, t)}

\* Values of one column are ordered by their contents.
LEMMA ColumnOrder ==
  ASSUME NEW t, NEW v \in ColumnValues(t), NEW w \in ColumnValues(t)
  PROVE  /\ v # Null => v.x \in Int
         /\ v # Null /\ w # Null /\ v.x = w.x => v = w
<1>1. v # Null => v.x \in Int
  BY DEF ColumnValues, Values
<1>2. v # Null /\ w # Null => v.t = t /\ w.t = t
  BY DEF ColumnValues, Fits, Val
<1> QED
  BY <1>1, <1>2, ValuesDiffer DEF ColumnValues

\* v is before w, one way or the other.
Earlier(desc, v, w) == IF desc THEN Before(w, v) ELSE Before(v, w)

\* An order of the rows' values, and of their places where those are equal.
Stable(desc, w, N) ==
  {p \in (1 .. N) \X (1 .. N) :
     \/ Earlier(desc, w[p[1]], w[p[2]])
     \/ p[1] < p[2] /\ ~Earlier(desc, w[p[2]], w[p[1]])}

\* The order is strict and total on the values of a column, NULL among them.
LEMMA EarlierIs ==
  ASSUME NEW t, NEW desc
  PROVE  /\ \A v \in ColumnValues(t) : ~Earlier(desc, v, v)
         /\ \A v, w \in ColumnValues(t) : v # w <=> Earlier(desc, v, w) \/ Earlier(desc, w, v)
         /\ \A v, w \in ColumnValues(t) : ~(Earlier(desc, v, w) /\ Earlier(desc, w, v))
         /\ \A u, v, w \in ColumnValues(t) : Earlier(desc, u, v) /\ Earlier(desc, v, w) => Earlier(desc, u, w)
<1>1. \A v \in ColumnValues(t) : ~Before(v, v)
  BY ColumnOrder DEF Before
<1>2. \A v, w \in ColumnValues(t) : v # w <=> Before(v, w) \/ Before(w, v)
  BY ColumnOrder DEF Before
<1>3. \A v, w \in ColumnValues(t) : ~(Before(v, w) /\ Before(w, v))
  BY ColumnOrder DEF Before
<1>4. \A u, v, w \in ColumnValues(t) : Before(u, v) /\ Before(v, w) => Before(u, w)
  BY ColumnOrder DEF Before
<1> QED
  BY <1>1, <1>2, <1>3, <1>4 DEF Earlier

\* Values and then places: a line.
LEMMA StableIs ==
  ASSUME NEW t, NEW desc, NEW N \in Nat, NEW w \in [1 .. N -> ColumnValues(t)]
  PROVE  /\ IsLine(Stable(desc, w, N), N)
         /\ \A i, j \in 1 .. N : <<i, j>> \in Stable(desc, w, N) =>
              IF w[i] = w[j] THEN i < j ELSE Earlier(desc, w[i], w[j])
<1> DEFINE R == Stable(desc, w, N)
           C == ColumnValues(t)
<1>1. \A i \in 1 .. N : w[i] \in C
  OBVIOUS
<1> HIDE DEF C
<1>2. \A i, j \in 1 .. N : <<i, j>> \in R <=>
        Earlier(desc, w[i], w[j]) \/ (i < j /\ ~Earlier(desc, w[j], w[i]))
  BY DEF Stable
<1> HIDE DEF R
<1>3. \A i, j \in 1 .. N : <<i, j>> \in R <=>
        IF w[i] = w[j] THEN i < j ELSE Earlier(desc, w[i], w[j])
  <2> TAKE i, j \in 1 .. N
  <2>1. w[i] = w[j] => ~Earlier(desc, w[i], w[j]) /\ ~Earlier(desc, w[j], w[i])
    BY <1>1, EarlierIs DEF C
  <2>2. w[i] # w[j] => Earlier(desc, w[i], w[j]) \/ Earlier(desc, w[j], w[i])
    BY <1>1, EarlierIs DEF C
  <2> QED
    BY <1>2, <2>1, <2>2
<1>4. \A i \in 1 .. N : <<i, i>> \notin R
  BY <1>3
<1>5. \A i, j \in 1 .. N : i # j => <<i, j>> \in R \/ <<j, i>> \in R
  <2> TAKE i, j \in 1 .. N
  <2>1. w[i] # w[j] => Earlier(desc, w[i], w[j]) \/ Earlier(desc, w[j], w[i])
    BY <1>1, EarlierIs DEF C
  <2>2. i # j => i < j \/ j < i
    OBVIOUS
  <2> QED
    BY <1>3, <2>1, <2>2
<1>6. \A i, j, k \in 1 .. N : <<i, j>> \in R /\ <<j, k>> \in R => <<i, k>> \in R
  <2> SUFFICES ASSUME NEW i \in 1 .. N, NEW j \in 1 .. N, NEW k \in 1 .. N,
                      <<i, j>> \in R, <<j, k>> \in R
               PROVE  <<i, k>> \in R
    OBVIOUS
  <2>1. CASE w[i] = w[j]
    <3>1. i < j /\ (w[j] = w[k] => j < k) /\ (w[j] # w[k] => Earlier(desc, w[j], w[k]))
      BY <1>3, <2>1
    <3>2. j < k => i < k
      BY <3>1
    <3> QED
      BY <1>3, <2>1, <3>1, <3>2
  <2>2. CASE w[i] # w[j]
    <3>1. Earlier(desc, w[i], w[j])
      BY <1>3, <2>2
    <3>2. CASE w[j] = w[k]
      BY <1>3, <2>2, <3>1, <3>2
    <3>3. CASE w[j] # w[k]
      <4>1. Earlier(desc, w[j], w[k])
        BY <1>3, <3>3
      <4>2. Earlier(desc, w[i], w[k]) /\ w[i] # w[k]
        BY <1>1, <3>1, <4>1, EarlierIs DEF C
      <4> QED
        BY <1>3, <4>2
    <3> QED
      BY <3>2, <3>3
  <2> QED
    BY <2>1, <2>2
<1> QED
  BY <1>3, <1>4, <1>5, <1>6 DEF IsLine, R

\* r may come before s in what a SELECT with an order returns.
SortedPair(r, s, schema, order) ==
  LET p == Position(schema, order.column)
  IN  IF r[p] = s[p] THEN r[schema.pk].x < s[schema.pk].x
      ELSE Earlier(order.desc, r[p], s[p])

\* rows are in that order.
IsOrdered(rows, schema, order) ==
  /\ rows \in Seq(FitRows(schema))
  /\ \A m, n \in DOMAIN rows : m < n => SortedPair(rows[m], rows[n], schema, order)

\* Rows as a scan gives them.
InKeyOrder(rows, schema) ==
  /\ rows \in Seq(FitRows(schema))
  /\ \A i, j \in DOMAIN rows : i < j => rows[i][schema.pk].x < rows[j][schema.pk].x

\* StableSort puts rows that come in key order in that order.
LEMMA SortIs ==
  ASSUME NEW schema \in RowSchemas, NEW order, order # NoOrder,
         Position(schema, order.column) \in DOMAIN schema.columns,
         NEW rows, InKeyOrder(rows, schema)
  PROVE  IsOrdered(StableSort(schema, order, rows), schema, order)
<1> DEFINE N == Len(rows)
           p == Position(schema, order.column)
           C == ColumnValues(schema.columns[p].ty)
           F == FitRows(schema)
           w == [i \in 1 .. N |-> rows[i][p]]
           R == Stable(order.desc, w, N)
           Place(i) == 1 + Cardinality({j \in DOMAIN rows :
                             \/ Precedes(schema, order, rows[j], rows[i])
                             \/ j < i /\ ~Precedes(schema, order, rows[i], rows[j])})
           place == [i \in 1 .. N |-> 1 + Cardinality(Ahead(R, N, i))]
           at == [n \in 1 .. N |-> CHOOSE i \in DOMAIN rows : Place(i) = n]
           sorted == StableSort(schema, order, rows)
<1>1. rows \in Seq(F) /\ \A row \in F : row[p] \in C /\ row[schema.pk].x \in Int
  <2>1. rows \in Seq(F)
    BY DEF InKeyOrder
  <2>2. \A row \in F : row[p] \in C
    BY DEF FitRows, ColumnValues
  <2>3. \A row \in F : row[schema.pk].x \in Int
    BY FitRowIs DEF KeysOf, Values
  <2> QED
    BY <2>1, <2>2, <2>3
<1> HIDE DEF C, F, p
<1>2. N \in Nat /\ DOMAIN rows = 1 .. N /\ \A i \in 1 .. N : rows[i] \in F
  BY <1>1
<1>3. \A i \in DOMAIN rows : Place(i) = place[i]
  <2> TAKE i \in DOMAIN rows
  <2>1. \A j, k \in 1 .. N : Precedes(schema, order, rows[j], rows[k]) <=> Earlier(order.desc, w[j], w[k])
    BY DEF Precedes, Earlier, p
  <2> HIDE DEF w, N
  <2>2. {j \in DOMAIN rows : \/ Precedes(schema, order, rows[j], rows[i])
                             \/ j < i /\ ~Precedes(schema, order, rows[i], rows[j])} = Ahead(R, N, i)
    BY <1>2, <2>1 DEF Ahead, Stable
  <2> QED
    BY <1>2, <2>2
<1>4. sorted = [n \in 1 .. N |-> rows[at[n]]]
  BY <1>2 DEF StableSort
<1>5. w \in [1 .. N -> C]
  BY <1>1, <1>2
<1> HIDE DEF N, w
<1>6. IsLine(R, N) /\ \A i, j \in 1 .. N : <<i, j>> \in R =>
        IF w[i] = w[j] THEN i < j ELSE Earlier(order.desc, w[i], w[j])
  BY <1>2, <1>5, StableIs DEF C
<1> HIDE DEF R
<1>7. IsRanking(place, R, N)
  BY <1>2, <1>6, RankingIs
<1>8. \A n \in 1 .. N : at[n] \in 1 .. N /\ place[at[n]] = n
  <2> HIDE DEF Place, place
  <2> TAKE n \in 1 .. N
  <2>0. \E i \in 1 .. N : place[i] = n
    BY <1>7 DEF IsRanking
  <2>1. \E i \in DOMAIN rows : Place(i) = n
    BY <1>2, <1>3, <2>0
  <2>2. at[n] \in DOMAIN rows /\ Place(at[n]) = n
    BY <2>1
  <2> HIDE DEF at
  <2>3. Place(at[n]) = place[at[n]]
    BY <1>3, <2>2
  <2> QED
    BY <1>2, <2>2, <2>3
<1> HIDE DEF place, at, sorted
<1>9. sorted \in Seq(F) /\ DOMAIN sorted = 1 .. N
  <2>1. sorted \in [1 .. N -> F]
    BY <1>2, <1>4, <1>8
  <2> QED
    BY <1>2, <2>1
<1>10. ASSUME NEW m \in 1 .. N, NEW n \in 1 .. N, m < n
       PROVE  SortedPair(sorted[m], sorted[n], schema, order)
  <2> DEFINE i == at[m]
             j == at[n]
  <2>1. <<i, j>> \in R /\ i \in 1 .. N /\ j \in 1 .. N
    BY <1>7, <1>8, <1>10 DEF IsRanking
  <2>2. sorted[m] = rows[i] /\ sorted[n] = rows[j]
    BY <1>4
  <2> HIDE DEF i, j
  <2>3. w[i] = rows[i][p] /\ w[j] = rows[j][p]
    BY <2>1 DEF w
  <2>4. i < j => rows[i][schema.pk].x < rows[j][schema.pk].x
    BY <1>2, <2>1 DEF InKeyOrder
  <2> QED
    BY <1>6, <2>1, <2>2, <2>3, <2>4 DEF SortedPair, p
<1> QED
  BY <1>9, <1>10 DEF IsOrdered, F, sorted

\* A limit takes the first ones.
LEMMA TruncatedIsOrdered ==
  ASSUME NEW schema, NEW order, NEW rows, IsOrdered(rows, schema, order),
         NEW limit \in Nat \cup {NoLimit}
  PROVE  IsOrdered(Truncated(limit, rows), schema, order)
<1> DEFINE F == FitRows(schema)
           q == Truncated(limit, rows)
<1>1. rows \in Seq(F)
  BY DEF IsOrdered
<1> HIDE DEF F
<1>2. CASE limit = NoLimit \/ Len(rows) <= limit
  BY <1>2 DEF Truncated
<1>3. CASE ~(limit = NoLimit \/ Len(rows) <= limit)
  <2>1. limit \in Nat /\ limit < Len(rows) /\ Len(rows) \in Nat
    BY <1>1, <1>3
  <2>2. q = SubSeq(rows, 1, limit)
    BY <1>3 DEF Truncated
  <2> HIDE DEF q
  <2>3. q \in Seq(F) /\ Len(q) = limit /\ \A i \in 1 .. limit : q[i] = rows[i]
    BY <1>1, <2>1, <2>2
  <2>4. DOMAIN q = 1 .. limit /\ \A i \in 1 .. limit : i \in DOMAIN rows
    BY <1>1, <2>1, <2>3
  <2>5. \A m, n \in DOMAIN q : m < n => SortedPair(q[m], q[n], schema, order)
    BY <2>3, <2>4 DEF IsOrdered
  <2> QED
    BY <2>3, <2>5 DEF IsOrdered, F, q
<1> QED
  BY <1>2, <1>3

\* What a SELECT of all columns returns, in an order.
LEMMA SelectIsOrdered ==
  ASSUME NEW schema \in RowSchemas, NEW rows \in TablesOf(schema), NEW stmt,
         stmt.columns = AllColumns, stmt.f \in Wheres, stmt.order # NoOrder,
         stmt.limit \in Nat \cup {NoLimit}
  PROVE  IsOrdered(RunSelect(schema, rows, stmt).returned, schema, stmt.order)
<1> DEFINE names == ColumnNames(schema, stmt.columns)
           m == MatchingRows(rows, schema, stmt.f)
           e == FirstError([i \in DOMAIN names |-> Known(schema, names[i])] \o
                  << IF stmt.order = NoOrder THEN "ok" ELSE Known(schema, stmt.order.column),
                     m.error >>)
           found == Truncated(stmt.limit, StableSort(schema, stmt.order, m.rows))
           returned == RunSelect(schema, rows, stmt).returned
           F == FitRows(schema)
<1>1. returned = IF e # "ok" THEN <<>>
                 ELSE [i \in DOMAIN found |-> [j \in DOMAIN names |-> found[i][Position(schema, names[j])]]]
  BY DEF RunSelect, Projected, Result
<1>2. RunSelect(schema, rows, stmt).error = e
  BY DEF RunSelect, Projected, Result
<1>3. names = [i \in DOMAIN schema.columns |-> schema.columns[i].name]
  BY DEF ColumnNames
<1>4. IsMatched(m, rows, schema, stmt.f)
  BY MatchedAre
<1> HIDE DEF returned, found, m
<1>5. CASE e # "ok"
  <2> HIDE DEF e, F
  <2>1. returned = <<>>
    BY <1>1, <1>5
  <2>2. <<>> \in Seq(F)
    OBVIOUS
  <2>3. returned \in Seq(F) /\ DOMAIN returned = {}
    BY <2>1, <2>2
  <2>4. IsOrdered(returned, schema, stmt.order)
    BY <2>3 DEF IsOrdered, F
  <2> QED
    BY <2>4 DEF returned
<1>6. CASE e = "ok"
  <2>1. Position(schema, stmt.order.column) \in DOMAIN schema.columns
    <3>1. OrderError(schema, stmt) = "ok"
      BY <1>2, <1>6, SelectErrorIs
    <3>2. Position(schema, stmt.order.column) # 0
      BY <3>1 DEF OrderError, Known
    <3> QED
      BY <3>2, SchemaIs, PositionIs DEF ColumnDefs
  <2> HIDE DEF e, names
  <2>2. InKeyOrder(m.rows, schema)
    BY <1>4 DEF IsMatched, InKeyOrder
  <2>3. IsOrdered(StableSort(schema, stmt.order, m.rows), schema, stmt.order)
    BY <2>1, <2>2, SortIs
  <2>4. IsOrdered(found, schema, stmt.order)
    BY <2>3, TruncatedIsOrdered DEF found
  <2>5. returned = [i \in DOMAIN found |-> [j \in DOMAIN names |-> found[i][Position(schema, names[j])]]]
    BY <1>1, <1>6
  <2>6. found \in Seq(F)
    BY <2>4 DEF IsOrdered
  <2>7. ASSUME NEW row \in F PROVE [j \in DOMAIN names |-> row[Position(schema, names[j])]] = row
    <3> DEFINE D == DOMAIN schema.columns
    <3>1. DOMAIN names = D /\ \A j \in D : names[j] = schema.columns[j].name
      BY <1>3
    <3>2. \A j \in D : Position(schema, names[j]) = j
      BY <3>1, SchemaIs
    <3>3. row \in [D -> Values]
      BY DEF FitRows
    <3> HIDE DEF D
    <3> QED
      BY <3>1, <3>2, <3>3
  <2> HIDE DEF F
  <2>8. \A i \in DOMAIN found : found[i] \in F
    BY <2>6
  <2>9. returned = [i \in DOMAIN found |-> found[i]]
    BY <2>5, <2>7, <2>8
  <2>10. returned = found
    BY <2>6, <2>9
  <2> QED
    BY <2>4, <2>10 DEF returned
<1> QED
  BY <1>5, <1>6

\* Being earlier, spelled out as InOrder does.
LEMMA EarlierMeans ==
  ASSUME NEW desc, NEW v, NEW w, Earlier(desc, v, w)
  PROVE  IF desc THEN w = Null \/ (v # Null /\ w.x < v.x) ELSE v = Null \/ (w # Null /\ v.x < w.x)
BY DEF Earlier, Before

\* The rows of a SELECT with an order come in that order, NULLs smallest, and in
\* primary-key order where it leaves them equal, for every table, order and
\* limit (engine lib.rs select).
THEOREM SelectsAreOrderedHolds == Spec => []SelectsAreOrdered
<1>1. ExecInv => SelectsAreOrdered
  <2> SUFFICES ASSUME ExecInv, NEW stmt \in Statements, stmt.k = "select", stmt.order # NoOrder
               PROVE  InOrder(RunSelect(TableSchema, table, [stmt EXCEPT !.columns = AllColumns]).returned,
                              stmt.order)
    BY DEF SelectsAreOrdered
  <2> DEFINE all == [stmt EXCEPT !.columns = AllColumns]
             rows == RunSelect(TableSchema, table, all).returned
  <2>1. TableSchema \in RowSchemas /\ table \in TablesOf(TableSchema) /\ stmt \in RowStatement
    BY ExecutorAssumption DEF ExecInv
  <2>2. stmt \in [k : {"select"}, columns : Seq(STRING), f : Wheres,
                  order : [column : STRING, desc : BOOLEAN], limit : Nat \cup {NoLimit}]
    BY <2>1 DEF RowStatement
  <2>3. all.columns = AllColumns /\ all.f \in Wheres /\ all.order = stmt.order /\ all.order # NoOrder
        /\ all.limit \in Nat \cup {NoLimit}
    BY <2>2
  <2> HIDE DEF all
  <2>4. IsOrdered(rows, TableSchema, all.order)
    BY <2>1, <2>3, SelectIsOrdered
  <2> HIDE DEF rows
  <2>5. \A m, n \in DOMAIN rows : m < n => SortedPair(rows[m], rows[n], TableSchema, stmt.order)
    BY <2>3, <2>4 DEF IsOrdered
  <2>6. InOrder(rows, stmt.order)
    BY <2>5, EarlierMeans DEF InOrder, SortedPair
  <2> QED
    BY <2>6 DEF rows, all
<1> QED
  BY <1>1, ExecutorInvariant, PTL

-----------------------------------------------------------------------------
(* What a statement depends on.                                            *)

\* The keys that a statement has read when r is what came of it.
ReadKeys(schema, stmt, r) ==
  IF Scans(schema, stmt) THEN KeysOf(schema) ELSE LooksUp(schema, stmt, r)

\* Two tables hold the same under some keys.
SameUnder(keys, rows, others) == \A pk \in keys : HeldIn(rows, pk) = HeldIn(others, pk)

\* Two runs of a statement on two tables have come to the same, and hold the same
\* under some keys.
Alike(x, y, keys) ==
  /\ x.error = y.error
  /\ x.returned = y.returned
  /\ x.changes = y.changes
  /\ SameUnder(keys, x.rows, y.rows)

\* A table has a row under a key unless it holds none there.
LEMMA HeldIs ==
  ASSUME NEW schema \in RowSchemas, NEW rows \in TablesOf(schema), NEW pk
  PROVE  pk \in DOMAIN rows <=> HeldIn(rows, pk) # NoRow
<1>1. pk \in DOMAIN rows => rows[pk] \in FitRows(schema)
  BY TableIs
<1>2. pk \in DOMAIN rows => rows[pk] # NoRow
  BY <1>1, FitRowIs
<1> QED
  BY <1>2 DEF HeldIn

\* A table is what it holds under its keys.
LEMMA SameTables ==
  ASSUME NEW schema \in RowSchemas, NEW rows \in TablesOf(schema), NEW others \in TablesOf(schema),
         SameUnder(KeysOf(schema), rows, others)
  PROVE  rows = others
<1>1. /\ rows = [pk \in DOMAIN rows |-> rows[pk]] /\ DOMAIN rows \subseteq KeysOf(schema)
      /\ others = [pk \in DOMAIN others |-> others[pk]] /\ DOMAIN others \subseteq KeysOf(schema)
  BY TableIs
<1>2. \A pk \in KeysOf(schema) : pk \in DOMAIN rows <=> pk \in DOMAIN others
  BY HeldIs DEF SameUnder
<1>3. DOMAIN rows = DOMAIN others
  BY <1>1, <1>2
<1>4. \A pk \in DOMAIN rows : rows[pk] = others[pk]
  BY <1>1, <1>3 DEF SameUnder, HeldIn
<1> QED
  BY <1>1, <1>3, <1>4

\* What a change leaves under each key.
LEMMA ChangedHolds ==
  ASSUME NEW rows, NEW c, NEW pk
  PROVE  HeldIn(Changed(rows, c), pk) = IF pk = c.pk THEN c.to ELSE HeldIn(rows, pk)
<1> DEFINE t == Changed(rows, c)
           D == (DOMAIN rows \ {c.pk}) \cup (IF c.to = NoRow THEN {} ELSE {c.pk})
<1>1. t = [k \in D |-> IF k = c.pk THEN c.to ELSE rows[k]]
  BY DEF Changed
<1>2. DOMAIN t = D /\ (pk \in D => t[pk] = IF pk = c.pk THEN c.to ELSE rows[pk])
  BY <1>1
<1> HIDE DEF t
<1>3. HeldIn(t, pk) = IF pk = c.pk THEN c.to ELSE HeldIn(rows, pk)
  BY <1>2 DEF HeldIn
<1> QED
  BY <1>3 DEF t

\* A turn with the same check and the same change keeps two runs alike.
LEMMA StepAlike ==
  ASSUME NEW schema, NEW E, NEW E1, NEW x \in ResultsOf(schema, E), NEW y \in ResultsOf(schema, E1),
         NEW keys, Alike(x, y, keys), NEW check, NEW c
  PROVE  Alike(Stepwise(x, check, c), Stepwise(y, check, c), keys)
<1> DEFINE p == Stepwise(x, check, c)
           q == Stepwise(y, check, c)
<1> SUFFICES Alike(p, q, keys)
  OBVIOUS
<1>1. x.error = y.error /\ x.returned = y.returned /\ x.changes = y.changes
      /\ SameUnder(keys, x.rows, y.rows)
  BY DEF Alike
<1>2. CASE x.error # "ok"
  BY <1>1, <1>2 DEF Stepwise
<1>3. CASE x.error = "ok" /\ check # "ok"
  <2>1. p.error = check /\ p.returned = x.returned /\ p.changes = x.changes /\ p.rows = x.rows
    BY <1>3 DEF Stepwise, ResultsOf
  <2>2. q.error = check /\ q.returned = y.returned /\ q.changes = y.changes /\ q.rows = y.rows
    BY <1>1, <1>3 DEF Stepwise, ResultsOf
  <2> HIDE DEF p, q
  <2> QED
    BY <1>1, <2>1, <2>2 DEF Alike
<1>4. CASE x.error = "ok" /\ check = "ok"
  <2>1. p.error = x.error /\ p.returned = x.returned /\ p.changes = Append(x.changes, c)
        /\ p.rows = Changed(x.rows, c)
    BY <1>4 DEF Stepwise, ResultsOf
  <2>2. q.error = y.error /\ q.returned = y.returned /\ q.changes = Append(y.changes, c)
        /\ q.rows = Changed(y.rows, c)
    BY <1>1, <1>4 DEF Stepwise, ResultsOf
  <2>3. SameUnder(keys, Changed(x.rows, c), Changed(y.rows, c))
    BY <1>1, ChangedHolds DEF SameUnder
  <2> HIDE DEF p, q
  <2> QED
    BY <1>1, <2>1, <2>2, <2>3 DEF Alike
<1> QED
  BY <1>2, <1>3, <1>4

\* Nor do they differ before the first turn.
LEMMA StartAlike ==
  ASSUME NEW rows, NEW others, NEW keys, SameUnder(keys, rows, others), NEW error
  PROVE  Alike(Result(error, rows, <<>>), Result(error, others, <<>>), keys)
BY DEF Alike, Result

\* A lookup finds the same in tables that hold the same under its key.
LEMMA MatchedAlike ==
  ASSUME NEW schema \in RowSchemas, NEW rows \in TablesOf(schema), NEW others \in TablesOf(schema),
         NEW f, AccessPath(schema, f) # FullScan,
         SameUnder({AccessPath(schema, f)}, rows, others)
  PROVE  MatchingRows(rows, schema, f) = MatchingRows(others, schema, f)
<1> DEFINE pin == AccessPath(schema, f)
           D == DOMAIN rows \cap {pin}
           E == DOMAIN others \cap {pin}
<1>1. Candidates(rows, schema, f) = Restrict(rows, D) /\ Candidates(others, schema, f) = Restrict(others, E)
  BY DEF Candidates
<1>2. HeldIn(rows, pin) = HeldIn(others, pin)
  BY DEF SameUnder
<1> HIDE DEF pin
<1>3. D = E
  BY <1>2, HeldIs
<1>4. \A pk \in D : rows[pk] = others[pk]
  BY <1>2, <1>3 DEF HeldIn
<1>5. Restrict(rows, D) = Restrict(others, E)
  BY <1>3, <1>4 DEF Restrict
<1>6. Candidates(rows, schema, f) = Candidates(others, schema, f)
  BY <1>1, <1>5
<1> QED
  BY <1>6 DEF MatchingRows

\* SELECT comes to the same when it finds the same rows.
LEMMA SelectAlike ==
  ASSUME NEW schema, NEW rows, NEW others, NEW stmt,
         MatchingRows(rows, schema, stmt.f) = MatchingRows(others, schema, stmt.f)
  PROVE  Alike(RunSelect(schema, rows, stmt), RunSelect(schema, others, stmt), {})
BY DEF RunSelect, Result, Alike, SameUnder

\* So does UPDATE.
LEMMA UpdateAlike ==
  ASSUME NEW schema \in RowSchemas, NEW rows \in TablesOf(schema), NEW others \in TablesOf(schema),
         NEW stmt, stmt.assignments \in Seq(Assignments), stmt.f \in Wheres,
         MatchingRows(rows, schema, stmt.f) = MatchingRows(others, schema, stmt.f)
  PROVE  Alike(RunUpdate(schema, rows, stmt), RunUpdate(schema, others, stmt), {})
<1> DEFINE a == stmt.assignments
           m == MatchingRows(rows, schema, stmt.f)
           first == UpdateStart(schema, rows, stmt)
           n == Len(m.rows)
           E == Verdicts(first)
<1>1. PICK u : IsUpdating(u, schema, rows, stmt)
  BY UpdateTurns
<1>2. PICK v : IsUpdating(v, schema, others, stmt)
  BY UpdateTurns
<1>3. n \in Nat
  <2>1. IsMatched(m, rows, schema, stmt.f)
    BY MatchedAre
  <2> QED
    BY <2>1 DEF IsMatched
<1>4. UpdateStart(schema, others, stmt) = first
  BY DEF UpdateStart
<1>5. /\ u[0] = Result(first, rows, <<>>)
      /\ \A i \in 1 .. n : u[i] = UpdateRow(schema, a, u[i - 1], m.rows[i])
      /\ \A i \in 0 .. n : u[i] \in ResultsOf(schema, E)
      /\ RunUpdate(schema, rows, stmt) = u[n]
  BY <1>1 DEF IsUpdating, UpdateTurn, Visited, Good
<1>6. /\ v[0] = Result(first, others, <<>>)
      /\ \A i \in 1 .. n : v[i] = UpdateRow(schema, a, v[i - 1], m.rows[i])
      /\ \A i \in 0 .. n : v[i] \in ResultsOf(schema, E)
      /\ RunUpdate(schema, others, stmt) = v[n]
  BY <1>2, <1>4 DEF IsUpdating, UpdateTurn, Visited, Good
<1> HIDE DEF a, m, first, n, E
<1> DEFINE H == {i \in 0 .. n : Alike(u[i], v[i], {})}
<1>7. 0 \in H
  <2>1. SameUnder({}, rows, others)
    BY DEF SameUnder
  <2> QED
    BY <1>3, <1>5, <1>6, <2>1, StartAlike
<1>8. ASSUME NEW i \in 1 .. n, i - 1 \in H PROVE i \in H
  <2> DEFINE old == m.rows[i]
             row == UpdatedRow(schema, a, old)
             check == UpdatedCheck(schema, a, old, row)
             c == Change(old[schema.pk], old, row)
  <2>1. i \in 0 .. n /\ i - 1 \in 0 .. n /\ Alike(u[i - 1], v[i - 1], {})
    BY <1>3, <1>8
  <2>2. u[i] = Stepwise(u[i - 1], check, c) /\ v[i] = Stepwise(v[i - 1], check, c)
    BY <1>5, <1>6 DEF UpdateRow
  <2> HIDE DEF check, c
  <2>3. Alike(Stepwise(u[i - 1], check, c), Stepwise(v[i - 1], check, c), {})
    BY <1>5, <1>6, <2>1, StepAlike
  <2> QED
    BY <2>1, <2>2, <2>3
<1> HIDE DEF H
<1>9. \A i \in 0 .. n : i \in H
  BY <1>3, <1>7, <1>8, IntervalInduction
<1>10. n \in H
  BY <1>3, <1>9
<1> QED
  BY <1>5, <1>6, <1>10 DEF H

\* So does DELETE.
LEMMA DeleteAlike ==
  ASSUME NEW schema \in RowSchemas, NEW rows \in TablesOf(schema), NEW others \in TablesOf(schema),
         NEW stmt, stmt.f \in Wheres,
         MatchingRows(rows, schema, stmt.f) = MatchingRows(others, schema, stmt.f)
  PROVE  Alike(RunDelete(schema, rows, stmt), RunDelete(schema, others, stmt), {})
<1> DEFINE m == MatchingRows(rows, schema, stmt.f)
           n == Len(m.rows)
           E == Verdicts(m.error)
<1>1. PICK u : IsDeleting(u, schema, rows, stmt)
  BY DeleteTurns
<1>2. PICK v : IsDeleting(v, schema, others, stmt)
  BY DeleteTurns
<1>3. n \in Nat
  <2>1. IsMatched(m, rows, schema, stmt.f)
    BY MatchedAre
  <2> QED
    BY <2>1 DEF IsMatched
<1>4. /\ u[0] = Result(m.error, rows, <<>>)
      /\ \A i \in 1 .. n : u[i] = DeleteRow(schema, u[i - 1], m.rows[i])
      /\ \A i \in 0 .. n : u[i] \in ResultsOf(schema, E)
      /\ RunDelete(schema, rows, stmt) = u[n]
  BY <1>1 DEF IsDeleting, Visited, Good
<1>5. /\ v[0] = Result(m.error, others, <<>>)
      /\ \A i \in 1 .. n : v[i] = DeleteRow(schema, v[i - 1], m.rows[i])
      /\ \A i \in 0 .. n : v[i] \in ResultsOf(schema, E)
      /\ RunDelete(schema, others, stmt) = v[n]
  BY <1>2 DEF IsDeleting, Visited, Good
<1> HIDE DEF m, n, E
<1> DEFINE H == {i \in 0 .. n : Alike(u[i], v[i], {})}
<1>6. 0 \in H
  <2>1. SameUnder({}, rows, others)
    BY DEF SameUnder
  <2> QED
    BY <1>3, <1>4, <1>5, <2>1, StartAlike
<1>7. ASSUME NEW i \in 1 .. n, i - 1 \in H PROVE i \in H
  <2> DEFINE c == Change(m.rows[i][schema.pk], m.rows[i], NoRow)
  <2>1. i \in 0 .. n /\ i - 1 \in 0 .. n /\ Alike(u[i - 1], v[i - 1], {})
    BY <1>3, <1>7
  <2>2. u[i] = Stepwise(u[i - 1], "ok", c) /\ v[i] = Stepwise(v[i - 1], "ok", c)
    BY <1>4, <1>5 DEF DeleteRow
  <2> HIDE DEF c
  <2>3. Alike(Stepwise(u[i - 1], "ok", c), Stepwise(v[i - 1], "ok", c), {})
    BY <1>4, <1>5, <2>1, StepAlike
  <2> QED
    BY <2>1, <2>2, <2>3
<1> HIDE DEF H
<1>8. \A i \in 0 .. n : i \in H
  BY <1>3, <1>6, <1>7, IntervalInduction
<1>9. n \in H
  BY <1>3, <1>8
<1> QED
  BY <1>4, <1>5, <1>9 DEF H

\* The check of one row of an INSERT asks of the table only whether its key is there.
LEMMA InsertCheckAlike ==
  ASSUME NEW schema, NEW names, NEW exprs, NEW rows, NEW others,
         LET pk == InsertedRow(schema, names, exprs)[schema.pk]
         IN  pk \in DOMAIN rows <=> pk \in DOMAIN others
  PROVE  InsertCheck(schema, names, exprs, rows) = InsertCheck(schema, names, exprs, others)
BY DEF InsertCheck

\* An INSERT that succeeds has looked at the keys it changed alone.
LEMMA InsertAlike ==
  ASSUME NEW schema \in RowSchemas, NEW rows \in TablesOf(schema), NEW others \in TablesOf(schema),
         NEW stmt, stmt.columns \in Seq(STRING), stmt.rows \in Seq(Seq(Exprs)),
         RunInsert(schema, rows, stmt).error = "ok",
         SameUnder(ChangedKeys(RunInsert(schema, rows, stmt)), rows, others)
  PROVE  Alike(RunInsert(schema, rows, stmt), RunInsert(schema, others, stmt), {})
<1> DEFINE names == ColumnNames(schema, stmt.columns)
           first == TargetsCheck(schema, names)
           n == Len(stmt.rows)
           E == InsertVerdicts(schema, stmt)
           L == ChangedKeys(RunInsert(schema, rows, stmt))
<1>1. PICK u : IsInserting(u, schema, rows, stmt)
  BY InsertTurns
<1>2. PICK v : IsInserting(v, schema, others, stmt)
  BY InsertTurns
<1>3. n \in Nat
  OBVIOUS
<1>4. /\ u[0] = Result(first, rows, <<>>)
      /\ \A i \in 1 .. n : u[i] = InsertTurn(schema, names, stmt.rows[i], u[i - 1])
      /\ \A i \in 0 .. n : u[i] \in ResultsOf(schema, E)
      /\ RunInsert(schema, rows, stmt) = u[n]
  BY <1>1 DEF IsInserting, InsertGood, Good
<1>5. /\ v[0] = Result(first, others, <<>>)
      /\ \A i \in 1 .. n : v[i] = InsertTurn(schema, names, stmt.rows[i], v[i - 1])
      /\ \A i \in 0 .. n : v[i] \in ResultsOf(schema, E)
      /\ RunInsert(schema, others, stmt) = v[n]
  BY <1>2 DEF IsInserting, InsertGood, Good
<1>6. u[n].error = "ok" /\ L = ChangedKeys(u[n]) /\ SameUnder(L, rows, others)
  BY <1>4
<1> HIDE DEF names, first, n, E, L
<1> DEFINE RowAt(i) == InsertedRow(schema, names, stmt.rows[i])
           KeyOfRow(i) == RowAt(i)[schema.pk]
<1>7. ASSUME NEW i \in 1 .. n, u[i].error = "ok"
      PROVE  /\ u[i - 1].error = "ok"
             /\ InsertCheck(schema, names, stmt.rows[i], u[i - 1].rows) = "ok"
             /\ ChangedKeys(u[i]) = ChangedKeys(u[i - 1]) \cup {KeyOfRow(i)}
  <2> DEFINE x == u[i - 1]
             check == InsertCheck(schema, names, stmt.rows[i], x.rows)
             c == Inserting(schema, RowAt(i))
  <2>1. i - 1 \in 0 .. n /\ x \in ResultsOf(schema, E) /\ u[i] = Stepwise(x, check, c)
    BY <1>3, <1>4 DEF InsertTurn
  <2>2. c.pk = KeyOfRow(i)
    BY DEF Inserting, Change
  <2> HIDE DEF x, check, c, RowAt, KeyOfRow
  <2>3. x.error = "ok" /\ check = "ok"
    BY <1>7, <2>1 DEF Stepwise, ResultsOf
  <2>4. u[i].changes = Append(x.changes, c) /\ x.changes \in Seq(Changes(schema))
    BY <2>1, <2>3 DEF Stepwise, ResultsOf
  <2>5. ChangedKeys(u[i]) = ChangedKeys(x) \cup {c.pk}
    <3> DEFINE k == Len(x.changes)
               w == u[i].changes
    <3>1. k \in Nat /\ DOMAIN x.changes = 1 .. k /\ DOMAIN w = 1 .. k + 1 /\ w[k + 1] = c
          /\ \A j \in 1 .. k : w[j] = x.changes[j]
      <4> DEFINE C == Changes(schema)
      <4>1. x.changes \in Seq(C) /\ w = Append(x.changes, c)
        BY <2>4
      <4> HIDE DEF C, w
      <4> QED
        BY <4>1
    <3> HIDE DEF k, w
    <3>2. \A j \in 1 .. k + 1 : j = k + 1 \/ j \in 1 .. k
      BY <3>1
    <3>3. \A j \in 1 .. k : j \in 1 .. k + 1
      BY <3>1
    <3>4. k + 1 \in 1 .. k + 1
      BY <3>1
    <3> QED
      BY <3>1, <3>2, <3>3, <3>4 DEF ChangedKeys, w
  <2> QED
    BY <2>2, <2>3, <2>5 DEF x, check
<1> DEFINE Fine(i) == u[i].error = "ok" /\ ChangedKeys(u[i]) \subseteq L
           D == {k \in 0 .. n : Fine(n - k)}
<1>8. 0 \in D
  BY <1>3, <1>6
<1>9. ASSUME NEW k \in 1 .. n, k - 1 \in D PROVE k \in D
  <2> DEFINE i == n - (k - 1)
  <2>1. i \in 1 .. n /\ i - 1 = n - k /\ Fine(i) /\ k \in 0 .. n
    BY <1>3, <1>9
  <2> HIDE DEF i, KeyOfRow
  <2>2. Fine(i - 1)
    BY <1>7, <2>1
  <2> QED
    BY <2>1, <2>2
<1>10. \A k \in 0 .. n : Fine(n - k)
  <2> HIDE DEF D
  <2>1. \A k \in 0 .. n : k \in D
    BY <1>3, <1>8, <1>9, IntervalInduction
  <2> QED
    BY <2>1 DEF D
<1>11. ASSUME NEW i \in 0 .. n PROVE Fine(i)
  <2>1. n - i \in 0 .. n /\ n - (n - i) = i
    BY <1>3
  <2> HIDE DEF Fine
  <2> QED
    BY <1>10, <2>1
<1> DEFINE H == {i \in 0 .. n : Alike(u[i], v[i], L)}
<1>12. 0 \in H
  BY <1>3, <1>4, <1>5, <1>6, StartAlike
<1>13. ASSUME NEW i \in 1 .. n, i - 1 \in H PROVE i \in H
  <2> DEFINE x == u[i - 1]
             y == v[i - 1]
             c == Inserting(schema, RowAt(i))
             exprs == stmt.rows[i]
             check == InsertCheck(schema, names, exprs, x.rows)
  <2>1. i \in 0 .. n /\ i - 1 \in 0 .. n /\ Alike(x, y, L)
    BY <1>3, <1>13
  <2>2. x \in ResultsOf(schema, E) /\ y \in ResultsOf(schema, E)
    BY <1>4, <1>5, <2>1
  <2>3. x.rows \in TablesOf(schema) /\ y.rows \in TablesOf(schema)
    BY <2>2 DEF ResultsOf
  <2>4. u[i].error = "ok" /\ ChangedKeys(u[i]) \subseteq L
    BY <1>11, <2>1
  <2>5. KeyOfRow(i) \in L
    <3> HIDE DEF KeyOfRow
    <3> QED
      BY <1>7, <2>4
  <2>6. u[i] = Stepwise(x, check, c) /\ v[i] = Stepwise(y, InsertCheck(schema, names, exprs, y.rows), c)
    BY <1>4, <1>5 DEF InsertTurn
  <2> HIDE DEF x, y, c, exprs
  <2>7. KeyOfRow(i) \in DOMAIN x.rows <=> KeyOfRow(i) \in DOMAIN y.rows
    <3> HIDE DEF KeyOfRow
    <3> QED
      BY <2>1, <2>3, <2>5, HeldIs DEF Alike, SameUnder
  <2>8. InsertCheck(schema, names, exprs, y.rows) = check
    BY <2>7, InsertCheckAlike DEF exprs
  <2> HIDE DEF check
  <2>9. Alike(Stepwise(x, check, c), Stepwise(y, check, c), L)
    BY <2>1, <2>2, StepAlike
  <2> QED
    BY <2>1, <2>6, <2>8, <2>9
<1> HIDE DEF H
<1>14. \A i \in 0 .. n : i \in H
  BY <1>3, <1>12, <1>13, IntervalInduction
<1>15. n \in H
  BY <1>3, <1>14
<1>16. Alike(u[n], v[n], L)
  BY <1>15 DEF H
<1> QED
  BY <1>4, <1>5, <1>16 DEF Alike, SameUnder

\* A statement that succeeds depends on nothing that it has not read.
LEMMA StatementsDependOnReads ==
  ASSUME NEW schema \in RowSchemas, NEW rows \in TablesOf(schema), NEW others \in TablesOf(schema),
         NEW stmt \in RowStatement, Run(schema, rows, stmt).error = "ok",
         SameUnder(ReadKeys(schema, stmt, Run(schema, rows, stmt)), rows, others)
  PROVE  Alike(Run(schema, rows, stmt), Run(schema, others, stmt), {})
<1>1. IsStatement(stmt)
  BY StatementIs
<1>2. CASE Scans(schema, stmt)
  <2>1. rows = others
    BY <1>2, SameTables DEF ReadKeys
  <2> QED
    BY <2>1 DEF Alike, SameUnder
<1>3. CASE stmt.k = "insert"
  <2>1. Run(schema, rows, stmt) = RunInsert(schema, rows, stmt)
        /\ Run(schema, others, stmt) = RunInsert(schema, others, stmt)
    BY <1>3 DEF Run
  <2>2. ReadKeys(schema, stmt, Run(schema, rows, stmt)) = ChangedKeys(RunInsert(schema, rows, stmt))
    BY <1>3, <2>1 DEF ReadKeys, Scans, LooksUp, ChangedKeys
  <2> QED
    BY <1>1, <1>3, <2>1, <2>2, InsertAlike DEF IsStatement
<1>4. CASE stmt.k # "insert" /\ ~Scans(schema, stmt)
  <2>1. stmt.f \in Wheres
    BY <1>1, <1>4 DEF IsStatement
  <2>2. AccessPath(schema, stmt.f) # FullScan
    BY <1>4 DEF Scans
  <2>3. ReadKeys(schema, stmt, Run(schema, rows, stmt)) = {AccessPath(schema, stmt.f)}
    BY <1>4 DEF ReadKeys, LooksUp
  <2>4. MatchingRows(rows, schema, stmt.f) = MatchingRows(others, schema, stmt.f)
    BY <2>2, <2>3, MatchedAlike
  <2>5. CASE stmt.k = "select"
    <3>1. Run(schema, rows, stmt) = RunSelect(schema, rows, stmt)
          /\ Run(schema, others, stmt) = RunSelect(schema, others, stmt)
      BY <2>5 DEF Run
    <3> QED
      BY <2>4, <3>1, SelectAlike
  <2>6. CASE stmt.k = "update"
    <3>1. Run(schema, rows, stmt) = RunUpdate(schema, rows, stmt)
          /\ Run(schema, others, stmt) = RunUpdate(schema, others, stmt)
      BY <2>6 DEF Run
    <3> QED
      BY <1>1, <2>1, <2>4, <2>6, <3>1, UpdateAlike DEF IsStatement
  <2>7. CASE stmt.k = "delete"
    <3>1. Run(schema, rows, stmt) = RunDelete(schema, rows, stmt)
          /\ Run(schema, others, stmt) = RunDelete(schema, others, stmt)
      BY <2>7 DEF Run
    <3> QED
      BY <2>1, <2>4, <3>1, DeleteAlike
  <2> QED
    BY <1>1, <1>4, <2>5, <2>6, <2>7 DEF IsStatement
<1> QED
  BY <1>2, <1>3, <1>4

\* What Session takes for granted of a statement that succeeds (EffectAssumption):
\* it changes each row at most once, from what it found to a row that fits under
\* the same key or to none, and it would have made the same changes and returned
\* the same rows on every table with the same rows where it has read.
IsEffect(schema, rows, stmt) ==
  LET r == Run(schema, rows, stmt)
  IN  r.error = "ok" =>
        /\ \A i, j \in DOMAIN r.changes : r.changes[i].pk = r.changes[j].pk => i = j
        /\ \A i \in DOMAIN r.changes :
             LET c == r.changes[i]
             IN  /\ c.from = HeldIn(rows, c.pk)
                 /\ c.to = NoRow \/ (c.to \in FitRows(schema) /\ c.to[schema.pk] = c.pk)
        /\ \A others \in TablesOf(schema) :
             SameUnder(ReadKeys(schema, stmt, r), rows, others)
               => Alike(r, Run(schema, others, stmt), {})

\* Every INSERT, SELECT, UPDATE and DELETE on every table of every schema is as
\* Session takes it to be: what a transaction reports can be redone, and is what a
\* later run would have reported if nobody has changed what it read (engine
\* lib.rs insert, select, update, matching_rows; access_path).
THEOREM StatementsAreEffects ==
  ASSUME NEW schema \in RowSchemas, NEW rows \in TablesOf(schema), NEW stmt \in RowStatement
  PROVE  IsEffect(schema, rows, stmt)
<1> DEFINE r == Run(schema, rows, stmt)
<1>1. IsTidy(schema, rows, r)
  BY RunIsTidy
<1>2. r.error = "ok" => \A others \in TablesOf(schema) :
        SameUnder(ReadKeys(schema, stmt, r), rows, others) => Alike(r, Run(schema, others, stmt), {})
  BY StatementsDependOnReads
<1>3. r.error = "ok" => IsEffect(schema, rows, stmt)
  <2> SUFFICES ASSUME r.error = "ok" PROVE IsEffect(schema, rows, stmt)
    OBVIOUS
  <2> HIDE DEF r
  <2>1. ASSUME NEW i \in DOMAIN r.changes, r.changes[i].to # NoRow
        PROVE  r.changes[i].to \in FitRows(schema) /\ r.changes[i].to[schema.pk] = r.changes[i].pk
    <3> DEFINE c == r.changes[i]
    <3>1. c.to = HeldIn(r.rows, c.pk) /\ r.rows \in TablesOf(schema)
      BY <1>1 DEF IsTidy
    <3> HIDE DEF c
    <3>2. c.to # NoRow
      BY <2>1 DEF c
    <3>3. c.pk \in DOMAIN r.rows /\ c.to = r.rows[c.pk]
      BY <3>1, <3>2 DEF HeldIn
    <3>4. c.to \in FitRows(schema) /\ c.to[schema.pk] = c.pk
      BY <3>1, <3>3, TableIs
    <3> QED
      BY <3>4 DEF c
  <2>2. /\ \A i, j \in DOMAIN r.changes : r.changes[i].pk = r.changes[j].pk => i = j
        /\ \A i \in DOMAIN r.changes : r.changes[i].from = HeldIn(rows, r.changes[i].pk)
    BY <1>1 DEF IsTidy
  <2> QED
    BY <1>2, <2>1, <2>2 DEF IsEffect, r
<1>4. r.error # "ok" => IsEffect(schema, rows, stmt)
  BY DEF IsEffect
<1> QED
  BY <1>3, <1>4
=============================================================================
