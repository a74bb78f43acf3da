----------------------------- MODULE SqlValues ------------------------------
(***************************************************************************)
(* The values of SQL and the operators on them: the parts of               *)
(* crates/engine/src/eval.rs that look at one operator.  A value is a      *)
(* record of its type and its contents: integers are themselves, booleans  *)
(* are 0 and 1, texts and byte strings are numbered in their order.  An    *)
(* error is a record of the same shape.                                    *)
(***************************************************************************)
EXTENDS Ast, Integers

CONSTANTS MaxInt   \* the largest INTEGER: i64::MAX

ASSUME IntegerAssumption == MaxInt \in Nat \ {0}

MinInt     == -MaxInt - 1
Integers64 == MinInt .. MaxInt

ColumnTypes == {"integer", "text", "bytes", "boolean"}
Types       == ColumnTypes \cup {"null"}       \* Ty

\* The errors of evaluation that depend on the data, not on types.
DataErrors == {"IntegerOverflow", "DivisionByZero"}

Error(e) == Val(e, 0)

IsValue(r) == r.t \in Types

-----------------------------------------------------------------------------
\* checked_add and its kin.
Checked(n) == IF n \in Integers64 THEN Val("integer", n) ELSE Error("IntegerOverflow")

\* Division rounds toward zero.
Magnitude(n)   == IF n < 0 THEN -n ELSE n
Quotient(m, n) ==
  LET q == Magnitude(m) \div Magnitude(n)
  IN  IF (m < 0) = (n < 0) THEN q ELSE -q

Arithmetic(op, m, n) ==
  CASE op = "+" -> Checked(m + n)
    [] op = "-" -> Checked(m - n)
    [] op = "*" -> Checked(m * n)
    [] op = "/" -> IF n = 0 THEN Error("DivisionByZero") ELSE Checked(Quotient(m, n))

\* compare, on two values of one type.
Compared(op, m, n) ==
  CASE op = "="  -> m = n
    [] op = "<>" -> m # n
    [] op = "<"  -> m < n
    [] op = "<=" -> m <= n
    [] op = ">"  -> m > n
    [] op = ">=" -> m >= n

\* AND and OR of TRUE, FALSE and NULL: AND is FALSE as soon as an operand is,
\* OR is TRUE as soon as an operand is, else NULL wins.
Logic(op, a, b) ==
  LET decisive == Bool(op = "OR")
  IN  IF decisive \in {a, b} THEN decisive
      ELSE IF Null \in {a, b} THEN Null
      ELSE Bool(op = "AND")

\* binary: op applied to two values.
Binary(op, a, b) ==
  IF op \in LogicOps
  THEN IF {a.t, b.t} \subseteq {"boolean", "null"} THEN Logic(op, a, b)
       ELSE Error("TypeMismatch")
  ELSE IF Null \in {a, b} THEN Null
  ELSE IF op \in ComparisonOps /\ a.t = b.t THEN Bool(Compared(op, a.x, b.x))
  ELSE IF op \in ArithmeticOps /\ {a.t, b.t} = {"integer"} THEN Arithmetic(op, a.x, b.x)
  ELSE Error("TypeMismatch")

\* The Unary case of eval.
Unary(op, v) ==
  IF v = Null THEN Null
  ELSE IF op = "neg" /\ v.t = "integer" THEN Checked(-v.x)
  ELSE IF op = "NOT" /\ v.t = "boolean" THEN Bool(v # Bool(TRUE))
  ELSE Error("TypeMismatch")

-----------------------------------------------------------------------------
(* The static types of the same operators.  NULL has a type of its own,    *)
(* which goes with every other.                                            *)

Is(type, want) == type \in {want, "null"}

\* Mutant of CheckBinary: comparisons are not checked.
CheckBinaryLoose(op, s, t) ==
  IF op \in ComparisonOps THEN "boolean"
  ELSE IF op \in LogicOps THEN IF Is(s, "boolean") /\ Is(t, "boolean") THEN "boolean"
                                                                     ELSE "TypeMismatch"
  ELSE IF Is(s, "integer") /\ Is(t, "integer") THEN "integer" ELSE "TypeMismatch"

CheckBinary(op, s, t) ==
  IF op \in LogicOps /\ Is(s, "boolean") /\ Is(t, "boolean") THEN "boolean"
  ELSE IF op \in ArithmeticOps /\ Is(s, "integer") /\ Is(t, "integer") THEN "integer"
  ELSE IF op \in ComparisonOps /\ (Is(s, t) \/ Is(t, s)) THEN "boolean"
  ELSE "TypeMismatch"

CheckUnary(op, t) ==
  LET want == IF op = "neg" THEN "integer" ELSE "boolean"
  IN  IF Is(t, want) THEN want ELSE "TypeMismatch"

\* A value an expression of static type t may have.
Contents(t) ==
  IF t = "boolean" THEN {0, 1} ELSE IF t = "integer" THEN Integers64 ELSE Nat

Fits(v, t) == v = Null \/ (t # "null" /\ v = Val(t, v.x) /\ v.x \in Contents(t))
=============================================================================
