-------------------------------- MODULE Eval --------------------------------
(***************************************************************************)
(* crates/engine/src/eval.rs: an expression's value on a row, its static   *)
(* type in a schema, and the WHERE clause.                                 *)
(*                                                                         *)
(* A schema is a record of a sequence of columns and the position of the   *)
(* primary key; a row is a sequence of values.  Errors win over values:    *)
(* both operands are always evaluated, and the left one's error is the     *)
(* one reported.                                                           *)
(***************************************************************************)
EXTENDS SqlValues, Sequences

\* There is no WHERE clause; there is no row to take columns from.
NoFilter == [k |-> "none"]
NoRow    == <<>>

Column(name, type, nullable) == [name |-> name, ty |-> type, nullable |-> nullable]

\* Schema::new: one primary key, which is never NULL, and no name twice.
RowSchemas ==
  {s \in [columns : Seq([name : STRING, ty : ColumnTypes, nullable : BOOLEAN]), pk : Nat] :
     /\ s.pk \in DOMAIN s.columns /\ ~s.columns[s.pk].nullable
     /\ \A i, j \in DOMAIN s.columns : s.columns[i].name = s.columns[j].name => i = j}

\* The row belongs to a table of that schema.
RowOf(schema, row) ==
  /\ schema.columns \in Seq([name : STRING, ty : ColumnTypes, nullable : BOOLEAN])
  /\ DOMAIN row = DOMAIN schema.columns
  /\ \A i \in DOMAIN schema.columns : Fits(row[i], schema.columns[i].ty)

\* The position of the column of that name, 0 if there is none.  Schema::new
\* sees to it that there is at most one.
Position(schema, name) ==
  LET hits == {i \in 1 .. Len(schema.columns) : schema.columns[i].name = name}
  IN  IF hits = {} THEN 0 ELSE CHOOSE i \in hits : TRUE

-----------------------------------------------------------------------------
(* Expr of ast.rs, as deep as MaxHeight allows.                            *)

Literals ==
  {Null} \cup [t : {"integer"}, x : Integers64] \cup [t : {"boolean"}, x : {0, 1}]
    \cup [t : {"text"}, x : Nat]
Leaves == [k : {"lit"}, v : Literals] \cup [k : {"col"}, name : STRING]

Nested == Trees(Leaves)
Exprs == Nested[MaxHeight]

-----------------------------------------------------------------------------
\* eval, given the values of the operands.
Evaluated(x, schema, row, value) ==
  CASE x.k = "lit" -> x.v
    [] x.k = "col" ->
         LET i == Position(schema, x.name)
         IN  IF row = NoRow \/ i = 0 THEN Error("UnknownColumn") ELSE row[i]
    [] x.k = "isnull" ->
         IF IsValue(value[x.e]) THEN Bool((value[x.e] = Null) # x.negated) ELSE value[x.e]
    [] x.k = "unary" ->
         IF IsValue(value[x.e]) THEN Unary(x.op, value[x.e]) ELSE value[x.e]
    [] x.k = "binary" ->
         IF ~IsValue(value[x.l]) THEN value[x.l]
         ELSE IF ~IsValue(value[x.r]) THEN value[x.r]
         ELSE Binary(x.op, value[x.l], value[x.r])

EvalIn(e, schema, row) ==
  LET value[x \in Exprs] == Evaluated(x, schema, row, value) IN value[e]

\* eval without a row.
EvalConstant(e) == EvalIn(e, [columns |-> <<>>, pk |-> 0], NoRow)

\* check_type, given the types of the operands.
Typed(x, schema, type) ==
  CASE x.k = "lit" -> x.v.t
    [] x.k = "col" ->
         LET i == Position(schema, x.name)
         IN  IF i = 0 THEN "UnknownColumn" ELSE schema.columns[i].ty
    [] x.k = "isnull" -> IF type[x.e] \in Types THEN "boolean" ELSE type[x.e]
    [] x.k = "unary"  -> IF type[x.e] \in Types THEN CheckUnary(x.op, type[x.e]) ELSE type[x.e]
    [] x.k = "binary" ->
         IF type[x.l] \notin Types THEN type[x.l]
         ELSE IF type[x.r] \notin Types THEN type[x.r]
         ELSE CheckBinary(x.op, type[x.l], type[x.r])

CheckType(e, schema) ==
  LET type[x \in Exprs] == Typed(x, schema, type) IN type[e]

\* What a WHERE clause may be: of type BOOLEAN, or NULL.
BooleanOnly(t) ==
  IF t \notin Types THEN t ELSE IF Is(t, "boolean") THEN "ok" ELSE "TypeMismatch"

\* Mutant of CheckFilter: a WHERE clause is not checked before the rows are read.
CheckFilterNothing(f, schema) == "ok"

\* check_filter: "ok" or an error.
CheckFilter(f, schema) ==
  IF f = NoFilter THEN "ok" ELSE BooleanOnly(CheckType(f, schema))

\* Mutant of KeepsRow: only FALSE drops a row.
KeepsUnlessFalse(f, schema, row) ==
  LET v == EvalIn(f, schema, row)
  IN  IF f = NoFilter THEN Bool(TRUE)
      ELSE IF ~IsValue(v) THEN v
      ELSE Bool(v # Bool(FALSE))

\* A filter's value decides: TRUE or FALSE, or an error.
Truth(v) ==
  IF ~IsValue(v) THEN v
  ELSE IF Is(v.t, "boolean") THEN Bool(v = Bool(TRUE))
  ELSE Error("TypeMismatch")

\* keeps_row.
KeepsRow(f, schema, row) ==
  IF f = NoFilter THEN Bool(TRUE) ELSE Truth(EvalIn(f, schema, row))

-----------------------------------------------------------------------------
(* Properties of one expression over the given rows of a schema.           *)

\* What check_type accepts cannot go wrong because of types, whatever the
\* rows hold: on every row it has a value of the type it was given, or NULL,
\* or an error that depends on the data.
TypeIsSound(e, schema, rows) ==
  LET t == CheckType(e, schema)
  IN  t \in Types => \A row \in rows :
        LET v == EvalIn(e, schema, row) IN Fits(v, t) \/ v.t \in DataErrors

\* A WHERE clause, its negation and "it IS NULL" split every table in three:
\* each row is kept by exactly one of them, or is an error to all of them.
SplitsInThree(f, schema, rows) ==
  CheckFilter(f, schema) = "ok" => \A row \in rows :
    LET verdicts == <<KeepsRow(f, schema, row),
                      KeepsRow(UnaryExpr("NOT", f), schema, row),
                      KeepsRow(IsNull(f, FALSE), schema, row)>>
    IN  \/ \E i \in 1 .. 3 : \A j \in 1 .. 3 : verdicts[j] = Bool(i = j)
        \/ /\ verdicts[1].t \in DataErrors
           /\ verdicts[1] = verdicts[2] /\ verdicts[2] = verdicts[3]
=============================================================================
