---------------------------- MODULE Expressions -----------------------------
(***************************************************************************)
(* Expressions that grow by one operator at a time, and what eval.rs       *)
(* promises of each of them on the rows of a table.                        *)
(***************************************************************************)
EXTENDS Eval

CONSTANTS
  Roots,        \* the leaves that expressions grow from
  Partners,     \* the leaves an operator may bring along
  Depth,        \* bound: operators on the way from the root to a leaf
  ExprSchema,   \* the schema of the table
  ExprRows      \* rows it may hold

\* The negation of the deepest expression is an expression, too.
ASSUME ExpressionsAssumption ==
  /\ Roots \subseteq Leaves /\ Partners \subseteq Leaves
  /\ Depth \in Nat /\ Depth < MaxHeight
  /\ \A row \in ExprRows : RowOf(ExprSchema, row)

VARIABLES expr, depth

ExprInit == expr \in Roots /\ depth = 0

Grow ==
  /\ depth < Depth
  /\ depth' = depth + 1
  /\ \/ \E op \in UnaryOps : expr' = UnaryExpr(op, expr)
     \/ \E negated \in BOOLEAN : expr' = IsNull(expr, negated)
     \/ \E op \in BinaryOps, leaf \in Partners : expr' = BinaryExpr(expr, op, leaf)
     \/ \E op \in BinaryOps, leaf \in Partners : expr' = BinaryExpr(leaf, op, expr)

ExprSpec == ExprInit /\ [][Grow]_<<expr, depth>>

-----------------------------------------------------------------------------
\* What check_type accepts never fails because of types, whatever a row holds, and has the type
\* it was given (eval.rs check_type and eval): TypeIsSound of every expression.
TypesAreSound == TypeIsSound(expr, ExprSchema, ExprRows)

\* Three-valued logic loses no row: f, NOT f and f IS NULL as WHERE clauses split every table
\* (eval.rs keeps_row): SplitsInThree of every expression.
WhereSplitsInThree == SplitsInThree(expr, ExprSchema, ExprRows)
=============================================================================
