-------------------------------- MODULE Ast ---------------------------------
(***************************************************************************)
(* Expressions: the Expr of crates/sql/src/ast.rs.  An operator is written *)
(* as in SQL, apart from the unary minus.                                  *)
(***************************************************************************)
EXTENDS TypedValues, Naturals

CONSTANTS MaxHeight   \* bound: operators on the way from the root of an expression to a leaf

ASSUME HeightAssumption == MaxHeight \in Nat

ArithmeticOps == {"+", "-", "*", "/"}
LogicOps      == {"AND", "OR"}
ComparisonOps == {"=", "<>", "<", "<=", ">", ">="}
BinaryOps     == ArithmeticOps \cup LogicOps \cup ComparisonOps
UnaryOps      == {"neg", "NOT"}

Lit(v)              == [k |-> "lit", v |-> v]
Col(name)           == [k |-> "col", name |-> name]
IsNull(e, negated)  == [k |-> "isnull", e |-> e, negated |-> negated]
UnaryExpr(op, e)    == [k |-> "unary", op |-> op, e |-> e]
BinaryExpr(l, op, r) == [k |-> "binary", op |-> op, l |-> l, r |-> r]

\* One operator over the given expressions.
Over(exprs) ==
  [k : {"isnull"}, e : exprs, negated : BOOLEAN]
    \cup [k : {"unary"}, op : UnaryOps, e : exprs]
    \cup [k : {"binary"}, l : exprs, op : BinaryOps, r : exprs]

\* Expr over the given leaves, with at most n operators from root to leaf.
Trees(leaves) ==
  LET nested[n \in 0 .. MaxHeight] == IF n = 0 THEN leaves ELSE leaves \cup Over(nested[n - 1])
  IN  nested
=============================================================================
