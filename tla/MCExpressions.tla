--------------------------- MODULE MCExpressions ----------------------------
(* Parser and Eval for TLC: the expressions of Expressions are put into    *)
(* every place of every statement, and checked on every row of a small     *)
(* table.                                                                  *)
EXTENDS Sentences

MCPartners ==
  {Lit(v) : v \in {Null, Val("integer", 0), Val("integer", MaxInt), Val("text", 1), Bool(TRUE)}}
   \cup {Col("n"), Col("b")}

MCRoots == MCPartners \cup {Lit(Bool(FALSE)), Col("nowhere")}

MCSchema == [columns |-> <<Column("id", "integer", FALSE), Column("n", "integer", TRUE),
                           Column("b", "boolean", TRUE)>>,
             pk |-> 1]

MCRows == {<<Val("integer", 1), n, b>> :
             n \in {Null, Val("integer", MinInt), Val("integer", 0), Val("integer", 1)},
             b \in {Null, Bool(TRUE), Bool(FALSE)}}

MCValueOf == [t \in Numerals \cup Texts |-> CASE t = "0" -> Val("integer", 0)
  [] t = "1" -> Val("integer", MaxInt) [] OTHER -> Val("text", 1)]
=============================================================================
