----------------------------- MODULE MCExecutor -----------------------------
(* Executor for TLC: statements on a table of at most two rows that reach  *)
(* every error, and filters of every shape the access path looks at.       *)
EXTENDS Executor

I(n)   == Lit(Val("integer", n))
Id == Col("id")
N  == Col("n")
B  == Col("b")
Eq(l, r)  == BinaryExpr(l, "=", r)
And(l, r) == BinaryExpr(l, "AND", r)
Set(column, value) == [column |-> column, value |-> value]

MCSchema == [columns |-> <<Column("id", "integer", FALSE), Column("n", "integer", TRUE),
                           Column("b", "boolean", FALSE)>>,
             pk |-> 1]

DivisionOfN == Eq(BinaryExpr(I(1), "/", N), I(1))

MCFilters ==
  { NoFilter, Eq(Id, I(0)), Eq(I(1), Id), Eq(N, Id), Eq(Id, Id), N, B, Eq(Id, B), Lit(Null),
    Eq(Id, Lit(Null)), Eq(Id, BinaryExpr(I(1), "/", I(0))), Eq(Id, BinaryExpr(I(1), "+", I(1))),
    Eq(Id, UnaryExpr("neg", I(1))), Eq(Id, Lit(Val("text", 0))), Eq(Id, Col("nowhere")),
    And(Eq(Id, I(0)), Eq(Id, I(1))), And(Eq(Id, I(1)), DivisionOfN),
    And(DivisionOfN, Eq(I(0), Id)), And(B, And(Eq(N, I(1)), Eq(Id, I(0)))),
    And(Eq(UnaryExpr("neg", N), I(0)), DivisionOfN),
    BinaryExpr(Eq(Id, I(0)), "OR", B), UnaryExpr("NOT", Eq(Id, I(0))), IsNull(N, FALSE) }

MCAssignments ==
  { <<Set("n", BinaryExpr(N, "+", I(1)))>>, <<Set("n", Lit(Null))>>, <<Set("b", Lit(Null))>>,
    <<Set("b", Eq(N, I(0)))>>, <<Set("id", I(1))>>, <<Set("n", I(0)), Set("n", I(1))>>,
    <<Set("n", B)>>, <<Set("nowhere", I(0))>>,
    <<Set("n", BinaryExpr(N, "-", Id)), Set("b", IsNull(N, FALSE))>>,
    <<Set("n", BinaryExpr(I(1), "/", N)), Set("b", BinaryExpr(N, "<", I(0)))>> }

Booleans == {Lit(Bool(TRUE)), Lit(Bool(FALSE)), Lit(Null)}
Numbers  == {I(-1), I(0), I(1), Lit(Null)}

MCInserts ==
  { Insert(AllColumns, <<<<k, n, b>>>>) : k \in Numbers, n \in Numbers \cup {Lit(Bool(TRUE))},
                                          b \in Booleans }
    \cup { Insert(AllColumns, <<<<j, n, Lit(Bool(TRUE))>>, <<k, I(0), Lit(Bool(FALSE))>>>>) :
             j \in Numbers, k \in Numbers, n \in {I(1), Lit(Null)} }
    \cup { Insert(columns, <<row>>) :
             columns \in {<<"b", "id">>, <<"n", "id">>, <<"id", "id">>, <<"id", "nowhere">>},
             row \in {<<Lit(Bool(TRUE)), I(1)>>, <<I(0), I(0)>>, <<I(1)>>} }

MCSelects ==
  { Select(AllColumns, f, NoOrder, NoLimit) : f \in MCFilters }
    \cup { Select(columns, f, order, limit) :
             columns \in {AllColumns, <<"n", "n">>, <<"id", "nowhere">>},
             f \in {NoFilter, B, DivisionOfN},
             order \in {[column |-> c, desc |-> d] : c \in {"n", "b", "nowhere"}, d \in BOOLEAN},
             limit \in {NoLimit, 0, 1} }

MCStatements ==
  MCInserts \cup MCSelects
    \cup {Update(a, f) : a \in MCAssignments, f \in MCFilters}
    \cup {DeleteFrom(f) : f \in MCFilters}
=============================================================================
