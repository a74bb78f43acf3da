----------------------------- MODULE MCSession ------------------------------
(* Session on the statements of RowStatements, for TLC.  Sessions are      *)
(* interchangeable; primary keys are not, since scans go through them in   *)
(* order.                                                                  *)
EXTENDS Session, Integers, TLC

CONSTANTS s1, s2, MaxInt, MaxHeight

S == INSTANCE RowStatements

SessionSymmetry == Permutations({s1, s2})

\* No guard, and none of the properties of this run, reads more than the type
\* of what the last call or transaction returned, of the history variables
\* acked and touched, or of the (empty) listings: states that differ only in
\* those are one.
SessionView == <<store, pc, tx, req, phase, dtx, refusal, auto, failed, erred, done, due>>

I(n)     == S!Val("integer", n)
MCPks    == {I(0), I(1)}
MCRows   == {<<pk, n>> : pk \in MCPks, n \in {I(0), I(1)}}
MCSchema == [columns |-> <<S!Column("id", "integer", FALSE), S!Column("n", "integer", FALSE)>>,
             pk |-> 1]
MCSchemas == {MCSchema}

OrAbsent(row) == IF row = S!NoRow THEN Absent ELSE row

Outcome(schema, stmt, r) ==
  [ok       |-> r.error = "ok",
   returned |-> r.returned,
   changes  |-> [i \in DOMAIN r.changes |-> [pk |-> r.changes[i].pk,
                                             from |-> OrAbsent(r.changes[i].from),
                                             to |-> OrAbsent(r.changes[i].to)]],
   scanned  |-> S!Scans(schema, stmt),
   looked   |-> IF S!Scans(schema, stmt) THEN {} ELSE S!LooksUp(schema, stmt, r)]

Num(n)      == S!Lit(I(n))
N           == S!Col("n")
Where(c, n) == S!BinaryExpr(S!Col(c), "=", Num(n))
Set(value)  == <<[column |-> "n", value |-> value]>>
OneMore     == Set(S!BinaryExpr(N, "+", Num(1)))
InsertKeys(ks) == S!Insert(S!AllColumns, [i \in DOMAIN ks |-> <<Num(ks[i]), Num(0)>>])

\* Statements that write what was there, that fail on the second of two rows
\* (duplicate key, overflow), that put NULL where it may not be, that scan, and
\* that read a row and leave it alone.
Bodies ==
  { InsertKeys(<<0>>), InsertKeys(<<1, 0>>),
    S!Update(OneMore, S!NoFilter), S!Update(Set(Num(0)), Where("id", 0)),
    S!Update(Set(S!Lit(S!Null)), Where("n", 1)), S!DeleteFrom(Where("id", 0)),
    S!Select(S!AllColumns, Where("id", 1), S!NoOrder, S!NoLimit) }

MCRowFits(schema, pk, row) == row[schema.pk] = pk /\ S!EncodeRow(schema, row) = "ok"

\* What the statements do to the tables there can be, evaluated once.
MCTables ==
  UNION {{t \in [D -> MCRows] : \A pk \in D : MCRowFits(MCSchema, pk, t[pk])} :
           D \in SUBSET MCPks}
MCOutcomes == [rows \in MCTables |-> [body \in Bodies |->
                 Outcome(MCSchema, body, S!Run(MCSchema, rows, body))]]

MCEffect(schema, rows, body) == MCOutcomes[rows][body]

MCStatements == {[table |-> t, body |-> body] : t \in Names, body \in Bodies}
=============================================================================
