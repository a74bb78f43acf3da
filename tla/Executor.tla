------------------------------ MODULE Executor ------------------------------
(***************************************************************************)
(* Statements on one table, one after the other, each in a transaction of  *)
(* its own.  What sessions make of them side by side is the subject of     *)
(* Session.                                                                *)
(***************************************************************************)
EXTENDS RowStatements

CONSTANTS
  TableSchema,  \* the schema of the table
  Statements    \* the statements that may be executed

ASSUME ExecutorAssumption == TableSchema \in RowSchemas /\ Statements \subseteq RowStatement

VARIABLE table

EmptyTable == <<>>

-----------------------------------------------------------------------------
Init == table = EmptyTable

\* A statement that fails is dropped with its transaction.
Settled(result) == IF result.error = "ok" THEN result.rows ELSE table

\* execute_statement outside a transaction.
Execute(stmt) == table' = Settled(Run(TableSchema, table, stmt))

Next == \E stmt \in Statements : Execute(stmt)

Spec == Init /\ [][Next]_table

-----------------------------------------------------------------------------
(* Properties.                                                             *)

\* Every row in the table fits the schema, with a value in every NOT NULL
\* column, and lies under its own primary key: encode_row, row_key and the
\* checks of INSERT and UPDATE leave no gap.
RowsFitSchema ==
  \A pk \in DOMAIN table :
    /\ pk = table[pk][TableSchema.pk]
    /\ DOMAIN table[pk] = DOMAIN TableSchema.columns
    /\ \A i \in DOMAIN table[pk] :
         LET column == TableSchema.columns[i]
         IN  /\ Fits(table[pk][i], column.ty)
             /\ table[pk][i] = Null => column.nullable

Filters == {stmt.f : stmt \in {s \in Statements : s.k # "insert"}}

\* The rows of a full scan, checked like those of the chosen path.
ScannedRows(f) ==
  LET checked == CheckFilter(f, TableSchema)
  IN  IF checked # "ok" THEN [error |-> checked, rows |-> <<>>]
      ELSE Keep(table, TableSchema, f)

\* The point lookup only skips work: where a full scan would succeed it finds
\* the same rows, and where it fails a full scan would fail as well.
LookupSkipsWork ==
  \A f \in Filters :
    LET chosen  == MatchingRows(table, TableSchema, f)
        scanned == ScannedRows(f)
    IN  /\ scanned.error = "ok" => chosen = scanned
        /\ chosen.error # "ok" => scanned.error # "ok"

\* ADR-004: "the optimization can only skip work, never change results".  It
\* does: a row the lookup does not visit cannot fail.
LookupNeverChangesResults ==
  \A f \in Filters : MatchingRows(table, TableSchema, f) = ScannedRows(f)

\* What depends on the rows: overflow, division by zero, and, as ADR-004 says,
\* NULL for a NOT NULL column.
DependsOnRows == DataErrors \cup {"UnexpectedNull"}

\* The verdicts a statement may meet on some rows when this is the one it
\* meets on none.
Verdicts(onNone) == IF onNone = "ok" THEN {"ok"} \cup DependsOnRows ELSE {onNone}

\* Whether SELECT, UPDATE and DELETE are refused does not depend on the rows
\* otherwise: they fail on this table just as they fail on an empty one.
ErrorsIgnoreRows ==
  \A stmt \in {s \in Statements : s.k # "insert"} :
    Run(TableSchema, table, stmt).error \in Verdicts(Run(TableSchema, EmptyTable, stmt).error)

Held(pk) == IF pk \in DOMAIN table THEN table[pk] ELSE NoRow

ChangesOnce(result, changed) ==
  /\ Cardinality(changed) = Len(result.changes)
  /\ \A i \in DOMAIN result.changes : result.changes[i].from = Held(result.changes[i].pk)
  /\ Restrict(result.rows, DOMAIN result.rows \ changed) = Restrict(table, DOMAIN table \ changed)

ChangesOnlyOnce(result) ==
  ChangesOnce(result, {result.changes[i].pk : i \in DOMAIN result.changes})

\* A statement changes each row at most once, starting from what the table held
\* before it, and leaves the others alone, whether it succeeds or stops half
\* way: no UPDATE meets a row again that it has changed, and of two rows that one
\* INSERT gives the same key the second is refused.
RowsChangeOnce == \A stmt \in Statements : ChangesOnlyOnce(Run(TableSchema, table, stmt))

Agree(forth, back) == forth.error = "ok" => back = forth

Reordered(assignments, f) == [j \in DOMAIN assignments |-> assignments[f[j]]]

\* The assignments of an UPDATE happen at once: in any other order they leave
\* the same rows.
AssignmentsCommute ==
  \A stmt \in {s \in Statements : s.k = "update"} :
    \A f \in Bijection(DOMAIN stmt.assignments, DOMAIN stmt.assignments) :
      Agree(RunUpdate(TableSchema, table, stmt),
            RunUpdate(TableSchema, table, [stmt EXCEPT !.assignments = Reordered(@, f)]))

InOrder(rows, order) ==
  LET Value(n) == rows[n][Position(TableSchema, order.column)]
      Key(n)   == rows[n][TableSchema.pk].x
  IN  \A m, n \in DOMAIN rows : m < n =>
        IF Value(m) = Value(n) THEN Key(m) < Key(n)
        ELSE IF order.desc THEN Value(n) = Null \/ (Value(m) # Null /\ Value(n).x < Value(m).x)
        ELSE Value(m) = Null \/ (Value(n) # Null /\ Value(m).x < Value(n).x)

\* SELECT with an order: NULLs are smallest, both ways round, and rows that
\* compare equal stay in primary-key order.
SelectsAreOrdered ==
  \A stmt \in {s \in Statements : s.k = "select" /\ s.order # NoOrder} :
    InOrder(RunSelect(TableSchema, table, [stmt EXCEPT !.columns = AllColumns]).returned, stmt.order)
=============================================================================
