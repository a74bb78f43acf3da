--------------------------- MODULE RowStatements ----------------------------
(***************************************************************************)
(* The statements of crates/engine/src/lib.rs on the rows of one table, as *)
(* one transaction sees them: INSERT, SELECT, UPDATE, DELETE, and the      *)
(* choice between a point lookup and a full scan.  A table is a function   *)
(* from primary keys to rows.                                              *)
(***************************************************************************)
EXTENDS Eval, FiniteSets, Functions

\* Names of columns in INSERT and SELECT: all of them, in order.
AllColumns == <<"*">>

Insert(columns, rows)      == [k |-> "insert", columns |-> columns, rows |-> rows]
Select(columns, f, order, limit) ==
  [k |-> "select", columns |-> columns, f |-> f, order |-> order, limit |-> limit]
Update(assignments, f)     == [k |-> "update", assignments |-> assignments, f |-> f]
DeleteFrom(f)              == [k |-> "delete", f |-> f]
NoOrder                    == [column |-> "", desc |-> FALSE]
NoLimit                    == -1

Wheres == Exprs \cup {NoFilter}

\* Statement of ast.rs, as far as it is about rows.
RowStatement ==
  [k : {"insert"}, columns : Seq(STRING), rows : Seq(Seq(Exprs))]
    \cup [k : {"select"}, columns : Seq(STRING), f : Wheres,
          order : [column : STRING, desc : BOOLEAN], limit : Nat \cup {NoLimit}]
    \cup [k : {"update"}, assignments : Seq([column : STRING, value : Exprs]), f : Wheres]
    \cup [k : {"delete"}, f : Wheres]

\* The first of some checks that fails.
FirstError(checks) ==
  LET failed == {i \in DOMAIN checks : checks[i] # "ok"}
  IN  IF failed = {} THEN "ok" ELSE checks[CHOOSE i \in failed : \A j \in failed : i <= j]

Outcome(v) == IF IsValue(v) THEN "ok" ELSE v.t

ColumnNames(schema, columns) ==
  IF columns = AllColumns THEN [i \in DOMAIN schema.columns |-> schema.columns[i].name]
  ELSE columns

Known(schema, name) == IF Position(schema, name) = 0 THEN "UnknownColumn" ELSE "ok"

-----------------------------------------------------------------------------
(* The transaction's calls on the table.                                   *)

PkType(schema)    == schema.columns[schema.pk].ty
KeyCheck(schema, pk) == IF pk.t = PkType(schema) THEN "ok" ELSE "RowTypeMismatch"

\* RelTransaction::scan, in primary-key order.
ScanOrder(keys) ==
  CHOOSE s \in [1 .. Cardinality(keys) -> keys] : \A i, j \in DOMAIN s : i < j => s[i].x < s[j].x

ScanRows(rows) ==
  LET keys == ScanOrder(DOMAIN rows) IN [i \in DOMAIN keys |-> rows[keys[i]]]

\* Mutant of EncodeRow: NULL is stored in every column.
EncodeRowNullable(schema, row) ==
  FirstError([i \in DOMAIN row |->
    IF row[i] = Null \/ row[i].t = schema.columns[i].ty THEN "ok" ELSE "RowTypeMismatch"])

\* encode_row: what it refuses.
EncodeRow(schema, row) ==
  FirstError([i \in DOMAIN row |->
    IF row[i] = Null
    THEN IF schema.columns[i].nullable THEN "ok" ELSE "UnexpectedNull"
    ELSE IF row[i].t = schema.columns[i].ty THEN "ok" ELSE "RowTypeMismatch"])

\* RelTransaction::write.
WriteCheck(schema, row) ==
  FirstError(<<KeyCheck(schema, row[schema.pk]), EncodeRow(schema, row)>>)

\* What write and delete do: a row becomes another, NoRow when there was none
\* or is none any more.
Change(pk, from, to) == [pk |-> pk, from |-> from, to |-> to]

Changed(rows, c) ==
  [pk \in (DOMAIN rows \ {c.pk}) \cup (IF c.to = NoRow THEN {} ELSE {c.pk}) |->
     IF pk = c.pk THEN c.to ELSE rows[pk]]

-----------------------------------------------------------------------------
(* Access paths.                                                           *)

FullScan    == Null
\* The key that a constant on the other side of an equation is, if any.
KeyOf(schema, v) == IF v.t = PkType(schema) /\ v.t # "bytes" THEN v ELSE FullScan

PinsKey(schema, e) ==
  LET pk == Col(schema.columns[schema.pk].name)
  IN  IF pk \in {e.l, e.r} THEN KeyOf(schema, EvalConstant(IF e.l = pk THEN e.r ELSE e.l))
      ELSE FullScan

\* Mutant of Pinned: OR chains are searched too.
PinnedByEither(x, schema, path) ==
  IF x.k # "binary" THEN FullScan
  ELSE IF x.op \in LogicOps THEN IF path[x.l] # FullScan THEN path[x.l] ELSE path[x.r]
  ELSE IF x.op = "=" THEN PinsKey(schema, x)
  ELSE FullScan

\* access_path, given the paths of the operands: the key of a point lookup, or
\* FullScan.
Pinned(x, schema, path) ==
  IF x.k # "binary" THEN FullScan
  ELSE IF x.op = "AND" THEN IF path[x.l] # FullScan THEN path[x.l] ELSE path[x.r]
  ELSE IF x.op = "=" THEN PinsKey(schema, x)
  ELSE FullScan

AccessPath(schema, f) ==
  LET path[x \in Exprs] == Pinned(x, schema, path)
  IN  IF f = NoFilter THEN FullScan ELSE path[f]

\* candidate_rows, its check of the filter aside: the rows under some keys.
Candidates(rows, schema, f) ==
  LET pk == AccessPath(schema, f)
  IN  IF pk = FullScan THEN rows ELSE Restrict(rows, DOMAIN rows \cap {pk})

\* The rows found, unless there was an error.
Found(error, rows) == [error |-> error, rows |-> IF error # "ok" THEN <<>> ELSE rows]

\* The rows among candidates that f keeps, or the first error.
Keep(candidates, schema, f) ==
  LET scanned == ScanRows(candidates)
      error   == FirstError([i \in DOMAIN scanned |-> Outcome(KeepsRow(f, schema, scanned[i]))])
      kept    == {pk \in DOMAIN candidates : KeepsRow(f, schema, candidates[pk]) = Bool(TRUE)}
  IN  Found(error, ScanRows(Restrict(candidates, kept)))

\* matching_rows.
MatchingRows(rows, schema, f) ==
  LET checked == CheckFilter(f, schema)
  IN  IF checked # "ok" THEN [error |-> checked, rows |-> <<>>]
      ELSE Keep(Candidates(rows, schema, f), schema, f)

-----------------------------------------------------------------------------
(* The statements.  Each returns the rows of the table as it leaves them,  *)
(* half way if it fails, the rows it returns, the changes it made, which   *)
(* rows_affected is the number of, and an error or "ok".                   *)

Result(error, rows, returned) ==
  [error |-> error, rows |-> rows, returned |-> returned, changes |-> <<>>]

\* The columns an INSERT or an UPDATE names, in the order it names them.
TargetsCheck(schema, names) ==
  FirstError([i \in DOMAIN names |->
    IF Position(schema, names[i]) = 0 THEN "UnknownColumn"
    ELSE IF \E j \in 1 .. i - 1 : names[j] = names[i] THEN "DuplicateColumn"
    ELSE "ok"])

\* One row of an INSERT: the columns not named are NULL.
InsertedRow(schema, names, exprs) ==
  [i \in DOMAIN schema.columns |->
     LET hits == {j \in DOMAIN names : names[j] = schema.columns[i].name}
     IN  IF hits = {} THEN Null ELSE EvalConstant(exprs[CHOOSE j \in hits : TRUE])]

InsertCheck(schema, names, exprs, rows) ==
  LET row == InsertedRow(schema, names, exprs)
      pk  == row[schema.pk]
  IN  IF Len(exprs) # Len(names) THEN "ValueCount"
      ELSE FirstError(
        [j \in DOMAIN exprs |-> Outcome(EvalConstant(exprs[j]))] \o
        << IF pk = Null THEN "NullPrimaryKey" ELSE "ok",
           KeyCheck(schema, pk),
           IF pk \in DOMAIN rows THEN "DuplicatePrimaryKey" ELSE "ok",
           WriteCheck(schema, row) >>)

\* What becomes of start in n steps.
InTurn(start, n, Step(_, _)) ==
  LET upTo[i \in 0 .. n] == IF i = 0 THEN start ELSE Step(upTo[i - 1], i) IN upTo[n]

\* One step of a statement that goes on until its first error.
Stepwise(result, check, change) ==
  IF result.error # "ok" THEN result
  ELSE IF check # "ok" THEN [result EXCEPT !.error = check]
  ELSE [result EXCEPT !.rows = Changed(@, change), !.changes = Append(@, change)]

Inserting(schema, row) == Change(row[schema.pk], NoRow, row)

\* Mutant of RunInsert: a row is checked against the table as it was before the
\* statement.
RunInsertOldRows(schema, rows, stmt) ==
  LET names == ColumnNames(schema, stmt.columns)
      InsertOne(result, i) ==
        Stepwise(result, InsertCheck(schema, names, stmt.rows[i], rows),
                 Inserting(schema, InsertedRow(schema, names, stmt.rows[i])))
  IN  InTurn(Result(TargetsCheck(schema, names), rows, <<>>), Len(stmt.rows), InsertOne)

\* insert.
RunInsert(schema, rows, stmt) ==
  LET names == ColumnNames(schema, stmt.columns)
      InsertOne(result, i) ==
        Stepwise(result, InsertCheck(schema, names, stmt.rows[i], result.rows),
                 Inserting(schema, InsertedRow(schema, names, stmt.rows[i])))
  IN  InTurn(Result(TargetsCheck(schema, names), rows, <<>>), Len(stmt.rows), InsertOne)

\* The order of two values of a column: NULLs first.
Before(v, w) == IF v = Null THEN w # Null ELSE w # Null /\ v.x < w.x

\* Mutant of Precedes: DESC puts NULLs first as well.
PrecedesNullsFirst(schema, order, r, s) ==
  LET i == Position(schema, order.column)
  IN  IF order = NoOrder THEN FALSE
      ELSE IF Null \in {r[i], s[i]} THEN Before(r[i], s[i])
      ELSE IF order.desc THEN Before(s[i], r[i]) ELSE Before(r[i], s[i])

\* r comes before s whatever the order they were found in.
Precedes(schema, order, r, s) ==
  LET i == Position(schema, order.column)
  IN  IF order = NoOrder THEN FALSE
      ELSE IF order.desc THEN Before(s[i], r[i]) ELSE Before(r[i], s[i])

\* The stable sort: the place of a row is the number of rows before it.
StableSort(schema, order, rows) ==
  LET Place(i) == 1 + Cardinality({j \in DOMAIN rows :
                    \/ Precedes(schema, order, rows[j], rows[i])
                    \/ j < i /\ ~Precedes(schema, order, rows[i], rows[j])})
  IN  [n \in DOMAIN rows |-> rows[CHOOSE i \in DOMAIN rows : Place(i) = n]]

Truncated(limit, rows) ==
  IF limit = NoLimit \/ Len(rows) <= limit THEN rows ELSE SubSeq(rows, 1, limit)

\* The named columns of some rows.
Projected(schema, names, rows) ==
  [i \in DOMAIN rows |-> [j \in DOMAIN names |-> rows[i][Position(schema, names[j])]]]

\* select.
RunSelect(schema, rows, stmt) ==
  LET names   == ColumnNames(schema, stmt.columns)
      matched == MatchingRows(rows, schema, stmt.f)
      error   == FirstError(
        [i \in DOMAIN names |-> Known(schema, names[i])] \o
        << IF stmt.order = NoOrder THEN "ok" ELSE Known(schema, stmt.order.column),
           matched.error >>)
      found   == Truncated(stmt.limit, StableSort(schema, stmt.order, matched.rows))
  IN  Result(error, rows, IF error # "ok" THEN <<>> ELSE Projected(schema, names, found))

AssignmentCheck(schema, a) ==
  LET column == schema.columns[Position(schema, a.column)]
      t      == CheckType(a.value, schema)
  IN  IF t \notin Types THEN t ELSE IF Is(t, column.ty) THEN "ok" ELSE "TypeMismatch"

\* The assignments of an UPDATE, checked one by one before any row is read.
UpdateCheck(schema, assignments) ==
  LET names == [i \in DOMAIN assignments |-> assignments[i].column]
  IN  FirstError([i \in DOMAIN assignments |->
        IF Position(schema, names[i]) = 0 THEN "UnknownColumn"
        ELSE IF Position(schema, names[i]) = schema.pk THEN "UpdatePrimaryKey"
        ELSE IF \E j \in 1 .. i - 1 : names[j] = names[i] THEN "DuplicateColumn"
        ELSE AssignmentCheck(schema, assignments[i])])

\* Mutant of UpdatedRow: an assignment sees the ones before it.
UpdatedInPlace(schema, assignments, old) ==
  LET Assign(row, j) == [row EXCEPT ![Position(schema, assignments[j].column)] =
                                      EvalIn(assignments[j].value, schema, row)]
  IN  InTurn(old, Len(assignments), Assign)

\* A row after UPDATE: every expression sees the old row.
UpdatedRow(schema, assignments, old) ==
  LET Assign(row, j) == [row EXCEPT ![Position(schema, assignments[j].column)] =
                                      EvalIn(assignments[j].value, schema, old)]
  IN  InTurn(old, Len(assignments), Assign)

UpdatedCheck(schema, assignments, old, row) ==
  FirstError([j \in DOMAIN assignments |-> Outcome(EvalIn(assignments[j].value, schema, old))]
             \o <<WriteCheck(schema, row)>>)

\* The turn of one of the rows that UPDATE has found, and DELETE.
UpdateRow(schema, assignments, result, old) ==
  LET row == UpdatedRow(schema, assignments, old)
  IN  Stepwise(result, UpdatedCheck(schema, assignments, old, row), Change(old[schema.pk], old, row))

DeleteRow(schema, result, old) == Stepwise(result, "ok", Change(old[schema.pk], old, NoRow))

\* update.
RunUpdate(schema, rows, stmt) ==
  LET checked == UpdateCheck(schema, stmt.assignments)
      matched == MatchingRows(rows, schema, stmt.f)
      UpdateOne(result, i) == UpdateRow(schema, stmt.assignments, result, matched.rows[i])
  IN  InTurn(Result(FirstError(<<checked, matched.error>>), rows, <<>>),
             Len(matched.rows), UpdateOne)

\* The Delete case of run.
RunDelete(schema, rows, stmt) ==
  LET matched == MatchingRows(rows, schema, stmt.f)
      DeleteOne(result, i) == DeleteRow(schema, result, matched.rows[i])
  IN  InTurn(Result(matched.error, rows, <<>>), Len(matched.rows), DeleteOne)

\* run.
Run(schema, rows, stmt) ==
  CASE stmt.k = "insert" -> RunInsert(schema, rows, stmt)
    [] stmt.k = "select" -> RunSelect(schema, rows, stmt)
    [] stmt.k = "update" -> RunUpdate(schema, rows, stmt)
    [] stmt.k = "delete" -> RunDelete(schema, rows, stmt)

\* What a statement has read, apart from the rows it inserts: the whole table,
\* or the row of one key.
Scans(schema, stmt)  == stmt.k # "insert" /\ AccessPath(schema, stmt.f) = FullScan
LooksUp(schema, stmt, result) ==
  IF stmt.k = "insert" THEN {result.changes[i].pk : i \in DOMAIN result.changes}
  ELSE {AccessPath(schema, stmt.f)}
=============================================================================
