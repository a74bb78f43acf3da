--------------------------------- MODULE Ddl ---------------------------------
(***************************************************************************)
(* CREATE TABLE from its text to the schema of the catalog, and back: what *)
(* create_table of crates/engine makes of a parsed statement, and what the *)
(* shell's .schema prints of the schema.                                   *)
(***************************************************************************)
EXTENDS Parser, FiniteSets

\* A schema, or why there is none.
Schema(name, columns, pk) == [ok |-> TRUE, table_name |-> name, columns |-> columns, primary_key |-> pk]
NoSchema(why)             == [ok |-> FALSE, why |-> why]

\* Schema::new.  Its other refusals need a schema without columns or with a
\* primary key that is not one of them or nullable, and create_table makes none.
SchemaNew(name, columns, pk) ==
  IF \E i, j \in DOMAIN columns : i < j /\ columns[i].name = columns[j].name
  THEN NoSchema("DuplicateColumnName")
  ELSE Schema(name, columns, pk)

\* What PRIMARY KEY and NOT NULL leave nullable.
ColumnDef(c, is_pk) == [name |-> c.name, ty |-> c.ty, nullable |-> ~c.not_null /\ ~is_pk]

\* create_table up to the catalog.
SchemaOf(s) ==
  LET pks == {i \in DOMAIN s.columns : s.columns[i].primary_key}
      pk  == CHOOSE i \in pks : TRUE
  IN  IF Cardinality(pks) # 1 THEN NoSchema("PrimaryKeyCount")
      ELSE SchemaNew(s.name, [i \in DOMAIN s.columns |-> ColumnDef(s.columns[i], i = pk)], pk)

\* describe.
DescribeColumn(c, is_pk) ==
  <<c.name, c.ty>> \o (IF is_pk THEN <<"PRIMARY", "KEY">>
                       ELSE IF ~c.nullable THEN <<"NOT", "NULL">> ELSE <<>>)

Describe(schema) ==
  LET columns == schema.columns
  IN  <<schema.table_name>>
        \o Paren(Joined([i \in DOMAIN columns |->
                           DescribeColumn(columns[i], i = schema.primary_key)]))

-----------------------------------------------------------------------------
\* What .schema prints of a table, after CREATE TABLE, creates that very table:
\* the parser's flags, create_table's rule for nullable columns and describe's
\* choice of words fit together.
CreatesItself(s) ==
  SchemaOf(s).ok =>
    LET again == Parse(<<"CREATE", "TABLE">> \o Describe(SchemaOf(s)))
    IN  again.ok /\ SchemaOf(again.node) = SchemaOf(s)
=============================================================================
