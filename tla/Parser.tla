------------------------------- MODULE Parser -------------------------------
(***************************************************************************)
(* crates/sql/src/parser.rs on tokens, and the Display of ast.rs that      *)
(* turns a statement back into tokens.  A token is a string; words are in  *)
(* upper case, and spelling keywords in any case is left out.              *)
(*                                                                         *)
(* A parse returns where it stopped and what it built, or where it failed: *)
(* past the last token for UnexpectedEnd, at a token for Unexpected.       *)
(***************************************************************************)
EXTENDS Ast, Sequences

CONSTANTS
  Names,      \* identifiers
  Numerals,   \* integer literals
  Texts,      \* string literals
  ValueOf     \* what either stands for

Keywords ==
  {"SELECT", "FROM", "WHERE", "INSERT", "INTO", "VALUES", "UPDATE", "SET", "DELETE", "CREATE",
   "TABLE", "PRIMARY", "KEY", "NOT", "NULL", "AND", "OR", "IS", "ORDER", "BY", "ASC", "DESC",
   "LIMIT", "BEGIN", "COMMIT", "ROLLBACK", "TRUE", "FALSE", "INTEGER", "TEXT", "BYTES", "BOOLEAN"}

ColumnTypeWords == {"INTEGER", "TEXT", "BYTES", "BOOLEAN"}
Symbols         == {"(", ")", ",", ";"} \cup ArithmeticOps \cup ComparisonOps

\* The end of the tokens is no token.
End == "end of input"

\* Identifiers are words that are not keywords; literals are neither, and
\* different tokens stand for different values.
ASSUME TokenAssumption ==
  /\ Names \cap (Keywords \cup Symbols \cup {End}) = {}
  /\ Numerals \cap (Names \cup Keywords \cup Symbols \cup {End}) = {}
  /\ Texts \cap (Numerals \cup Names \cup Keywords \cup Symbols \cup {End}) = {}
  /\ \A t \in Numerals \cup Texts :
       /\ ValueOf[t].t = IF t \in Numerals THEN "integer" ELSE "text"
       /\ \A u \in Numerals \cup Texts : ValueOf[t] = ValueOf[u] => t = u

Tokens == Names \cup Numerals \cup Texts \cup Keywords \cup Symbols

\* Statement.  None stands for an absent filter, order, limit or column list.
None == [k |-> "none"]
CreateTable(name, columns)     == [k |-> "create", name |-> name, columns |-> columns]
ColumnSpec(name, ty, pk, nn)   == [name |-> name, ty |-> ty, primary_key |-> pk, not_null |-> nn]
Insert(table, columns, rows)   == [k |-> "insert", table |-> table, columns |-> columns, rows |-> rows]
Select(projection, table, filter, order, limit) ==
  [k |-> "select", projection |-> projection, table |-> table, filter |-> filter,
   order |-> order, limit |-> limit]
Update(table, assignments, filter) ==
  [k |-> "update", table |-> table, assignments |-> assignments, filter |-> filter]
Delete(table, filter)          == [k |-> "delete", table |-> table, filter |-> filter]
Transaction(word)              == [k |-> "transaction", word |-> word]
AllColumns                     == <<"*">>
Some(x)                        == [k |-> "some", it |-> x]
OrderBy(column, desc)          == [column |-> column, descending |-> desc]
Assign(column, value)          == [column |-> column, value |-> value]

-----------------------------------------------------------------------------
(* Parsing expressions.                                                    *)

At(ts, p) == IF p <= Len(ts) THEN ts[p] ELSE End

Positions(ts) == 1 .. Len(ts) + 1

Parsed(p, node) == [ok |-> TRUE, at |-> p, node |-> node]
Failed(p)       == [ok |-> FALSE, at |-> p, node |-> None]

\* ?: what comes next happens only if this part of the parse succeeded.
r && next == IF r.ok THEN next ELSE r

\* A successful parse with its node made into another.
Made(r, Node(_)) == r && Parsed(r.at, Node(r.node))

\* Mutant of Expect: the position steps back before the error is reported.
ExpectStepsBack(ts, p, token) ==
  IF At(ts, p) = token THEN Parsed(p + 1, None)
  ELSE IF At(ts, p) = End THEN Failed(p - 1) ELSE Failed(p)

\* expect and expect_keyword; ident.
Expect(ts, p, token) == IF At(ts, p) = token THEN Parsed(p + 1, None) ELSE Failed(p)

Ident(ts, p) == IF At(ts, p) \in Names THEN Parsed(p + 1, At(ts, p)) ELSE Failed(p)

\* The literals are one token.
LiteralWords  == [NULL |-> Null, TRUE |-> Bool(TRUE), FALSE |-> Bool(FALSE)]
LiteralTokens == Numerals \cup Texts \cup DOMAIN LiteralWords

Meaning(token) == IF token \in DOMAIN LiteralWords THEN LiteralWords[token] ELSE ValueOf[token]

(* The levels of precedence, tightest first: primary, unary_expr, mul_expr, *)
(* add_expr, cmp_expr, not_expr, and_expr, or_expr.  What the parser finds  *)
(* at later positions is given by the function later: an expression,        *)
(* the operand of a prefix operator, or the operators and right operands    *)
(* with which the loop of a level goes on.                                  *)

\* What stands before a closing parenthesis.
Enclosed(ts, inner) ==
  LET close == Expect(ts, inner.at, ")")
  IN  inner && close && Parsed(close.at, inner.node)

PrimaryExpr(ts, p, later) ==
  LET token == At(ts, p)
  IN  IF token = "(" THEN Enclosed(ts, later[<<p + 1, "expr">>])
      ELSE IF token \in Names THEN Parsed(p + 1, Col(token))
      ELSE IF token \in LiteralTokens THEN Parsed(p + 1, Lit(Meaning(token)))
      ELSE Failed(p)

NegExpr(ts, p, later) ==
  LET operand == later[<<p + 1, "neg">>]
  IN  IF At(ts, p) = "-" THEN operand && Parsed(operand.at, UnaryExpr("neg", operand.node))
      ELSE PrimaryExpr(ts, p, later)

\* The loops: operators of one level group to the left.  What a turn adds is
\* an expression that lacks its left operand.
Attach(left, x) == IF x.k = "isnull" THEN [x EXCEPT !.e = left] ELSE [x EXCEPT !.l = left]

Grouped(left, turns) ==
  LET upTo[i \in 0 .. Len(turns)] == IF i = 0 THEN left ELSE Attach(upTo[i - 1], turns[i])
  IN  upTo[Len(turns)]

Loop(left, level, later) ==
  LET turns == later[<<left.at, level>>]
  IN  left && turns && Parsed(turns.at, Grouped(left.node, turns.node))

\* Mutant of InfixOps: comparisons bind as additions do.
InfixOpsMixed == [or |-> {"OR"}, and |-> {"AND"}, cmp |-> {"="},
                  add |-> {"+", "-"} \cup ComparisonOps, mul |-> {"*", "/"}]

InfixOps == [or |-> {"OR"}, and |-> {"AND"}, cmp |-> ComparisonOps,
             add |-> {"+", "-"}, mul |-> {"*", "/"}]

MulExpr(ts, p, later) == Loop(NegExpr(ts, p, later), "mul", later)
AddExpr(ts, p, later) == Loop(MulExpr(ts, p, later), "add", later)
CmpExpr(ts, p, later) == Loop(AddExpr(ts, p, later), "cmp", later)

NotExpr(ts, p, later) ==
  LET operand == later[<<p + 1, "not">>]
  IN  IF At(ts, p) = "NOT" THEN operand && Parsed(operand.at, UnaryExpr("NOT", operand.node))
      ELSE CmpExpr(ts, p, later)

AndExpr(ts, p, later) == Loop(NotExpr(ts, p, later), "and", later)
OrExpr(ts, p, later)  == Loop(AndExpr(ts, p, later), "or", later)

\* The operands of a level are expressions of the next.
RightExpr(ts, p, level, later) ==
  CASE level = "mul" -> NegExpr(ts, p, later)
    [] level = "add" -> MulExpr(ts, p, later)
    [] level = "cmp" -> AddExpr(ts, p, later)
    [] level = "and" -> NotExpr(ts, p, later)
    [] level = "or"  -> AndExpr(ts, p, later)

\* One turn of a loop, and those after it.
Before(x, turns) == turns && Parsed(turns.at, <<x>> \o turns.node)

\* ... for an operator with its right operand.
TurnTo(token, right, level, later) ==
  right && Before(BinaryExpr(None, token, right.node), later[<<right.at, level>>])

TurnsFrom(ts, p, level, later) ==
  LET token   == At(ts, p)
      negated == At(ts, p + 1) = "NOT"
      null    == Expect(ts, p + (IF negated THEN 2 ELSE 1), "NULL")
  IN  IF level = "cmp" /\ token = "IS"
      THEN null && Before(IsNull(None, negated), later[<<null.at, level>>])
      ELSE IF token \in InfixOps[level]
      THEN TurnTo(token, RightExpr(ts, p + 1, level, later), level, later)
      ELSE Parsed(p, <<>>)

\* What the parser looks for at a position.
Goals == {"expr", "neg", "not"} \cup DOMAIN InfixOps

Found(ts, p, goal, later) ==
  CASE goal = "expr" -> OrExpr(ts, p, later)
    [] goal = "neg"  -> NegExpr(ts, p, later)
    [] goal = "not"  -> NotExpr(ts, p, later)
    [] OTHER         -> TurnsFrom(ts, p, goal, later)

Parsing(ts) ==
  LET parse[x \in Positions(ts) \X Goals] == Found(ts, x[1], x[2], parse)
  IN  parse

\* expr.
FullExpr(ts, p) == Parsing(ts)[<<p, "expr">>]

-----------------------------------------------------------------------------
(* Parsing statements.                                                     *)

\* One or more of the items, given for every position, with commas between.
List(ts, p, items) ==
  LET from[q \in Positions(ts)] ==
        LET first == items[q]
            rest  == from[first.at + 1]
        IN  first && IF At(ts, first.at) = "," THEN Before(first.node, rest)
                     ELSE Parsed(first.at, <<first.node>>)
  IN  from[p]

NameList(ts, p) == List(ts, p, [q \in Positions(ts) |-> Ident(ts, q)])
ExprList(ts, p) == List(ts, p, [q \in Positions(ts) |-> FullExpr(ts, q)])

\* `column = expr` of an UPDATE.
ParseAssignment(ts, p) ==
  LET column == Ident(ts, p)
      eq     == Expect(ts, column.at, "=")
  IN  column && eq && Made(FullExpr(ts, eq.at), LAMBDA value : Assign(column.node, value))

\* PRIMARY KEY and NOT NULL, in any order and any number: which of them occur.
ParseFlags(ts, p) ==
  LET from[q \in Positions(ts)] ==
        LET token == At(ts, q)
            word  == Expect(ts, q + 1, IF token = "PRIMARY" THEN "KEY" ELSE "NULL")
            rest  == from[word.at]
        IN  IF token \in {"PRIMARY", "NOT"}
            THEN word && rest && Parsed(rest.at, {token} \cup rest.node)
            ELSE Parsed(q, {})
  IN  from[p]

ParseColumn(ts, p) ==
  LET name  == Ident(ts, p)
      type  == At(ts, name.at)
      flags == ParseFlags(ts, name.at + 1)
  IN  name && IF type \notin ColumnTypeWords THEN Failed(name.at)
              ELSE flags && Parsed(flags.at, ColumnSpec(name.node, type, "PRIMARY" \in flags.node,
                                                        "NOT" \in flags.node))

\* A row of an INSERT.
ParseRow(ts, p) ==
  LET open == Expect(ts, p, "(")
  IN  open && Enclosed(ts, ExprList(ts, open.at))

\* opt_where.
OptWhere(ts, p) == IF At(ts, p) = "WHERE" THEN Made(FullExpr(ts, p + 1), Some) ELSE Parsed(p, None)

\* create_table.
ParseCreate(ts, p) ==
  LET table   == Expect(ts, p, "TABLE")
      name    == Ident(ts, table.at)
      open    == Expect(ts, name.at, "(")
      columns == List(ts, open.at, [q \in Positions(ts) |-> ParseColumn(ts, q)])
      close   == Expect(ts, columns.at, ")")
  IN  table && name && open && columns && close
        && Parsed(close.at, CreateTable(name.node, columns.node))

\* insert.
OptNames(ts, p) ==
  LET names == NameList(ts, p + 1)
      close == Expect(ts, names.at, ")")
  IN  IF At(ts, p) = "(" THEN names && close && Parsed(close.at, Some(names.node))
      ELSE Parsed(p, None)

ParseInsert(ts, p) ==
  LET into    == Expect(ts, p, "INTO")
      table   == Ident(ts, into.at)
      columns == OptNames(ts, table.at)
      values  == Expect(ts, columns.at, "VALUES")
  IN  into && table && columns && values
        && Made(List(ts, values.at, [q \in Positions(ts) |-> ParseRow(ts, q)]),
                LAMBDA rows : Insert(table.node, columns.node, rows))

\* select, clause by clause.
Projection(ts, p) == IF At(ts, p) = "*" THEN Parsed(p + 1, AllColumns) ELSE NameList(ts, p)

\* Mutant of SkipDirection: ASC is not skipped.
SkipOnlyDesc(ts, p) == IF At(ts, p) = "DESC" THEN p + 1 ELSE p

SkipDirection(ts, p) == IF At(ts, p) \in {"ASC", "DESC"} THEN p + 1 ELSE p

OptOrder(ts, p) ==
  LET by     == Expect(ts, p + 1, "BY")
      column == Ident(ts, by.at)
  IN  IF At(ts, p) # "ORDER" THEN Parsed(p, None)
      ELSE by && column && Parsed(SkipDirection(ts, column.at),
                                  Some(OrderBy(column.node, At(ts, column.at) = "DESC")))

\* The position steps back before the error is reported, but at the end of the
\* input it had not stepped forward: the error is then at LIMIT itself.
OptLimit(ts, p) ==
  IF At(ts, p) # "LIMIT" THEN Parsed(p, None)
  ELSE IF At(ts, p + 1) \in Numerals THEN Parsed(p + 2, Some(At(ts, p + 1)))
  ELSE IF At(ts, p + 1) = End THEN Failed(p) ELSE Failed(p + 1)

\* ... from WHERE on.
SelectAfter(ts, columns, table, filter) ==
  LET order == OptOrder(ts, filter.at)
      limit == OptLimit(ts, order.at)
  IN  filter && order && limit
        && Parsed(limit.at, Select(columns, table, filter.node, order.node, limit.node))

ParseSelect(ts, p) ==
  LET columns == Projection(ts, p)
      from    == Expect(ts, columns.at, "FROM")
      table   == Ident(ts, from.at)
  IN  columns && from && table
        && SelectAfter(ts, columns.node, table.node, OptWhere(ts, table.at))

\* update; after its assignments.
UpdateAfter(ts, table, assignments) ==
  assignments && Made(OptWhere(ts, assignments.at),
                      LAMBDA filter : Update(table, assignments.node, filter))

ParseUpdate(ts, p) ==
  LET table == Ident(ts, p)
      set   == Expect(ts, table.at, "SET")
  IN  table && set
        && UpdateAfter(ts, table.node,
                       List(ts, set.at, [q \in Positions(ts) |-> ParseAssignment(ts, q)]))

\* The DELETE branch of statement.
ParseDelete(ts, p) ==
  LET from  == Expect(ts, p, "FROM")
      table == Ident(ts, from.at)
  IN  from && table && Made(OptWhere(ts, table.at), LAMBDA filter : Delete(table.node, filter))

\* statement.
ParseStatement(ts, p) ==
  LET word == At(ts, p)
  IN  CASE word = "CREATE" -> ParseCreate(ts, p + 1)
        [] word = "INSERT" -> ParseInsert(ts, p + 1)
        [] word = "SELECT" -> ParseSelect(ts, p + 1)
        [] word = "UPDATE" -> ParseUpdate(ts, p + 1)
        [] word = "DELETE" -> ParseDelete(ts, p + 1)
        [] word \in {"BEGIN", "COMMIT", "ROLLBACK"} -> Parsed(p + 1, Transaction(word))
        [] OTHER -> Failed(p)

\* parse_script: statements with semicolons between them, and spare ones.  After
\* a statement comes a semicolon or the end.
ScriptFrom(ts, statement, later) ==
  statement && IF At(ts, statement.at) \in {";", End}
               THEN Before(statement.node, later[statement.at])
               ELSE Failed(statement.at)

ParseScript(ts) ==
  LET from[p \in Positions(ts)] ==
        IF At(ts, p) = ";" THEN from[p + 1]
        ELSE IF At(ts, p) = End THEN Parsed(p, <<>>)
        ELSE ScriptFrom(ts, ParseStatement(ts, p), from)
  IN  from[1]

\* parse: exactly one statement.  Too many are reported at byte 0.
Single(ts, script) ==
  script && CASE Len(script.node) = 1 -> Parsed(script.at, script.node[1])
              [] Len(script.node) = 0 -> Failed(Len(ts) + 1)
              [] OTHER                -> Failed(1)

Parse(ts) == Single(ts, ParseScript(ts))

-----------------------------------------------------------------------------
(* Rendering: Display.                                                     *)

Joined(parts) ==
  LET from[i \in 1 .. Len(parts)] ==
        IF i = Len(parts) THEN parts[i] ELSE parts[i] \o <<",">> \o from[i + 1]
  IN  from[1]

Paren(ts) == <<"(">> \o ts \o <<")">>

\* The expressions that tokens can express.
WrittenLeaves == {Lit(Meaning(t)) : t \in LiteralTokens} \cup {Col(name) : name \in Names}
Written       == Trees(WrittenLeaves)[MaxHeight]

TokenOf(v) == CHOOSE t \in LiteralTokens : Meaning(t) = v

\* Its operands: the only one twice.
First(x)  == IF x.k = "binary" THEN x.l ELSE x.e
Second(x) == IF x.k = "binary" THEN x.r ELSE x.e

\* An expression, given the texts of its operands.
Spelled(x, first, second) ==
  CASE x.k = "lit"    -> <<TokenOf(x.v)>>
    [] x.k = "col"    -> <<x.name>>
    [] x.k = "unary"  -> <<IF x.op = "neg" THEN "-" ELSE "NOT">> \o first
    [] x.k = "binary" -> first \o <<x.op>> \o second
    [] x.k = "isnull" -> first \o (IF x.negated THEN <<"IS", "NOT", "NULL">> ELSE <<"IS", "NULL">>)

Render(e) ==
  LET text[x \in Written] ==
        LET bare == Spelled(x, text[First(x)], text[Second(x)])
        IN  IF x.k \in {"lit", "col"} THEN bare ELSE Paren(bare)
  IN  text[e]

Opt(option, word, Part(_)) == IF option = None THEN <<>> ELSE word \o Part(option.it)
OneToken(token) == <<token>>
Names1(names)   == Joined([i \in DOMAIN names |-> <<names[i]>>])

RenderColumn(c) ==
  <<c.name, c.ty>> \o (IF c.primary_key THEN <<"PRIMARY", "KEY">> ELSE <<>>)
                   \o (IF c.not_null THEN <<"NOT", "NULL">> ELSE <<>>)
RenderRow(row)   == Paren(Joined([i \in DOMAIN row |-> Render(row[i])]))
RenderAssign(a)  == <<a.column, "=">> \o Render(a.value)
RenderOrder(o)   == <<o.column, IF o.descending THEN "DESC" ELSE "ASC">>

RenderStatement(s) ==
  CASE s.k = "create" ->
         <<"CREATE", "TABLE", s.name>>
           \o Paren(Joined([i \in DOMAIN s.columns |-> RenderColumn(s.columns[i])]))
    [] s.k = "insert" ->
         <<"INSERT", "INTO", s.table>>
           \o Opt(s.columns, <<>>, LAMBDA names : Paren(Names1(names)))
           \o <<"VALUES">> \o Joined([i \in DOMAIN s.rows |-> RenderRow(s.rows[i])])
    [] s.k = "select" ->
         <<"SELECT">> \o Names1(s.projection) \o <<"FROM", s.table>>
           \o Opt(s.filter, <<"WHERE">>, Render)
           \o Opt(s.order, <<"ORDER", "BY">>, RenderOrder)
           \o Opt(s.limit, <<"LIMIT">>, OneToken)
    [] s.k = "update" ->
         <<"UPDATE", s.table, "SET">>
           \o Joined([i \in DOMAIN s.assignments |-> RenderAssign(s.assignments[i])])
           \o Opt(s.filter, <<"WHERE">>, Render)
    [] s.k = "delete" -> <<"DELETE", "FROM", s.table>> \o Opt(s.filter, <<"WHERE">>, Render)
    [] s.k = "transaction" -> <<s.word>>

-----------------------------------------------------------------------------
(* Properties.                                                             *)

\* The parse r fails at a token, not for want of more of them.
Rejected(ts, r) == ~r.ok /\ r.at <= Len(ts)

\* What q, the parse of a prefix, makes of r, that of all the tokens.
StaysRejected(prefix, q, ts, r) == Rejected(prefix, q) => Rejected(ts, r) /\ r.at = q.at

\* ADR-003: parse errors say what was found at which offset, "or that input
\* ended".  So what follows an offending token does not matter: a text once
\* rejected is rejected at the same token whatever is appended to it.
FinalIn(ts, prefixes) ==
  \A n \in prefixes :
    StaysRejected(SubSeq(ts, 1, n), ParseScript(SubSeq(ts, 1, n)), ts, ParseScript(ts))

\* What is rendered parses to the statement it was rendered from, alone and in
\* a script between two others.
RoundTrips(s) ==
  LET ts == RenderStatement(s)
  IN  /\ Parse(ts) = Parsed(Len(ts) + 1, s)
      /\ ParseScript(<<"BEGIN", ";">> \o ts \o <<";", ";", "COMMIT">>).node
           = <<Transaction("BEGIN"), s, Transaction("COMMIT")>>

\* The levels the module documentation lists, for a rendering with as few
\* parentheses as they allow.
Rank(e) ==
  CASE e.k \in {"lit", "col"}                     -> 8
    [] e.k = "unary" /\ e.op = "neg"              -> 7
    [] e.k = "binary" /\ e.op \in {"*", "/"}      -> 6
    [] e.k = "binary" /\ e.op \in {"+", "-"}      -> 5
    [] e.k = "isnull"                             -> 4
    [] e.k = "binary" /\ e.op \in ComparisonOps   -> 4
    [] e.k = "unary" /\ e.op = "NOT"              -> 3
    [] e.k = "binary" /\ e.op = "AND"             -> 2
    [] e.k = "binary" /\ e.op = "OR"              -> 1

\* The least rank of an operand without parentheses.
FirstRank(x)  == Rank(x)
SecondRank(x) == IF x.k = "binary" THEN Rank(x) + 1 ELSE Rank(x)

InPlace(x, rank, bare) == IF Rank(x) < rank THEN Paren(bare[x]) ELSE bare[x]

Sparse(e) ==
  LET bare[x \in Written] ==
        Spelled(x, InPlace(First(x), FirstRank(x), bare), InPlace(Second(x), SecondRank(x), bare))
  IN  bare[e]

\* Precedence and associativity are as documented: an expression written with
\* only the parentheses they make necessary parses to itself.
ParsesAsDocumented(e) ==
  LET ts == Sparse(e) IN FullExpr(ts, 1) = Parsed(Len(ts) + 1, e)
=============================================================================
