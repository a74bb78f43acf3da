----------------------------- MODULE Sentences ------------------------------
(***************************************************************************)
(* The expressions of Expressions in every place of every statement, and   *)
(* what rendering, parsing and CREATE TABLE promise of them.               *)
(***************************************************************************)
EXTENDS Ddl, Expressions

CONSTANTS
  Name, Other,   \* two identifiers
  Number,        \* an integer literal
  Foreign        \* tokens put where they may not belong, one of each class

\* All of it can be written.
ASSUME SentencesAssumption ==
  /\ Name \in Names /\ Other \in Names /\ Number \in Numerals
  /\ Roots \subseteq WrittenLeaves /\ Partners \subseteq WrittenLeaves

-----------------------------------------------------------------------------
(* Statements.                                                             *)

\* With the expression in every place for one.
Around(e) ==
  {Insert(Name, columns, rows) :
     columns \in {None, Some(<<Name>>), Some(<<Name, Other>>)},
     rows \in {<<<<e>>>>, <<<<Col(Name), e>>, <<e>>>>}}
   \cup {Select(projection, Name, Some(e), order, limit) :
           projection \in {AllColumns, <<Name, Other>>},
           order \in {None} \cup {Some(OrderBy(Other, desc)) : desc \in BOOLEAN},
           limit \in {None, Some(Number)}}
   \cup {Update(Name, assignments, filter) :
           assignments \in {<<Assign(Name, e)>>, <<Assign(Name, Col(Other)), Assign(Other, e)>>},
           filter \in {None, Some(e)}}
   \cup {Delete(Other, filter) : filter \in {None, Some(e)}}

Columns(name, type) == {ColumnSpec(name, type, pk, nn) : pk \in BOOLEAN, nn \in BOOLEAN}

\* Tables, some with a column name or a primary key too many, or with no key.
Creations ==
  {CreateTable(Name, <<c>>) : c \in UNION {Columns(Name, type) : type \in ColumnTypeWords}}
   \cup {CreateTable(Name, <<c, d>>) : c \in Columns(Name, "INTEGER"),
                                     d \in Columns(Other, "TEXT") \cup Columns(Name, "TEXT")}

\* With no expression.
Plain ==
  {Transaction(word) : word \in {"BEGIN", "COMMIT", "ROLLBACK"}}
   \cup {Select(AllColumns, Name, None, None, limit) : limit \in {None, Some(Number)}}
   \cup Creations

\* Parsing a rendered statement gives the statement back (ast.rs, the module documentation):
\* RoundTrips for every statement around the smaller expressions, and for the larger ones in one
\* place.  So does creating a table anew from what .schema prints of it (cli describe):
\* CreatesItself.
RenderedTextsParseBack ==
  /\ RoundTrips(Delete(Other, Some(expr)))
  /\ depth < 2 => \A s \in Around(expr) : RoundTrips(s)
  /\ depth = 0 => /\ \A s \in Plain : RoundTrips(s)
                  /\ \A s \in Creations : CreatesItself(s)

\* Operators bind as the heading of parser.rs lists them: ParsesAsDocumented of every expression.
PrecedenceIsAsDocumented == ParsesAsDocumented(expr)

\* A rendered statement, also with a foreign token put into it.
PutAfter(ts, n, token) == SubSeq(ts, 1, n) \o <<token>> \o SubSeq(ts, n + 1, Len(ts))

Disturbed(ts) == {ts} \cup {PutAfter(ts, n, token) : n \in 0 .. Len(ts), token \in Foreign}

\* A text the parser rejects at a token stays rejected there whatever follows (parser.rs
\* unexpected): FinalIn for every prefix but those that end in LIMIT.
RejectionIsFinal ==
  depth = 0 /\ expr \in Partners => \A s \in Around(expr) \cup Plain :
    \A ts \in Disturbed(RenderStatement(s)) : FinalIn(ts, {n \in DOMAIN ts : ts[n] # "LIMIT"})

\* No beginning of a statement is rejected at a token, as ADR-003 promises: an error tells that
\* the input ended whenever more tokens could have helped.  FinalIn, LIMIT included (parser.rs
\* select).
InputEndIsReported ==
  \A s \in Around(expr) : LET ts == RenderStatement(s) IN FinalIn(ts, DOMAIN ts)
=============================================================================
