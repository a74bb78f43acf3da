---------------------------- MODULE ParserProofs ----------------------------
(***************************************************************************)
(* Parser, Expressions and Sentences, proved for every set of names and    *)
(* literals, for expressions of every height and lists of every length.    *)
(*                                                                         *)
(* Parsing(ts) is a table of what is found at each position, made from the *)
(* end of the text backwards: every result lies within the text and comes  *)
(* from what lies after it, so the table exists and is what it is defined  *)
(* to be.  On this rest three results.                                     *)
(*   - Precedence.  Writes(s, x, k): wherever the text s occurs, the       *)
(*     levels from 1 to k read it as x and go on behind it.  It holds of   *)
(*     every spelling of an expression, by induction on the expression.    *)
(*   - Rejection.  Meets(s, p, a, b): what the parser makes of a beginning *)
(*     is what it makes of the whole, or an error at the end of the        *)
(*     beginning.  It holds of every part of the grammar, but of LIMIT.    *)
(*   - Round trips.  Spans(ts, p, q, s): s is the part of ts from p to q.  *)
(*     Each part of a statement reads as what it was rendered from, if a   *)
(*     token follows that may.                                             *)
(***************************************************************************)
EXTENDS Sentences, EvalProofs, SequenceTheorems

-----------------------------------------------------------------------------
(* Where a parse of an expression ends.                                    *)

\* The goals of the parser, the infix levels among them.
LEMMA GoalsAre ==
  /\ DOMAIN InfixOps = {"or", "and", "cmp", "add", "mul"}
  /\ Goals = {"expr", "neg", "not", "or", "and", "cmp", "add", "mul"}
BY DEF Goals, InfixOps

\* A result is at a position, or after it if it is a success that has read something.
Within(ts, p, r) == r.ok \in BOOLEAN /\ r.at \in Nat /\ p <= r.at /\ r.at <= Len(ts) + 1
Ahead(ts, p, r)  == Within(ts, p, r) /\ (r.ok => p < r.at)

\* A success and a failure at a position of the text are within it.
LEMMA ParsedWithin ==
  ASSUME NEW ts, Len(ts) \in Nat, NEW p \in Nat, NEW q \in Nat, p <= q, q <= Len(ts) + 1, NEW x
  PROVE  /\ Within(ts, p, Parsed(q, x)) /\ Within(ts, p, Failed(q))
         /\ Ahead(ts, p, Failed(q)) /\ (p < q => Ahead(ts, p, Parsed(q, x)))
BY DEF Within, Ahead, Parsed, Failed

\* A token is at a position of the text.
LEMMA TokenWithin ==
  ASSUME NEW ts, Len(ts) \in Nat, NEW p \in Nat, At(ts, p) # End
  PROVE  p <= Len(ts) /\ At(ts, p) = ts[p]
BY DEF At

\* expect reads one token or nothing.
LEMMA ExpectWithin ==
  ASSUME NEW ts, Len(ts) \in Nat, NEW p \in Nat, p <= Len(ts) + 1, NEW token, token # End
  PROVE  Ahead(ts, p, Expect(ts, p, token))
<1>1. CASE At(ts, p) = token
  <2>1. p + 1 <= Len(ts) + 1 /\ p + 1 \in Nat /\ p < p + 1
    BY <1>1, TokenWithin
  <2> QED
    BY <1>1, <2>1, ParsedWithin DEF Expect
<1>2. CASE At(ts, p) # token
  BY <1>2, ParsedWithin DEF Expect
<1> QED
  BY <1>1, <1>2

\* Tokens are not the end.
LEMMA EndIsNoToken ==
  /\ End \notin Names /\ End \notin LiteralTokens /\ End \notin ColumnTypeWords /\ End \notin Numerals
  /\ \A level \in DOMAIN InfixOps : End \notin InfixOps[level]
<1>1. End \notin Names /\ End \notin Numerals /\ End \notin Texts
  BY TokenAssumption
<1>2. End \notin {"NULL", "TRUE", "FALSE"} /\ End \notin ColumnTypeWords /\ End \notin ComparisonOps
        /\ End \notin {"OR"} /\ End \notin {"AND"} /\ End \notin {"+", "-"} /\ End \notin {"*", "/"}
  BY DEF End, ColumnTypeWords, ComparisonOps
<1>3. DOMAIN LiteralWords = {"NULL", "TRUE", "FALSE"}
  BY DEF LiteralWords
<1>4. \A level \in DOMAIN InfixOps : InfixOps[level] \in {{"OR"}, {"AND"}, ComparisonOps, {"+", "-"}, {"*", "/"}}
  BY DEF InfixOps
<1> QED
  BY <1>1, <1>2, <1>3, <1>4 DEF LiteralTokens

\* So does an identifier.
LEMMA IdentWithin ==
  ASSUME NEW ts, Len(ts) \in Nat, NEW p \in Nat, p <= Len(ts) + 1
  PROVE  Ahead(ts, p, Ident(ts, p))
<1>1. CASE At(ts, p) \in Names
  <2>1. p + 1 <= Len(ts) + 1 /\ p + 1 \in Nat /\ p < p + 1
    BY <1>1, TokenWithin, EndIsNoToken
  <2> QED
    BY <1>1, <2>1, ParsedWithin DEF Ident
<1>2. CASE At(ts, p) \notin Names
  BY <1>2, ParsedWithin DEF Ident
<1> QED
  BY <1>1, <1>2

\* One part of a parse after another.
LEMMA NextAhead ==
  ASSUME NEW ts, NEW p, NEW r, NEW next, Within(ts, p, r), r.ok => Ahead(ts, p, next)
  PROVE  Ahead(ts, p, r && next)
BY DEF &&, Within, Ahead

\* What was found further on was found from here.
LEMMA WithinFurther ==
  ASSUME NEW ts, NEW p \in Nat, NEW q \in Nat, p <= q, NEW r
  PROVE  /\ Within(ts, q, r) => Within(ts, p, r)
         /\ Ahead(ts, q, r) => Ahead(ts, p, r)
         /\ p < q /\ Within(ts, q, r) => Ahead(ts, p, r)
BY DEF Within, Ahead

\* The same with a node built from what was found.
LEMMA BuiltAhead ==
  ASSUME NEW ts, NEW p \in Nat, NEW r, Len(ts) \in Nat, Ahead(ts, p, r), NEW x
  PROVE  Ahead(ts, p, r && Parsed(r.at, x))
BY DEF &&, Within, Ahead, Parsed

\* A result stays within the text when a node is built from it, or a turn put before it.
LEMMA BuiltWithin ==
  ASSUME NEW ts, NEW p \in Nat, NEW r, Len(ts) \in Nat, Within(ts, p, r), NEW x
  PROVE  Within(ts, p, r && Parsed(r.at, x)) /\ Within(ts, p, Before(x, r))
BY DEF &&, Within, Parsed, Before

\* What the parser may find for a goal at p: a result within the text, past p if
\* the goal is an expression, and a sequence of turns if it is not.
IsSequence(s) == \E S : s \in Seq(S)

Fine(ts, p, goal, r) ==
  /\ Within(ts, p, r)
  /\ goal \notin DOMAIN InfixOps => Ahead(ts, p, r)
  /\ goal \in DOMAIN InfixOps /\ r.ok => IsSequence(r.node)

\* What f and g say of the positions after p is that, and the same.
AgreeAfter(ts, p, f, g) ==
  \A q \in p + 1 .. Len(ts) + 1 : \A goal \in Goals :
    Fine(ts, q, goal, f[<<q, goal>>]) /\ g[<<q, goal>>] = f[<<q, goal>>]

\* Positions are those of the tokens and the one after them.
LEMMA PositionsAre ==
  ASSUME NEW ts, Len(ts) \in Nat, NEW p \in Positions(ts)
  PROVE  p \in Nat /\ 1 <= p /\ p <= Len(ts) + 1 /\ p + 1 \in Nat /\ p < p + 1
BY DEF Positions

\* What they say of a later position, seen from p.
LEMMA LaterAgrees ==
  ASSUME NEW ts, Len(ts) \in Nat, NEW p \in Positions(ts), NEW f, NEW g, AgreeAfter(ts, p, f, g),
         NEW q \in Nat, p < q, q <= Len(ts) + 1, NEW goal \in Goals
  PROVE  /\ g[<<q, goal>>] = f[<<q, goal>>]
         /\ Fine(ts, q, goal, f[<<q, goal>>])
         /\ Ahead(ts, p, f[<<q, goal>>])
<1>1. p \in Nat /\ q \in p + 1 .. Len(ts) + 1
  BY DEF Positions
<1>2. g[<<q, goal>>] = f[<<q, goal>>] /\ Fine(ts, q, goal, f[<<q, goal>>])
  BY <1>1 DEF AgreeAfter
<1>3. Within(ts, q, f[<<q, goal>>])
  BY <1>2 DEF Fine
<1>4. p <= q
  BY <1>1
<1>5. Ahead(ts, p, f[<<q, goal>>])
  BY <1>1, <1>3, <1>4, WithinFurther
<1> QED
  BY <1>2, <1>5

\* What follows a token.
LEMMA PrefixAhead ==
  ASSUME NEW ts, Len(ts) \in Nat, NEW p \in Positions(ts), NEW f, NEW g, AgreeAfter(ts, p, f, g),
         NEW goal \in Goals, At(ts, p) # End
  PROVE  /\ Ahead(ts, p, f[<<p + 1, goal>>]) /\ g[<<p + 1, goal>>] = f[<<p + 1, goal>>]
         /\ \A x : Ahead(ts, p, f[<<p + 1, goal>>] && Parsed(f[<<p + 1, goal>>].at, x))
<1>1. p + 1 \in Nat /\ p < p + 1 /\ p \in Nat
  BY PositionsAre
<1>2. p + 1 <= Len(ts) + 1
  BY <1>1, TokenWithin
<1> DEFINE q == p + 1
           r == f[<<q, goal>>]
<1>3. q \in Nat /\ p < q /\ q <= Len(ts) + 1
  BY <1>1, <1>2
<1> HIDE DEF q
<1>4. Ahead(ts, p, r) /\ g[<<q, goal>>] = r
  BY <1>3, LaterAgrees
<1> HIDE DEF r
<1>5. \A x : Ahead(ts, p, r && Parsed(r.at, x))
  BY <1>1, <1>4, BuiltAhead
<1> QED
  BY <1>4, <1>5 DEF q, r

\* Each level reads on, and only from what lies after p.
LEMMA PrimaryAhead ==
  ASSUME NEW ts, Len(ts) \in Nat, NEW p \in Positions(ts), NEW f, NEW g, AgreeAfter(ts, p, f, g)
  PROVE  Ahead(ts, p, PrimaryExpr(ts, p, f)) /\ PrimaryExpr(ts, p, g) = PrimaryExpr(ts, p, f)
<1> DEFINE inner == f[<<p + 1, "expr">>]
           close == Expect(ts, inner.at, ")")
<1>0. p \in Nat /\ p <= Len(ts) + 1 /\ p + 1 \in Nat /\ p < p + 1
  BY PositionsAre
<1>1. CASE At(ts, p) = "("
  <2>0. At(ts, p) # End /\ ")" # End
    BY <1>1 DEF End
  <2>1. p + 1 <= Len(ts) + 1
    BY <1>0, <2>0, TokenWithin
  <2>2. Ahead(ts, p, inner) /\ g[<<p + 1, "expr">>] = inner
    <3>1. "expr" \in Goals
      BY GoalsAre
    <3> QED
      BY <2>0, <3>1, PrefixAhead
  <2>3. inner.at \in Nat /\ p <= inner.at /\ inner.at <= Len(ts) + 1 /\ Within(ts, p, inner)
    BY <2>2 DEF Ahead, Within
  <2>8. /\ PrimaryExpr(ts, p, f) = inner && close && Parsed(close.at, inner.node)
        /\ PrimaryExpr(ts, p, g) = inner && close && Parsed(close.at, inner.node)
    BY <1>1, <2>2 DEF PrimaryExpr, Enclosed
  <2> HIDE DEF inner
  <2>4. Ahead(ts, inner.at, close)
    BY <2>0, <2>3, ExpectWithin
  <2> HIDE DEF close
  <2>5. Ahead(ts, p, close)
    BY <1>0, <2>3, <2>4, WithinFurther
  <2>6. Ahead(ts, p, close && Parsed(close.at, inner.node))
    BY <1>0, <2>5, BuiltAhead
  <2>7. Ahead(ts, p, inner && (close && Parsed(close.at, inner.node)))
    BY <2>3, <2>6, NextAhead
  <2>9. (inner && close && Parsed(close.at, inner.node))
          = (inner && (close && Parsed(close.at, inner.node)))
    BY DEF &&
  <2> QED
    BY <2>7, <2>8, <2>9
<1>2. CASE At(ts, p) # "("
  <2>0. PrimaryExpr(ts, p, g) = PrimaryExpr(ts, p, f)
    BY <1>2 DEF PrimaryExpr, Enclosed
  <2>1. CASE At(ts, p) \in Names \cup LiteralTokens
    <3>1. p + 1 <= Len(ts) + 1
      BY <1>0, <2>1, TokenWithin, EndIsNoToken
    <3> QED
      BY <1>0, <1>2, <2>0, <2>1, <3>1, ParsedWithin DEF PrimaryExpr, Enclosed
  <2>2. CASE At(ts, p) \notin Names \cup LiteralTokens
    BY <1>0, <1>2, <2>0, <2>2, ParsedWithin DEF PrimaryExpr, Enclosed
  <2> QED
    BY <2>1, <2>2
<1> QED
  BY <1>1, <1>2

\* A negation reads on: at least its minus, or what a primary reads.
LEMMA NegAhead ==
  ASSUME NEW ts, Len(ts) \in Nat, NEW p \in Positions(ts), NEW f, NEW g, AgreeAfter(ts, p, f, g)
  PROVE  Ahead(ts, p, NegExpr(ts, p, f)) /\ NegExpr(ts, p, g) = NegExpr(ts, p, f)
<1>1. CASE At(ts, p) = "-"
  <2>1. At(ts, p) # End
    BY <1>1 DEF End
  <2> DEFINE r == f[<<p + 1, "neg">>]
  <2>2. /\ Ahead(ts, p, r) /\ g[<<p + 1, "neg">>] = r
        /\ \A x : Ahead(ts, p, r && Parsed(r.at, x))
    BY <2>1, PrefixAhead, GoalsAre
  <2> QED
    BY <1>1, <2>2 DEF NegExpr
<1>2. CASE At(ts, p) # "-"
  BY <1>2, PrimaryAhead DEF NegExpr
<1> QED
  BY <1>1, <1>2

\* A loop after its first operand.
LEMMA LoopAhead ==
  ASSUME NEW ts, Len(ts) \in Nat, NEW p \in Positions(ts), NEW f, NEW g, AgreeAfter(ts, p, f, g),
         NEW left, Ahead(ts, p, left), NEW level \in DOMAIN InfixOps
  PROVE  Ahead(ts, p, Loop(left, level, f)) /\ Loop(left, level, g) = Loop(left, level, f)
<1> DEFINE turns == f[<<left.at, level>>]
           node  == Grouped(left.node, turns.node)
<1>0. p \in Nat /\ left.ok \in BOOLEAN
  BY PositionsAre DEF Ahead, Within
<1>1. CASE left.ok
  <2>1. left.at \in Nat /\ p < left.at /\ left.at <= Len(ts) + 1 /\ Within(ts, p, left)
    BY <1>1 DEF Ahead, Within
  <2>2. level \in Goals
    BY DEF Goals
  <2>3. Ahead(ts, p, turns) /\ g[<<left.at, level>>] = turns
    BY <2>1, <2>2, LaterAgrees
  <2>4. /\ Loop(left, level, f) = left && turns && Parsed(turns.at, node)
        /\ Loop(left, level, g) = left && turns && Parsed(turns.at, node)
    BY <2>3 DEF Loop
  <2> HIDE DEF turns, node
  <2>5. Ahead(ts, p, turns && Parsed(turns.at, node))
    BY <1>0, <2>3, BuiltAhead
  <2>6. (left && turns && Parsed(turns.at, node)) = (turns && Parsed(turns.at, node))
    BY <1>1 DEF &&
  <2> QED
    BY <2>4, <2>5, <2>6
<1>2. CASE ~left.ok
  BY <1>2 DEF Loop, &&
<1> QED
  BY <1>0, <1>1, <1>2

\* So does every level, whose first operand is the level below.
LEMMA LevelsAhead ==
  ASSUME NEW ts, Len(ts) \in Nat, NEW p \in Positions(ts), NEW f, NEW g, AgreeAfter(ts, p, f, g)
  PROVE  /\ Ahead(ts, p, MulExpr(ts, p, f)) /\ MulExpr(ts, p, g) = MulExpr(ts, p, f)
         /\ Ahead(ts, p, AddExpr(ts, p, f)) /\ AddExpr(ts, p, g) = AddExpr(ts, p, f)
         /\ Ahead(ts, p, CmpExpr(ts, p, f)) /\ CmpExpr(ts, p, g) = CmpExpr(ts, p, f)
         /\ Ahead(ts, p, NotExpr(ts, p, f)) /\ NotExpr(ts, p, g) = NotExpr(ts, p, f)
         /\ Ahead(ts, p, AndExpr(ts, p, f)) /\ AndExpr(ts, p, g) = AndExpr(ts, p, f)
         /\ Ahead(ts, p, OrExpr(ts, p, f)) /\ OrExpr(ts, p, g) = OrExpr(ts, p, f)
<1>1. Ahead(ts, p, MulExpr(ts, p, f)) /\ MulExpr(ts, p, g) = MulExpr(ts, p, f)
  BY NegAhead, LoopAhead, GoalsAre DEF MulExpr
<1>2. Ahead(ts, p, AddExpr(ts, p, f)) /\ AddExpr(ts, p, g) = AddExpr(ts, p, f)
  BY <1>1, LoopAhead, GoalsAre DEF AddExpr
<1>3. Ahead(ts, p, CmpExpr(ts, p, f)) /\ CmpExpr(ts, p, g) = CmpExpr(ts, p, f)
  BY <1>2, LoopAhead, GoalsAre DEF CmpExpr
<1>4. Ahead(ts, p, NotExpr(ts, p, f)) /\ NotExpr(ts, p, g) = NotExpr(ts, p, f)
  <2>1. CASE At(ts, p) = "NOT"
    <3>1. At(ts, p) # End
      BY <2>1 DEF End
    <3> DEFINE r == f[<<p + 1, "not">>]
    <3>2. /\ Ahead(ts, p, r) /\ g[<<p + 1, "not">>] = r
          /\ \A x : Ahead(ts, p, r && Parsed(r.at, x))
      BY <3>1, PrefixAhead, GoalsAre
    <3> QED
      BY <2>1, <3>2 DEF NotExpr
  <2>2. CASE At(ts, p) # "NOT"
    BY <1>3, <2>2 DEF NotExpr
  <2> QED
    BY <2>1, <2>2
<1>5. Ahead(ts, p, AndExpr(ts, p, f)) /\ AndExpr(ts, p, g) = AndExpr(ts, p, f)
  BY <1>4, LoopAhead, GoalsAre DEF AndExpr
<1>6. Ahead(ts, p, OrExpr(ts, p, f)) /\ OrExpr(ts, p, g) = OrExpr(ts, p, f)
  BY <1>5, LoopAhead, GoalsAre DEF OrExpr
<1> QED
  BY <1>1, <1>2, <1>3, <1>4, <1>5, <1>6

\* So does the right operand of a loop.
LEMMA RightAhead ==
  ASSUME NEW ts, Len(ts) \in Nat, NEW p \in Positions(ts), NEW f, NEW g, AgreeAfter(ts, p, f, g),
         NEW level \in DOMAIN InfixOps
  PROVE  /\ Ahead(ts, p, RightExpr(ts, p, level, f))
         /\ RightExpr(ts, p, level, g) = RightExpr(ts, p, level, f)
BY LevelsAhead, NegAhead, GoalsAre DEF RightExpr

\* The operators of a loop are tokens.
LEMMA TurnTokens ==
  ASSUME NEW ts, NEW p, NEW level \in DOMAIN InfixOps, At(ts, p) \in InfixOps[level] \cup {"IS", "NOT"}
  PROVE  At(ts, p) # End
BY EndIsNoToken DEF End

\* A turn, and what comes after it.
LEMMA BeforeFine ==
  ASSUME NEW ts, Len(ts) \in Nat, NEW p \in Nat, NEW r, Within(ts, p, r), r.ok => IsSequence(r.node),
         NEW level \in DOMAIN InfixOps, NEW x
  PROVE  Fine(ts, p, level, Before(x, r))
<1>1. Within(ts, p, Before(x, r))
  BY BuiltWithin
<1>2. CASE r.ok
  <2>1. PICK S : r.node \in Seq(S)
    BY <1>2 DEF IsSequence
  <2>2. <<x>> \o r.node \in Seq(S \cup {x})
    <3>1. <<x>> \in Seq(S \cup {x}) /\ r.node \in Seq(S \cup {x})
      BY <2>1
    <3> QED
      BY <3>1
  <2>3. Before(x, r).node = <<x>> \o r.node
    BY <1>2 DEF Before, &&, Parsed
  <2> QED
    BY <1>1, <2>2, <2>3 DEF Fine, IsSequence
<1>3. CASE ~r.ok
  BY <1>1, <1>3 DEF Before, &&, Fine
<1>4. r.ok \in BOOLEAN
  BY DEF Within
<1> QED
  BY <1>2, <1>3, <1>4

\* One turn, and those after it.
LEMMA TurnsFine ==
  ASSUME NEW ts, Len(ts) \in Nat, NEW p \in Positions(ts), NEW f, NEW g, AgreeAfter(ts, p, f, g),
         NEW level \in DOMAIN InfixOps
  PROVE  /\ Fine(ts, p, level, TurnsFrom(ts, p, level, f))
         /\ TurnsFrom(ts, p, level, g) = TurnsFrom(ts, p, level, f)
<1> DEFINE token   == At(ts, p)
           negated == At(ts, p + 1) = "NOT"
           next    == p + (IF negated THEN 2 ELSE 1)
           null    == Expect(ts, next, "NULL")
           right   == RightExpr(ts, p + 1, level, f)
<1>0. p \in Nat /\ p <= Len(ts) + 1 /\ p + 1 \in Nat /\ p < p + 1 /\ level \in Goals
  BY PositionsAre DEF Goals
<1>1. ASSUME NEW r, Ahead(ts, p, r)
      PROVE  /\ \A x : Fine(ts, p, level, r && Before(x, f[<<r.at, level>>]))
             /\ \A x : (r && Before(x, g[<<r.at, level>>])) = (r && Before(x, f[<<r.at, level>>]))
  <2>1. CASE r.ok
    <3> DEFINE q == r.at
    <3>1. q \in Nat /\ p < q /\ q <= Len(ts) + 1
      BY <1>1, <2>1 DEF Ahead, Within
    <3> HIDE DEF q
    <3> DEFINE rest == f[<<q, level>>]
    <3>2. Ahead(ts, p, rest) /\ g[<<q, level>>] = rest /\ Fine(ts, q, level, rest)
      BY <1>0, <3>1, LaterAgrees
    <3> HIDE DEF rest
    <3>3. Within(ts, p, rest) /\ (rest.ok => IsSequence(rest.node))
      BY <3>2 DEF Ahead, Fine
    <3>4. \A x : Fine(ts, p, level, Before(x, rest))
      BY <1>0, <3>3, BeforeFine
    <3>5. \A x : (r && x) = x
      BY <2>1 DEF &&
    <3> QED
      BY <3>2, <3>4, <3>5 DEF rest, q
  <2>2. CASE ~r.ok
    <3>1. \A x : (r && x) = r
      BY <2>2 DEF &&
    <3>2. Fine(ts, p, level, r)
      BY <1>1, <2>2 DEF Fine, Ahead
    <3> QED
      BY <3>1, <3>2
  <2>3. r.ok \in BOOLEAN
    BY <1>1 DEF Ahead, Within
  <2> QED
    BY <2>1, <2>2, <2>3
<1>2. CASE level = "cmp" /\ token = "IS"
  <2>1. p + 1 <= Len(ts) + 1
    BY <1>0, <1>2, TokenWithin, TurnTokens
  <2>2. negated => p + 2 <= Len(ts) + 1
    <3>1. negated => At(ts, p + 1) # End
      BY DEF End
    <3>2. negated => p + 1 <= Len(ts)
      BY <1>0, <3>1, TokenWithin
    <3> QED
      BY <1>0, <3>2
  <2>3. next \in Nat /\ p <= next /\ p < next /\ next <= Len(ts) + 1
    BY <1>0, <2>1, <2>2
  <2>4. /\ TurnsFrom(ts, p, level, f) = null && Before(IsNull(None, negated), f[<<null.at, level>>])
        /\ TurnsFrom(ts, p, level, g) = null && Before(IsNull(None, negated), g[<<null.at, level>>])
    BY <1>2 DEF TurnsFrom
  <2> HIDE DEF next, negated
  <2>5. Ahead(ts, next, null)
    <3>1. "NULL" # End
      BY DEF End
    <3> QED
      BY <2>3, <3>1, ExpectWithin
  <2> HIDE DEF null
  <2>6. Ahead(ts, p, null)
    BY <1>0, <2>3, <2>5, WithinFurther
  <2> QED
    BY <1>1, <2>4, <2>6
<1>3. CASE ~(level = "cmp" /\ token = "IS") /\ token \in InfixOps[level]
  <2>1. p + 1 <= Len(ts) + 1
    BY <1>0, <1>3, TokenWithin, TurnTokens
  <2>2. p + 1 \in Positions(ts)
    BY <1>0, <2>1 DEF Positions
  <2>3. AgreeAfter(ts, p + 1, f, g)
    <3>1. \A q \in (p + 1) + 1 .. Len(ts) + 1 : q \in p + 1 .. Len(ts) + 1
      BY <1>0
    <3> QED
      BY <3>1 DEF AgreeAfter
  <2>4. Ahead(ts, p + 1, right) /\ RightExpr(ts, p + 1, level, g) = right
    BY <2>2, <2>3, RightAhead
  <2>5. /\ TurnsFrom(ts, p, level, f)
             = right && Before(BinaryExpr(None, token, right.node), f[<<right.at, level>>])
        /\ TurnsFrom(ts, p, level, g)
             = right && Before(BinaryExpr(None, token, right.node), g[<<right.at, level>>])
    BY <1>3, <2>4 DEF TurnsFrom, TurnTo
  <2> HIDE DEF right
  <2>6. Ahead(ts, p, right)
    <3>1. p <= p + 1
      BY <1>0
    <3> QED
      BY <1>0, <2>4, <3>1, WithinFurther
  <2> QED
    BY <1>1, <2>5, <2>6
<1>4. CASE ~(level = "cmp" /\ token = "IS") /\ token \notin InfixOps[level]
  <2>1. /\ TurnsFrom(ts, p, level, f) = Parsed(p, <<>>)
        /\ TurnsFrom(ts, p, level, g) = Parsed(p, <<>>)
    BY <1>4 DEF TurnsFrom
  <2>2. Within(ts, p, Parsed(p, <<>>))
    BY <1>0, ParsedWithin
  <2>3. IsSequence(<<>>)
    <3>1. <<>> \in Seq({})
      OBVIOUS
    <3> QED
      BY <3>1 DEF IsSequence
  <2> QED
    BY <2>1, <2>2, <2>3 DEF Fine, Parsed
<1> QED
  BY <1>2, <1>3, <1>4

\* Whatever is looked for at p is found within the text, from what lies after p alone.
LEMMA FoundFine ==
  ASSUME NEW ts, Len(ts) \in Nat, NEW p \in Positions(ts), NEW f, NEW g, AgreeAfter(ts, p, f, g),
         NEW goal \in Goals
  PROVE  Fine(ts, p, goal, Found(ts, p, goal, f)) /\ Found(ts, p, goal, g) = Found(ts, p, goal, f)
<1>1. \A r : Ahead(ts, p, r) => Within(ts, p, r)
  BY DEF Ahead
<1>2. CASE goal \in DOMAIN InfixOps
  BY <1>2, TurnsFine, GoalsAre DEF Found
<1>3. CASE goal = "expr"
  BY <1>1, <1>3, LevelsAhead, GoalsAre DEF Found, Fine
<1>4. CASE goal = "neg"
  BY <1>1, <1>4, NegAhead, GoalsAre DEF Found, Fine
<1>5. CASE goal = "not"
  BY <1>1, <1>5, LevelsAhead, GoalsAre DEF Found, Fine
<1> QED
  BY <1>2, <1>3, <1>4, <1>5, GoalsAre

-----------------------------------------------------------------------------
(* The table of what is found exists, and is what it is defined to be.     *)

Table(ts) == Positions(ts) \X Goals

\* f is right from position n on.
RightFrom(ts, n, f) ==
  /\ f = [x \in Table(ts) |-> f[x]]
  /\ \A p \in Positions(ts) : p >= n => \A goal \in Goals :
       f[<<p, goal>>] = Found(ts, p, goal, f) /\ Fine(ts, p, goal, f[<<p, goal>>])

\* A table that is right after p can be made right at p.
LEMMA RightBackwards ==
  ASSUME NEW ts, Len(ts) \in Nat, NEW p \in Positions(ts), NEW f, RightFrom(ts, p + 1, f)
  PROVE  \E g : RightFrom(ts, p, g)
<1> DEFINE g == [x \in Table(ts) |-> IF x[1] = p THEN Found(ts, p, x[2], f) ELSE f[x]]
<1>0. p \in Nat
  BY PositionsAre
<1>1. \A q \in Positions(ts) : q \in Nat
  BY DEF Positions
<1>2. \A q \in Positions(ts), goal \in Goals :
        g[<<q, goal>>] = IF q = p THEN Found(ts, p, goal, f) ELSE f[<<q, goal>>]
  BY DEF Table
<1>3. g = [x \in Table(ts) |-> g[x]]
  OBVIOUS
<1> HIDE DEF g
<1>4. ASSUME NEW q \in Positions(ts), q >= p PROVE AgreeAfter(ts, q, f, g)
  <2> SUFFICES ASSUME NEW s \in q + 1 .. Len(ts) + 1, NEW goal \in Goals
               PROVE  Fine(ts, s, goal, f[<<s, goal>>]) /\ g[<<s, goal>>] = f[<<s, goal>>]
    BY DEF AgreeAfter
  <2>1. s \in Positions(ts) /\ s >= p + 1 /\ s # p
    BY <1>0, <1>1, <1>4 DEF Positions
  <2> QED
    BY <1>2, <2>1 DEF RightFrom
<1>5. ASSUME NEW q \in Positions(ts), q >= p, NEW goal \in Goals
      PROVE  g[<<q, goal>>] = Found(ts, q, goal, g) /\ Fine(ts, q, goal, g[<<q, goal>>])
  <2>1. Fine(ts, q, goal, Found(ts, q, goal, f)) /\ Found(ts, q, goal, g) = Found(ts, q, goal, f)
    BY <1>4, <1>5, FoundFine
  <2>2. q # p => q >= p + 1
    BY <1>0, <1>1, <1>5
  <2>3. g[<<q, goal>>] = Found(ts, q, goal, f)
    BY <1>2, <1>5, <2>2 DEF RightFrom
  <2> QED
    BY <2>1, <2>3
<1> QED
  BY <1>3, <1>5 DEF RightFrom

\* The table is right at every position: by induction from the end of the text.
LEMMA ParsingRight ==
  ASSUME NEW ts, Len(ts) \in Nat
  PROVE  RightFrom(ts, 1, Parsing(ts))
<1> DEFINE n == Len(ts) + 1
           G == {k \in 0 .. n : \E f : RightFrom(ts, (n + 1) - k, f)}
<1>0. n \in Nat
  OBVIOUS
<1>1. 0 \in G
  <2> DEFINE f == [x \in Table(ts) |-> 0]
  <2>1. f = [x \in Table(ts) |-> f[x]]
    OBVIOUS
  <2>2. \A p \in Positions(ts) : ~(p >= n + 1)
    BY DEF Positions
  <2>3. (n + 1) - 0 = n + 1 /\ 0 \in 0 .. n
    OBVIOUS
  <2> HIDE DEF f, n
  <2>4. RightFrom(ts, n + 1, f)
    BY <2>1, <2>2 DEF RightFrom
  <2> QED
    BY <2>3, <2>4
<1>2. ASSUME NEW k \in 1 .. n, k - 1 \in G PROVE k \in G
  <2> DEFINE p == (n + 1) - k
  <2>1. p \in Positions(ts) /\ (n + 1) - (k - 1) = p + 1 /\ k \in 0 .. n
    BY DEF Positions
  <2>2. PICK f : RightFrom(ts, (n + 1) - (k - 1), f)
    BY <1>2
  <2> HIDE DEF p, n
  <2>3. \E g : RightFrom(ts, p, g)
    BY <2>1, <2>2, RightBackwards
  <2> QED
    BY <2>1, <2>3 DEF p
<1>3. n \in 0 .. n /\ (n + 1) - n = 1
  OBVIOUS
<1> HIDE DEF G, n
<1>4. n \in G
  BY <1>0, <1>1, <1>2, <1>3, IntervalInduction
<1>5. PICK f : RightFrom(ts, 1, f)
  BY <1>3, <1>4 DEF G
<1> DEFINE IsTable(h) == h = [x \in Table(ts) |-> Found(ts, x[1], x[2], h)]
<1>6. ASSUME NEW h, IsTable(h) PROVE \A p \in Positions(ts), goal \in Goals :
                                   h[<<p, goal>>] = Found(ts, p, goal, h)
  BY <1>6 DEF Table
<1>7. IsTable(f)
  <2>1. \A x \in Table(ts) : f[x] = Found(ts, x[1], x[2], f)
    <3> TAKE x \in Table(ts)
    <3>1. x = <<x[1], x[2]>> /\ x[1] \in Positions(ts) /\ x[2] \in Goals
      BY DEF Table
    <3>2. x[1] >= 1
      BY <3>1 DEF Positions
    <3> QED
      BY <1>5, <3>1, <3>2 DEF RightFrom
  <2> QED
    BY <1>5, <2>1 DEF RightFrom
<1>8. IsTable(Parsing(ts))
  <2>1. Parsing(ts) = CHOOSE h : IsTable(h)
    BY DEF Parsing, Table
  <2> QED
    BY <1>7, <2>1
<1>9. \A p \in Positions(ts), goal \in Goals :
        Parsing(ts)[<<p, goal>>] = Found(ts, p, goal, Parsing(ts))
  BY <1>6, <1>8
<1>10. Parsing(ts) = [x \in Table(ts) |-> Parsing(ts)[x]]
  BY <1>8
<1> DEFINE H == {p \in 1 .. n : \A goal \in Goals : Fine(ts, p, goal, Parsing(ts)[<<p, goal>>])}
<1>11. ASSUME NEW p \in 1 .. n, \A q \in p + 1 .. n : q \in H PROVE p \in H
  <2>1. p \in Positions(ts)
    BY DEF Positions, n
  <2>2. AgreeAfter(ts, p, Parsing(ts), Parsing(ts))
    BY <1>11 DEF AgreeAfter, n
  <2>3. \A goal \in Goals : Fine(ts, p, goal, Found(ts, p, goal, Parsing(ts)))
    BY <2>1, <2>2, FoundFine
  <2> QED
    BY <1>9, <2>1, <2>3
<1> HIDE DEF H
<1>12. \A p \in 1 .. n : p \in H
  BY <1>0, <1>11, Downwards
<1> QED
  BY <1>9, <1>10, <1>12 DEF RightFrom, H, n, Positions

-----------------------------------------------------------------------------
(* The loops: a turn more is a left operand more.                          *)

IsGrouping(f, left, turns, n) ==
  f = [i \in 0 .. n |-> IF i = 0 THEN left ELSE Attach(f[i - 1], turns[i])]

\* The recursive function of Grouped exists for any number of turns.
LEMMA GroupingExists ==
  ASSUME NEW left, NEW turns, NEW n \in Nat
  PROVE  \E f : IsGrouping(f, left, turns, n)
<1> DEFINE G == {m \in 0 .. n : \E f : IsGrouping(f, left, turns, m)}
<1>1. 0 \in G
  <2> DEFINE f == [i \in 0 .. 0 |-> left]
  <2>1. IsGrouping(f, left, turns, 0)
    BY DEF IsGrouping
  <2>2. 0 \in 0 .. n
    OBVIOUS
  <2> QED
    BY <2>1, <2>2
<1>2. ASSUME NEW m \in 1 .. n, m - 1 \in G PROVE m \in G
  <2> DEFINE k == m - 1
  <2>1. PICK f : IsGrouping(f, left, turns, k)
    BY <1>2
  <2> DEFINE h == [i \in 0 .. m |-> IF i = m THEN Attach(f[k], turns[m]) ELSE f[i]]
  <2>2. \A i \in 0 .. m : h[i] = IF i = 0 THEN left ELSE Attach(h[i - 1], turns[i])
    <3> TAKE i \in 0 .. m
    <3>1. CASE i = m
      <4>1. k \in 0 .. m /\ k # m /\ i - 1 = k /\ i # 0
        BY <3>1
      <4>2. h[i] = Attach(f[k], turns[m]) /\ h[i - 1] = f[k]
        BY <3>1, <4>1
      <4> HIDE DEF h
      <4> QED
        BY <3>1, <4>1, <4>2
    <3>2. CASE i \in 0 .. k
      <4>1. i # m /\ (i # 0 => i - 1 \in 0 .. m /\ i - 1 # m)
        BY <3>2
      <4>2. h[i] = f[i] /\ (i # 0 => h[i - 1] = f[i - 1])
        BY <4>1
      <4>3. f[i] = IF i = 0 THEN left ELSE Attach(f[i - 1], turns[i])
        BY <2>1, <3>2 DEF IsGrouping
      <4> HIDE DEF h
      <4> QED
        BY <4>2, <4>3
    <3>3. i = m \/ i \in 0 .. k
      OBVIOUS
    <3> QED
      BY <3>1, <3>2, <3>3
  <2>3. h = [i \in 0 .. m |-> h[i]]
    OBVIOUS
  <2> HIDE DEF h
  <2>4. IsGrouping(h, left, turns, m)
    BY <2>2, <2>3 DEF IsGrouping
  <2>5. m \in 0 .. n
    OBVIOUS
  <2> QED
    BY <2>4, <2>5
<1> HIDE DEF G
<1>3. \A m \in 0 .. n : m \in G
  BY <1>1, <1>2, IntervalInduction
<1>4. n \in 0 .. n
  OBVIOUS
<1> QED
  BY <1>3, <1>4 DEF G

\* Grouped is its value after the last turn.
LEMMA GroupedIs ==
  ASSUME NEW left, NEW turns, Len(turns) \in Nat
  PROVE  \E f : IsGrouping(f, left, turns, Len(turns)) /\ Grouped(left, turns) = f[Len(turns)]
<1> DEFINE n == Len(turns)
           f == CHOOSE f : IsGrouping(f, left, turns, n)
<1>1. IsGrouping(f, left, turns, n)
  BY GroupingExists
<1>2. Grouped(left, turns) = f[n]
  BY DEF Grouped, IsGrouping
<1> QED
  BY <1>1, <1>2

\* No turn leaves the left operand.
LEMMA GroupedNone == \A left : Grouped(left, <<>>) = left
<1> TAKE left
<1>1. Len(<<>>) = 0
  OBVIOUS
<1>2. PICK f : IsGrouping(f, left, <<>>, 0) /\ Grouped(left, <<>>) = f[0]
  BY <1>1, GroupedIs
<1> QED
  BY <1>2 DEF IsGrouping

\* The first turn becomes part of the left operand of the others.
LEMMA GroupedMore ==
  ASSUME NEW left, NEW x, NEW turns, IsSequence(turns)
  PROVE  Grouped(left, <<x>> \o turns) = Grouped(Attach(left, x), turns)
<1> DEFINE all == <<x>> \o turns
           n   == Len(turns)
<1>1. n \in Nat /\ Len(all) = n + 1 /\ all[1] = x /\ \A i \in 1 .. n : all[i + 1] = turns[i]
  <2>1. PICK S : turns \in Seq(S)
    BY DEF IsSequence
  <2> DEFINE T == S \cup {x}
  <2>2. turns \in Seq(T) /\ <<x>> \in Seq(T) /\ Len(<<x>>) = 1 /\ <<x>>[1] = x
    BY <2>1
  <2> HIDE DEF T
  <2>3. /\ Len(all) = 1 + n
        /\ \A i \in 1 .. 1 + n : all[i] = IF i <= 1 THEN <<x>>[i] ELSE turns[i - 1]
    BY <2>2, ConcatProperties
  <2>4. n \in Nat
    BY <2>2
  <2> HIDE DEF all, n
  <2>5. \A i \in 1 .. n : i + 1 \in 1 .. 1 + n /\ ~(i + 1 <= 1) /\ (i + 1) - 1 = i
    BY <2>4
  <2>6. all[1] = x
    <3>1. 1 \in 1 .. 1 + n
      BY <2>4
    <3> QED
      BY <2>2, <2>3, <3>1
  <2>7. \A i \in 1 .. n : all[i + 1] = turns[i]
    BY <2>3, <2>5
  <2> QED
    BY <2>3, <2>4, <2>6, <2>7
<1> HIDE DEF all, n
<1>2. PICK f : IsGrouping(f, left, all, n + 1) /\ Grouped(left, all) = f[n + 1]
  BY <1>1, GroupedIs
<1>3. PICK g : IsGrouping(g, Attach(left, x), turns, n) /\ Grouped(Attach(left, x), turns) = g[n]
  BY <1>1, GroupedIs DEF n
<1> DEFINE H == {i \in 0 .. n : f[i + 1] = g[i]}
<1>4. \A i \in 0 .. n + 1 : f[i] = IF i = 0 THEN left ELSE Attach(f[i - 1], all[i])
  BY <1>2 DEF IsGrouping
<1>5. \A i \in 0 .. n : g[i] = IF i = 0 THEN Attach(left, x) ELSE Attach(g[i - 1], turns[i])
  BY <1>3 DEF IsGrouping
<1>6. 0 \in H
  <2>1. 0 \in 0 .. n /\ 0 \in 0 .. n + 1 /\ 1 \in 0 .. n + 1 /\ 0 + 1 = 1 /\ 1 - 1 = 0
    BY <1>1
  <2>2. f[0] = left /\ f[1] = Attach(f[0], all[1])
    BY <1>4, <2>1
  <2>3. g[0] = Attach(left, x)
    BY <1>5, <2>1
  <2> QED
    BY <1>1, <2>1, <2>2, <2>3
<1>7. ASSUME NEW i \in 1 .. n, i - 1 \in H PROVE i \in H
  <2>1. i \in 0 .. n /\ i # 0 /\ i + 1 \in 0 .. n + 1 /\ i + 1 # 0 /\ (i + 1) - 1 = i /\ (i - 1) + 1 = i
    BY <1>1
  <2>2. f[i] = g[i - 1]
    BY <1>7, <2>1
  <2>3. f[i + 1] = Attach(f[i], all[i + 1])
    BY <1>4, <2>1
  <2>4. g[i] = Attach(g[i - 1], turns[i])
    BY <1>5, <2>1
  <2> QED
    BY <1>1, <2>1, <2>2, <2>3, <2>4
<1> HIDE DEF H
<1>8. \A i \in 0 .. n : i \in H
  BY <1>1, <1>6, <1>7, IntervalInduction
<1>9. n \in 0 .. n
  BY <1>1
<1>10. n \in H
  BY <1>8, <1>9
<1> QED
  BY <1>2, <1>3, <1>10 DEF H, all

-----------------------------------------------------------------------------
(* The levels by number, as Rank counts them.                              *)

Levels == <<"or", "and", "not", "cmp", "add", "mul", "neg", "primary">>
Loops  == {1, 2, 4, 5, 6}

\* The tokens with which the loop of a level goes on.
GoesOn(k) == CASE k = 4     -> ComparisonOps \cup {"IS"}
               [] k \in {3, 7, 8} -> {}
               [] OTHER     -> InfixOps[Levels[k]]

LevelExpr(ts, p, k) ==
  CASE k = 8 -> PrimaryExpr(ts, p, Parsing(ts))
    [] k = 7 -> NegExpr(ts, p, Parsing(ts))
    [] k = 6 -> MulExpr(ts, p, Parsing(ts))
    [] k = 5 -> AddExpr(ts, p, Parsing(ts))
    [] k = 4 -> CmpExpr(ts, p, Parsing(ts))
    [] k = 3 -> NotExpr(ts, p, Parsing(ts))
    [] k = 2 -> AndExpr(ts, p, Parsing(ts))
    [] k = 1 -> OrExpr(ts, p, Parsing(ts))

\* What a level makes of its first operand.
Resume(ts, k, r) == IF k \in Loops THEN Loop(r, Levels[k], Parsing(ts)) ELSE r

\* No tighter level goes on at q.
Quiet(ts, q, k) == \A j \in k + 1 .. 8 : At(ts, q) \notin GoesOn(j)

\* From p to q the text reads as x, for level k.
Reads(ts, p, q, x, k) == Quiet(ts, q, k) => LevelExpr(ts, p, k) = Resume(ts, k, Parsed(q, x))

\* The levels that loop, by number.
LEMMA LevelsAre ==
  /\ Levels[1] = "or" /\ Levels[2] = "and" /\ Levels[4] = "cmp" /\ Levels[5] = "add"
  /\ Levels[6] = "mul"
  /\ \A k \in Loops : Levels[k] \in DOMAIN InfixOps /\ Levels[k] \in Goals
BY GoalsAre DEF Levels, Loops

\* The tokens with which a level goes on.
LEMMA GoesOnIs ==
  /\ GoesOn(1) = {"OR"} /\ GoesOn(2) = {"AND"} /\ GoesOn(3) = {}
  /\ GoesOn(4) = {"=", "<>", "<", "<=", ">", ">=", "IS"}
  /\ GoesOn(5) = {"+", "-"} /\ GoesOn(6) = {"*", "/"} /\ GoesOn(7) = {} /\ GoesOn(8) = {}
<1>1. GoesOn(4) = ComparisonOps \cup {"IS"} /\ GoesOn(3) = {} /\ GoesOn(7) = {} /\ GoesOn(8) = {}
  BY DEF GoesOn
<1>2. GoesOn(1) = InfixOps["or"] /\ GoesOn(2) = InfixOps["and"] /\ GoesOn(5) = InfixOps["add"]
        /\ GoesOn(6) = InfixOps["mul"]
  BY LevelsAre DEF GoesOn
<1>3. /\ InfixOps["or"] = {"OR"} /\ InfixOps["and"] = {"AND"} /\ InfixOps["add"] = {"+", "-"}
      /\ InfixOps["mul"] = {"*", "/"}
  BY DEF InfixOps
<1> QED
  BY <1>1, <1>2, <1>3 DEF ComparisonOps

\* They are its operators, and IS beside the comparisons.
LEMMA GoesOnIsInfix ==
  \A k \in Loops : /\ InfixOps[Levels[k]] \subseteq GoesOn(k)
                   /\ GoesOn(k) \subseteq InfixOps[Levels[k]] \cup (IF k = 4 THEN {"IS"} ELSE {})
<1>1. InfixOps[Levels[4]] = ComparisonOps
  BY LevelsAre DEF InfixOps
<1> QED
  BY <1>1 DEF GoesOn, Loops

\* The table has what it should.
LEMMA TableIs ==
  ASSUME NEW ts, Len(ts) \in Nat, NEW p \in Positions(ts), NEW goal \in Goals
  PROVE  /\ Parsing(ts)[<<p, goal>>] = Found(ts, p, goal, Parsing(ts))
         /\ Fine(ts, p, goal, Parsing(ts)[<<p, goal>>])
<1>1. p >= 1
  BY PositionsAre
<1> QED
  BY <1>1, ParsingRight DEF RightFrom

\* Each goal of the table by its level number.
LEMMA TableAt ==
  ASSUME NEW ts, Len(ts) \in Nat, NEW p \in Positions(ts)
  PROVE  /\ Parsing(ts)[<<p, "expr">>] = LevelExpr(ts, p, 1)
         /\ Parsing(ts)[<<p, "not">>] = LevelExpr(ts, p, 3)
         /\ Parsing(ts)[<<p, "neg">>] = LevelExpr(ts, p, 7)
         /\ \A k \in Loops : Parsing(ts)[<<p, Levels[k]>>] = TurnsFrom(ts, p, Levels[k], Parsing(ts))
<1>1. \A k \in Loops : Levels[k] \notin {"expr", "not", "neg"} /\ Levels[k] \in Goals
  BY LevelsAre DEF Loops
<1>2. \A k \in Loops : Parsing(ts)[<<p, Levels[k]>>] = Found(ts, p, Levels[k], Parsing(ts))
  BY <1>1, TableIs
<1>3. /\ Parsing(ts)[<<p, "expr">>] = Found(ts, p, "expr", Parsing(ts))
      /\ Parsing(ts)[<<p, "not">>] = Found(ts, p, "not", Parsing(ts))
      /\ Parsing(ts)[<<p, "neg">>] = Found(ts, p, "neg", Parsing(ts))
  BY TableIs, GoalsAre
<1> QED
  BY <1>1, <1>2, <1>3 DEF Found, LevelExpr

\* A level begins with the level below, unless its prefix operator is there.
LEMMA LevelDescends ==
  ASSUME NEW ts, NEW p, NEW k \in 1 .. 7,
         k = 7 => At(ts, p) # "-", k = 3 => At(ts, p) # "NOT"
  PROVE  LevelExpr(ts, p, k) = Resume(ts, k, LevelExpr(ts, p, k + 1))
<1>1. CASE k = 7
  BY <1>1 DEF LevelExpr, Resume, Loops, NegExpr
<1>2. CASE k = 6
  BY <1>2, LevelsAre DEF LevelExpr, Resume, Loops, MulExpr
<1>3. CASE k = 5
  BY <1>3, LevelsAre DEF LevelExpr, Resume, Loops, AddExpr
<1>4. CASE k = 4
  BY <1>4, LevelsAre DEF LevelExpr, Resume, Loops, CmpExpr
<1>5. CASE k = 3
  BY <1>5 DEF LevelExpr, Resume, Loops, NotExpr
<1>6. CASE k = 2
  BY <1>6, LevelsAre DEF LevelExpr, Resume, Loops, AndExpr
<1>7. CASE k = 1
  BY <1>7, LevelsAre DEF LevelExpr, Resume, Loops, OrExpr
<1> QED
  BY <1>1, <1>2, <1>3, <1>4, <1>5, <1>6, <1>7

\* A loop that does not go on is done.
LEMMA LoopStops ==
  ASSUME NEW ts, Len(ts) \in Nat, NEW q \in Positions(ts), NEW k \in 1 .. 8, NEW x,
         At(ts, q) \notin GoesOn(k)
  PROVE  Resume(ts, k, Parsed(q, x)) = Parsed(q, x)
<1>1. CASE k \in Loops
  <2>1. TurnsFrom(ts, q, Levels[k], Parsing(ts)) = Parsed(q, <<>>)
    <3>1. At(ts, q) \notin InfixOps[Levels[k]]
      BY <1>1, GoesOnIsInfix
    <3>2. ~(Levels[k] = "cmp" /\ At(ts, q) = "IS")
      BY <1>1, GoesOnIs, LevelsAre DEF Loops
    <3> QED
      BY <3>1, <3>2 DEF TurnsFrom
  <2>2. Parsing(ts)[<<q, Levels[k]>>] = Parsed(q, <<>>)
    BY <1>1, <2>1, TableAt
  <2>3. Loop(Parsed(q, x), Levels[k], Parsing(ts)) = Parsed(q, Grouped(x, <<>>))
    <3> DEFINE l == Parsed(q, x)
               t == Parsed(q, <<>>)
    <3>1. l.ok /\ l.at = q /\ l.node = x /\ t.ok /\ t.at = q /\ t.node = <<>>
      BY DEF Parsed
    <3> HIDE DEF l, t
    <3>2. Loop(l, Levels[k], Parsing(ts)) = l && t && Parsed(t.at, Grouped(l.node, t.node))
      BY <2>2, <3>1 DEF Loop, t
    <3> QED
      BY <3>1, <3>2 DEF &&, l
  <2> QED
    BY <1>1, <2>3, GroupedNone DEF Resume
<1>2. CASE k \notin Loops
  BY <1>2 DEF Resume
<1> QED
  BY <1>1, <1>2

\* What the level below reads, this one reads too.
LEMMA ReadsDescends ==
  ASSUME NEW ts, Len(ts) \in Nat, NEW p, NEW q \in Positions(ts), NEW x, NEW k \in 1 .. 7,
         k = 7 => At(ts, p) # "-", k = 3 => At(ts, p) # "NOT", Reads(ts, p, q, x, k + 1)
  PROVE  Reads(ts, p, q, x, k)
<1> SUFFICES ASSUME Quiet(ts, q, k) PROVE LevelExpr(ts, p, k) = Resume(ts, k, Parsed(q, x))
  BY DEF Reads
<1>1. k + 1 \in k + 1 .. 8 /\ k + 1 \in 1 .. 8 /\ \A j \in (k + 1) + 1 .. 8 : j \in k + 1 .. 8
  OBVIOUS
<1>2. Quiet(ts, q, k + 1) /\ At(ts, q) \notin GoesOn(k + 1)
  BY <1>1 DEF Quiet
<1>3. LevelExpr(ts, p, k + 1) = Parsed(q, x)
  BY <1>1, <1>2, LoopStops DEF Reads
<1> QED
  BY <1>3, LevelDescends

\* A turn that was taken.
LEMMA LoopTurns ==
  ASSUME NEW ts, Len(ts) \in Nat, NEW p \in Positions(ts), NEW q \in Positions(ts), NEW k \in Loops,
         NEW left, NEW x,
         TurnsFrom(ts, p, Levels[k], Parsing(ts)) = Before(x, Parsing(ts)[<<q, Levels[k]>>])
  PROVE  Resume(ts, k, Parsed(p, left)) = Resume(ts, k, Parsed(q, Attach(left, x)))
<1> DEFINE rest == Parsing(ts)[<<q, Levels[k]>>]
<1>1. Fine(ts, q, Levels[k], rest)
  BY TableIs, LevelsAre
<1>2. Parsing(ts)[<<p, Levels[k]>>] = Before(x, rest)
  BY TableAt
<1>3. rest.ok \in BOOLEAN /\ (rest.ok => IsSequence(rest.node))
  BY <1>1, LevelsAre DEF Fine, Within
<1>4. /\ Resume(ts, k, Parsed(p, left)) = Loop(Parsed(p, left), Levels[k], Parsing(ts))
      /\ Resume(ts, k, Parsed(q, Attach(left, x)))
           = Loop(Parsed(q, Attach(left, x)), Levels[k], Parsing(ts))
  BY DEF Resume
<1>5. Loop(Parsed(p, left), Levels[k], Parsing(ts))
        = Before(x, rest) && Parsed(Before(x, rest).at, Grouped(left, Before(x, rest).node))
  BY <1>2 DEF Loop, &&, Parsed
<1>6. Loop(Parsed(q, Attach(left, x)), Levels[k], Parsing(ts))
        = rest && Parsed(rest.at, Grouped(Attach(left, x), rest.node))
  BY DEF Loop, &&, Parsed
<1> HIDE DEF rest
<1>7. CASE rest.ok
  <2>1. Before(x, rest) = Parsed(rest.at, <<x>> \o rest.node)
    BY <1>7 DEF Before, &&
  <2>2. Grouped(left, <<x>> \o rest.node) = Grouped(Attach(left, x), rest.node)
    BY <1>3, <1>7, GroupedMore
  <2>3. Loop(Parsed(p, left), Levels[k], Parsing(ts))
          = Parsed(rest.at, Grouped(left, <<x>> \o rest.node))
    BY <1>5, <2>1 DEF &&, Parsed
  <2>4. Loop(Parsed(q, Attach(left, x)), Levels[k], Parsing(ts))
          = Parsed(rest.at, Grouped(Attach(left, x), rest.node))
    BY <1>6, <1>7 DEF &&
  <2> QED
    BY <1>4, <2>2, <2>3, <2>4
<1>8. CASE ~rest.ok
  <2>1. Before(x, rest) = rest
    BY <1>8 DEF Before, &&
  <2> QED
    BY <1>4, <1>5, <1>6, <1>8, <2>1 DEF &&
<1> QED
  BY <1>3, <1>7, <1>8

-----------------------------------------------------------------------------
(* Texts of expressions.                                                   *)

\* s stands in the text at p.
Occurs(ts, p, s) ==
  /\ Len(ts) \in Nat /\ p \in Positions(ts) /\ p + Len(s) <= Len(ts) + 1
  /\ \A i \in 1 .. Len(s) : ts[p + i - 1] = s[i]

\* The tokens of a part, at their positions.
LEMMA OccursAt ==
  ASSUME NEW ts, NEW p, NEW s \in Seq(Tokens), Occurs(ts, p, s)
  PROVE  /\ p \in Nat /\ p + Len(s) \in Positions(ts)
         /\ \A i \in 1 .. Len(s) : At(ts, p + i - 1) = s[i] /\ p + i - 1 \in Positions(ts)
<1>1. p \in Nat /\ 1 <= p /\ Len(s) \in Nat
  BY DEF Occurs, Positions
<1>2. p + Len(s) \in Positions(ts)
  BY <1>1 DEF Occurs, Positions
<1>3. ASSUME NEW i \in 1 .. Len(s) PROVE At(ts, p + i - 1) = s[i] /\ p + i - 1 \in Positions(ts)
  <2>1. p + i - 1 <= Len(ts) /\ p + i - 1 \in Positions(ts)
    BY <1>1 DEF Occurs, Positions
  <2>2. ts[p + i - 1] = s[i]
    BY DEF Occurs
  <2> QED
    BY <2>1, <2>2 DEF At
<1> QED
  BY <1>1, <1>2, <1>3

\* A part after another.
LEMMA OccursJoined ==
  ASSUME NEW ts, NEW p, NEW s \in Seq(Tokens), NEW t \in Seq(Tokens), Occurs(ts, p, s \o t)
  PROVE  Occurs(ts, p, s) /\ Occurs(ts, p + Len(s), t) /\ Len(s \o t) = Len(s) + Len(t)
<1> DEFINE u == s \o t
           m == Len(s)
           n == Len(t)
<1>1. /\ Len(u) = m + n
      /\ \A i \in 1 .. m + n : u[i] = IF i <= m THEN s[i] ELSE t[i - m]
  BY ConcatProperties
<1>2. m \in Nat /\ n \in Nat
  OBVIOUS
<1>3. /\ Len(ts) \in Nat /\ p \in Positions(ts) /\ p + Len(u) <= Len(ts) + 1
      /\ \A i \in 1 .. Len(u) : ts[p + i - 1] = u[i]
  BY DEF Occurs
<1> HIDE DEF u, m, n
<1>4. p \in Nat /\ 1 <= p
  BY <1>3 DEF Positions
<1>5. ASSUME NEW i \in 1 .. m PROVE ts[p + i - 1] = s[i]
  <2>1. i \in 1 .. Len(u) /\ i \in 1 .. m + n /\ i <= m
    BY <1>1, <1>2
  <2> QED
    BY <1>1, <1>3, <2>1
<1>6. ASSUME NEW i \in 1 .. n PROVE ts[(p + m) + i - 1] = t[i]
  <2>1. m + i \in 1 .. Len(u) /\ m + i \in 1 .. m + n /\ ~(m + i <= m) /\ (m + i) - m = i
          /\ (p + m) + i - 1 = p + (m + i) - 1
    BY <1>1, <1>2, <1>4
  <2>2. u[m + i] = t[i]
    BY <1>1, <2>1
  <2>3. ts[p + (m + i) - 1] = u[m + i]
    BY <1>3, <2>1
  <2> QED
    BY <2>1, <2>2, <2>3
<1>7. p + m <= Len(ts) + 1 /\ p + m \in Positions(ts) /\ (p + m) + n <= Len(ts) + 1
  BY <1>1, <1>2, <1>3, <1>4 DEF Positions
<1> QED
  BY <1>1, <1>3, <1>5, <1>6, <1>7 DEF Occurs, u, m, n

\* Two parts make a part.
LEMMA JoinedIs ==
  ASSUME NEW s \in Seq(Tokens), NEW t \in Seq(Tokens), Len(s) >= 1
  PROVE  s \o t \in Seq(Tokens) /\ Len(s \o t) = Len(s) + Len(t) /\ (s \o t)[1] = s[1]
<1> DEFINE u == s \o t
           m == Len(s)
           n == Len(t)
<1>1. /\ u \in Seq(Tokens) /\ Len(u) = m + n
      /\ \A i \in 1 .. m + n : u[i] = IF i <= m THEN s[i] ELSE t[i - m]
  BY ConcatProperties
<1>2. m \in Nat /\ n \in Nat /\ m >= 1
  OBVIOUS
<1> HIDE DEF u, m, n
<1>3. 1 \in 1 .. m + n /\ 1 <= m
  BY <1>2
<1>4. u[1] = s[1]
  BY <1>1, <1>3
<1> QED
  BY <1>1, <1>4 DEF u, m, n

\* So does a token.
LEMMA OneIs ==
  \A token \in Tokens : <<token>> \in Seq(Tokens) /\ Len(<<token>>) = 1 /\ <<token>>[1] = token
OBVIOUS

\* A token at a position.
LEMMA OccursOne ==
  ASSUME NEW ts, NEW p, NEW token \in Tokens, Occurs(ts, p, <<token>>)
  PROVE  At(ts, p) = token /\ p \in Positions(ts) /\ p + 1 \in Positions(ts) /\ p \in Nat /\ Len(ts) \in Nat
<1>1. /\ p \in Nat /\ p + Len(<<token>>) \in Positions(ts)
      /\ \A i \in 1 .. Len(<<token>>) : At(ts, p + i - 1) = <<token>>[i] /\ p + i - 1 \in Positions(ts)
  BY OneIs, OccursAt
<1>2. 1 \in 1 .. 1 /\ p + 1 - 1 = p
  BY <1>1
<1> QED
  BY <1>1, <1>2, OneIs DEF Occurs

\* The text s is x, for the levels up to k, wherever it stands.
Writes(s, x, k) ==
  /\ s \in Seq(Tokens) /\ Len(s) >= 1
  /\ k = 8 => s[1] # "-"
  /\ k >= 4 => s[1] # "NOT"
  /\ \A ts, p : Occurs(ts, p, s) => \A j \in 1 .. k : Reads(ts, p, p + Len(s), x, j)

\* If it is for one level, it is for those below.
LEMMA WritesFrom ==
  ASSUME NEW s \in Seq(Tokens), Len(s) >= 1, NEW x, NEW k \in 1 .. 8,
         k = 8 => s[1] # "-", k >= 4 => s[1] # "NOT",
         \A ts, p : Occurs(ts, p, s) => Reads(ts, p, p + Len(s), x, k)
  PROVE  Writes(s, x, k)
<1> SUFFICES ASSUME NEW ts, NEW p, Occurs(ts, p, s)
             PROVE  \A j \in 1 .. k : Reads(ts, p, p + Len(s), x, j)
  BY DEF Writes
<1> DEFINE q == p + Len(s)
           G == {m \in 0 .. k - 1 : Reads(ts, p, q, x, k - m)}
<1>1. Len(ts) \in Nat /\ q \in Positions(ts) /\ At(ts, p) = s[1]
  <2>1. Len(s) \in Nat /\ 1 \in 1 .. Len(s)
    OBVIOUS
  <2>2. p \in Nat /\ q \in Positions(ts) /\ At(ts, p + 1 - 1) = s[1]
    BY <2>1, OccursAt
  <2>3. p + 1 - 1 = p
    BY <2>2
  <2> QED
    BY <2>2, <2>3 DEF Occurs
<1>2. Reads(ts, p, q, x, k)
  OBVIOUS
<1> HIDE DEF q
<1>3. 0 \in G
  <2>1. k - 0 = k /\ 0 \in 0 .. k - 1
    OBVIOUS
  <2> QED
    BY <1>2, <2>1
<1>4. ASSUME NEW m \in 1 .. k - 1, m - 1 \in G PROVE m \in G
  <2> DEFINE j == k - m
  <2>1. j \in 1 .. 7 /\ j + 1 = k - (m - 1) /\ m \in 0 .. k - 1 /\ (j = 7 => k = 8) /\ (j = 3 => k >= 4)
    OBVIOUS
  <2>2. Reads(ts, p, q, x, k - (m - 1))
    BY <1>4
  <2> HIDE DEF j
  <2>3. (j = 7 => At(ts, p) # "-") /\ (j = 3 => At(ts, p) # "NOT")
    BY <1>1, <2>1
  <2>4. Reads(ts, p, q, x, j + 1)
    BY <2>1, <2>2
  <2>5. Reads(ts, p, q, x, j)
    BY <1>1, <2>1, <2>3, <2>4, ReadsDescends
  <2> QED
    BY <2>1, <2>5 DEF j
<1> HIDE DEF G
<1>5. k - 1 \in Nat
  OBVIOUS
<1>6. \A m \in 0 .. k - 1 : m \in G
  BY <1>3, <1>4, <1>5, IntervalInduction
<1>7. \A j \in 1 .. k : k - j \in 0 .. k - 1 /\ k - (k - j) = j
  OBVIOUS
<1> QED
  BY <1>6, <1>7 DEF G, q

\* It is for fewer levels too.
LEMMA WritesLess ==
  ASSUME NEW s, NEW x, NEW k \in 1 .. 8, NEW j \in 1 .. k, Writes(s, x, k)
  PROVE  Writes(s, x, j)
<1>1. \A i \in 1 .. j : i \in 1 .. k
  OBVIOUS
<1>2. (j = 8 => k = 8) /\ (j >= 4 => k >= 4)
  OBVIOUS
<1> QED
  BY <1>1, <1>2 DEF Writes

\* Which tokens there are, and which are not names or literals.
LEMMA TokensAre ==
  /\ Names \subseteq Tokens /\ LiteralTokens \subseteq Tokens /\ Keywords \subseteq Tokens
  /\ Symbols \subseteq Tokens
  /\ \A t \in {"(", ")", ",", ";", "+", "-", "*", "/", "=", "<>", "<", "<=", ">", ">=", "AND", "OR",
               "NOT", "NULL", "IS"} : t \in Tokens
  /\ \A t \in Names \cup LiteralTokens : t \notin {"(", ")", "-", "NOT", ","}
  /\ \A t \in Names : t \notin LiteralTokens
<1>1. {"NULL", "TRUE", "FALSE"} \subseteq Keywords /\ {"AND", "OR", "NOT", "NULL", "IS"} \subseteq Keywords
  BY DEF Keywords
<1>2. {"(", ")", ",", ";", "+", "-", "*", "/", "=", "<>", "<", "<=", ">", ">="} \subseteq Symbols
  BY DEF Symbols, ArithmeticOps, ComparisonOps
<1>3. DOMAIN LiteralWords = {"NULL", "TRUE", "FALSE"}
  BY DEF LiteralWords
<1>4. /\ Names \cap (Keywords \cup Symbols) = {} /\ Numerals \cap (Names \cup Keywords \cup Symbols) = {}
      /\ Texts \cap (Numerals \cup Names \cup Keywords \cup Symbols) = {}
  BY TokenAssumption
<1>5. {"(", ")", "-", "NOT", ","} \subseteq Keywords \cup Symbols
  BY <1>1, <1>2
<1>6. \A t \in {"NULL", "TRUE", "FALSE"} : t \notin {"(", ")", "-", "NOT", ","}
  OBVIOUS
<1> QED
  BY <1>1, <1>2, <1>3, <1>4, <1>5, <1>6 DEF Tokens, LiteralTokens

\* A leaf is one token.
LEMMA LeafWrites ==
  ASSUME NEW x, NEW token \in Names \cup LiteralTokens,
         x = IF token \in Names THEN Col(token) ELSE Lit(Meaning(token))
  PROVE  Writes(<<token>>, x, 8)
<1> DEFINE s == <<token>>
<1>1. token \in Tokens /\ token \notin {"(", "-", "NOT"}
  BY TokensAre
<1>2. s \in Seq(Tokens) /\ Len(s) = 1 /\ s[1] = token
  BY <1>1, OneIs
<1>3. ASSUME NEW ts, NEW p, Occurs(ts, p, s) PROVE Reads(ts, p, p + Len(s), x, 8)
  <2>1. At(ts, p) = token
    BY <1>1, <1>3, OccursOne
  <2>2. PrimaryExpr(ts, p, Parsing(ts)) = Parsed(p + 1, x)
    BY <1>1, <2>1 DEF PrimaryExpr, Enclosed
  <2> QED
    BY <1>2, <2>2 DEF Reads, LevelExpr, Resume, Loops
<1> HIDE DEF s
<1>4. s[1] # "-" /\ s[1] # "NOT" /\ Len(s) >= 1
  BY <1>1, <1>2
<1>5. Writes(s, x, 8)
  <2>1. 8 \in 1 .. 8
    OBVIOUS
  <2> QED
    BY <1>2, <1>3, <1>4, <2>1, WritesFrom
<1> QED
  BY <1>5 DEF s

\* Parentheses.
LEMMA ParenIs ==
  ASSUME NEW s \in Seq(Tokens)
  PROVE  /\ Paren(s) \in Seq(Tokens) /\ Len(Paren(s)) = Len(s) + 2 /\ Paren(s)[1] = "("
         /\ \A ts, p : Occurs(ts, p, Paren(s)) =>
              /\ At(ts, p) = "(" /\ p \in Nat /\ p + 1 \in Positions(ts)
              /\ Occurs(ts, p + 1, s)
              /\ At(ts, p + 1 + Len(s)) = ")" /\ p + 1 + Len(s) \in Positions(ts)
              /\ (p + 1 + Len(s)) + 1 = p + Len(Paren(s))
<1> DEFINE open == <<"(">>
           shut == <<")">>
           u    == open \o s
           v    == u \o shut
<1>0. Paren(s) = v
  BY DEF Paren
<1>1. "(" \in Tokens /\ ")" \in Tokens
  BY TokensAre
<1>2. open \in Seq(Tokens) /\ Len(open) = 1 /\ open[1] = "(" /\ shut \in Seq(Tokens) /\ Len(shut) = 1
  BY <1>1, OneIs
<1>3. Len(s) \in Nat
  OBVIOUS
<1>4. \A ts, p : Occurs(ts, p, open) => At(ts, p) = "(" /\ p \in Nat /\ p + 1 \in Positions(ts)
  BY <1>1, OccursOne
<1>5. \A ts, p : Occurs(ts, p, shut) => At(ts, p) = ")" /\ p \in Positions(ts)
  BY <1>1, OccursOne
<1> HIDE DEF open, shut
<1>6. u \in Seq(Tokens) /\ Len(u) = 1 + Len(s) /\ u[1] = "("
  <2>1. Len(open) >= 1
    BY <1>2
  <2>2. u \in Seq(Tokens) /\ Len(u) = Len(open) + Len(s) /\ u[1] = open[1]
    BY <1>2, <2>1, JoinedIs
  <2> QED
    BY <1>2, <2>2
<1>7. \A ts, p : Occurs(ts, p, u) => Occurs(ts, p, open) /\ Occurs(ts, p + 1, s)
  BY <1>2, OccursJoined
<1> HIDE DEF u
<1>8. v \in Seq(Tokens) /\ Len(v) = Len(s) + 2 /\ v[1] = "("
  <2>1. v \in Seq(Tokens) /\ Len(v) = Len(u) + Len(shut) /\ v[1] = u[1]
    <3>1. Len(u) >= 1
      BY <1>3, <1>6
    <3> QED
      BY <1>2, <1>6, <3>1, JoinedIs
  <2> QED
    BY <1>2, <1>3, <1>6, <2>1
<1>9. \A ts, p : Occurs(ts, p, v) => Occurs(ts, p, u) /\ Occurs(ts, p + Len(u), shut)
  BY <1>2, <1>6, OccursJoined
<1> HIDE DEF v
<1>10. ASSUME NEW ts, NEW p, Occurs(ts, p, v)
       PROVE  /\ At(ts, p) = "(" /\ p \in Nat /\ p + 1 \in Positions(ts)
              /\ Occurs(ts, p + 1, s)
              /\ At(ts, p + 1 + Len(s)) = ")" /\ p + 1 + Len(s) \in Positions(ts)
              /\ (p + 1 + Len(s)) + 1 = p + Len(v)
  <2>1. Occurs(ts, p, u) /\ Occurs(ts, p + Len(u), shut)
    BY <1>9, <1>10
  <2>2. At(ts, p) = "(" /\ p \in Nat /\ p + 1 \in Positions(ts) /\ Occurs(ts, p + 1, s)
    BY <1>4, <1>7, <2>1
  <2>3. p + Len(u) = p + 1 + Len(s) /\ (p + 1 + Len(s)) + 1 = p + Len(v)
    BY <1>3, <1>6, <1>8, <2>2
  <2> QED
    BY <1>5, <2>1, <2>2, <2>3
<1> QED
  BY <1>0, <1>8, <1>10

\* An expression in parentheses is read by every level.
LEMMA ParenWrites ==
  ASSUME NEW s, NEW x, Writes(s, x, 1)
  PROVE  Writes(Paren(s), x, 8)
<1>1. s \in Seq(Tokens)
  BY DEF Writes
<1>2. Paren(s) \in Seq(Tokens) /\ Len(Paren(s)) >= 1 /\ Paren(s)[1] # "-" /\ Paren(s)[1] # "NOT"
  BY <1>1, ParenIs
<1>3. ASSUME NEW ts, NEW p, Occurs(ts, p, Paren(s)) PROVE Reads(ts, p, p + Len(Paren(s)), x, 8)
  <2> DEFINE q == p + 1 + Len(s)
  <2>1. /\ At(ts, p) = "(" /\ p \in Nat /\ p + 1 \in Positions(ts) /\ Occurs(ts, p + 1, s)
        /\ At(ts, q) = ")" /\ q \in Positions(ts) /\ q + 1 = p + Len(Paren(s))
    BY <1>1, <1>3, ParenIs
  <2>2. Reads(ts, p + 1, q, x, 1)
    <3>1. 1 \in 1 .. 1
      OBVIOUS
    <3> QED
      BY <2>1, <3>1 DEF Writes
  <2> HIDE DEF q
  <2>3. Quiet(ts, q, 1) /\ At(ts, q) \notin GoesOn(1)
    <3>1. \A j \in 1 .. 8 : ")" \notin GoesOn(j)
      BY GoesOnIs
    <3> QED
      BY <2>1, <3>1 DEF Quiet
  <2>4. Len(ts) \in Nat
    BY <1>3 DEF Occurs
  <2>5. LevelExpr(ts, p + 1, 1) = Parsed(q, x)
    <3>1. Resume(ts, 1, Parsed(q, x)) = Parsed(q, x)
      BY <2>1, <2>3, <2>4, LoopStops
    <3> QED
      BY <2>2, <2>3, <3>1 DEF Reads
  <2>6. Parsing(ts)[<<p + 1, "expr">>] = Parsed(q, x)
    BY <2>1, <2>4, <2>5, TableAt
  <2>7. PrimaryExpr(ts, p, Parsing(ts)) = Parsed(q + 1, x)
    <3> DEFINE inner == Parsed(q, x)
               close == Expect(ts, q, ")")
    <3>1. inner.ok /\ inner.at = q /\ inner.node = x
      BY DEF Parsed
    <3>2. close.ok /\ close.at = q + 1
      BY <2>1 DEF Expect, Parsed
    <3> HIDE DEF inner, close
    <3>3. PrimaryExpr(ts, p, Parsing(ts)) = inner && close && Parsed(close.at, inner.node)
      BY <2>1, <2>6, <3>1 DEF PrimaryExpr, Enclosed, inner, close
    <3> QED
      BY <3>1, <3>2, <3>3 DEF &&
  <2> QED
    BY <2>1, <2>7 DEF Reads, LevelExpr, Resume, Loops
<1> QED
  BY <1>2, <1>3, WritesFrom

\* An operand read to its end.
LEMMA OperandReads ==
  ASSUME NEW ts, Len(ts) \in Nat, NEW p, NEW q \in Positions(ts), NEW x, NEW k \in 1 .. 8,
         Reads(ts, p, q, x, k), Quiet(ts, q, k), At(ts, q) \notin GoesOn(k)
  PROVE  LevelExpr(ts, p, k) = Parsed(q, x)
BY LoopStops DEF Reads

\* A prefix operator.
LEMMA PrefixWrites ==
  ASSUME NEW s, NEW x, NEW op \in UnaryOps,
         Writes(s, x, IF op = "neg" THEN 7 ELSE 3)
  PROVE  Writes(<<IF op = "neg" THEN "-" ELSE "NOT">> \o s, UnaryExpr(op, x), IF op = "neg" THEN 7 ELSE 3)
<1> DEFINE k     == IF op = "neg" THEN 7 ELSE 3
           token == IF op = "neg" THEN "-" ELSE "NOT"
           goal  == IF op = "neg" THEN "neg" ELSE "not"
           one   == <<token>>
           u     == one \o s
           y     == UnaryExpr(op, x)
<1>1. k \in 1 .. 8 /\ k # 8 /\ k \notin Loops /\ k \in {3, 7} /\ GoesOn(k) = {} /\ k \in 1 .. k /\ (k >= 4 => token # "NOT")
  BY GoesOnIs DEF Loops
<1>2. token \in Tokens
  BY TokensAre
<1>3. one \in Seq(Tokens) /\ Len(one) = 1 /\ one[1] = token /\ Len(one) >= 1
  BY <1>2, OneIs
<1>4. \A ts, p : Occurs(ts, p, one) => /\ At(ts, p) = token /\ p \in Positions(ts)
                                       /\ p + 1 \in Positions(ts) /\ p \in Nat /\ Len(ts) \in Nat
  BY <1>2, OccursOne
<1>5. s \in Seq(Tokens) /\ Writes(s, x, k)
  BY DEF Writes
<1> DEFINE Taken(ts, p) == LET operand == Parsing(ts)[<<p + 1, goal>>]
                           IN  operand && Parsed(operand.at, UnaryExpr(op, operand.node))
<1>6. \A ts, p : At(ts, p) = token => LevelExpr(ts, p, k) = Taken(ts, p)
  BY DEF UnaryOps, LevelExpr, NegExpr, NotExpr
<1>7. \A ts, p : Len(ts) \in Nat /\ p \in Positions(ts) =>
        Parsing(ts)[<<p, goal>>] = LevelExpr(ts, p, k)
  BY TableAt
<1> HIDE DEF k, token, goal, one
<1>8. u \in Seq(Tokens) /\ Len(u) = 1 + Len(s) /\ u[1] = token
  BY <1>3, <1>5, JoinedIs
<1>9. \A ts, p : Occurs(ts, p, u) => Occurs(ts, p, one) /\ Occurs(ts, p + 1, s)
  BY <1>3, <1>5, OccursJoined
<1>10. Len(s) \in Nat
  BY <1>5
<1> HIDE DEF u
<1>11. ASSUME NEW ts, NEW p, Occurs(ts, p, u) PROVE Reads(ts, p, p + Len(u), y, k)
  <2> DEFINE q == p + Len(u)
  <2> SUFFICES ASSUME Quiet(ts, q, k) PROVE LevelExpr(ts, p, k) = Parsed(q, y)
    BY <1>1 DEF Reads, Resume
  <2>1. /\ At(ts, p) = token /\ p \in Positions(ts) /\ p + 1 \in Positions(ts) /\ p \in Nat
        /\ Len(ts) \in Nat /\ Occurs(ts, p + 1, s)
    BY <1>4, <1>9, <1>11
  <2>2. (p + 1) + Len(s) = q /\ q \in Positions(ts)
    <3>1. (p + 1) + Len(s) = p + Len(u)
      BY <1>8, <1>10, <2>1
    <3>2. p + Len(u) \in Positions(ts)
      BY <1>8, <1>11, OccursAt
    <3> QED
      BY <3>1, <3>2
  <2>3. Reads(ts, p + 1, q, x, k)
    BY <1>1, <1>5, <2>1, <2>2 DEF Writes
  <2> HIDE DEF q
  <2>4. LevelExpr(ts, p + 1, k) = Parsed(q, x)
    <3>1. Quiet(ts, q, k) /\ At(ts, q) \notin GoesOn(k)
      BY <1>1
    <3>2. Len(ts) \in Nat /\ q \in Positions(ts) /\ k \in 1 .. 8
      BY <1>1, <2>1, <2>2
    <3> QED
      BY <2>3, <3>1, <3>2, OperandReads
  <2>5. Parsing(ts)[<<p + 1, goal>>] = Parsed(q, x)
    BY <1>7, <2>1, <2>4
  <2>6. Taken(ts, p) = Parsed(q, y)
    BY <2>5 DEF &&, Parsed
  <2> QED
    BY <1>6, <2>1, <2>6
<1> HIDE DEF y
<1>12. Len(u) >= 1
  BY <1>8, <1>10
<1>13. Writes(u, y, k)
  BY <1>1, <1>8, <1>11, <1>12, WritesFrom
<1> QED
  BY <1>13 DEF u, y, k, one, token

\* An operator of a loop is of no tighter one.
LEMMA OpsDiffer ==
  \A k \in Loops : \A op \in GoesOn(k) : /\ \A j \in k + 1 .. 8 : op \notin GoesOn(j)
                                         /\ op \in InfixOps[Levels[k]] => op # "IS"
<1>1. \A op \in ComparisonOps : op # "IS"
  BY DEF ComparisonOps
<1>2. InfixOps["cmp"] = ComparisonOps
  BY DEF InfixOps
<1>3. \A k \in Loops : k # 4 => "IS" \notin GoesOn(k)
  BY GoesOnIs DEF Loops
<1>4. \A k \in Loops : InfixOps[Levels[k]] \subseteq GoesOn(k)
  BY GoesOnIsInfix
<1>5. \A k \in Loops : \A op \in InfixOps[Levels[k]] : op # "IS"
  BY <1>1, <1>2, <1>3, <1>4, LevelsAre DEF Loops
<1>6. \A k \in Loops : \A op \in GoesOn(k) : \A j \in k + 1 .. 8 : op \notin GoesOn(j)
  <2> TAKE k \in Loops
  <2> TAKE op \in GoesOn(k)
  <2> TAKE j \in k + 1 .. 8
  <2>1. j \in 1 .. 8 /\ j > k
    BY DEF Loops
  <2> QED
    BY <2>1, GoesOnIs DEF Loops
<1> QED
  BY <1>5, <1>6

\* What a turn of a loop is made of, and the loop after it.
LEMMA TurnReads ==
  ASSUME NEW ts, Len(ts) \in Nat, NEW p, NEW m \in Positions(ts), NEW q \in Positions(ts),
         NEW k \in Loops, NEW left, NEW x,
         Reads(ts, p, m, left, k), At(ts, m) \in GoesOn(k),
         TurnsFrom(ts, m, Levels[k], Parsing(ts)) = Before(x, Parsing(ts)[<<q, Levels[k]>>])
  PROVE  LevelExpr(ts, p, k) = Resume(ts, k, Parsed(q, Attach(left, x)))
<1>1. Quiet(ts, m, k)
  BY OpsDiffer DEF Quiet
<1> QED
  BY <1>1, LoopTurns DEF Reads

\* The operand on the right of an operator of a loop.
LEMMA RightIs ==
  ASSUME NEW ts, NEW p, NEW k \in Loops
  PROVE  RightExpr(ts, p, Levels[k], Parsing(ts)) = LevelExpr(ts, p, k + 1)
BY LevelsAre DEF Loops, RightExpr, LevelExpr

\* A binary operator.
LEMMA BinaryWrites ==
  ASSUME NEW s, NEW t, NEW l, NEW r, NEW k \in Loops, NEW op \in InfixOps[Levels[k]],
         Writes(s, l, k), Writes(t, r, k + 1)
  PROVE  Writes(s \o <<op>> \o t, BinaryExpr(l, op, r), k)
<1> DEFINE one == <<op>>
           u   == s \o one
           v   == u \o t
           y   == BinaryExpr(l, op, r)
<1>1. /\ k \in 1 .. 8 /\ k + 1 \in 1 .. 8 /\ k # 8 /\ k \in 1 .. k /\ k + 1 \in 1 .. k + 1
      /\ k \in Nat /\ op \in GoesOn(k) /\ op # "IS"
  BY GoesOnIsInfix, OpsDiffer DEF Loops
<1>2. op \in Tokens
  BY <1>1, GoesOnIs, TokensAre DEF Loops
<1>3. one \in Seq(Tokens) /\ Len(one) = 1
  BY <1>2, OneIs
<1>4. \A ts, p : Occurs(ts, p, one) => /\ At(ts, p) = op /\ p \in Positions(ts)
                                       /\ p + 1 \in Positions(ts) /\ p \in Nat /\ Len(ts) \in Nat
  BY <1>2, OccursOne
<1>5. s \in Seq(Tokens) /\ t \in Seq(Tokens) /\ Len(s) >= 1 /\ Len(s) \in Nat /\ Len(t) \in Nat
        /\ (k >= 4 => s[1] # "NOT")
  BY DEF Writes
<1> HIDE DEF one
<1>6. u \in Seq(Tokens) /\ Len(u) = Len(s) + 1 /\ u[1] = s[1] /\ Len(u) >= 1
  <2>1. u \in Seq(Tokens) /\ Len(u) = Len(s) + Len(one) /\ u[1] = s[1]
    BY <1>3, <1>5, JoinedIs
  <2> QED
    BY <1>3, <1>5, <2>1
<1>7. \A ts, p : Occurs(ts, p, u) => Occurs(ts, p, s) /\ Occurs(ts, p + Len(s), one)
  BY <1>3, <1>5, OccursJoined
<1> HIDE DEF u
<1>8. v \in Seq(Tokens) /\ Len(v) = Len(s) + 1 + Len(t) /\ v[1] = s[1] /\ Len(v) >= 1
  <2>1. v \in Seq(Tokens) /\ Len(v) = Len(u) + Len(t) /\ v[1] = u[1]
    BY <1>5, <1>6, JoinedIs
  <2> QED
    BY <1>5, <1>6, <2>1
<1>9. \A ts, p : Occurs(ts, p, v) => Occurs(ts, p, u) /\ Occurs(ts, p + Len(u), t)
  BY <1>5, <1>6, OccursJoined
<1> HIDE DEF v
<1>10. ASSUME NEW ts, NEW p, Occurs(ts, p, v) PROVE Reads(ts, p, p + Len(v), y, k)
  <2> DEFINE q == p + Len(v)
             m == p + Len(s)
  <2> SUFFICES ASSUME Quiet(ts, q, k) PROVE LevelExpr(ts, p, k) = Resume(ts, k, Parsed(q, y))
    BY DEF Reads
  <2>1. Occurs(ts, p, s) /\ Occurs(ts, m, one) /\ Occurs(ts, p + Len(u), t)
    BY <1>7, <1>9, <1>10
  <2>2. At(ts, m) = op /\ m \in Positions(ts) /\ m \in Nat /\ Len(ts) \in Nat
    BY <1>4, <2>1
  <2>3. p \in Nat /\ q \in Positions(ts)
    BY <1>8, <1>10, OccursAt
  <2>4. p + Len(u) = m + 1 /\ (m + 1) + Len(t) = q
    BY <1>5, <1>6, <1>8, <2>3
  <2>5. Reads(ts, p, m, l, k)
    BY <1>1, <2>1 DEF Writes
  <2>6. Reads(ts, m + 1, q, r, k + 1)
    BY <1>1, <2>1, <2>4 DEF Writes
  <2> HIDE DEF q, m
  <2>7. Quiet(ts, q, k + 1) /\ At(ts, q) \notin GoesOn(k + 1)
    <3>1. k + 1 \in k + 1 .. 8 /\ \A j \in (k + 1) + 1 .. 8 : j \in k + 1 .. 8
      BY <1>1
    <3> QED
      BY <3>1 DEF Quiet
  <2>8. LevelExpr(ts, m + 1, k + 1) = Parsed(q, r)
    <3> DEFINE j == k + 1
               a == m + 1
    <3>1. j \in 1 .. 8 /\ Reads(ts, a, q, r, j) /\ Quiet(ts, q, j) /\ At(ts, q) \notin GoesOn(j)
      BY <1>1, <2>6, <2>7
    <3> HIDE DEF j, a
    <3>2. LevelExpr(ts, a, j) = Parsed(q, r)
      BY <2>2, <2>3, <3>1, OperandReads
    <3> QED
      BY <3>2 DEF j, a
  <2>9. RightExpr(ts, m + 1, Levels[k], Parsing(ts)) = Parsed(q, r)
    BY <2>8, RightIs
  <2>10. TurnsFrom(ts, m, Levels[k], Parsing(ts))
           = Before(BinaryExpr(None, op, r), Parsing(ts)[<<q, Levels[k]>>])
    <3> DEFINE right == Parsed(q, r)
    <3>1. right.ok /\ right.at = q /\ right.node = r
      BY DEF Parsed
    <3> HIDE DEF right
    <3>2. TurnsFrom(ts, m, Levels[k], Parsing(ts))
            = right && Before(BinaryExpr(None, op, right.node), Parsing(ts)[<<right.at, Levels[k]>>])
      BY <1>1, <2>2, <2>9 DEF TurnsFrom, TurnTo, right
    <3> QED
      BY <3>1, <3>2 DEF &&
  <2>11. Attach(l, BinaryExpr(None, op, r)) = y
    BY DEF Attach, BinaryExpr
  <2> QED
    BY <1>1, <2>2, <2>3, <2>5, <2>10, <2>11, TurnReads
<1> HIDE DEF y
<1>11. Writes(v, y, k)
  BY <1>1, <1>5, <1>8, <1>10, WritesFrom
<1> QED
  BY <1>11 DEF v, u, one, y

\* IS NULL and IS NOT NULL.
LEMMA IsNullWrites ==
  ASSUME NEW s, NEW x, NEW negated \in BOOLEAN, Writes(s, x, 4)
  PROVE  Writes(s \o (IF negated THEN <<"IS", "NOT", "NULL">> ELSE <<"IS", "NULL">>),
                IsNull(x, negated), 4)
<1> DEFINE is == IF negated THEN <<"IS", "NOT", "NULL">> ELSE <<"IS", "NULL">>
           n  == IF negated THEN 3 ELSE 2
           u  == s \o is
           y  == IsNull(x, negated)
<1>1. n \in 2 .. 3 /\ (negated => n = 3) /\ (~negated => n = 2)
  OBVIOUS
<1>2. /\ is \in Seq(Tokens) /\ Len(is) = n
      /\ is[1] = "IS" /\ is[n] = "NULL" /\ is[2] = IF negated THEN "NOT" ELSE "NULL"
  <2>1. "IS" \in Tokens /\ "NOT" \in Tokens /\ "NULL" \in Tokens
    BY TokensAre
  <2>2. CASE negated
    <3>1. is = <<"IS", "NOT", "NULL">> /\ n = 3
      BY <2>2
    <3> HIDE DEF is, n
    <3> QED
      BY <2>1, <2>2, <3>1
  <2>3. CASE ~negated
    <3>1. is = <<"IS", "NULL">> /\ n = 2
      BY <2>3
    <3> HIDE DEF is, n
    <3> QED
      BY <2>1, <2>3, <3>1
  <2> QED
    BY <2>2, <2>3
<1>3. s \in Seq(Tokens) /\ Len(s) >= 1 /\ Len(s) \in Nat /\ s[1] # "NOT"
  BY DEF Writes
<1> HIDE DEF is, n
<1>4. u \in Seq(Tokens) /\ Len(u) = Len(s) + n /\ u[1] = s[1] /\ Len(u) >= 1
  <2>1. u \in Seq(Tokens) /\ Len(u) = Len(s) + Len(is) /\ u[1] = s[1]
    BY <1>2, <1>3, JoinedIs
  <2> QED
    BY <1>1, <1>2, <1>3, <2>1
<1>5. \A ts, p : Occurs(ts, p, u) => Occurs(ts, p, s) /\ Occurs(ts, p + Len(s), is)
  BY <1>2, <1>3, OccursJoined
<1> HIDE DEF u
<1>6. ASSUME NEW ts, NEW p, Occurs(ts, p, u) PROVE Reads(ts, p, p + Len(u), y, 4)
  <2> DEFINE q == p + Len(u)
             m == p + Len(s)
  <2> SUFFICES LevelExpr(ts, p, 4) = Resume(ts, 4, Parsed(q, y))
    BY DEF Reads
  <2>1. Occurs(ts, p, s) /\ Occurs(ts, m, is) /\ Len(ts) \in Nat
    <3>1. Len(ts) \in Nat
      BY <1>6 DEF Occurs
    <3> QED
      BY <1>5, <1>6, <3>1
  <2>2. p \in Nat /\ q \in Positions(ts)
    BY <1>4, <1>6, OccursAt
  <2>3. m \in Nat /\ q = m + n
    BY <1>1, <1>3, <1>4, <2>2
  <2>4. \A i \in 1 .. n : At(ts, m + i - 1) = is[i] /\ m + i - 1 \in Positions(ts)
    BY <1>2, <2>1, OccursAt
  <2>5. Reads(ts, p, m, x, 4)
    <3>1. 4 \in 1 .. 4
      OBVIOUS
    <3> QED
      BY <2>1, <3>1 DEF Writes
  <2> HIDE DEF q, m
  <2>6. At(ts, m) = "IS" /\ m \in Positions(ts)
    <3>1. 1 \in 1 .. n /\ m + 1 - 1 = m
      BY <1>1, <2>3
    <3> QED
      BY <1>2, <2>4, <3>1
  <2>7. At(ts, m + 1) = IF negated THEN "NOT" ELSE "NULL"
    <3>1. 2 \in 1 .. n /\ m + 2 - 1 = m + 1
      BY <1>1, <2>3
    <3> QED
      BY <1>2, <2>4, <3>1
  <2>8. At(ts, m + n - 1) = "NULL" /\ m + n - 1 = m + (IF negated THEN 2 ELSE 1)
    <3>1. n \in 1 .. n /\ m + n - 1 = m + (IF negated THEN 2 ELSE 1)
      BY <1>1, <2>3
    <3> QED
      BY <1>2, <2>4, <3>1
  <2>9. 4 \in Loops /\ Levels[4] = "cmp" /\ "IS" \in GoesOn(4)
    BY LevelsAre, GoesOnIs DEF Loops
  <2>10. TurnsFrom(ts, m, Levels[4], Parsing(ts))
           = Before(IsNull(None, negated), Parsing(ts)[<<q, Levels[4]>>])
    <3> DEFINE null == Expect(ts, m + (IF negated THEN 2 ELSE 1), "NULL")
    <3>1. (At(ts, m + 1) = "NOT") = negated
      BY <2>7
    <3>2. null.ok /\ null.at = q
      <4>1. (m + n - 1) + 1 = q
        BY <1>1, <2>3
      <4>2. null = Parsed((m + n - 1) + 1, None)
        BY <2>8 DEF Expect
      <4> QED
        BY <4>1, <4>2 DEF Parsed
    <3>3. TurnsFrom(ts, m, "cmp", Parsing(ts))
            = null && Before(IsNull(None, negated), Parsing(ts)[<<null.at, "cmp">>])
      BY <2>6, <3>1 DEF TurnsFrom
    <3> HIDE DEF null
    <3> QED
      BY <2>9, <3>2, <3>3 DEF &&
  <2>11. Attach(x, IsNull(None, negated)) = y
    BY DEF Attach, IsNull
  <2> QED
    BY <2>1, <2>2, <2>5, <2>6, <2>9, <2>10, <2>11, TurnReads
<1> HIDE DEF y
<1>7. Writes(u, y, 4)
  <2>1. 4 \in 1 .. 8 /\ 4 # 8
    OBVIOUS
  <2> QED
    BY <1>3, <1>4, <1>6, <2>1, WritesFrom
<1> QED
  BY <1>7 DEF u, is, y

\* An expression that can be written is a leaf of one token, or an operator over such.
LEMMA WrittenShape ==
  ASSUME NEW x \in Written
  PROVE  \/ \E t \in LiteralTokens : x = Lit(Meaning(t))
         \/ \E t \in Names : x = Col(t)
         \/ x.k = "isnull" /\ x = IsNull(x.e, x.negated) /\ x.e \in Written /\ x.negated \in BOOLEAN
         \/ x.k = "unary" /\ x = UnaryExpr(x.op, x.e) /\ x.op \in UnaryOps /\ x.e \in Written
         \/ x.k = "binary" /\ x = BinaryExpr(x.l, x.op, x.r) /\ x.op \in BinaryOps
            /\ x.l \in Written /\ x.r \in Written
<1>1. AreLeaves(WrittenLeaves)
  BY DEF AreLeaves, WrittenLeaves, Lit, Col
<1>2. x \in WrittenLeaves \/ x \in Over(Written)
  BY <1>1, KidsAreTrees DEF Written, All
<1>3. CASE x \in WrittenLeaves
  BY <1>3 DEF WrittenLeaves
<1>4. CASE x \in Over(Written)
  <2> HIDE DEF Written
  <2> QED
    BY <1>4 DEF Over, IsNull, UnaryExpr, BinaryExpr
<1> QED
  BY <1>2, <1>3, <1>4

\* The level of an operator is its rank.
LEMMA RankIs ==
  ASSUME NEW x \in Written
  PROVE  /\ Rank(x) \in 1 .. 8
         /\ x.k \in {"lit", "col"} => Rank(x) = 8
         /\ x.k = "isnull" => Rank(x) = 4
         /\ x.k = "unary" => Rank(x) = IF x.op = "neg" THEN 7 ELSE 3
         /\ x.k = "binary" => Rank(x) \in Loops /\ x.op \in InfixOps[Levels[Rank(x)]]
<1>1. CASE \E t \in LiteralTokens : x = Lit(Meaning(t))
  <2>1. x.k = "lit"
    BY <1>1 DEF Lit
  <2> QED
    BY <2>1 DEF Rank
<1>2. CASE \E t \in Names : x = Col(t)
  <2>1. x.k = "col"
    BY <1>2 DEF Col
  <2> QED
    BY <2>1 DEF Rank
<1>3. CASE x.k = "isnull"
  BY <1>3 DEF Rank
<1>4. CASE x.k = "unary" /\ x.op \in UnaryOps
  BY <1>4 DEF Rank, UnaryOps
<1>5. CASE x.k = "binary" /\ x.op \in BinaryOps
  <2>1. /\ InfixOps["or"] = {"OR"} /\ InfixOps["and"] = {"AND"} /\ InfixOps["add"] = {"+", "-"}
        /\ InfixOps["mul"] = {"*", "/"} /\ InfixOps["cmp"] = ComparisonOps
    BY DEF InfixOps
  <2>2. CASE x.op \in {"*", "/"}
    <3>1. Rank(x) = 6
      BY <1>5, <2>2 DEF Rank, ComparisonOps
    <3> QED
      BY <1>5, <2>1, <2>2, <3>1, LevelsAre DEF Loops
  <2>3. CASE x.op \in {"+", "-"}
    <3>1. Rank(x) = 5
      BY <1>5, <2>3 DEF Rank, ComparisonOps
    <3> QED
      BY <1>5, <2>1, <2>3, <3>1, LevelsAre DEF Loops
  <2>4. CASE x.op \in ComparisonOps
    <3>1. Rank(x) = 4
      BY <1>5, <2>4 DEF Rank, ComparisonOps
    <3> QED
      BY <1>5, <2>1, <2>4, <3>1, LevelsAre DEF Loops
  <2>5. CASE x.op = "AND"
    <3>1. Rank(x) = 2
      BY <1>5, <2>5 DEF Rank, ComparisonOps
    <3> QED
      BY <1>5, <2>1, <2>5, <3>1, LevelsAre DEF Loops
  <2>6. CASE x.op = "OR"
    <3>1. Rank(x) = 1
      BY <1>5, <2>6 DEF Rank, ComparisonOps
    <3> QED
      BY <1>5, <2>1, <2>6, <3>1, LevelsAre DEF Loops
  <2> QED
    BY <1>5, <2>2, <2>3, <2>4, <2>5, <2>6 DEF BinaryOps, ArithmeticOps, LogicOps
<1> QED
  BY <1>1, <1>2, <1>3, <1>4, <1>5, WrittenShape

\* Spelling an operator out is a text of it if the operands are texts of theirs.
LEMMA SpelledWrites ==
  ASSUME NEW x \in Written, NEW s, NEW t,
         x.k \notin {"lit", "col"} => Writes(s, First(x), FirstRank(x)),
         x.k = "binary" => Writes(t, Second(x), SecondRank(x))
  PROVE  Writes(Spelled(x, s, t), x, Rank(x))
<1>1. CASE \E token \in LiteralTokens : x = Lit(Meaning(token))
  <2>1. PICK token \in LiteralTokens : x = Lit(Meaning(token))
    BY <1>1
  <2>2. TokenOf(x.v) \in LiteralTokens /\ Meaning(TokenOf(x.v)) = Meaning(token)
    BY <2>1 DEF TokenOf, Lit
  <2>3. x.k = "lit" /\ Rank(x) = 8 /\ Spelled(x, s, t) = <<TokenOf(x.v)>>
    BY <2>1 DEF Lit, Rank, Spelled
  <2>4. TokenOf(x.v) \notin Names
    BY <2>2, TokensAre
  <2> QED
    BY <2>1, <2>2, <2>3, <2>4, LeafWrites
<1>2. CASE \E token \in Names : x = Col(token)
  <2>1. PICK token \in Names : x = Col(token)
    BY <1>2
  <2>2. x.k = "col" /\ Rank(x) = 8 /\ Spelled(x, s, t) = <<token>>
    BY <2>1 DEF Col, Rank, Spelled
  <2> QED
    BY <2>1, <2>2, LeafWrites
<1>3. CASE x.k = "isnull" /\ x = IsNull(x.e, x.negated) /\ x.negated \in BOOLEAN
  <2>1. Rank(x) = 4
    BY <1>3, RankIs
  <2>2. Writes(s, x.e, 4)
    BY <1>3, <2>1 DEF First, FirstRank
  <2>3. Spelled(x, s, t) = s \o (IF x.negated THEN <<"IS", "NOT", "NULL">> ELSE <<"IS", "NULL">>)
    BY <1>3 DEF Spelled
  <2> QED
    BY <1>3, <2>1, <2>2, <2>3, IsNullWrites
<1>4. CASE x.k = "unary" /\ x = UnaryExpr(x.op, x.e) /\ x.op \in UnaryOps
  <2>1. Rank(x) = IF x.op = "neg" THEN 7 ELSE 3
    BY <1>4, RankIs
  <2>2. Writes(s, x.e, IF x.op = "neg" THEN 7 ELSE 3)
    BY <1>4, <2>1 DEF First, FirstRank
  <2>3. Spelled(x, s, t) = <<IF x.op = "neg" THEN "-" ELSE "NOT">> \o s
    BY <1>4 DEF Spelled
  <2> QED
    BY <1>4, <2>1, <2>2, <2>3, PrefixWrites
<1>5. CASE x.k = "binary" /\ x = BinaryExpr(x.l, x.op, x.r)
  <2>1. Rank(x) \in Loops /\ x.op \in InfixOps[Levels[Rank(x)]]
    BY <1>5, RankIs
  <2>2. Writes(s, x.l, Rank(x)) /\ Writes(t, x.r, Rank(x) + 1)
    BY <1>5 DEF First, FirstRank, Second, SecondRank
  <2>3. Spelled(x, s, t) = s \o <<x.op>> \o t
    BY <1>5 DEF Spelled
  <2> QED
    BY <1>5, <2>1, <2>2, <2>3, BinaryWrites
<1> QED
  BY <1>1, <1>2, <1>3, <1>4, <1>5, WrittenShape

\* Texts are made of tokens.
LEMMA ConcatIs ==
  ASSUME NEW s \in Seq(Tokens), NEW t \in Seq(Tokens)
  PROVE  s \o t \in Seq(Tokens)
OBVIOUS

\* The spelling of an expression from the texts of its operands is a text.
LEMMA SpelledIsText ==
  ASSUME NEW x \in Written, NEW s \in Seq(Tokens), NEW t \in Seq(Tokens)
  PROVE  Spelled(x, s, t) \in Seq(Tokens) /\ Paren(s) \in Seq(Tokens)
<1>1. Paren(s) \in Seq(Tokens)
  BY ParenIs
<1>2. CASE \E token \in LiteralTokens : x = Lit(Meaning(token))
  <2>1. PICK token \in LiteralTokens : x = Lit(Meaning(token))
    BY <1>2
  <2>2. TokenOf(x.v) \in Tokens
    BY <2>1, TokensAre DEF TokenOf, Lit
  <2>3. Spelled(x, s, t) = <<TokenOf(x.v)>>
    BY <2>1 DEF Lit, Spelled
  <2> QED
    BY <1>1, <2>2, <2>3, OneIs
<1>3. CASE \E token \in Names : x = Col(token)
  <2>1. PICK token \in Names : x = Col(token)
    BY <1>3
  <2>2. Spelled(x, s, t) = <<token>> /\ token \in Tokens
    BY <2>1, TokensAre DEF Col, Spelled
  <2> QED
    BY <1>1, <2>2, OneIs
<1>4. CASE x.k = "isnull"
  <2> DEFINE is == IF x.negated THEN <<"IS", "NOT", "NULL">> ELSE <<"IS", "NULL">>
  <2>1. Spelled(x, s, t) = s \o is
    BY <1>4 DEF Spelled
  <2>2. is \in Seq(Tokens)
    <3>1. "IS" \in Tokens /\ "NOT" \in Tokens /\ "NULL" \in Tokens
      BY TokensAre
    <3> QED
      BY <3>1
  <2> HIDE DEF is
  <2> QED
    BY <1>1, <2>1, <2>2, ConcatIs
<1>5. CASE x.k = "unary"
  <2> DEFINE token == IF x.op = "neg" THEN "-" ELSE "NOT"
  <2>1. Spelled(x, s, t) = <<token>> \o s
    BY <1>5 DEF Spelled
  <2>2. token \in Tokens
    BY TokensAre
  <2> HIDE DEF token
  <2>3. <<token>> \in Seq(Tokens)
    BY <2>2
  <2> QED
    BY <1>1, <2>1, <2>3, ConcatIs
<1>6. CASE x.k = "binary" /\ x.op \in BinaryOps
  <2>1. Spelled(x, s, t) = s \o <<x.op>> \o t
    BY <1>6 DEF Spelled
  <2>2. x.op \in Tokens
    <3>1. \A op \in BinaryOps : op \in {"+", "-", "*", "/", "=", "<>", "<", "<=", ">", ">=", "AND", "OR"}
      BY DEF BinaryOps, ArithmeticOps, LogicOps, ComparisonOps
    <3> QED
      BY <1>6, <3>1, TokensAre
  <2>3. <<x.op>> \in Seq(Tokens)
    BY <2>2
  <2>4. s \o <<x.op>> \in Seq(Tokens)
    BY <2>3, ConcatIs
  <2>5. (s \o <<x.op>>) \o t \in Seq(Tokens)
    BY <2>4, ConcatIs
  <2> QED
    BY <1>1, <2>1, <2>5
<1> QED
  BY <1>2, <1>3, <1>4, <1>5, <1>6, WrittenShape

\* Operands of an expression that can be written.
LEMMA WrittenKids ==
  ASSUME NEW x \in Written
  PROVE  /\ Kids(x) \subseteq Written
         /\ x.k \notin {"lit", "col"} => x.k \in {"isnull", "unary", "binary"} /\ First(x) \in Kids(x)
                                         /\ Second(x) \in Kids(x)
<1>1. AreLeaves(WrittenLeaves)
  BY DEF AreLeaves, WrittenLeaves, Lit, Col
<1>2. Kids(x) \subseteq Written
  BY <1>1, KidsAreTrees DEF Written, All
<1>3. x.k \in {"lit", "col", "isnull", "unary", "binary"}
  BY WrittenShape DEF Lit, Col
<1> QED
  BY <1>2, <1>3 DEF Kids, First, Second

-----------------------------------------------------------------------------
(* The recursive functions of rendering.                                   *)

\* The text of an expression with only the parentheses that are needed, given that of others.
SparseBy(x, bare) ==
  Spelled(x, InPlace(First(x), FirstRank(x), bare), InPlace(Second(x), SecondRank(x), bare))

\* Sparse is the recursive function it is defined by.
LEMMA SparseIs ==
  \E f : /\ f = [x \in Written |-> SparseBy(x, f)]
         /\ \A e : Sparse(e) = f[e]
<1> DEFINE V == Seq(Tokens)
           Placed(y, rank, s) == IF Rank(y) < rank THEN Paren(s) ELSE s
           With(x, v, w) == Spelled(x, Placed(First(x), FirstRank(x), v), Placed(Second(x), SecondRank(x), w))
           g == [p \in Written \X V \X V |-> With(p[1], p[2], IF p[1].k = "binary" THEN p[3] ELSE p[2])]
           Solves(f) == f = [x \in Written |-> SparseBy(x, f)]
<1>1. <<>> \in V
  OBVIOUS
<1>2. ASSUME NEW x \in Written, NEW v \in V, NEW w \in V
      PROVE  /\ g[<<x, v, w>>] = With(x, v, IF x.k = "binary" THEN w ELSE v)
             /\ g[<<x, v, w>>] \in V
  <2>1. \A y, rank : \A s \in V : Placed(y, rank, s) \in V
    BY ParenIs
  <2> HIDE DEF Placed
  <2>2. With(x, v, IF x.k = "binary" THEN w ELSE v) \in V
    BY <2>1, SpelledIsText
  <2> HIDE DEF With
  <2> QED
    BY <2>2
<1>3. Makes(g, V, <<>>, All(WrittenLeaves))
  BY <1>1, <1>2 DEF Makes, Written, All
<1>4. AreLeaves(WrittenLeaves)
  BY DEF AreLeaves, WrittenLeaves, Lit, Col
<1> HIDE DEF g, V
<1>5. PICK f : IsMadeBy(f, g, V, <<>>, All(WrittenLeaves))
  BY <1>3, <1>4, TreeRecursion
<1>6. All(WrittenLeaves) = Written
  BY DEF All, Written
<1>7. ASSUME NEW x \in Written PROVE f[x] = SparseBy(x, f)
  <2> DEFINE v == Fst(f, x, <<>>)
             w == Snd(f, x, <<>>)
  <2>1. f[x] = g[<<x, v, w>>] /\ \A y \in Written : f[y] \in V
    BY <1>5, <1>6 DEF IsMadeBy
  <2>2. v \in V /\ w \in V
    BY <1>1, <2>1, WrittenKids DEF Fst, Snd, Kids
  <2>3. f[x] = With(x, v, IF x.k = "binary" THEN w ELSE v)
    BY <1>2, <2>1, <2>2
  <2>4. CASE x.k \in {"lit", "col"}
    BY <2>3, <2>4 DEF SparseBy, Spelled
  <2>5. CASE x.k \in {"isnull", "unary", "binary"}
    <3>1. v = f[First(x)] /\ (IF x.k = "binary" THEN w ELSE v) = f[Second(x)]
      BY <2>5 DEF Fst, Snd, First, Second
    <3> HIDE DEF v, w
    <3> QED
      BY <2>3, <3>1 DEF SparseBy, InPlace
  <2> QED
    BY <2>4, <2>5, WrittenKids
<1>8. Solves(f)
  BY <1>5, <1>6, <1>7 DEF IsMadeBy
<1>9. Solves(CHOOSE h : Solves(h))
  BY <1>8
<1>10. \A e : Sparse(e) = (CHOOSE h : Solves(h))[e]
  BY DEF Sparse, SparseBy
<1> QED
  BY <1>9, <1>10

\* It is a text of it for its rank.
LEMMA SparseWrites == \A e \in Written : Writes(Sparse(e), e, Rank(e))
<1>1. PICK f : f = [x \in Written |-> SparseBy(x, f)] /\ \A e : Sparse(e) = f[e]
  BY SparseIs
<1> DEFINE S == {x \in Written : Writes(f[x], x, Rank(x))}
<1>2. ASSUME NEW x \in Written, Kids(x) \subseteq S PROVE x \in S
  <2> DEFINE s == InPlace(First(x), FirstRank(x), f)
             t == InPlace(Second(x), SecondRank(x), f)
  <2>1. ASSUME NEW y \in S, NEW k \in 1 .. 8 PROVE Writes(InPlace(y, k, f), y, k)
    <3>1. Rank(y) \in 1 .. 8 /\ Writes(f[y], y, Rank(y))
      BY RankIs
    <3>2. CASE Rank(y) < k
      <4>1. 1 \in 1 .. Rank(y) /\ 8 \in 1 .. 8 /\ k \in 1 .. 8
        BY <3>1
      <4>2. Writes(f[y], y, 1)
        BY <3>1, <4>1, WritesLess
      <4>3. Writes(Paren(f[y]), y, 8)
        BY <4>2, ParenWrites
      <4>4. Writes(Paren(f[y]), y, k)
        BY <4>1, <4>3, WritesLess
      <4> QED
        BY <3>2, <4>4 DEF InPlace
    <3>3. CASE ~(Rank(y) < k)
      <4>1. k \in 1 .. Rank(y)
        BY <3>1, <3>3
      <4>2. Writes(f[y], y, k)
        BY <3>1, <4>1, WritesLess
      <4> QED
        BY <3>3, <4>2 DEF InPlace
    <3> QED
      BY <3>2, <3>3
  <2>2. x.k \notin {"lit", "col"} => Writes(s, First(x), FirstRank(x))
    <3>1. FirstRank(x) \in 1 .. 8
      BY RankIs DEF FirstRank
    <3> QED
      BY <1>2, <2>1, <3>1, WrittenKids
  <2>3. x.k = "binary" => Writes(t, Second(x), SecondRank(x))
    <3>1. x.k = "binary" => SecondRank(x) \in 1 .. 8
      BY RankIs DEF SecondRank, Loops
    <3>2. x.k = "binary" => x.k \notin {"lit", "col"}
      OBVIOUS
    <3> QED
      BY <1>2, <2>1, <3>1, <3>2, WrittenKids
  <2>4. f[x] = Spelled(x, s, t)
    BY <1>1 DEF SparseBy
  <2> HIDE DEF s, t
  <2> QED
    BY <2>2, <2>3, <2>4, SpelledWrites
<1>3. AreLeaves(WrittenLeaves) /\ All(WrittenLeaves) = Written
  BY DEF AreLeaves, WrittenLeaves, Lit, Col, All, Written
<1> HIDE DEF S
<1>4. Written \subseteq S
  BY <1>2, <1>3, TreeInduction
<1> QED
  BY <1>1, <1>4 DEF S

\* With parentheses around every operator, it is one for every level.
LEMMA RenderWrites == \A e \in Written : Writes(Render(e), e, 8)
<1> DEFINE V == Seq(Tokens)
           Bare(x, v, w) == IF x.k \in {"lit", "col"} THEN Spelled(x, v, w) ELSE Paren(Spelled(x, v, w))
           By(x, f) == LET bare == Spelled(x, f[First(x)], f[Second(x)])
                       IN  IF x.k \in {"lit", "col"} THEN bare ELSE Paren(bare)
           g == [p \in Written \X V \X V |-> Bare(p[1], p[2], IF p[1].k = "binary" THEN p[3] ELSE p[2])]
           Solves(f) == f = [x \in Written |-> By(x, f)]
<1>1. <<>> \in V
  OBVIOUS
<1>2. ASSUME NEW x \in Written, NEW v \in V, NEW w \in V
      PROVE  /\ g[<<x, v, w>>] = Bare(x, v, IF x.k = "binary" THEN w ELSE v)
             /\ g[<<x, v, w>>] \in V
  <2>1. Bare(x, v, IF x.k = "binary" THEN w ELSE v) \in V
    BY ParenIs, SpelledIsText
  <2> HIDE DEF Bare
  <2> QED
    BY <2>1
<1>3. Makes(g, V, <<>>, All(WrittenLeaves))
  BY <1>1, <1>2 DEF Makes, Written, All
<1>4. AreLeaves(WrittenLeaves) /\ All(WrittenLeaves) = Written
  BY DEF AreLeaves, WrittenLeaves, Lit, Col, All, Written
<1> HIDE DEF g, V
<1>5. PICK f : IsMadeBy(f, g, V, <<>>, All(WrittenLeaves))
  BY <1>3, <1>4, TreeRecursion
<1>6. ASSUME NEW x \in Written PROVE f[x] = By(x, f)
  <2> DEFINE v == Fst(f, x, <<>>)
             w == Snd(f, x, <<>>)
  <2>1. f[x] = g[<<x, v, w>>] /\ \A y \in Written : f[y] \in V
    BY <1>4, <1>5 DEF IsMadeBy
  <2>2. v \in V /\ w \in V
    BY <1>1, <2>1, WrittenKids DEF Fst, Snd, Kids
  <2>3. f[x] = Bare(x, v, IF x.k = "binary" THEN w ELSE v)
    BY <1>2, <2>1, <2>2
  <2>4. CASE x.k \in {"lit", "col"}
    BY <2>3, <2>4 DEF Spelled
  <2>5. CASE x.k \in {"isnull", "unary", "binary"}
    <3>1. v = f[First(x)] /\ (IF x.k = "binary" THEN w ELSE v) = f[Second(x)]
      BY <2>5 DEF Fst, Snd, First, Second
    <3> HIDE DEF v, w
    <3> QED
      BY <2>3, <3>1
  <2> QED
    BY <2>4, <2>5, WrittenKids
<1>7. Solves(f)
  BY <1>4, <1>5, <1>6 DEF IsMadeBy
<1> DEFINE text == CHOOSE h : Solves(h)
<1>8. Solves(text)
  BY <1>7
<1>9. \A e : Render(e) = text[e]
  BY DEF Render
<1> HIDE DEF text
<1>10. \A x \in Written : text[x] = By(x, text)
  BY <1>8
<1> DEFINE S == {x \in Written : Writes(text[x], x, 8)}
<1>11. ASSUME NEW x \in Written, Kids(x) \subseteq S PROVE x \in S
  <2> DEFINE s == text[First(x)]
             t == text[Second(x)]
  <2>1. ASSUME NEW y \in S, NEW k \in 1 .. 8 PROVE Writes(text[y], y, k)
    <3>1. Writes(text[y], y, 8) /\ 8 \in 1 .. 8
      OBVIOUS
    <3> QED
      BY <3>1, WritesLess
  <2>2. Rank(x) \in 1 .. 8
    BY RankIs
  <2>3. x.k \notin {"lit", "col"} => Writes(s, First(x), FirstRank(x))
    BY <1>11, <2>1, <2>2, WrittenKids DEF FirstRank
  <2>4. x.k = "binary" => Writes(t, Second(x), SecondRank(x))
    <3>1. x.k = "binary" => SecondRank(x) \in 1 .. 8
      BY RankIs DEF SecondRank, Loops
    <3>2. x.k = "binary" => x.k \notin {"lit", "col"}
      OBVIOUS
    <3> QED
      BY <1>11, <2>1, <3>1, <3>2, WrittenKids
  <2>5. text[x] = IF x.k \in {"lit", "col"} THEN Spelled(x, s, t) ELSE Paren(Spelled(x, s, t))
    BY <1>10
  <2> HIDE DEF s, t
  <2>6. Writes(Spelled(x, s, t), x, Rank(x))
    BY <2>3, <2>4, SpelledWrites
  <2>7. CASE x.k \in {"lit", "col"}
    BY <2>5, <2>6, <2>7, RankIs
  <2>8. CASE x.k \notin {"lit", "col"}
    <3>1. 1 \in 1 .. Rank(x)
      BY <2>2
    <3>2. Writes(Spelled(x, s, t), x, 1)
      BY <2>2, <2>6, <3>1, WritesLess
    <3> QED
      BY <2>5, <2>8, <3>2, ParenWrites
  <2> QED
    BY <2>7, <2>8
<1> HIDE DEF S
<1>12. Written \subseteq S
  BY <1>4, <1>11, TreeInduction
<1> QED
  BY <1>9, <1>12 DEF S

-----------------------------------------------------------------------------
\* A text of an expression reads as the expression, wherever it stands, if no operator follows.
LEMMA FullExprReads ==
  ASSUME NEW s, NEW x, NEW k \in 1 .. 8, Writes(s, x, k), NEW ts, NEW p, Occurs(ts, p, s),
         \A j \in 1 .. 8 : At(ts, p + Len(s)) \notin GoesOn(j)
  PROVE  FullExpr(ts, p) = Parsed(p + Len(s), x)
<1> DEFINE q == p + Len(s)
<1>1. s \in Seq(Tokens) /\ Len(ts) \in Nat /\ p \in Positions(ts)
  BY DEF Writes, Occurs
<1>2. q \in Positions(ts)
  BY <1>1, OccursAt
<1>3. 1 \in 1 .. k /\ 1 \in 1 .. 8 /\ \A j \in 1 + 1 .. 8 : j \in 1 .. 8
  OBVIOUS
<1>4. Reads(ts, p, q, x, 1)
  BY <1>3 DEF Writes
<1>5. Quiet(ts, q, 1) /\ At(ts, q) \notin GoesOn(1)
  BY <1>3 DEF Quiet
<1> HIDE DEF q
<1>6. LevelExpr(ts, p, 1) = Parsed(q, x)
  BY <1>1, <1>2, <1>3, <1>4, <1>5, OperandReads
<1> QED
  BY <1>1, <1>6, TableAt DEF FullExpr, q

\* A text stands in itself.
LEMMA OccursInItself ==
  ASSUME NEW s \in Seq(Tokens)
  PROVE  Occurs(s, 1, s) /\ 1 + Len(s) = Len(s) + 1 /\ At(s, 1 + Len(s)) = End
<1>1. Len(s) \in Nat
  OBVIOUS
<1>2. 1 \in Positions(s) /\ 1 + Len(s) <= Len(s) + 1 /\ 1 + Len(s) = Len(s) + 1 /\ ~(1 + Len(s) <= Len(s))
  BY <1>1 DEF Positions
<1>3. \A i \in 1 .. Len(s) : 1 + i - 1 = i
  BY <1>1
<1> QED
  BY <1>1, <1>2, <1>3 DEF Occurs, At

\* No level goes on at the end of the text.
LEMMA EndGoesOn == \A j \in 1 .. 8 : End \notin GoesOn(j)
<1>1. \A j \in 1 .. 8 : GoesOn(j) \subseteq {"OR", "AND", "=", "<>", "<", "<=", ">", ">=", "IS", "+", "-", "*", "/"}
  BY GoesOnIs
<1> QED
  BY <1>1 DEF End

\* Every expression that can be written parses to itself, with only the parentheses that the
\* documented precedence makes necessary.
LEMMA PrecedenceForAll == \A e \in Written : ParsesAsDocumented(e)
<1> TAKE e \in Written
<1>1. Writes(Sparse(e), e, Rank(e)) /\ Rank(e) \in 1 .. 8
  BY SparseWrites, RankIs
<1> DEFINE s == Sparse(e)
<1>2. Occurs(s, 1, s) /\ 1 + Len(s) = Len(s) + 1 /\ At(s, 1 + Len(s)) = End
  BY <1>1, OccursInItself DEF Writes
<1> HIDE DEF s
<1>3. FullExpr(s, 1) = Parsed(1 + Len(s), e)
  BY <1>1, <1>2, EndGoesOn, FullExprReads DEF s
<1> QED
  BY <1>2, <1>3 DEF ParsesAsDocumented, s

\* The expressions that grow can be written.
LEMMA GrownAreWritten ==
  ASSUME ExprInv
  PROVE  expr \in Written
<1>1. Given \subseteq WrittenLeaves
  BY SentencesAssumption DEF Given
<1> QED
  BY <1>1, GrownAreTrees DEF All, Written

\* Parsing binds operators as the heading of parser.rs lists them, for every expression of any
\* height: the sparsest text the grammar allows is read as the expression it was written from.
THEOREM PrecedenceIsAlwaysAsDocumented == ExprSpec => []PrecedenceIsAsDocumented
<1>1. ExprInv => PrecedenceIsAsDocumented
  BY GrownAreWritten, PrecedenceForAll DEF PrecedenceIsAsDocumented
<1> QED
  BY <1>1, ExpressionsStayShallow, PTL

-----------------------------------------------------------------------------
(* A text and what it begins.                                              *)

Begins(s, t) ==
  /\ Len(s) \in Nat /\ Len(t) \in Nat /\ Len(s) <= Len(t)
  /\ \A i \in 1 .. Len(s) : s[i] = t[i]

\* At p, the result a in s meets the result b in t: it is the same unless it is at the end of s.
Meets(s, p, a, b) == Within(s, p, a) /\ (a = b \/ a.at = Len(s) + 1)

\* Positions and tokens of a beginning are those of the whole.
LEMMA BeginsAt ==
  ASSUME NEW s, NEW t, Begins(s, t), NEW p \in Positions(s)
  PROVE  /\ p \in Nat /\ p <= Len(s) + 1 /\ p \in Positions(t) /\ Len(s) \in Nat /\ Len(t) \in Nat
         /\ p <= Len(s) => At(s, p) = At(t, p) /\ p + 1 \in Positions(s)
         /\ p = Len(s) + 1 => At(s, p) = End
<1>1. p \in Nat /\ 1 <= p /\ p <= Len(s) + 1 /\ Len(s) \in Nat /\ Len(t) \in Nat /\ Len(s) <= Len(t)
  BY DEF Begins, Positions
<1>2. p \in Positions(t)
  BY <1>1 DEF Positions
<1>3. ASSUME p <= Len(s) PROVE At(s, p) = At(t, p) /\ p + 1 \in Positions(s)
  <2>1. p \in 1 .. Len(s) /\ p <= Len(t)
    BY <1>1, <1>3
  <2>2. p + 1 \in Positions(s)
    BY <1>1, <1>3 DEF Positions
  <2> QED
    BY <1>3, <2>1, <2>2 DEF Begins, At
<1>4. ASSUME p = Len(s) + 1 PROVE At(s, p) = End
  <2>1. ~(p <= Len(s))
    BY <1>1, <1>4
  <2> QED
    BY <2>1 DEF At
<1> QED
  BY <1>1, <1>2, <1>3, <1>4

\* What is within the text meets anything at the end.
LEMMA MeetsAtEnd ==
  ASSUME NEW s, Len(s) \in Nat, NEW a, NEW b, Within(s, Len(s) + 1, a)
  PROVE  Meets(s, Len(s) + 1, a, b)
BY DEF Within, Meets

\* Equal results meet.
LEMMA MeetsSame ==
  ASSUME NEW s, NEW p, NEW a, Within(s, p, a)
  PROVE  Meets(s, p, a, a)
BY DEF Meets

\* Results that meet from further on meet from here.
LEMMA MeetsFurther ==
  ASSUME NEW s, NEW p \in Nat, NEW q \in Nat, p <= q, NEW a, NEW b, Meets(s, q, a, b)
  PROVE  Meets(s, p, a, b)
BY WithinFurther DEF Meets

\* One part of a parse after another: z is what t has for the next part where s goes on.
LEMMA ThenMeets ==
  ASSUME NEW s, Len(s) \in Nat, NEW p \in Nat, NEW a, NEW b, Meets(s, p, a, b),
         NEW x, NEW y, NEW z, a.ok => Meets(s, a.at, x, z), a = b => y = z
  PROVE  Meets(s, p, a && x, b && y)
<1>1. Within(s, p, a) /\ a.at \in Nat /\ p <= a.at /\ a.at <= Len(s) + 1
  BY DEF Meets, Within
<1>2. CASE a.ok
  <2>1. Meets(s, p, x, z)
    BY <1>1, <1>2, MeetsFurther
  <2>2. (a && x) = x
    BY <1>2 DEF &&
  <2>3. CASE a = b
    <3>1. (b && y) = z
      BY <1>2, <2>3 DEF &&
    <3> QED
      BY <2>1, <2>2, <3>1
  <2>4. CASE a.at = Len(s) + 1
    <3>1. x.at = Len(s) + 1
      BY <1>1, <1>2, <2>4 DEF Meets, Within
    <3> QED
      BY <2>1, <2>2, <3>1 DEF Meets
  <2> QED
    BY <2>3, <2>4 DEF Meets
<1>3. CASE ~a.ok
  <2>1. (a && x) = a
    BY <1>3 DEF &&
  <2>2. a = b => (b && y) = b
    BY <1>3 DEF &&
  <2> QED
    BY <2>1, <2>2 DEF Meets
<1> QED
  BY <1>2, <1>3

\* The last part: a node is built.
LEMMA BuiltMeets ==
  ASSUME NEW s, Len(s) \in Nat, NEW p \in Nat, NEW a, NEW b, Meets(s, p, a, b), NEW x, NEW y,
         a = b => x = y
  PROVE  Meets(s, p, a && Parsed(a.at, x), b && Parsed(b.at, y))
<1> DEFINE z == Parsed(a.at, x)
<1>1. a.at \in Nat /\ a.at <= Len(s) + 1
  BY DEF Meets, Within
<1>2. Within(s, a.at, z)
  BY <1>1, ParsedWithin
<1>3. Meets(s, a.at, z, z) /\ (a = b => Parsed(b.at, y) = z)
  BY <1>2, MeetsSame
<1> HIDE DEF z
<1>4. Meets(s, p, a && z, b && Parsed(b.at, y))
  BY <1>3, ThenMeets
<1> QED
  BY <1>4 DEF z

\* So do the same turns before results that meet.
LEMMA BeforeMeets ==
  ASSUME NEW s, Len(s) \in Nat, NEW p \in Nat, NEW a, NEW b, Meets(s, p, a, b), NEW x
  PROVE  Meets(s, p, Before(x, a), Before(x, b))
BY BuiltMeets DEF Before

\* expect meets: it differs only at the end of the beginning.
LEMMA ExpectMeets ==
  ASSUME NEW s, NEW t, Begins(s, t), NEW p \in Positions(s), NEW token, token # End
  PROVE  Meets(s, p, Expect(s, p, token), Expect(t, p, token))
<1>1. Within(s, p, Expect(s, p, token))
  BY BeginsAt, ExpectWithin DEF Ahead
<1>2. CASE p <= Len(s)
  BY <1>1, <1>2, BeginsAt DEF Expect, Meets
<1>3. CASE p = Len(s) + 1
  BY <1>1, <1>3, BeginsAt, MeetsAtEnd
<1> QED
  BY <1>2, <1>3, BeginsAt

\* So does an identifier.
LEMMA IdentMeets ==
  ASSUME NEW s, NEW t, Begins(s, t), NEW p \in Positions(s)
  PROVE  Meets(s, p, Ident(s, p), Ident(t, p))
<1>1. Within(s, p, Ident(s, p))
  BY BeginsAt, IdentWithin DEF Ahead
<1>2. CASE p <= Len(s)
  BY <1>1, <1>2, BeginsAt DEF Ident, Meets
<1>3. CASE p = Len(s) + 1
  BY <1>1, <1>3, BeginsAt, MeetsAtEnd
<1> QED
  BY <1>2, <1>3, BeginsAt

-----------------------------------------------------------------------------
(* The levels meet if what comes later does.                               *)

MeetAfter(s, p, f, g) ==
  \A q \in p + 1 .. Len(s) + 1 : \A goal \in Goals : Meets(s, q, f[<<q, goal>>], g[<<q, goal>>])

\* The tables of a text and of one it begins, and a position not at its end.
Facing(s, t, p, f, g) ==
  /\ Begins(s, t) /\ p \in Positions(s) /\ p <= Len(s)
  /\ AgreeAfter(s, p, f, f) /\ MeetAfter(s, p, f, g)

\* What it means to face: the same token here, and results after it that meet.
LEMMA FacingIs ==
  ASSUME NEW s, NEW t, NEW p, NEW f, NEW g, Facing(s, t, p, f, g)
  PROVE  /\ p \in Nat /\ p < p + 1 /\ p <= p + 1 /\ p + 1 \in Positions(s) /\ p + 1 \in Nat
         /\ p \in Positions(s) /\ Len(s) \in Nat /\ Begins(s, t) /\ At(s, p) = At(t, p)
         /\ AgreeAfter(s, p, f, f)
         /\ \A q \in Positions(s), goal \in Goals : p < q => Meets(s, q, f[<<q, goal>>], g[<<q, goal>>])
<1>1. /\ p \in Nat /\ p + 1 \in Positions(s) /\ p \in Positions(s) /\ Len(s) \in Nat /\ Begins(s, t)
      /\ At(s, p) = At(t, p) /\ AgreeAfter(s, p, f, f)
  BY BeginsAt DEF Facing
<1>2. \A q \in Positions(s) : p < q => q \in p + 1 .. Len(s) + 1
  BY <1>1 DEF Positions
<1> QED
  BY <1>1, <1>2 DEF Facing, MeetAfter

\* Each level meets if the two texts face each other: a primary first.
LEMMA PrimaryMeets ==
  ASSUME NEW s, NEW t, NEW p, NEW f, NEW g, Facing(s, t, p, f, g)
  PROVE  Meets(s, p, PrimaryExpr(s, p, f), PrimaryExpr(t, p, g))
<1>0. /\ p \in Nat /\ p < p + 1 /\ p <= p + 1 /\ p + 1 \in Positions(s) /\ p + 1 \in Nat /\ p \in Positions(s)
      /\ Len(s) \in Nat /\ Begins(s, t) /\ At(s, p) = At(t, p) /\ AgreeAfter(s, p, f, f)
  BY FacingIs
<1>1. CASE At(s, p) = "("
  <2> DEFINE a == f[<<p + 1, "expr">>]
             b == g[<<p + 1, "expr">>]
             Closed(u, r) == LET close == Expect(u, r.at, ")") IN close && Parsed(close.at, r.node)
  <2>1. Meets(s, p + 1, a, b)
    BY <1>0, FacingIs, GoalsAre
  <2>2. /\ PrimaryExpr(s, p, f) = a && Closed(s, a)
        /\ PrimaryExpr(t, p, g) = b && Closed(t, b)
    BY <1>0, <1>1 DEF PrimaryExpr, Enclosed, &&
  <2> HIDE DEF a, b
  <2>3. a.at \in Positions(s)
    BY <1>0, <2>1 DEF Meets, Within, Positions
  <2>4. Meets(s, a.at, Closed(s, a), Closed(t, a))
    <3> DEFINE c == Expect(s, a.at, ")")
               d == Expect(t, a.at, ")")
    <3>1. Meets(s, a.at, c, d)
      <4>1. ")" # End
        BY DEF End
      <4> QED
        BY <1>0, <2>3, <4>1, ExpectMeets
    <3> HIDE DEF c, d
    <3>2. a.at \in Nat
      BY <2>3 DEF Positions
    <3>3. Meets(s, a.at, c && Parsed(c.at, a.node), d && Parsed(d.at, a.node))
      BY <1>0, <3>1, <3>2, BuiltMeets
    <3> QED
      BY <3>3 DEF c, d
  <2> HIDE DEF Closed
  <2>5. Meets(s, p, a, b)
    BY <1>0, <2>1, MeetsFurther
  <2> QED
    BY <1>0, <2>2, <2>4, <2>5, ThenMeets
<1>2. CASE At(s, p) # "("
  <2>1. PrimaryExpr(s, p, f) = PrimaryExpr(t, p, g)
    BY <1>0, <1>2 DEF PrimaryExpr, Enclosed
  <2>2. Within(s, p, PrimaryExpr(s, p, f))
    BY <1>0, PrimaryAhead DEF Ahead
  <2> QED
    BY <2>1, <2>2 DEF Meets
<1> QED
  BY <1>1, <1>2

\* A negation.
LEMMA NegMeets ==
  ASSUME NEW s, NEW t, NEW p, NEW f, NEW g, Facing(s, t, p, f, g)
  PROVE  Meets(s, p, NegExpr(s, p, f), NegExpr(t, p, g))
<1>1. p \in Nat /\ p < p + 1 /\ p <= p + 1 /\ p + 1 \in Positions(s) /\ p + 1 \in Nat /\ Len(s) \in Nat
        /\ At(s, p) = At(t, p)
  BY FacingIs
<1>2. CASE At(s, p) = "-"
  <2> DEFINE a == f[<<p + 1, "neg">>]
             b == g[<<p + 1, "neg">>]
  <2>1. Meets(s, p + 1, a, b)
    BY <1>1, FacingIs, GoalsAre
  <2>2. /\ NegExpr(s, p, f) = a && Parsed(a.at, UnaryExpr("neg", a.node))
        /\ NegExpr(t, p, g) = b && Parsed(b.at, UnaryExpr("neg", b.node))
    BY <1>1, <1>2 DEF NegExpr
  <2> HIDE DEF a, b
  <2>3. Meets(s, p, a, b)
    BY <1>1, <2>1, MeetsFurther
  <2> QED
    BY <1>1, <2>2, <2>3, BuiltMeets
<1>3. CASE At(s, p) # "-"
  BY <1>1, <1>3, PrimaryMeets DEF NegExpr
<1> QED
  BY <1>2, <1>3

\* A loop after first operands that meet.
LEMMA LoopMeets ==
  ASSUME NEW s, NEW t, NEW p, NEW f, NEW g, Facing(s, t, p, f, g),
         NEW l, NEW m, Meets(s, p, l, m), Ahead(s, p, l), NEW level \in DOMAIN InfixOps
  PROVE  Meets(s, p, Loop(l, level, f), Loop(m, level, g))
<1> DEFINE Turned(h, r) == LET turns == h[<<r.at, level>>]
                           IN  turns && Parsed(turns.at, Grouped(r.node, turns.node))
<1>1. p \in Nat /\ Len(s) \in Nat
  BY FacingIs
<1>2. \A h, r : Loop(r, level, h) = r && Turned(h, r)
  BY DEF Loop, &&
<1>3. ASSUME l.ok PROVE Meets(s, l.at, Turned(f, l), Turned(g, l))
  <2> DEFINE a == f[<<l.at, level>>]
             b == g[<<l.at, level>>]
  <2>1. l.at \in Positions(s) /\ p < l.at /\ l.at \in Nat
    BY <1>1, <1>3 DEF Ahead, Within, Positions
  <2>2. level \in Goals
    BY DEF Goals
  <2>3. Meets(s, l.at, a, b)
    BY <2>1, <2>2, FacingIs
  <2> HIDE DEF a, b
  <2>4. Meets(s, l.at, a && Parsed(a.at, Grouped(l.node, a.node)), b && Parsed(b.at, Grouped(l.node, b.node)))
    BY <1>1, <2>1, <2>3, BuiltMeets
  <2> QED
    BY <2>4 DEF a, b
<1> HIDE DEF Turned
<1>4. Meets(s, p, l && Turned(f, l), m && Turned(g, m))
  BY <1>1, <1>3, ThenMeets
<1> QED
  BY <1>2, <1>4

\* The levels from products to OR, one from the other.
LEMMA LevelsMeet ==
  ASSUME NEW s, NEW t, NEW p, NEW f, NEW g, Facing(s, t, p, f, g)
  PROVE  /\ Meets(s, p, MulExpr(s, p, f), MulExpr(t, p, g))
         /\ Meets(s, p, AddExpr(s, p, f), AddExpr(t, p, g))
         /\ Meets(s, p, CmpExpr(s, p, f), CmpExpr(t, p, g))
         /\ Meets(s, p, NotExpr(s, p, f), NotExpr(t, p, g))
         /\ Meets(s, p, AndExpr(s, p, f), AndExpr(t, p, g))
         /\ Meets(s, p, OrExpr(s, p, f), OrExpr(t, p, g))
<1>1. p \in Nat /\ p < p + 1 /\ p <= p + 1 /\ p + 1 \in Positions(s) /\ p + 1 \in Nat /\ Len(s) \in Nat
        /\ At(s, p) = At(t, p) /\ p \in Positions(s) /\ AgreeAfter(s, p, f, f)
  BY FacingIs
<1>2. /\ Ahead(s, p, NegExpr(s, p, f)) /\ Ahead(s, p, MulExpr(s, p, f)) /\ Ahead(s, p, AddExpr(s, p, f))
      /\ Ahead(s, p, NotExpr(s, p, f)) /\ Ahead(s, p, AndExpr(s, p, f))
  BY <1>1, NegAhead, LevelsAhead
<1>3. Meets(s, p, MulExpr(s, p, f), MulExpr(t, p, g))
  BY <1>2, NegMeets, LoopMeets, GoalsAre DEF MulExpr
<1>4. Meets(s, p, AddExpr(s, p, f), AddExpr(t, p, g))
  BY <1>2, <1>3, LoopMeets, GoalsAre DEF AddExpr
<1>5. Meets(s, p, CmpExpr(s, p, f), CmpExpr(t, p, g))
  BY <1>2, <1>4, LoopMeets, GoalsAre DEF CmpExpr
<1>6. Meets(s, p, NotExpr(s, p, f), NotExpr(t, p, g))
  <2>1. CASE At(s, p) = "NOT"
    <3> DEFINE a == f[<<p + 1, "not">>]
               b == g[<<p + 1, "not">>]
    <3>1. Meets(s, p + 1, a, b)
      BY <1>1, FacingIs, GoalsAre
    <3>2. /\ NotExpr(s, p, f) = a && Parsed(a.at, UnaryExpr("NOT", a.node))
          /\ NotExpr(t, p, g) = b && Parsed(b.at, UnaryExpr("NOT", b.node))
      BY <1>1, <2>1 DEF NotExpr
    <3> HIDE DEF a, b
    <3>3. Meets(s, p, a, b)
      BY <1>1, <3>1, MeetsFurther
    <3> QED
      BY <1>1, <3>2, <3>3, BuiltMeets
  <2>2. CASE At(s, p) # "NOT"
    BY <1>1, <1>5, <2>2 DEF NotExpr
  <2> QED
    BY <2>1, <2>2
<1>7. Meets(s, p, AndExpr(s, p, f), AndExpr(t, p, g))
  BY <1>2, <1>6, LoopMeets, GoalsAre DEF AndExpr
<1>8. Meets(s, p, OrExpr(s, p, f), OrExpr(t, p, g))
  BY <1>2, <1>7, LoopMeets, GoalsAre DEF OrExpr
<1> QED
  BY <1>3, <1>4, <1>5, <1>6, <1>7, <1>8

\* The right operand of an operator, which may be missing.
LEMMA RightMeets ==
  ASSUME NEW s, NEW t, NEW p, NEW f, NEW g, Facing(s, t, p, f, g), NEW level \in DOMAIN InfixOps
  PROVE  /\ Meets(s, p + 1, RightExpr(s, p + 1, level, f), RightExpr(t, p + 1, level, g))
         /\ Ahead(s, p + 1, RightExpr(s, p + 1, level, f))
<1>1. p \in Nat /\ p + 1 \in Positions(s) /\ p + 1 \in Nat /\ Len(s) \in Nat /\ Begins(s, t)
  BY FacingIs
<1>2. \A q \in (p + 1) + 1 .. Len(s) + 1 : q \in p + 1 .. Len(s) + 1
  BY <1>1
<1>3. AgreeAfter(s, p + 1, f, f) /\ MeetAfter(s, p + 1, f, g)
  BY <1>2 DEF AgreeAfter, MeetAfter, Facing
<1>4. Ahead(s, p + 1, RightExpr(s, p + 1, level, f))
  BY <1>1, <1>3, RightAhead
<1>5. CASE p + 1 <= Len(s)
  <2>1. Facing(s, t, p + 1, f, g)
    BY <1>1, <1>3, <1>5 DEF Facing
  <2>2. Meets(s, p + 1, RightExpr(s, p + 1, level, f), RightExpr(t, p + 1, level, g))
    BY <2>1, LevelsMeet, NegMeets, GoalsAre DEF RightExpr
  <2> QED
    BY <1>4, <2>2
<1>6. CASE ~(p + 1 <= Len(s))
  <2>1. p + 1 = Len(s) + 1
    BY <1>1, <1>6 DEF Positions
  <2>2. Within(s, Len(s) + 1, RightExpr(s, p + 1, level, f))
    BY <1>4, <2>1 DEF Ahead
  <2> QED
    BY <1>1, <1>4, <2>1, <2>2, MeetsAtEnd
<1> QED
  BY <1>5, <1>6

\* One turn of a loop, and those after it.
LEMMA TurnsMeet ==
  ASSUME NEW s, NEW t, NEW p, NEW f, NEW g, Facing(s, t, p, f, g), NEW level \in DOMAIN InfixOps
  PROVE  Meets(s, p, TurnsFrom(s, p, level, f), TurnsFrom(t, p, level, g))
<1>1. /\ p \in Nat /\ p < p + 1 /\ p <= p + 1 /\ p + 1 \in Positions(s) /\ p + 1 \in Nat /\ Len(s) \in Nat
      /\ Len(t) \in Nat /\ Begins(s, t) /\ At(s, p) = At(t, p) /\ p \in Positions(s) /\ level \in Goals
  BY FacingIs, BeginsAt DEF Goals
<1>2. ASSUME NEW a, NEW b, NEW q \in Nat, p < q, Meets(s, q, a, b),
             NEW u, NEW v, a = b => u = v
      PROVE  Meets(s, p, a && Before(u, f[<<a.at, level>>]), b && Before(v, g[<<b.at, level>>]))
  <2> DEFINE x == Before(u, f[<<a.at, level>>])
             y == Before(v, g[<<b.at, level>>])
             z == Before(u, g[<<a.at, level>>])
  <2>1. a.at \in Positions(s) /\ p < a.at /\ a.at \in Nat /\ p <= q
    BY <1>1, <1>2 DEF Meets, Within, Positions
  <2>2. Meets(s, p, a, b)
    BY <1>1, <1>2, <2>1, MeetsFurther
  <2>3. Meets(s, a.at, f[<<a.at, level>>], g[<<a.at, level>>])
    BY <1>1, <2>1, FacingIs
  <2>4. Meets(s, a.at, x, z)
    BY <1>1, <2>1, <2>3, BeforeMeets
  <2>5. a = b => y = z
    BY <1>2
  <2> HIDE DEF x, y, z
  <2>6. Meets(s, p, a && x, b && y)
    BY <1>1, <2>2, <2>4, <2>5, ThenMeets
  <2> QED
    BY <2>6 DEF x, y
<1>3. CASE level = "cmp" /\ At(s, p) = "IS"
  <2> DEFINE Neg(u)  == At(u, p + 1) = "NOT"
             Next(u) == p + (IF Neg(u) THEN 2 ELSE 1)
             a == Expect(s, Next(s), "NULL")
             b == Expect(t, Next(t), "NULL")
  <2>1. /\ TurnsFrom(s, p, level, f) = a && Before(IsNull(None, Neg(s)), f[<<a.at, level>>])
        /\ TurnsFrom(t, p, level, g) = b && Before(IsNull(None, Neg(t)), g[<<b.at, level>>])
    BY <1>1, <1>3 DEF TurnsFrom
  <2>2. "NULL" # End /\ "NOT" # End
    BY DEF End
  <2>3. CASE p + 1 <= Len(s)
    <3>1. Neg(s) = Neg(t) /\ Next(s) = Next(t)
      BY <1>1, <2>3, BeginsAt
    <3>2. Next(s) \in Positions(s) /\ p < Next(s) /\ Next(s) \in Nat
      BY <1>1, <2>3 DEF Positions
    <3> DEFINE q == Next(s)
               node == IsNull(None, Neg(s))
    <3>3. Meets(s, q, a, b)
      BY <1>1, <2>2, <3>1, <3>2, ExpectMeets
    <3>4. /\ TurnsFrom(s, p, level, f) = a && Before(node, f[<<a.at, level>>])
          /\ TurnsFrom(t, p, level, g) = b && Before(node, g[<<b.at, level>>])
      BY <2>1, <3>1
    <3>5. q \in Nat /\ p < q
      BY <3>2
    <3> HIDE DEF a, b, Neg, Next, q, node
    <3>6. Meets(s, p, a && Before(node, f[<<a.at, level>>]), b && Before(node, g[<<b.at, level>>]))
      BY <1>2, <3>3, <3>5
    <3> QED
      BY <3>4, <3>6
  <2>4. CASE ~(p + 1 <= Len(s))
    <3>1. p + 1 = Len(s) + 1
      BY <1>1, <2>4 DEF Positions
    <3>2. At(s, p + 1) = End
      BY <1>1, <3>1, BeginsAt
    <3>3. a = Failed(p + 1)
      BY <2>2, <3>2 DEF Expect
    <3>6. ~a.ok
      BY <3>3 DEF Failed
    <3> DEFINE x == Before(IsNull(None, Neg(s)), f[<<a.at, level>>])
    <3>7. TurnsFrom(s, p, level, f) = a && x
      BY <2>1
    <3>8. a = Failed(Len(s) + 1)
      BY <3>1, <3>3
    <3> HIDE DEF a, x
    <3>4. TurnsFrom(s, p, level, f) = Failed(Len(s) + 1)
      BY <3>6, <3>7, <3>8 DEF &&
    <3>5. Within(s, p, Failed(Len(s) + 1)) /\ Failed(Len(s) + 1).at = Len(s) + 1
      BY <1>1, <3>1 DEF Within, Failed
    <3> QED
      BY <3>4, <3>5 DEF Meets
  <2> QED
    BY <2>3, <2>4
<1>4. CASE ~(level = "cmp" /\ At(s, p) = "IS") /\ At(s, p) \in InfixOps[level]
  <2> DEFINE a == RightExpr(s, p + 1, level, f)
             b == RightExpr(t, p + 1, level, g)
             op == At(s, p)
             u == BinaryExpr(None, op, a.node)
             v == BinaryExpr(None, op, b.node)
  <2>1. /\ TurnsFrom(s, p, level, f) = a && Before(u, f[<<a.at, level>>])
        /\ TurnsFrom(t, p, level, g) = b && Before(v, g[<<b.at, level>>])
    BY <1>1, <1>4 DEF TurnsFrom, TurnTo
  <2>2. Meets(s, p + 1, a, b)
    BY RightMeets
  <2>4. a = b => u = v
    OBVIOUS
  <2> HIDE DEF a, b, u, v
  <2>3. Meets(s, p, a && Before(u, f[<<a.at, level>>]), b && Before(v, g[<<b.at, level>>]))
    BY <1>1, <1>2, <2>2, <2>4
  <2> QED
    BY <2>1, <2>3
<1>5. CASE ~(level = "cmp" /\ At(s, p) = "IS") /\ At(s, p) \notin InfixOps[level]
  <2>1. TurnsFrom(s, p, level, f) = Parsed(p, <<>>) /\ TurnsFrom(t, p, level, g) = Parsed(p, <<>>)
    BY <1>1, <1>5 DEF TurnsFrom
  <2>2. p <= Len(s) + 1
    BY <1>1 DEF Positions
  <2>3. Within(s, p, Parsed(p, <<>>))
    BY <1>1, <2>2, ParsedWithin
  <2> QED
    BY <2>1, <2>3 DEF Meets
<1> QED
  BY <1>3, <1>4, <1>5

\* Whatever is looked for at p meets.
LEMMA FoundMeets ==
  ASSUME NEW s, NEW t, NEW p, NEW f, NEW g, Facing(s, t, p, f, g), NEW goal \in Goals
  PROVE  Meets(s, p, Found(s, p, goal, f), Found(t, p, goal, g))
<1>1. CASE goal \in DOMAIN InfixOps
  BY <1>1, TurnsMeet, GoalsAre DEF Found
<1>2. CASE goal \in {"expr", "neg", "not"}
  BY <1>2, LevelsMeet, NegMeets DEF Found
<1> QED
  BY <1>1, <1>2, GoalsAre

\* The tables of a text and of one it begins meet.
LEMMA TablesMeet ==
  ASSUME NEW s, NEW t, Begins(s, t)
  PROVE  \A p \in Positions(s), goal \in Goals :
           Meets(s, p, Parsing(s)[<<p, goal>>], Parsing(t)[<<p, goal>>])
<1> DEFINE n == Len(s) + 1
           f == Parsing(s)
           g == Parsing(t)
           G == {p \in 1 .. n : \A goal \in Goals : Meets(s, p, f[<<p, goal>>], g[<<p, goal>>])}
<1>1. Len(s) \in Nat /\ Len(t) \in Nat /\ n \in Nat
  BY DEF Begins
<1>2. Positions(s) = 1 .. n
  BY DEF Positions
<1>3. ASSUME NEW p \in 1 .. n, \A q \in p + 1 .. n : q \in G PROVE p \in G
  <2>1. p \in Positions(s) /\ p \in Positions(t) /\ p \in Nat
    BY <1>2, BeginsAt
  <2> SUFFICES ASSUME NEW goal \in Goals PROVE Meets(s, p, f[<<p, goal>>], g[<<p, goal>>])
    OBVIOUS
  <2>2. f[<<p, goal>>] = Found(s, p, goal, f) /\ g[<<p, goal>>] = Found(t, p, goal, g)
    BY <1>1, <2>1, TableIs
  <2>3. Fine(s, p, goal, f[<<p, goal>>])
    BY <1>1, <2>1, TableIs
  <2>4. CASE p <= Len(s)
    <3>1. \A q \in p + 1 .. Len(s) + 1 : q \in Positions(s)
      BY <1>1, <2>1 DEF Positions
    <3>2. AgreeAfter(s, p, f, f)
      BY <1>1, <3>1, TableIs DEF AgreeAfter
    <3>3. MeetAfter(s, p, f, g)
      BY <1>3 DEF MeetAfter
    <3>4. Facing(s, t, p, f, g)
      BY <2>1, <2>4, <3>2, <3>3 DEF Facing
    <3> HIDE DEF f, g
    <3> QED
      BY <2>2, <3>4, FoundMeets
  <2>5. CASE ~(p <= Len(s))
    <3>1. p = Len(s) + 1
      BY <1>1, <2>5
    <3> QED
      BY <1>1, <2>3, <3>1, MeetsAtEnd DEF Fine
  <2> QED
    BY <2>4, <2>5
<1> HIDE DEF G
<1>4. \A p \in 1 .. n : p \in G
  BY <1>1, <1>3, Downwards DEF n
<1> QED
  BY <1>2, <1>4 DEF G

\* A result that reads on, and meets that of a text begun.
Parses(s, t, p, a, b) == Meets(s, p, a, b) /\ Ahead(s, p, a)

\* An expression, at every position: by induction from the end of the beginning.
LEMMA FullExprParses ==
  ASSUME NEW s, NEW t, Begins(s, t), NEW p \in Positions(s)
  PROVE  Parses(s, t, p, FullExpr(s, p), FullExpr(t, p))
<1>1. "expr" \in Goals /\ "expr" \notin DOMAIN InfixOps /\ Len(s) \in Nat
  BY GoalsAre, BeginsAt
<1>2. Fine(s, p, "expr", FullExpr(s, p))
  BY <1>1, TableIs DEF FullExpr
<1> QED
  BY <1>1, <1>2, TablesMeet DEF Parses, Fine, FullExpr

\* A text begins itself.
LEMMA BeginsItself ==
  ASSUME NEW s, Len(s) \in Nat PROVE Begins(s, s)
BY DEF Begins

\* What follows a part that reads on.
LEMMA ThenParses ==
  ASSUME NEW s, NEW t, Len(s) \in Nat, NEW p \in Nat, NEW a, NEW b, Parses(s, t, p, a, b),
         NEW x, NEW y, NEW z, a.ok => Meets(s, a.at, x, z), a = b => y = z
  PROVE  Parses(s, t, p, a && x, b && y)
<1>1. Meets(s, p, a && x, b && y)
  BY ThenMeets DEF Parses
<1>2. a.ok => Within(s, a.at, x) /\ a.at \in Nat /\ p < a.at
  BY DEF Parses, Meets, Ahead, Within
<1>3. a.ok => Ahead(s, p, a && x)
  <2> SUFFICES ASSUME a.ok PROVE Ahead(s, p, a && x)
    OBVIOUS
  <2>1. p <= a.at
    BY <1>2
  <2>2. Ahead(s, p, x)
    BY <1>2, <2>1, WithinFurther
  <2> QED
    BY <2>2 DEF &&
<1>4. ~a.ok => Ahead(s, p, a && x)
  BY DEF Parses, Ahead, &&
<1> QED
  BY <1>1, <1>3, <1>4 DEF Parses

-----------------------------------------------------------------------------
(* Lists.                                                                  *)

\* One item of a list, and those after it, given what is listed from where.
ListTurn(ts, q, items, from) ==
  LET first == items[q]
      rest  == from[first.at + 1]
  IN  first && IF At(ts, first.at) = "," THEN Before(first.node, rest)
               ELSE Parsed(first.at, <<first.node>>)

\* One flag of a column, and one statement of a script, likewise.
FlagsTurn(ts, q, from) ==
  LET token == At(ts, q)
      word  == Expect(ts, q + 1, IF token = "PRIMARY" THEN "KEY" ELSE "NULL")
      rest  == from[word.at]
  IN  IF token \in {"PRIMARY", "NOT"} THEN word && rest && Parsed(rest.at, {token} \cup rest.node)
      ELSE Parsed(q, {})

ScriptTurn(ts, p, from) ==
  LET statement == ParseStatement(ts, p)
  IN  IF At(ts, p) = ";" THEN from[p + 1]
      ELSE IF At(ts, p) = End THEN Parsed(p, <<>>)
      ELSE statement && IF At(ts, statement.at) \in {";", End}
                        THEN Before(statement.node, from[statement.at])
                        ELSE Failed(statement.at)

OfList(items) == [of |-> "list", items |-> items]
OfFlags       == [of |-> "flags"]
OfScript      == [of |-> "script"]

Turn(ts, what, q, from) ==
  CASE what.of = "list"   -> ListTurn(ts, q, what.items, from)
    [] what.of = "flags"  -> FlagsTurn(ts, q, from)
    [] what.of = "script" -> ScriptTurn(ts, q, from)

\* The kinds of turns are told apart.
LEMMA TurnIs ==
  ASSUME NEW ts, NEW q, NEW from
  PROVE  /\ \A items : Turn(ts, OfList(items), q, from) = ListTurn(ts, q, items, from)
         /\ Turn(ts, OfFlags, q, from) = FlagsTurn(ts, q, from)
         /\ Turn(ts, OfScript, q, from) = ScriptTurn(ts, q, from)
BY DEF Turn, OfList, OfFlags, OfScript

\* Items that read on, at every position.
AreItems(ts, items) == \A q \in Positions(ts) : Ahead(ts, q, items[q])

\* After an item and a comma there is a position.
LEMMA CommaAfter ==
  ASSUME NEW ts, Len(ts) \in Nat, NEW q \in Nat, NEW r, Ahead(ts, q, r), r.ok
  PROVE  /\ r.at \in Nat /\ q < r.at /\ r.at \in Positions(ts)
         /\ At(ts, r.at) # End => r.at + 1 \in Positions(ts) /\ q < r.at + 1
<1>1. r.at \in Nat /\ q < r.at /\ r.at <= Len(ts) + 1
  BY DEF Ahead, Within
<1>2. r.at \in Positions(ts)
  BY <1>1 DEF Positions
<1>3. ASSUME At(ts, r.at) # End PROVE r.at + 1 \in Positions(ts) /\ q < r.at + 1
  <2>1. r.at <= Len(ts)
    BY <1>1, <1>3, TokenWithin
  <2> QED
    BY <1>1, <2>1 DEF Positions
<1> QED
  BY <1>1, <1>2, <1>3

\* The positions after one.
LEMMA LaterIs ==
  ASSUME NEW ts, Len(ts) \in Nat, NEW i \in Positions(ts), NEW q \in Positions(ts), i < q
  PROVE  q \in i + 1 .. Len(ts) + 1
BY DEF Positions

\* A turn uses only what is listed further on.
LEMMA ListLater ==
  ASSUME NEW ts, Len(ts) \in Nat, NEW items, AreItems(ts, items), NEW i \in Positions(ts), NEW f, NEW h,
         \A j \in i + 1 .. Len(ts) + 1 : f[j] = h[j]
  PROVE  ListTurn(ts, i, items, f) = ListTurn(ts, i, items, h)
<1> DEFINE first == items[i]
           q == first.at + 1
<1>1. i \in Nat /\ Ahead(ts, i, first)
  BY DEF AreItems, Positions
<1> HIDE DEF first
<1>2. "," # End
  BY DEF End
<1>3. first.ok /\ At(ts, first.at) = "," => q \in Positions(ts) /\ i < q
  BY <1>1, <1>2, CommaAfter
<1> HIDE DEF q
<1>4. first.ok /\ At(ts, first.at) = "," => f[q] = h[q]
  <2> SUFFICES ASSUME first.ok, At(ts, first.at) = "," PROVE f[q] = h[q]
    OBVIOUS
  <2>1. q \in Positions(ts) /\ i < q
    BY <1>3
  <2>3. q \in i + 1 .. Len(ts) + 1
    BY <2>1, LaterIs
  <2> QED
    BY <2>3
<1>5. first.ok /\ At(ts, first.at) = "," => f[first.at + 1] = h[first.at + 1]
  BY <1>4 DEF q
<1> QED
  BY <1>5 DEF ListTurn, first, &&

\* The recursion exists if a turn uses only what lies further on.
LaterOnly(ts, what) ==
  \A i \in Positions(ts) : \A f, h :
    (\A j \in i + 1 .. Len(ts) + 1 : f[j] = h[j]) => Turn(ts, what, i, f) = Turn(ts, what, i, h)

\* A function that looks only at later positions exists.
LEMMA TurnsExist ==
  ASSUME NEW ts, Len(ts) \in Nat, NEW what, LaterOnly(ts, what)
  PROVE  \E f : f = [q \in Positions(ts) |-> Turn(ts, what, q, f)]
<1> DEFINE n == Len(ts) + 1
           T(i, f)  == Turn(ts, what, i, f)
           IsBackward(f, i) == f = [j \in i .. n |-> T(j, f)]
           G == {m \in 0 .. n : \E f : IsBackward(f, n - m + 1)}
<1>1. n \in Nat /\ Positions(ts) = 1 .. n
  BY DEF Positions
<1>2. ASSUME NEW i \in 1 .. n, NEW f, NEW h, \A j \in i + 1 .. n : f[j] = h[j]
      PROVE  T(i, f) = T(i, h)
  <2>1. i \in Positions(ts)
    BY <1>1
  <2> QED
    BY <1>2, <2>1 DEF LaterOnly
<1> HIDE DEF T, n
<1>3. 0 \in G
  <2>1. \A j \in n - 0 + 1 .. n : FALSE
    BY <1>1
  <2> DEFINE f == [j \in n - 0 + 1 .. n |-> j]
  <2>2. f = [j \in n - 0 + 1 .. n |-> T(j, f)]
    BY <2>1
  <2> HIDE DEF f
  <2>3. IsBackward(f, n - 0 + 1) /\ 0 \in 0 .. n
    BY <1>1, <2>2
  <2> HIDE DEF IsBackward
  <2> QED
    BY <2>3
<1>4. ASSUME NEW m \in 1 .. n, m - 1 \in G PROVE m \in G
  <2> DEFINE i == n - m + 1
  <2>1. i \in 1 .. n /\ i + 1 = n - (m - 1) + 1 /\ m \in 0 .. n /\ i \in Nat
    BY <1>1
  <2>2. PICK f : IsBackward(f, i + 1)
    BY <1>4, <2>1
  <2> HIDE DEF i
  <2> DEFINE h == [j \in i .. n |-> IF j = i THEN T(i, f) ELSE f[j]]
  <2>3. \A j \in i + 1 .. n : j \in i .. n /\ j # i /\ j \in 1 .. n
    BY <1>1, <2>1
  <2>4. \A j \in i .. n : j = i \/ j \in i + 1 .. n
    BY <1>1, <2>1
  <2>5. \A j \in i + 1 .. n : h[j] = f[j]
    BY <2>3
  <2>6. \A j \in i .. n : h[j] = T(j, h)
    <3> SUFFICES ASSUME NEW j \in i .. n PROVE h[j] = T(j, h)
      OBVIOUS
    <3>1. h[j] = IF j = i THEN T(i, f) ELSE f[j]
      OBVIOUS
    <3> HIDE DEF h
    <3>2. CASE j = i
      <4>1. T(i, f) = T(i, h)
        BY <1>2, <2>1, <2>5
      <4> QED
        BY <3>1, <3>2, <4>1
    <3>3. CASE j \in i + 1 .. n
      <4>1. \A l \in j + 1 .. n : l \in i + 1 .. n
        BY <1>1, <2>1, <3>3
      <4>2. T(j, f) = T(j, h)
        BY <1>2, <2>3, <2>5, <3>3, <4>1
      <4>3. f[j] = T(j, f)
        BY <2>2, <3>3
      <4> QED
        BY <2>3, <3>1, <3>3, <4>2, <4>3
    <3> QED
      BY <2>4, <3>2, <3>3
  <2>7. h = [j \in i .. n |-> h[j]]
    OBVIOUS
  <2> HIDE DEF h
  <2>8. IsBackward(h, i)
    BY <2>6, <2>7
  <2> QED
    BY <2>1, <2>8 DEF i
<1>5. n \in G
  <2> HIDE DEF G
  <2> QED
    BY <1>1, <1>3, <1>4, IntervalInduction
<1>6. n - n + 1 = 1
  BY <1>1
<1> QED
  BY <1>1, <1>5, <1>6 DEF T

\* List is the recursive function it is defined by.
LEMMA ListIs ==
  ASSUME NEW ts, Len(ts) \in Nat, NEW items, AreItems(ts, items)
  PROVE  \E f : \A q \in Positions(ts) : /\ List(ts, q, items) = f[q]
                                         /\ f[q] = ListTurn(ts, q, items, f)
<1> DEFINE from == CHOOSE f : f = [q \in Positions(ts) |-> ListTurn(ts, q, items, f)]
<1>1. LaterOnly(ts, OfList(items))
  <2> SUFFICES ASSUME NEW i \in Positions(ts), NEW f, NEW h, \A j \in i + 1 .. Len(ts) + 1 : f[j] = h[j]
               PROVE  Turn(ts, OfList(items), i, f) = Turn(ts, OfList(items), i, h)
    BY DEF LaterOnly
  <2>1. ListTurn(ts, i, items, f) = ListTurn(ts, i, items, h)
    BY ListLater
  <2> QED
    BY <2>1, TurnIs
<1>2. \E f : f = [q \in Positions(ts) |-> ListTurn(ts, q, items, f)]
  <2>1. PICK f : f = [q \in Positions(ts) |-> Turn(ts, OfList(items), q, f)]
    BY <1>1, TurnsExist
  <2>2. \A q : Turn(ts, OfList(items), q, f) = ListTurn(ts, q, items, f)
    BY TurnIs
  <2>3. f = [q \in Positions(ts) |-> ListTurn(ts, q, items, f)]
    BY <2>1, <2>2
  <2> QED
    BY <2>3
<1>3. from = [q \in Positions(ts) |-> ListTurn(ts, q, items, from)]
  BY <1>2
<1>4. \A q : List(ts, q, items) = from[q]
  BY DEF List, ListTurn
<1> HIDE DEF from
<1> QED
  BY <1>3, <1>4

\* A list is an item, or an item, a comma and a list.
LEMMA ListUnfolds ==
  ASSUME NEW ts, Len(ts) \in Nat, NEW items, AreItems(ts, items), NEW q \in Positions(ts)
  PROVE  List(ts, q, items) =
           (items[q] && IF At(ts, items[q].at) = ","
                        THEN Before(items[q].node, List(ts, items[q].at + 1, items))
                        ELSE Parsed(items[q].at, <<items[q].node>>))
<1> DEFINE first == items[q]
<1>1. PICK f : \A i \in Positions(ts) : /\ List(ts, i, items) = f[i]
                                        /\ f[i] = ListTurn(ts, i, items, f)
  BY ListIs
<1>2. Ahead(ts, q, first) /\ q \in Nat
  BY DEF AreItems, Positions
<1>3. List(ts, q, items) = (first && IF At(ts, first.at) = "," THEN Before(first.node, f[first.at + 1])
                                     ELSE Parsed(first.at, <<first.node>>))
  BY <1>1 DEF ListTurn
<1> HIDE DEF first
<1>4. "," # End
  BY DEF End
<1>5. first.ok /\ At(ts, first.at) = "," => f[first.at + 1] = List(ts, first.at + 1, items)
  BY <1>1, <1>2, <1>4, CommaAfter
<1> HIDE DEF List
<1>6. List(ts, q, items) = (first && IF At(ts, first.at) = "," THEN Before(first.node, List(ts, first.at + 1, items))
                                     ELSE Parsed(first.at, <<first.node>>))
  BY <1>3, <1>5 DEF &&
<1> QED
  BY <1>6 DEF first

\* The items of a text and of one it begins.
ItemsMeet(s, t, items, others) ==
  AreItems(t, others) /\ \A q \in Positions(s) : Parses(s, t, q, items[q], others[q])

\* Lists meet if their items do.
LEMMA ListParses ==
  ASSUME NEW s, NEW t, Begins(s, t), NEW items, NEW others, ItemsMeet(s, t, items, others)
  PROVE  \A q \in Positions(s) : Parses(s, t, q, List(s, q, items), List(t, q, others))
<1> DEFINE n == Len(s) + 1
           G == {q \in 1 .. n : Parses(s, t, q, List(s, q, items), List(t, q, others))}
<1>1. Len(s) \in Nat /\ Len(t) \in Nat /\ n \in Nat /\ Positions(s) = 1 .. n
  BY DEF Begins, Positions
<1>2. AreItems(s, items) /\ AreItems(t, others)
  BY DEF ItemsMeet, AreItems, Parses
<1>3. ASSUME NEW q \in 1 .. n, \A j \in q + 1 .. n : j \in G PROVE q \in G
  <2>1. q \in Positions(s) /\ q \in Positions(t) /\ q \in Nat
    BY <1>1, BeginsAt
  <2> DEFINE Remaining(u, r, its) == IF At(u, r.at) = "," THEN Before(r.node, List(u, r.at + 1, its))
                                ELSE Parsed(r.at, <<r.node>>)
             a == items[q]
             b == others[q]
  <2>2. List(s, q, items) = (a && Remaining(s, a, items)) /\ List(t, q, others) = (b && Remaining(t, b, others))
    BY <1>1, <1>2, <2>1, ListUnfolds
  <2>3. Parses(s, t, q, a, b)
    BY <2>1 DEF ItemsMeet
  <2> HIDE DEF a, b
  <2>4. ASSUME a.ok PROVE Meets(s, a.at, Remaining(s, a, items), Remaining(t, a, others))
    <3>1. /\ a.at \in Nat /\ q < a.at /\ a.at \in Positions(s)
          /\ At(s, a.at) # End => a.at + 1 \in Positions(s) /\ q < a.at + 1
      BY <1>1, <2>1, <2>3, <2>4, CommaAfter DEF Parses
    <3>2. a.at <= Len(s) + 1 /\ "," # End
      BY <1>1, <3>1, BeginsAt DEF End
    <3>3. CASE At(s, a.at) = ","
      <4>1. a.at + 1 \in q + 1 .. n /\ a.at <= Len(s)
        <5> DEFINE e == a.at
        <5>1. e + 1 \in Positions(s) /\ e \in Nat /\ q < e
          BY <3>1, <3>2, <3>3
        <5> HIDE DEF e
        <5>2. e + 1 \in q + 1 .. n /\ e <= Len(s)
          BY <1>1, <2>1, <5>1
        <5> QED
          BY <5>2 DEF e
      <4>2. At(t, a.at) = ","
        BY <3>1, <3>3, <4>1, BeginsAt
      <4> DEFINE c == List(s, a.at + 1, items)
                 d == List(t, a.at + 1, others)
      <4>3. Meets(s, a.at + 1, c, d)
        BY <1>3, <4>1 DEF Parses
      <4> HIDE DEF c, d
      <4>4. Meets(s, a.at, c, d)
        <5>1. a.at <= a.at + 1 /\ a.at + 1 \in Nat
          BY <3>1
        <5> QED
          BY <3>1, <4>3, <5>1, MeetsFurther
      <4>5. Meets(s, a.at, Before(a.node, c), Before(a.node, d))
        BY <1>1, <3>1, <4>4, BeforeMeets
      <4> QED
        BY <3>3, <4>2, <4>5 DEF c, d
    <3>4. CASE At(s, a.at) # ","
      <4>1. Remaining(s, a, items) = Parsed(a.at, <<a.node>>)
        BY <3>4
      <4>2. Within(s, a.at, Parsed(a.at, <<a.node>>))
        <5>1. a.at <= a.at
          BY <3>1
        <5> QED
          BY <1>1, <3>1, <3>2, <5>1, ParsedWithin
      <4>3. CASE a.at <= Len(s)
        <5>1. Remaining(t, a, others) = Parsed(a.at, <<a.node>>)
          BY <3>1, <3>4, <4>3, BeginsAt
        <5> HIDE DEF Remaining
        <5> QED
          BY <4>1, <4>2, <5>1, MeetsSame
      <4>4. CASE ~(a.at <= Len(s))
        <5>1. a.at = Len(s) + 1
          <6> DEFINE e == a.at
          <6>1. e \in Nat /\ e <= Len(s) + 1 /\ ~(e <= Len(s))
            BY <3>1, <3>2, <4>4
          <6> HIDE DEF e
          <6>2. e = Len(s) + 1
            BY <1>1, <6>1
          <6> QED
            BY <6>2 DEF e
        <5> HIDE DEF Remaining
        <5> QED
          BY <1>1, <4>1, <4>2, <5>1, MeetsAtEnd
      <4> QED
        BY <4>3, <4>4
    <3> QED
      BY <3>3, <3>4
  <2>5. a = b => Remaining(t, b, others) = Remaining(t, a, others)
    OBVIOUS
  <2> HIDE DEF Remaining
  <2>6. Parses(s, t, q, a && Remaining(s, a, items), b && Remaining(t, b, others))
    BY <1>1, <2>1, <2>3, <2>4, <2>5, ThenParses
  <2> QED
    BY <2>2, <2>6
<1> HIDE DEF G
<1>4. \A q \in 1 .. n : q \in G
  BY <1>1, <1>3, Downwards DEF n
<1> QED
  BY <1>1, <1>4 DEF G

-----------------------------------------------------------------------------
(* Parts of statements.                                                    *)

\* Where a result that meets another ends.
LEMMA MeetsPosition ==
  ASSUME NEW s, Len(s) \in Nat, NEW p \in Positions(s), NEW a, NEW b, Meets(s, p, a, b)
  PROVE  a.at \in Positions(s) /\ a.at \in Nat /\ p <= a.at /\ p \in Nat
BY DEF Meets, Within, Positions

\* One part, and the next: where z is what t has for the next.
LEMMA PartMeets ==
  ASSUME NEW s, Len(s) \in Nat, NEW p \in Positions(s), NEW a, NEW b, Meets(s, p, a, b),
         NEW x, NEW y, NEW z, Meets(s, a.at, x, z), a = b => y = z
  PROVE  Meets(s, p, a && x, b && y)
BY MeetsPosition, ThenMeets

\* A part that meets, and what comes after it.
LEMMA PartParses ==
  ASSUME NEW s, NEW t, Len(s) \in Nat, NEW p \in Positions(s), NEW a, NEW b, Parses(s, t, p, a, b),
         NEW x, NEW y, NEW z, Meets(s, a.at, x, z), a = b => y = z
  PROVE  Parses(s, t, p, a && x, b && y)
<1>1. p \in Nat
  BY DEF Positions
<1> QED
  BY <1>1, ThenParses

\* A part that meets, and the node built from it.
LEMMA LastMeets ==
  ASSUME NEW s, Len(s) \in Nat, NEW p \in Positions(s), NEW a, NEW b, Meets(s, p, a, b), NEW x, NEW y,
         a = b => x = y
  PROVE  Meets(s, p, a && Parsed(a.at, x), b && Parsed(b.at, y))
BY MeetsPosition, BuiltMeets

\* Nothing is read.
LEMMA NothingMeets ==
  ASSUME NEW s, NEW t, Begins(s, t), NEW p \in Positions(s), NEW x
  PROVE  Meets(s, p, Parsed(p, x), Parsed(p, x)) /\ Meets(s, p, Failed(p), Failed(p))
<1>1. p \in Nat /\ p <= p /\ p <= Len(s) + 1 /\ Len(s) \in Nat
  BY BeginsAt
<1>2. Within(s, p, Parsed(p, x)) /\ Within(s, p, Failed(p))
  BY <1>1, ParsedWithin
<1> QED
  BY <1>2, MeetsSame

\* The parts of statements, one after the other, meet and read on: a token.
LEMMA ExpectParses ==
  ASSUME NEW s, NEW t, Begins(s, t), NEW p \in Positions(s), NEW token, token # End
  PROVE  Parses(s, t, p, Expect(s, p, token), Expect(t, p, token))
BY BeginsAt, ExpectMeets, ExpectWithin DEF Parses

\* An identifier.
LEMMA IdentParses ==
  ASSUME NEW s, NEW t, Begins(s, t), NEW p \in Positions(s)
  PROVE  Parses(s, t, p, Ident(s, p), Ident(t, p))
BY BeginsAt, IdentMeets, IdentWithin DEF Parses

\* A token decides what is read: both texts have it, or s is at its end.
LEMMA DecidedMeets ==
  ASSUME NEW s, NEW t, Begins(s, t), NEW p \in Positions(s), NEW a, NEW b, Within(s, p, a),
         At(s, p) = At(t, p) => Meets(s, p, a, b)
  PROVE  Meets(s, p, a, b)
<1>1. CASE p <= Len(s)
  BY <1>1, BeginsAt
<1>2. CASE ~(p <= Len(s))
  <2>1. p = Len(s) + 1 /\ Len(s) \in Nat
    BY <1>2, BeginsAt
  <2> QED
    BY <2>1, MeetsAtEnd
<1> QED
  BY <1>1, <1>2

\* Names.
LEMMA NamesParse ==
  ASSUME NEW s, NEW t, Begins(s, t), NEW p \in Positions(s)
  PROVE  Parses(s, t, p, NameList(s, p), NameList(t, p))
<1> DEFINE items  == [q \in Positions(s) |-> Ident(s, q)]
           others == [q \in Positions(t) |-> Ident(t, q)]
<1>1. \A q \in Positions(t) : Ahead(t, q, others[q])
  <2>1. Begins(t, t)
    BY BeginsItself DEF Begins
  <2> QED
    BY <2>1, IdentParses DEF Parses
<1>2. \A q \in Positions(s) : q \in Positions(t) /\ Parses(s, t, q, items[q], others[q])
  BY BeginsAt, IdentParses
<1>3. ItemsMeet(s, t, items, others)
  BY <1>1, <1>2 DEF ItemsMeet, AreItems
<1> HIDE DEF items, others
<1>4. Parses(s, t, p, List(s, p, items), List(t, p, others))
  BY <1>3, ListParses
<1> QED
  BY <1>4 DEF NameList, items, others

\* Expressions.
LEMMA ExprsParse ==
  ASSUME NEW s, NEW t, Begins(s, t), NEW p \in Positions(s)
  PROVE  Parses(s, t, p, ExprList(s, p), ExprList(t, p))
<1> DEFINE items  == [q \in Positions(s) |-> FullExpr(s, q)]
           others == [q \in Positions(t) |-> FullExpr(t, q)]
<1>1. \A q \in Positions(t) : Ahead(t, q, others[q])
  <2>1. Begins(t, t)
    BY BeginsItself DEF Begins
  <2> QED
    BY <2>1, FullExprParses DEF Parses
<1>2. \A q \in Positions(s) : q \in Positions(t) /\ Parses(s, t, q, items[q], others[q])
  BY BeginsAt, FullExprParses
<1>3. ItemsMeet(s, t, items, others)
  BY <1>1, <1>2 DEF ItemsMeet, AreItems
<1> HIDE DEF items, others
<1>4. Parses(s, t, p, List(s, p, items), List(t, p, others))
  BY <1>3, ListParses
<1> QED
  BY <1>4 DEF ExprList, items, others

\* An assignment.
LEMMA AssignmentParses ==
  ASSUME NEW s, NEW t, Begins(s, t), NEW p \in Positions(s)
  PROVE  Parses(s, t, p, ParseAssignment(s, p), ParseAssignment(t, p))
<1> DEFINE Value(u, q, column) == LET value == FullExpr(u, q) IN value && Parsed(value.at, Assign(column, value.node))
           Eq(u, q, column)    == LET eq == Expect(u, q, "=") IN eq && Value(u, eq.at, column)
<1>0. Len(s) \in Nat /\ "=" # End
  BY DEF Begins, End
<1>1. ASSUME NEW q \in Positions(s), NEW column PROVE Meets(s, q, Value(s, q, column), Value(t, q, column))
  <2> DEFINE a == FullExpr(s, q)
             b == FullExpr(t, q)
  <2>1. Meets(s, q, a, b)
    BY FullExprParses DEF Parses
  <2> HIDE DEF a, b
  <2>2. Meets(s, q, a && Parsed(a.at, Assign(column, a.node)), b && Parsed(b.at, Assign(column, b.node)))
    BY <1>0, <2>1, LastMeets
  <2> QED
    BY <2>2 DEF a, b
<1>2. ASSUME NEW q \in Positions(s), NEW column PROVE Meets(s, q, Eq(s, q, column), Eq(t, q, column))
  <2> DEFINE a == Expect(s, q, "=")
             b == Expect(t, q, "=")
  <2>1. Meets(s, q, a, b)
    BY <1>0, ExpectMeets
  <2> HIDE DEF a, b, Value
  <2>2. Meets(s, a.at, Value(s, a.at, column), Value(t, a.at, column))
    BY <1>0, <1>1, <2>1, MeetsPosition
  <2>3. Meets(s, q, a && Value(s, a.at, column), b && Value(t, b.at, column))
    BY <1>0, <2>1, <2>2, PartMeets
  <2> QED
    BY <2>3 DEF a, b
<1> DEFINE a == Ident(s, p)
           b == Ident(t, p)
<1>3. ParseAssignment(s, p) = (a && Eq(s, a.at, a.node)) /\ ParseAssignment(t, p) = (b && Eq(t, b.at, b.node))
  BY DEF ParseAssignment, Made, &&
<1>4. Parses(s, t, p, a, b)
  BY IdentParses
<1> HIDE DEF a, b, Eq
<1>5. Meets(s, a.at, Eq(s, a.at, a.node), Eq(t, a.at, a.node))
  BY <1>0, <1>2, <1>4, MeetsPosition DEF Parses
<1>6. Parses(s, t, p, a && Eq(s, a.at, a.node), b && Eq(t, b.at, b.node))
  BY <1>0, <1>4, <1>5, PartParses
<1> QED
  BY <1>3, <1>6

\* A row.
LEMMA RowParses ==
  ASSUME NEW s, NEW t, Begins(s, t), NEW p \in Positions(s)
  PROVE  Parses(s, t, p, ParseRow(s, p), ParseRow(t, p))
<1> DEFINE Close(u, q, row) == LET r == Expect(u, q, ")") IN r && Parsed(r.at, row)
           Row(u, q) == LET r == ExprList(u, q) IN r && Close(u, r.at, r.node)
<1>0. Len(s) \in Nat /\ "(" # End /\ ")" # End
  BY BeginsAt DEF End
<1>1. ASSUME NEW q \in Positions(s), NEW row PROVE Meets(s, q, Close(s, q, row), Close(t, q, row))
  <2> DEFINE a == Expect(s, q, ")")
             b == Expect(t, q, ")")
  <2>1. Meets(s, q, a, b)
    BY <1>0, ExpectMeets
  <2> HIDE DEF a, b
  <2>2. Meets(s, q, a && Parsed(a.at, row), b && Parsed(b.at, row))
    BY <1>0, <2>1, LastMeets
  <2> QED
    BY <2>2 DEF a, b
<1>2. ASSUME NEW q \in Positions(s) PROVE Meets(s, q, Row(s, q), Row(t, q))
  <2> DEFINE a == ExprList(s, q)
             b == ExprList(t, q)
  <2>1. Meets(s, q, a, b)
    BY <1>0, ExprsParse DEF Parses
  <2> HIDE DEF a, b, Close
  <2>2. Meets(s, a.at, Close(s, a.at, a.node), Close(t, a.at, a.node))
    BY <1>0, <1>1, <2>1, MeetsPosition
  <2>3. Meets(s, q, a && Close(s, a.at, a.node), b && Close(t, b.at, b.node))
    BY <1>0, <2>1, <2>2, PartMeets
  <2> QED
    BY <2>3 DEF a, b
<1> DEFINE a == Expect(s, p, "(")
           b == Expect(t, p, "(")
<1>3. ParseRow(s, p) = (a && Row(s, a.at)) /\ ParseRow(t, p) = (b && Row(t, b.at))
  BY DEF ParseRow, Enclosed, &&
<1>4. Parses(s, t, p, a, b)
  BY <1>0, ExpectParses
<1> HIDE DEF a, b, Row
<1>5. Meets(s, a.at, Row(s, a.at), Row(t, a.at))
  BY <1>0, <1>2, <1>4, MeetsPosition DEF Parses
<1>6. Parses(s, t, p, a && Row(s, a.at), b && Row(t, b.at))
  BY <1>0, <1>4, <1>5, PartParses
<1> QED
  BY <1>3, <1>6

\* Rows.
LEMMA RowsParse ==
  ASSUME NEW s, NEW t, Begins(s, t), NEW p \in Positions(s)
  PROVE  Parses(s, t, p, List(s, p, [q \in Positions(s) |-> ParseRow(s, q)]),
                         List(t, p, [q \in Positions(t) |-> ParseRow(t, q)]))
<1> DEFINE items  == [q \in Positions(s) |-> ParseRow(s, q)]
           others == [q \in Positions(t) |-> ParseRow(t, q)]
<1>1. \A q \in Positions(t) : Ahead(t, q, others[q])
  <2>1. Begins(t, t)
    BY BeginsItself DEF Begins
  <2> QED
    BY <2>1, RowParses DEF Parses
<1>2. \A q \in Positions(s) : q \in Positions(t) /\ Parses(s, t, q, items[q], others[q])
  BY BeginsAt, RowParses
<1>3. ItemsMeet(s, t, items, others)
  BY <1>1, <1>2 DEF ItemsMeet, AreItems
<1> HIDE DEF items, others
<1>4. Parses(s, t, p, List(s, p, items), List(t, p, others))
  BY <1>3, ListParses
<1> QED
  BY <1>4 DEF items, others

\* Assignments.
LEMMA AssignmentsParse ==
  ASSUME NEW s, NEW t, Begins(s, t), NEW p \in Positions(s)
  PROVE  Parses(s, t, p, List(s, p, [q \in Positions(s) |-> ParseAssignment(s, q)]),
                         List(t, p, [q \in Positions(t) |-> ParseAssignment(t, q)]))
<1> DEFINE items  == [q \in Positions(s) |-> ParseAssignment(s, q)]
           others == [q \in Positions(t) |-> ParseAssignment(t, q)]
<1>1. \A q \in Positions(t) : Ahead(t, q, others[q])
  <2>1. Begins(t, t)
    BY BeginsItself DEF Begins
  <2> QED
    BY <2>1, AssignmentParses DEF Parses
<1>2. \A q \in Positions(s) : q \in Positions(t) /\ Parses(s, t, q, items[q], others[q])
  BY BeginsAt, AssignmentParses
<1>3. ItemsMeet(s, t, items, others)
  BY <1>1, <1>2 DEF ItemsMeet, AreItems
<1> HIDE DEF items, others
<1>4. Parses(s, t, p, List(s, p, items), List(t, p, others))
  BY <1>3, ListParses
<1> QED
  BY <1>4 DEF items, others

\* A WHERE, which may be missing and then reads nothing.
LEMMA WhereMeets ==
  ASSUME NEW s, NEW t, Begins(s, t), NEW p \in Positions(s)
  PROVE  Meets(s, p, OptWhere(s, p), OptWhere(t, p))
<1>0. p \in Nat /\ Len(s) \in Nat
  BY BeginsAt
<1>1. p \in Nat /\ p + 1 \in Nat /\ p <= p + 1 /\ Len(s) \in Nat /\ "WHERE" # End
  BY <1>0 DEF End
<1>2. CASE At(s, p) # "WHERE"
  <2>1. OptWhere(s, p) = Parsed(p, None)
    BY <1>2 DEF OptWhere, Made
  <2>2. Within(s, p, OptWhere(s, p))
    BY <2>1, NothingMeets DEF Meets
  <2>3. At(s, p) = At(t, p) => Meets(s, p, OptWhere(s, p), OptWhere(t, p))
    BY <1>2, <2>2 DEF OptWhere, Made, Meets
  <2> QED
    BY <2>2, <2>3, DecidedMeets
<1>3. CASE At(s, p) = "WHERE"
  <2>1. p <= Len(s) /\ p + 1 \in Positions(s) /\ At(t, p) = "WHERE"
    BY <1>1, <1>3, TokenWithin, BeginsAt
  <2> DEFINE a == FullExpr(s, p + 1)
             b == FullExpr(t, p + 1)
  <2>2. Meets(s, p + 1, a, b)
    BY <2>1, FullExprParses DEF Parses
  <2>3. OptWhere(s, p) = (a && Parsed(a.at, Some(a.node))) /\ OptWhere(t, p) = (b && Parsed(b.at, Some(b.node)))
    BY <1>3, <2>1 DEF OptWhere, Made
  <2> HIDE DEF a, b
  <2>4. Meets(s, p, a, b)
    BY <1>1, <2>2, MeetsFurther
  <2> QED
    BY <1>1, <2>3, <2>4, LastMeets
<1> QED
  BY <1>2, <1>3

\* UPDATE.
LEMMA UpdateParses ==
  ASSUME NEW s, NEW t, Begins(s, t), NEW p \in Positions(s)
  PROVE  Parses(s, t, p, ParseUpdate(s, p), ParseUpdate(t, p))
<1> DEFINE Filter(u, q, table, assignments) == LET r == OptWhere(u, q) IN r && Parsed(r.at, Update(table, assignments, r.node))
           Assignments(u, q, table) == LET r == List(u, q, [i \in Positions(u) |-> ParseAssignment(u, i)]) IN r && Filter(u, r.at, table, r.node)
           Set(u, q, table) == LET r == Expect(u, q, "SET") IN r && Assignments(u, r.at, table)
<1>0. Len(s) \in Nat /\ "SET" # End
  BY BeginsAt DEF End
<1>1. ASSUME NEW q \in Positions(s), NEW table, NEW assignments PROVE Meets(s, q, Filter(s, q, table, assignments), Filter(t, q, table, assignments))
  <2> DEFINE a == OptWhere(s, q)
             b == OptWhere(t, q)
  <2>1. Meets(s, q, a, b)
    BY <1>0, WhereMeets
  <2> HIDE DEF a, b
  <2>2. Meets(s, q, a && Parsed(a.at, Update(table, assignments, a.node)), b && Parsed(b.at, Update(table, assignments, b.node)))
    BY <1>0, <2>1, LastMeets
  <2> QED
    BY <2>2 DEF a, b
<1>2. ASSUME NEW q \in Positions(s), NEW table PROVE Meets(s, q, Assignments(s, q, table), Assignments(t, q, table))
  <2> DEFINE a == List(s, q, [i \in Positions(s) |-> ParseAssignment(s, i)])
             b == List(t, q, [i \in Positions(t) |-> ParseAssignment(t, i)])
  <2>1. Meets(s, q, a, b)
    BY <1>0, AssignmentsParse DEF Parses
  <2> HIDE DEF a, b, Filter
  <2>2. Meets(s, a.at, Filter(s, a.at, table, a.node), Filter(t, a.at, table, a.node))
    BY <1>0, <1>1, <2>1, MeetsPosition
  <2>3. Meets(s, q, a && Filter(s, a.at, table, a.node), b && Filter(t, b.at, table, b.node))
    BY <1>0, <2>1, <2>2, PartMeets
  <2> QED
    BY <2>3 DEF a, b
<1>3. ASSUME NEW q \in Positions(s), NEW table PROVE Meets(s, q, Set(s, q, table), Set(t, q, table))
  <2> DEFINE a == Expect(s, q, "SET")
             b == Expect(t, q, "SET")
  <2>1. Meets(s, q, a, b)
    BY <1>0, ExpectMeets
  <2> HIDE DEF a, b, Assignments
  <2>2. Meets(s, a.at, Assignments(s, a.at, table), Assignments(t, a.at, table))
    BY <1>0, <1>2, <2>1, MeetsPosition
  <2>3. Meets(s, q, a && Assignments(s, a.at, table), b && Assignments(t, b.at, table))
    BY <1>0, <2>1, <2>2, PartMeets
  <2> QED
    BY <2>3 DEF a, b
<1> DEFINE a == Ident(s, p)
           b == Ident(t, p)
<1>4. ParseUpdate(s, p) = (a && Set(s, a.at, a.node)) /\ ParseUpdate(t, p) = (b && Set(t, b.at, b.node))
  BY DEF ParseUpdate, UpdateAfter, Made, &&
<1>5. Parses(s, t, p, a, b)
  BY <1>0, IdentParses
<1> HIDE DEF a, b, Set
<1>6. Meets(s, a.at, Set(s, a.at, a.node), Set(t, a.at, a.node))
  BY <1>0, <1>3, <1>5, MeetsPosition DEF Parses
<1>7. Parses(s, t, p, a && Set(s, a.at, a.node), b && Set(t, b.at, b.node))
  BY <1>0, <1>5, <1>6, PartParses
<1> QED
  BY <1>4, <1>7

\* DELETE.
LEMMA DeleteParses ==
  ASSUME NEW s, NEW t, Begins(s, t), NEW p \in Positions(s)
  PROVE  Parses(s, t, p, ParseDelete(s, p), ParseDelete(t, p))
<1> DEFINE Filter(u, q, table) == LET r == OptWhere(u, q) IN r && Parsed(r.at, Delete(table, r.node))
           OfTable(u, q) == LET r == Ident(u, q) IN r && Filter(u, r.at, r.node)
<1>0. Len(s) \in Nat /\ "FROM" # End
  BY BeginsAt DEF End
<1>1. ASSUME NEW q \in Positions(s), NEW table PROVE Meets(s, q, Filter(s, q, table), Filter(t, q, table))
  <2> DEFINE a == OptWhere(s, q)
             b == OptWhere(t, q)
  <2>1. Meets(s, q, a, b)
    BY <1>0, WhereMeets
  <2> HIDE DEF a, b
  <2>2. Meets(s, q, a && Parsed(a.at, Delete(table, a.node)), b && Parsed(b.at, Delete(table, b.node)))
    BY <1>0, <2>1, LastMeets
  <2> QED
    BY <2>2 DEF a, b
<1>2. ASSUME NEW q \in Positions(s) PROVE Meets(s, q, OfTable(s, q), OfTable(t, q))
  <2> DEFINE a == Ident(s, q)
             b == Ident(t, q)
  <2>1. Meets(s, q, a, b)
    BY <1>0, IdentMeets
  <2> HIDE DEF a, b, Filter
  <2>2. Meets(s, a.at, Filter(s, a.at, a.node), Filter(t, a.at, a.node))
    BY <1>0, <1>1, <2>1, MeetsPosition
  <2>3. Meets(s, q, a && Filter(s, a.at, a.node), b && Filter(t, b.at, b.node))
    BY <1>0, <2>1, <2>2, PartMeets
  <2> QED
    BY <2>3 DEF a, b
<1> DEFINE a == Expect(s, p, "FROM")
           b == Expect(t, p, "FROM")
<1>3. ParseDelete(s, p) = (a && OfTable(s, a.at)) /\ ParseDelete(t, p) = (b && OfTable(t, b.at))
  BY DEF ParseDelete, Made, &&
<1>4. Parses(s, t, p, a, b)
  BY <1>0, ExpectParses
<1> HIDE DEF a, b, OfTable
<1>5. Meets(s, a.at, OfTable(s, a.at), OfTable(t, a.at))
  BY <1>0, <1>2, <1>4, MeetsPosition DEF Parses
<1>6. Parses(s, t, p, a && OfTable(s, a.at), b && OfTable(t, b.at))
  BY <1>0, <1>4, <1>5, PartParses
<1> QED
  BY <1>3, <1>6

\* The column names of an INSERT, which may be missing.
LEMMA OptNamesMeet ==
  ASSUME NEW s, NEW t, Begins(s, t), NEW p \in Positions(s)
  PROVE  Meets(s, p, OptNames(s, p), OptNames(t, p))
<1>0. p \in Nat /\ Len(s) \in Nat
  BY BeginsAt
<1>1. p \in Nat /\ p + 1 \in Nat /\ p <= p + 1 /\ Len(s) \in Nat /\ "(" # End /\ ")" # End
  BY <1>0 DEF End
<1>2. CASE At(s, p) # "("
  <2>1. OptNames(s, p) = Parsed(p, None)
    BY <1>2 DEF OptNames
  <2>2. Within(s, p, OptNames(s, p))
    BY <2>1, NothingMeets DEF Meets
  <2>3. At(s, p) = At(t, p) => Meets(s, p, OptNames(s, p), OptNames(t, p))
    BY <1>2, <2>2 DEF OptNames, Meets
  <2> QED
    BY <2>2, <2>3, DecidedMeets
<1>3. CASE At(s, p) = "("
  <2>1. p <= Len(s) /\ p + 1 \in Positions(s) /\ At(t, p) = "("
    BY <1>1, <1>3, TokenWithin, BeginsAt
  <2> DEFINE Close(u, q, names) == LET r == Expect(u, q, ")") IN r && Parsed(r.at, Some(names))
             a == NameList(s, p + 1)
             b == NameList(t, p + 1)
  <2>2. ASSUME NEW q \in Positions(s), NEW names PROVE Meets(s, q, Close(s, q, names), Close(t, q, names))
    <3> DEFINE c == Expect(s, q, ")")
               d == Expect(t, q, ")")
    <3>1. Meets(s, q, c, d)
      BY <1>1, ExpectMeets
    <3> HIDE DEF c, d
    <3>2. Meets(s, q, c && Parsed(c.at, Some(names)), d && Parsed(d.at, Some(names)))
      BY <1>1, <3>1, LastMeets
    <3> QED
      BY <3>2 DEF c, d
  <2>3. OptNames(s, p) = (a && Close(s, a.at, a.node)) /\ OptNames(t, p) = (b && Close(t, b.at, b.node))
    BY <1>3, <2>1 DEF OptNames, &&
  <2>4. Meets(s, p + 1, a, b)
    BY <2>1, NamesParse DEF Parses
  <2> HIDE DEF a, b, Close
  <2>5. Meets(s, p, a, b)
    BY <1>1, <2>4, MeetsFurther
  <2>6. Meets(s, a.at, Close(s, a.at, a.node), Close(t, a.at, a.node))
    BY <1>1, <2>2, <2>5, MeetsPosition
  <2>7. Meets(s, p, a && Close(s, a.at, a.node), b && Close(t, b.at, b.node))
    BY <1>1, <2>5, <2>6, PartMeets
  <2> QED
    BY <2>3, <2>7
<1> QED
  BY <1>2, <1>3

\* INSERT.
LEMMA InsertParses ==
  ASSUME NEW s, NEW t, Begins(s, t), NEW p \in Positions(s)
  PROVE  Parses(s, t, p, ParseInsert(s, p), ParseInsert(t, p))
<1> DEFINE OfValues(u, q, table, columns) == LET r == List(u, q, [i \in Positions(u) |-> ParseRow(u, i)]) IN r && Parsed(r.at, Insert(table, columns, r.node))
           Word(u, q, table, columns) == LET r == Expect(u, q, "VALUES") IN r && OfValues(u, r.at, table, columns)
           Named(u, q, table) == LET r == OptNames(u, q) IN r && Word(u, r.at, table, r.node)
           OfTable(u, q) == LET r == Ident(u, q) IN r && Named(u, r.at, r.node)
<1>0. Len(s) \in Nat /\ "INTO" # End /\ "VALUES" # End
  BY BeginsAt DEF End
<1>1. ASSUME NEW q \in Positions(s), NEW table, NEW columns PROVE Meets(s, q, OfValues(s, q, table, columns), OfValues(t, q, table, columns))
  <2> DEFINE a == List(s, q, [i \in Positions(s) |-> ParseRow(s, i)])
             b == List(t, q, [i \in Positions(t) |-> ParseRow(t, i)])
  <2>1. Meets(s, q, a, b)
    BY <1>0, RowsParse DEF Parses
  <2> HIDE DEF a, b
  <2>2. Meets(s, q, a && Parsed(a.at, Insert(table, columns, a.node)), b && Parsed(b.at, Insert(table, columns, b.node)))
    BY <1>0, <2>1, LastMeets
  <2> QED
    BY <2>2 DEF a, b
<1>2. ASSUME NEW q \in Positions(s), NEW table, NEW columns PROVE Meets(s, q, Word(s, q, table, columns), Word(t, q, table, columns))
  <2> DEFINE a == Expect(s, q, "VALUES")
             b == Expect(t, q, "VALUES")
  <2>1. Meets(s, q, a, b)
    BY <1>0, ExpectMeets
  <2> HIDE DEF a, b, OfValues
  <2>2. Meets(s, a.at, OfValues(s, a.at, table, columns), OfValues(t, a.at, table, columns))
    BY <1>0, <1>1, <2>1, MeetsPosition
  <2>3. Meets(s, q, a && OfValues(s, a.at, table, columns), b && OfValues(t, b.at, table, columns))
    BY <1>0, <2>1, <2>2, PartMeets
  <2> QED
    BY <2>3 DEF a, b
<1>3. ASSUME NEW q \in Positions(s), NEW table PROVE Meets(s, q, Named(s, q, table), Named(t, q, table))
  <2> DEFINE a == OptNames(s, q)
             b == OptNames(t, q)
  <2>1. Meets(s, q, a, b)
    BY <1>0, OptNamesMeet
  <2> HIDE DEF a, b, Word
  <2>2. Meets(s, a.at, Word(s, a.at, table, a.node), Word(t, a.at, table, a.node))
    BY <1>0, <1>2, <2>1, MeetsPosition
  <2>3. Meets(s, q, a && Word(s, a.at, table, a.node), b && Word(t, b.at, table, b.node))
    BY <1>0, <2>1, <2>2, PartMeets
  <2> QED
    BY <2>3 DEF a, b
<1>4. ASSUME NEW q \in Positions(s) PROVE Meets(s, q, OfTable(s, q), OfTable(t, q))
  <2> DEFINE a == Ident(s, q)
             b == Ident(t, q)
  <2>1. Meets(s, q, a, b)
    BY <1>0, IdentMeets
  <2> HIDE DEF a, b, Named
  <2>2. Meets(s, a.at, Named(s, a.at, a.node), Named(t, a.at, a.node))
    BY <1>0, <1>3, <2>1, MeetsPosition
  <2>3. Meets(s, q, a && Named(s, a.at, a.node), b && Named(t, b.at, b.node))
    BY <1>0, <2>1, <2>2, PartMeets
  <2> QED
    BY <2>3 DEF a, b
<1> DEFINE a == Expect(s, p, "INTO")
           b == Expect(t, p, "INTO")
<1>5. ParseInsert(s, p) = (a && OfTable(s, a.at)) /\ ParseInsert(t, p) = (b && OfTable(t, b.at))
  BY DEF ParseInsert, Made, &&
<1>6. Parses(s, t, p, a, b)
  BY <1>0, ExpectParses
<1> HIDE DEF a, b, OfTable
<1>7. Meets(s, a.at, OfTable(s, a.at), OfTable(t, a.at))
  BY <1>0, <1>4, <1>6, MeetsPosition DEF Parses
<1>8. Parses(s, t, p, a && OfTable(s, a.at), b && OfTable(t, b.at))
  BY <1>0, <1>6, <1>7, PartParses
<1> QED
  BY <1>5, <1>8

-----------------------------------------------------------------------------
(* The flags of a column.                                                  *)

\* The second word of a flag, and where the next flag may be.
FlagWord(token) == IF token = "PRIMARY" THEN "KEY" ELSE "NULL"

\* A flag is two tokens, and what comes after it is later in the text.
LEMMA FlagNext ==
  ASSUME NEW ts, Len(ts) \in Nat, NEW i \in Positions(ts), At(ts, i) \in {"PRIMARY", "NOT"}, NEW token
  PROVE  LET word == Expect(ts, i + 1, FlagWord(token))
         IN  /\ Ahead(ts, i + 1, word)
             /\ word.at \in Positions(ts) /\ word.at \in i + 1 .. Len(ts) + 1 /\ i < word.at
             /\ i + 1 \in Positions(ts)
<1> DEFINE word == Expect(ts, i + 1, FlagWord(token))
<1>1. i \in Nat /\ i + 1 \in Nat /\ i < i + 1
  BY PositionsAre
<1>2. At(ts, i) # End /\ FlagWord(token) # End
  BY DEF End, FlagWord
<1>3. i <= Len(ts)
  BY <1>1, <1>2, TokenWithin
<1>4. i + 1 <= Len(ts) + 1 /\ i + 1 \in Positions(ts)
  BY <1>1, <1>3 DEF Positions
<1>5. Ahead(ts, i + 1, word)
  BY <1>1, <1>2, <1>4, ExpectWithin
<1> HIDE DEF word
<1>6. word.at \in Nat /\ i + 1 <= word.at /\ word.at <= Len(ts) + 1
  BY <1>5 DEF Ahead, Within
<1> DEFINE e == word.at
<1>7. e \in Nat /\ i + 1 <= e /\ e <= Len(ts) + 1
  BY <1>6
<1> HIDE DEF e
<1>8. e \in Positions(ts) /\ e \in i + 1 .. Len(ts) + 1 /\ i < e
  BY <1>1, <1>7 DEF Positions
<1> QED
  BY <1>4, <1>5, <1>8 DEF e, word

\* So the flags of a column look only at later positions.
LEMMA FlagsLater ==
  ASSUME NEW ts, Len(ts) \in Nat PROVE LaterOnly(ts, OfFlags)
<1> SUFFICES ASSUME NEW i \in Positions(ts), NEW f, NEW h, \A j \in i + 1 .. Len(ts) + 1 : f[j] = h[j]
             PROVE  FlagsTurn(ts, i, f) = FlagsTurn(ts, i, h)
  BY TurnIs DEF LaterOnly
<1> DEFINE word == Expect(ts, i + 1, FlagWord(At(ts, i)))
<1>1. CASE At(ts, i) \in {"PRIMARY", "NOT"}
  <2>1. f[word.at] = h[word.at]
    BY <1>1, FlagNext
  <2> QED
    BY <1>1, <2>1 DEF FlagsTurn, FlagWord
<1>2. CASE At(ts, i) \notin {"PRIMARY", "NOT"}
  BY <1>2 DEF FlagsTurn
<1> QED
  BY <1>1, <1>2

\* The flags are none, or one and those after it.
LEMMA FlagsUnfold ==
  ASSUME NEW ts, Len(ts) \in Nat, NEW q \in Positions(ts)
  PROVE  /\ At(ts, q) \notin {"PRIMARY", "NOT"} => ParseFlags(ts, q) = Parsed(q, {})
         /\ At(ts, q) \in {"PRIMARY", "NOT"} =>
              LET word == Expect(ts, q + 1, FlagWord(At(ts, q)))
                  rest == ParseFlags(ts, word.at)
              IN  ParseFlags(ts, q) = (word && (rest && Parsed(rest.at, {At(ts, q)} \cup rest.node)))
<1> DEFINE from == CHOOSE f : f = [p \in Positions(ts) |-> FlagsTurn(ts, p, f)]
<1>1. PICK f : f = [p \in Positions(ts) |-> Turn(ts, OfFlags, p, f)]
  BY FlagsLater, TurnsExist
<1>2. \A p : Turn(ts, OfFlags, p, f) = FlagsTurn(ts, p, f)
  BY TurnIs
<1>3. f = [p \in Positions(ts) |-> FlagsTurn(ts, p, f)]
  BY <1>1, <1>2
<1>4. from = [p \in Positions(ts) |-> FlagsTurn(ts, p, from)]
  BY <1>3
<1>5. \A p : ParseFlags(ts, p) = from[p]
  BY DEF ParseFlags, FlagsTurn
<1> HIDE DEF from
<1>6. ParseFlags(ts, q) = FlagsTurn(ts, q, from)
  BY <1>4, <1>5
<1>7. FlagsTurn(ts, q, from) =
        LET word == Expect(ts, q + 1, FlagWord(At(ts, q)))
        IN  IF At(ts, q) \in {"PRIMARY", "NOT"}
            THEN word && (from[word.at] && Parsed(from[word.at].at, {At(ts, q)} \cup from[word.at].node))
            ELSE Parsed(q, {})
  BY DEF FlagsTurn, FlagWord, &&
<1> QED
  BY <1>5, <1>6, <1>7

\* Flags meet, at every position: by induction from the end of the beginning.
LEMMA FlagsMeet ==
  ASSUME NEW s, NEW t, Begins(s, t)
  PROVE  \A p \in Positions(s) : Meets(s, p, ParseFlags(s, p), ParseFlags(t, p))
<1> DEFINE n == Len(s) + 1
           G == {q \in 1 .. n : Meets(s, q, ParseFlags(s, q), ParseFlags(t, q))}
<1>1. Len(s) \in Nat /\ Len(t) \in Nat /\ n \in Nat /\ Positions(s) = 1 .. n
  BY DEF Begins, Positions
<1>2. ASSUME NEW q \in 1 .. n, \A j \in q + 1 .. n : j \in G PROVE q \in G
  <2>1. q \in Positions(s) /\ q \in Positions(t) /\ q \in Nat /\ q + 1 \in Nat /\ q <= q + 1
    BY <1>1, BeginsAt
  <2>2. CASE At(s, q) \notin {"PRIMARY", "NOT"}
    <3>1. ParseFlags(s, q) = Parsed(q, {})
      BY <1>1, <2>1, <2>2, FlagsUnfold
    <3>2. At(s, q) = At(t, q) => ParseFlags(t, q) = Parsed(q, {})
      BY <1>1, <2>1, <2>2, FlagsUnfold
    <3>3. Meets(s, q, Parsed(q, {}), Parsed(q, {}))
      BY <2>1, NothingMeets
    <3>4. Within(s, q, ParseFlags(s, q))
      BY <3>1, <3>3 DEF Meets
    <3>5. At(s, q) = At(t, q) => Meets(s, q, ParseFlags(s, q), ParseFlags(t, q))
      BY <3>1, <3>2, <3>3
    <3> QED
      BY <2>1, <3>4, <3>5, DecidedMeets
  <2>3. CASE At(s, q) \in {"PRIMARY", "NOT"}
    <3> DEFINE token == At(s, q)
               a == Expect(s, q + 1, FlagWord(token))
               b == Expect(t, q + 1, FlagWord(token))
               Rest(r) == r && Parsed(r.at, {token} \cup r.node)
    <3>1. /\ Ahead(s, q + 1, a) /\ a.at \in Positions(s) /\ a.at \in q + 1 .. n
          /\ q + 1 \in Positions(s)
      BY <1>1, <2>1, <2>3, FlagNext
    <3>2. token = At(t, q)
      <4>1. token # End
        BY <2>3 DEF End
      <4> QED
        BY <1>1, <2>1, <4>1, TokenWithin, BeginsAt
    <3>3. /\ ParseFlags(s, q) = (a && Rest(ParseFlags(s, a.at)))
          /\ ParseFlags(t, q) = (b && Rest(ParseFlags(t, b.at)))
      BY <1>1, <2>1, <2>3, <3>2, FlagsUnfold
    <3>4. FlagWord(token) # End
      BY DEF FlagWord, End
    <3>5. Meets(s, q + 1, a, b)
      BY <3>1, <3>4, ExpectMeets
    <3> HIDE DEF a, b
    <3>6. Meets(s, q, a, b)
      BY <2>1, <3>5, MeetsFurther
    <3> DEFINE c == ParseFlags(s, a.at)
               d == ParseFlags(t, a.at)
    <3>7. Meets(s, a.at, c, d)
      BY <1>2, <3>1
    <3>8. Meets(s, a.at, c && Parsed(c.at, {token} \cup c.node), d && Parsed(d.at, {token} \cup d.node))
      <4> HIDE DEF c, d, token
      <4> QED
        BY <1>1, <3>1, <3>7, LastMeets
    <3>9. Meets(s, a.at, Rest(c), Rest(d))
      BY <3>8
    <3>10. Meets(s, a.at, Rest(ParseFlags(s, a.at)), Rest(ParseFlags(t, a.at)))
      BY <3>9
    <3> HIDE DEF Rest, token, c, d
    <3>11. Meets(s, q, a && Rest(ParseFlags(s, a.at)), b && Rest(ParseFlags(t, b.at)))
      BY <1>1, <2>1, <3>6, <3>10, PartMeets
    <3> QED
      BY <3>3, <3>11
  <2> QED
    BY <2>2, <2>3
<1> HIDE DEF G
<1>3. \A q \in 1 .. n : q \in G
  BY <1>1, <1>2, Downwards DEF n
<1> QED
  BY <1>1, <1>3 DEF G

\* A column of a CREATE TABLE.
LEMMA ColumnParses ==
  ASSUME NEW s, NEW t, Begins(s, t), NEW p \in Positions(s)
  PROVE  Parses(s, t, p, ParseColumn(s, p), ParseColumn(t, p))
<1> DEFINE Flags(u, q, name, type) ==
             LET r == ParseFlags(u, q)
             IN  r && Parsed(r.at, ColumnSpec(name, type, "PRIMARY" \in r.node, "NOT" \in r.node))
           Type(u, q, name) == IF At(u, q) \notin ColumnTypeWords THEN Failed(q) ELSE Flags(u, q + 1, name, At(u, q))
<1>0. Len(s) \in Nat /\ Len(t) \in Nat
  BY DEF Begins
<1>1. ASSUME NEW q \in Positions(s), NEW name, NEW type
      PROVE  Meets(s, q, Flags(s, q, name, type), Flags(t, q, name, type))
  <2> DEFINE a == ParseFlags(s, q)
             b == ParseFlags(t, q)
             Spec(r) == ColumnSpec(name, type, "PRIMARY" \in r.node, "NOT" \in r.node)
  <2>1. Meets(s, q, a, b)
    BY FlagsMeet
  <2>2. Flags(s, q, name, type) = (a && Parsed(a.at, Spec(a))) /\ Flags(t, q, name, type) = (b && Parsed(b.at, Spec(b)))
    OBVIOUS
  <2>3. a = b => Spec(a) = Spec(b)
    OBVIOUS
  <2> HIDE DEF a, b, Flags, Spec
  <2> QED
    BY <1>0, <2>1, <2>2, <2>3, LastMeets
<1>2. ASSUME NEW q \in Positions(s), NEW name PROVE Meets(s, q, Type(s, q, name), Type(t, q, name))
  <2>1. q \in Nat /\ q \in Positions(t) /\ q + 1 \in Nat /\ q <= q + 1
    BY <1>0, BeginsAt, PositionsAre
  <2>2. CASE At(s, q) \notin ColumnTypeWords
    <3>1. Type(s, q, name) = Failed(q)
      BY <2>2
    <3>2. At(s, q) = At(t, q) => Type(t, q, name) = Failed(q)
      BY <2>2
    <3>3. Meets(s, q, Failed(q), Failed(q))
      BY NothingMeets
    <3> HIDE DEF Type
    <3>4. Within(s, q, Type(s, q, name))
      BY <3>1, <3>3 DEF Meets
    <3>5. At(s, q) = At(t, q) => Meets(s, q, Type(s, q, name), Type(t, q, name))
      BY <3>1, <3>2, <3>3
    <3> QED
      BY <3>4, <3>5, DecidedMeets
  <2>3. CASE At(s, q) \in ColumnTypeWords
    <3>1. At(s, q) # End
      BY <2>3, EndIsNoToken
    <3>2. At(t, q) = At(s, q) /\ q + 1 \in Positions(s)
      BY <1>0, <2>1, <3>1, TokenWithin, BeginsAt
    <3>3. Type(s, q, name) = Flags(s, q + 1, name, At(s, q)) /\ Type(t, q, name) = Flags(t, q + 1, name, At(s, q))
      BY <2>3, <3>2
    <3> HIDE DEF Type, Flags
    <3> QED
      BY <1>1, <2>1, <3>2, <3>3, MeetsFurther
  <2> QED
    BY <2>2, <2>3
<1> DEFINE a == Ident(s, p)
           b == Ident(t, p)
<1>3. ParseColumn(s, p) = (a && Type(s, a.at, a.node)) /\ ParseColumn(t, p) = (b && Type(t, b.at, b.node))
  BY DEF ParseColumn, &&
<1>4. Parses(s, t, p, a, b)
  BY IdentParses
<1> HIDE DEF a, b, Type
<1>5. Meets(s, a.at, Type(s, a.at, a.node), Type(t, a.at, a.node))
  BY <1>0, <1>2, <1>4, MeetsPosition DEF Parses
<1>6. Parses(s, t, p, a && Type(s, a.at, a.node), b && Type(t, b.at, b.node))
  BY <1>0, <1>4, <1>5, PartParses
<1> QED
  BY <1>3, <1>6

\* Columns.
LEMMA ColumnsParse ==
  ASSUME NEW s, NEW t, Begins(s, t), NEW p \in Positions(s)
  PROVE  Parses(s, t, p, List(s, p, [q \in Positions(s) |-> ParseColumn(s, q)]),
                         List(t, p, [q \in Positions(t) |-> ParseColumn(t, q)]))
<1> DEFINE items  == [q \in Positions(s) |-> ParseColumn(s, q)]
           others == [q \in Positions(t) |-> ParseColumn(t, q)]
<1>1. \A q \in Positions(t) : Ahead(t, q, others[q])
  <2>1. Begins(t, t)
    BY BeginsItself DEF Begins
  <2> QED
    BY <2>1, ColumnParses DEF Parses
<1>2. \A q \in Positions(s) : q \in Positions(t) /\ Parses(s, t, q, items[q], others[q])
  BY BeginsAt, ColumnParses
<1>3. ItemsMeet(s, t, items, others)
  BY <1>1, <1>2 DEF ItemsMeet, AreItems
<1> HIDE DEF items, others
<1>4. Parses(s, t, p, List(s, p, items), List(t, p, others))
  BY <1>3, ListParses
<1> QED
  BY <1>4 DEF items, others

\* CREATE TABLE.
LEMMA CreateParses ==
  ASSUME NEW s, NEW t, Begins(s, t), NEW p \in Positions(s)
  PROVE  Parses(s, t, p, ParseCreate(s, p), ParseCreate(t, p))
<1> DEFINE Close(u, q, name, columns) == LET r == Expect(u, q, ")") IN r && Parsed(r.at, CreateTable(name, columns))
           OfColumns(u, q, name) == LET r == List(u, q, [i \in Positions(u) |-> ParseColumn(u, i)]) IN r && Close(u, r.at, name, r.node)
           Open(u, q, name) == LET r == Expect(u, q, "(") IN r && OfColumns(u, r.at, name)
           OfTable(u, q) == LET r == Ident(u, q) IN r && Open(u, r.at, r.node)
<1>0. Len(s) \in Nat /\ "(" # End /\ ")" # End /\ "TABLE" # End
  BY BeginsAt DEF End
<1>1. ASSUME NEW q \in Positions(s), NEW name, NEW columns PROVE Meets(s, q, Close(s, q, name, columns), Close(t, q, name, columns))
  <2> DEFINE a == Expect(s, q, ")")
             b == Expect(t, q, ")")
  <2>1. Meets(s, q, a, b)
    BY <1>0, ExpectMeets
  <2> HIDE DEF a, b
  <2>2. Meets(s, q, a && Parsed(a.at, CreateTable(name, columns)), b && Parsed(b.at, CreateTable(name, columns)))
    BY <1>0, <2>1, LastMeets
  <2> QED
    BY <2>2 DEF a, b
<1>2. ASSUME NEW q \in Positions(s), NEW name PROVE Meets(s, q, OfColumns(s, q, name), OfColumns(t, q, name))
  <2> DEFINE a == List(s, q, [i \in Positions(s) |-> ParseColumn(s, i)])
             b == List(t, q, [i \in Positions(t) |-> ParseColumn(t, i)])
  <2>1. Meets(s, q, a, b)
    BY <1>0, ColumnsParse DEF Parses
  <2> HIDE DEF a, b, Close
  <2>2. Meets(s, a.at, Close(s, a.at, name, a.node), Close(t, a.at, name, a.node))
    BY <1>0, <1>1, <2>1, MeetsPosition
  <2>3. Meets(s, q, a && Close(s, a.at, name, a.node), b && Close(t, b.at, name, b.node))
    BY <1>0, <2>1, <2>2, PartMeets
  <2> QED
    BY <2>3 DEF a, b
<1>3. ASSUME NEW q \in Positions(s), NEW name PROVE Meets(s, q, Open(s, q, name), Open(t, q, name))
  <2> DEFINE a == Expect(s, q, "(")
             b == Expect(t, q, "(")
  <2>1. Meets(s, q, a, b)
    BY <1>0, ExpectMeets
  <2> HIDE DEF a, b, OfColumns
  <2>2. Meets(s, a.at, OfColumns(s, a.at, name), OfColumns(t, a.at, name))
    BY <1>0, <1>2, <2>1, MeetsPosition
  <2>3. Meets(s, q, a && OfColumns(s, a.at, name), b && OfColumns(t, b.at, name))
    BY <1>0, <2>1, <2>2, PartMeets
  <2> QED
    BY <2>3 DEF a, b
<1>4. ASSUME NEW q \in Positions(s) PROVE Meets(s, q, OfTable(s, q), OfTable(t, q))
  <2> DEFINE a == Ident(s, q)
             b == Ident(t, q)
  <2>1. Meets(s, q, a, b)
    BY <1>0, IdentMeets
  <2> HIDE DEF a, b, Open
  <2>2. Meets(s, a.at, Open(s, a.at, a.node), Open(t, a.at, a.node))
    BY <1>0, <1>3, <2>1, MeetsPosition
  <2>3. Meets(s, q, a && Open(s, a.at, a.node), b && Open(t, b.at, b.node))
    BY <1>0, <2>1, <2>2, PartMeets
  <2> QED
    BY <2>3 DEF a, b
<1> DEFINE a == Expect(s, p, "TABLE")
           b == Expect(t, p, "TABLE")
<1>5. ParseCreate(s, p) = (a && OfTable(s, a.at)) /\ ParseCreate(t, p) = (b && OfTable(t, b.at))
  BY DEF ParseCreate, &&
<1>6. Parses(s, t, p, a, b)
  BY <1>0, ExpectParses
<1> HIDE DEF a, b, OfTable
<1>7. Meets(s, a.at, OfTable(s, a.at), OfTable(t, a.at))
  BY <1>0, <1>4, <1>6, MeetsPosition DEF Parses
<1>8. Parses(s, t, p, a && OfTable(s, a.at), b && OfTable(t, b.at))
  BY <1>0, <1>6, <1>7, PartParses
<1> QED
  BY <1>5, <1>8

\* What a SELECT returns.
LEMMA ProjectionParses ==
  ASSUME NEW s, NEW t, Begins(s, t), NEW p \in Positions(s)
  PROVE  Parses(s, t, p, Projection(s, p), Projection(t, p))
<1>0. p \in Nat /\ Len(s) \in Nat /\ "*" # End
  BY BeginsAt DEF End
<1>1. CASE At(s, p) # "*"
  <2>1. Parses(s, t, p, NameList(s, p), NameList(t, p))
    BY NamesParse
  <2>2. Projection(s, p) = NameList(s, p) /\ (At(s, p) = At(t, p) => Projection(t, p) = NameList(t, p))
    BY <1>1 DEF Projection
  <2>3. Within(s, p, Projection(s, p)) /\ Ahead(s, p, Projection(s, p))
    BY <2>1, <2>2 DEF Parses, Meets
  <2>4. At(s, p) = At(t, p) => Meets(s, p, Projection(s, p), Projection(t, p))
    BY <2>1, <2>2 DEF Parses
  <2> QED
    BY <2>3, <2>4, DecidedMeets DEF Parses
<1>2. CASE At(s, p) = "*"
  <2>1. p <= Len(s) /\ At(t, p) = "*"
    BY <1>0, <1>2, TokenWithin, BeginsAt
  <2>2. Projection(s, p) = Parsed(p + 1, AllColumns) /\ Projection(t, p) = Parsed(p + 1, AllColumns)
    BY <1>2, <2>1 DEF Projection
  <2>3. Ahead(s, p, Parsed(p + 1, AllColumns))
    <3>1. p <= p + 1 /\ p < p + 1 /\ p + 1 <= Len(s) + 1 /\ p + 1 \in Nat
      BY <1>0, <2>1
    <3> QED
      BY <1>0, <3>1, ParsedWithin
  <2> QED
    BY <2>2, <2>3 DEF Parses, Meets, Ahead
<1> QED
  BY <1>1, <1>2

\* ORDER BY.
LEMMA OrderMeets ==
  ASSUME NEW s, NEW t, Begins(s, t), NEW p \in Positions(s)
  PROVE  Meets(s, p, OptOrder(s, p), OptOrder(t, p))
<1> DEFINE Direction(u, q, column) == Parsed(SkipDirection(u, q), Some(OrderBy(column, At(u, q) = "DESC")))
           OfColumn(u, q) == LET r == Ident(u, q) IN r && Direction(u, r.at, r.node)
<1>0. p \in Nat /\ Len(s) \in Nat /\ "ORDER" # End /\ "BY" # End /\ "ASC" # End /\ "DESC" # End
  BY BeginsAt DEF End
<1>1. p + 1 \in Nat /\ p <= p + 1
  BY <1>0
<1>2. ASSUME NEW q \in Positions(s), NEW column PROVE Meets(s, q, Direction(s, q, column), Direction(t, q, column))
  <2>1. q \in Nat /\ q <= Len(s) + 1
    BY BeginsAt
  <2>2. SkipDirection(s, q) \in Nat /\ q <= SkipDirection(s, q) /\ SkipDirection(s, q) <= Len(s) + 1
    <3>1. CASE At(s, q) \in {"ASC", "DESC"}
      <4>1. q <= Len(s)
        BY <1>0, <2>1, <3>1, TokenWithin
      <4>2. SkipDirection(s, q) = q + 1
        BY <3>1 DEF SkipDirection
      <4> QED
        BY <1>0, <2>1, <4>1, <4>2
    <3>2. CASE At(s, q) \notin {"ASC", "DESC"}
      BY <2>1, <3>2 DEF SkipDirection
    <3> QED
      BY <3>1, <3>2
  <2>3. Within(s, q, Direction(s, q, column))
    <3> DEFINE e == SkipDirection(s, q)
               x == Some(OrderBy(column, At(s, q) = "DESC"))
    <3> HIDE DEF e, x
    <3>1. e \in Nat /\ q <= e /\ e <= Len(s) + 1
      BY <2>2 DEF e
    <3>2. Within(s, q, Parsed(e, x))
      BY <1>0, <2>1, <3>1, ParsedWithin
    <3> QED
      BY <3>2 DEF e, x
  <2>4. At(s, q) = At(t, q) => Direction(s, q, column) = Direction(t, q, column)
    BY DEF SkipDirection
  <2> HIDE DEF Direction
  <2> QED
    BY <2>3, <2>4, DecidedMeets, MeetsSame
<1>3. ASSUME NEW q \in Positions(s) PROVE Meets(s, q, OfColumn(s, q), OfColumn(t, q))
  <2> DEFINE a == Ident(s, q)
             b == Ident(t, q)
  <2>1. Meets(s, q, a, b)
    BY IdentMeets
  <2> HIDE DEF a, b, Direction
  <2>2. Meets(s, a.at, Direction(s, a.at, a.node), Direction(t, a.at, a.node))
    BY <1>0, <1>2, <2>1, MeetsPosition
  <2>3. Meets(s, q, a && Direction(s, a.at, a.node), b && Direction(t, b.at, b.node))
    BY <1>0, <2>1, <2>2, PartMeets
  <2> QED
    BY <2>3 DEF a, b
<1>4. CASE At(s, p) # "ORDER"
  <2>1. OptOrder(s, p) = Parsed(p, None)
    BY <1>4 DEF OptOrder
  <2>2. Within(s, p, OptOrder(s, p))
    BY <2>1, NothingMeets DEF Meets
  <2>3. At(s, p) = At(t, p) => Meets(s, p, OptOrder(s, p), OptOrder(t, p))
    BY <1>4, <2>2 DEF OptOrder, Meets
  <2> QED
    BY <2>2, <2>3, DecidedMeets
<1>5. CASE At(s, p) = "ORDER"
  <2>1. p <= Len(s) /\ p + 1 \in Positions(s) /\ At(t, p) = "ORDER"
    BY <1>0, <1>5, TokenWithin, BeginsAt
  <2> DEFINE a == Expect(s, p + 1, "BY")
             b == Expect(t, p + 1, "BY")
  <2>2. OptOrder(s, p) = (a && OfColumn(s, a.at)) /\ OptOrder(t, p) = (b && OfColumn(t, b.at))
    BY <1>5, <2>1 DEF OptOrder, &&
  <2>3. Meets(s, p + 1, a, b)
    BY <1>0, <2>1, ExpectMeets
  <2> HIDE DEF a, b, OfColumn
  <2>4. Meets(s, p, a, b)
    BY <1>0, <1>1, <2>3, MeetsFurther
  <2>5. Meets(s, a.at, OfColumn(s, a.at), OfColumn(t, a.at))
    BY <1>0, <1>3, <2>4, MeetsPosition
  <2>6. Meets(s, p, a && OfColumn(s, a.at), b && OfColumn(t, b.at))
    BY <1>0, <2>4, <2>5, PartMeets
  <2> QED
    BY <2>2, <2>6
<1> QED
  BY <1>4, <1>5

\* What s begins is s, or s does not end in LIMIT.
Continues(s, t) == Begins(s, t) /\ (s = t \/ At(s, Len(s)) # "LIMIT")

\* LIMIT, whose error stands at the token after it: the beginning must not end in LIMIT.
LEMMA LimitMeets ==
  ASSUME NEW s, NEW t, Continues(s, t), NEW p \in Positions(s)
  PROVE  Meets(s, p, OptLimit(s, p), OptLimit(t, p))
<1>0. Begins(s, t) /\ "LIMIT" # End
  BY DEF Continues, End
<1>1. p \in Nat /\ Len(s) \in Nat /\ p <= Len(s) + 1 /\ p + 1 \in Nat /\ p <= p + 1
  <2>1. p \in Nat /\ Len(s) \in Nat /\ p <= Len(s) + 1
    BY <1>0, BeginsAt
  <2> QED
    BY <2>1
<1>2. CASE At(s, p) # "LIMIT"
  <2>1. OptLimit(s, p) = Parsed(p, None)
    BY <1>2 DEF OptLimit
  <2>2. Within(s, p, OptLimit(s, p))
    BY <1>0, <2>1, NothingMeets DEF Meets
  <2>3. At(s, p) = At(t, p) => Meets(s, p, OptLimit(s, p), OptLimit(t, p))
    BY <1>2, <2>2 DEF OptLimit, Meets
  <2> QED
    BY <1>0, <2>2, <2>3, DecidedMeets
<1>3. CASE At(s, p) = "LIMIT"
  <2>1. p <= Len(s) /\ At(t, p) = "LIMIT" /\ p + 1 \in Positions(s)
    BY <1>0, <1>1, <1>3, TokenWithin, BeginsAt
  <2>2. Within(s, p, OptLimit(s, p))
    <3>1. CASE At(s, p + 1) \in Numerals
      <4>1. p + 1 <= Len(s)
        BY <1>1, <3>1, EndIsNoToken, TokenWithin
      <4>2. p + 2 \in Nat /\ p <= p + 2 /\ p + 2 <= Len(s) + 1
        BY <1>1, <4>1
      <4> QED
        BY <1>1, <1>3, <3>1, <4>2, ParsedWithin DEF OptLimit
    <3>2. CASE At(s, p + 1) \notin Numerals
      <4>1. p + 1 <= Len(s) + 1 /\ p <= p
        BY <1>1, <2>1
      <4>2. Within(s, p, Failed(p)) /\ Within(s, p, Failed(p + 1))
        BY <1>1, <4>1, ParsedWithin
      <4> QED
        BY <1>3, <3>2, <4>2 DEF OptLimit
    <3> QED
      BY <3>1, <3>2
  <2>3. OptLimit(s, p) = OptLimit(t, p)
    <3>1. CASE p + 1 <= Len(s)
      <4>1. At(s, p + 1) = At(t, p + 1)
        BY <1>0, <2>1, <3>1, BeginsAt
      <4> QED
        BY <1>3, <2>1, <4>1 DEF OptLimit
    <3>2. CASE ~(p + 1 <= Len(s))
      <4>1. p = Len(s)
        BY <1>1, <2>1, <3>2
      <4> QED
        BY <1>3, <4>1 DEF Continues
    <3> QED
      BY <3>1, <3>2
  <2> QED
    BY <2>2, <2>3 DEF Meets
<1> QED
  BY <1>2, <1>3

\* SELECT.
LEMMA SelectParses ==
  ASSUME NEW s, NEW t, Continues(s, t), NEW p \in Positions(s)
  PROVE  Parses(s, t, p, ParseSelect(s, p), ParseSelect(t, p))
<1> DEFINE Limit(u, q, columns, table, filter, order) == LET r == OptLimit(u, q) IN r && Parsed(r.at, Select(columns, table, filter, order, r.node))
           Order(u, q, columns, table, filter) == LET r == OptOrder(u, q) IN r && Limit(u, r.at, columns, table, filter, r.node)
           Where(u, q, columns, table) == LET r == OptWhere(u, q) IN r && Order(u, r.at, columns, table, r.node)
           OfTable(u, q, columns) == LET r == Ident(u, q) IN r && Where(u, r.at, columns, r.node)
           From(u, q, columns) == LET r == Expect(u, q, "FROM") IN r && OfTable(u, r.at, columns)
<1>0. Len(s) \in Nat /\ "FROM" # End /\ Begins(s, t)
  BY DEF End, Continues, Begins
<1>1. ASSUME NEW q \in Positions(s), NEW columns, NEW table, NEW filter, NEW order PROVE Meets(s, q, Limit(s, q, columns, table, filter, order), Limit(t, q, columns, table, filter, order))
  <2> DEFINE a == OptLimit(s, q)
             b == OptLimit(t, q)
  <2>1. Meets(s, q, a, b)
    BY <1>0, LimitMeets
  <2> HIDE DEF a, b
  <2>2. Meets(s, q, a && Parsed(a.at, Select(columns, table, filter, order, a.node)), b && Parsed(b.at, Select(columns, table, filter, order, b.node)))
    BY <1>0, <2>1, LastMeets
  <2> QED
    BY <2>2 DEF a, b
<1>2. ASSUME NEW q \in Positions(s), NEW columns, NEW table, NEW filter PROVE Meets(s, q, Order(s, q, columns, table, filter), Order(t, q, columns, table, filter))
  <2> DEFINE a == OptOrder(s, q)
             b == OptOrder(t, q)
  <2>1. Meets(s, q, a, b)
    BY <1>0, OrderMeets
  <2> HIDE DEF a, b, Limit
  <2>2. Meets(s, a.at, Limit(s, a.at, columns, table, filter, a.node), Limit(t, a.at, columns, table, filter, a.node))
    BY <1>0, <1>1, <2>1, MeetsPosition
  <2>3. Meets(s, q, a && Limit(s, a.at, columns, table, filter, a.node), b && Limit(t, b.at, columns, table, filter, b.node))
    BY <1>0, <2>1, <2>2, PartMeets
  <2> QED
    BY <2>3 DEF a, b
<1>3. ASSUME NEW q \in Positions(s), NEW columns, NEW table PROVE Meets(s, q, Where(s, q, columns, table), Where(t, q, columns, table))
  <2> DEFINE a == OptWhere(s, q)
             b == OptWhere(t, q)
  <2>1. Meets(s, q, a, b)
    BY <1>0, WhereMeets
  <2> HIDE DEF a, b, Order
  <2>2. Meets(s, a.at, Order(s, a.at, columns, table, a.node), Order(t, a.at, columns, table, a.node))
    BY <1>0, <1>2, <2>1, MeetsPosition
  <2>3. Meets(s, q, a && Order(s, a.at, columns, table, a.node), b && Order(t, b.at, columns, table, b.node))
    BY <1>0, <2>1, <2>2, PartMeets
  <2> QED
    BY <2>3 DEF a, b
<1>4. ASSUME NEW q \in Positions(s), NEW columns PROVE Meets(s, q, OfTable(s, q, columns), OfTable(t, q, columns))
  <2> DEFINE a == Ident(s, q)
             b == Ident(t, q)
  <2>1. Meets(s, q, a, b)
    BY <1>0, IdentMeets
  <2> HIDE DEF a, b, Where
  <2>2. Meets(s, a.at, Where(s, a.at, columns, a.node), Where(t, a.at, columns, a.node))
    BY <1>0, <1>3, <2>1, MeetsPosition
  <2>3. Meets(s, q, a && Where(s, a.at, columns, a.node), b && Where(t, b.at, columns, b.node))
    BY <1>0, <2>1, <2>2, PartMeets
  <2> QED
    BY <2>3 DEF a, b
<1>5. ASSUME NEW q \in Positions(s), NEW columns PROVE Meets(s, q, From(s, q, columns), From(t, q, columns))
  <2> DEFINE a == Expect(s, q, "FROM")
             b == Expect(t, q, "FROM")
  <2>1. Meets(s, q, a, b)
    BY <1>0, ExpectMeets
  <2> HIDE DEF a, b, OfTable
  <2>2. Meets(s, a.at, OfTable(s, a.at, columns), OfTable(t, a.at, columns))
    BY <1>0, <1>4, <2>1, MeetsPosition
  <2>3. Meets(s, q, a && OfTable(s, a.at, columns), b && OfTable(t, b.at, columns))
    BY <1>0, <2>1, <2>2, PartMeets
  <2> QED
    BY <2>3 DEF a, b
<1> DEFINE a == Projection(s, p)
           b == Projection(t, p)
<1>6. ParseSelect(s, p) = (a && From(s, a.at, a.node)) /\ ParseSelect(t, p) = (b && From(t, b.at, b.node))
  BY DEF ParseSelect, SelectAfter, &&
<1>7. Parses(s, t, p, a, b)
  BY <1>0, ProjectionParses
<1> HIDE DEF a, b, From
<1>8. Meets(s, a.at, From(s, a.at, a.node), From(t, a.at, a.node))
  BY <1>0, <1>5, <1>7, MeetsPosition DEF Parses
<1>9. Parses(s, t, p, a && From(s, a.at, a.node), b && From(t, b.at, b.node))
  BY <1>0, <1>7, <1>8, PartParses
<1> QED
  BY <1>6, <1>9

-----------------------------------------------------------------------------
(* Statements and scripts.                                                 *)

\* A statement, by its first word.
LEMMA StatementParses ==
  ASSUME NEW s, NEW t, Continues(s, t), NEW p \in Positions(s)
  PROVE  Parses(s, t, p, ParseStatement(s, p), ParseStatement(t, p))
<1>0. p \in Nat /\ Len(s) \in Nat /\ Begins(s, t) /\ p <= Len(s) + 1 /\ p <= p
  <2>1. p \in Nat /\ Len(s) \in Nat /\ Begins(s, t) /\ p <= Len(s) + 1
    BY BeginsAt DEF Continues
  <2> QED
    BY <2>1
<1>1. ASSUME NEW a, NEW b, At(s, p) # End,
             p + 1 \in Positions(s) /\ At(s, p) = At(t, p) => Parses(s, t, p + 1, a, b)
      PROVE  Parses(s, t, p, a, b)
  <2>1. p <= Len(s) /\ p + 1 \in Positions(s) /\ At(s, p) = At(t, p)
    BY <1>0, <1>1, TokenWithin, BeginsAt
  <2>2. Parses(s, t, p + 1, a, b)
    BY <1>1, <2>1
  <2>3. p + 1 \in Nat /\ p <= p + 1
    BY <1>0
  <2> QED
    BY <1>0, <2>2, <2>3, MeetsFurther, WithinFurther DEF Parses
<1> DEFINE word == At(s, p)
<1>2. "CREATE" # End /\ "INSERT" # End /\ "SELECT" # End /\ "UPDATE" # End /\ "DELETE" # End
        /\ "BEGIN" # End /\ "COMMIT" # End /\ "ROLLBACK" # End
  BY DEF End
<1>3. word # End => At(t, p) = word
  BY <1>0, TokenWithin, BeginsAt
<1>4. CASE word = "CREATE"
  <2>1. ParseStatement(s, p) = ParseCreate(s, p + 1) /\ ParseStatement(t, p) = ParseCreate(t, p + 1)
    BY <1>2, <1>3, <1>4 DEF ParseStatement
  <2>2. p + 1 \in Positions(s) => Parses(s, t, p + 1, ParseCreate(s, p + 1), ParseCreate(t, p + 1))
    BY <1>0, CreateParses
  <2> QED
    BY <1>1, <1>2, <1>4, <2>1, <2>2
<1>5. CASE word = "INSERT"
  <2>1. ParseStatement(s, p) = ParseInsert(s, p + 1) /\ ParseStatement(t, p) = ParseInsert(t, p + 1)
    BY <1>2, <1>3, <1>5 DEF ParseStatement
  <2>2. p + 1 \in Positions(s) => Parses(s, t, p + 1, ParseInsert(s, p + 1), ParseInsert(t, p + 1))
    BY <1>0, InsertParses
  <2> QED
    BY <1>1, <1>2, <1>5, <2>1, <2>2
<1>6. CASE word = "SELECT"
  <2>1. ParseStatement(s, p) = ParseSelect(s, p + 1) /\ ParseStatement(t, p) = ParseSelect(t, p + 1)
    BY <1>2, <1>3, <1>6 DEF ParseStatement
  <2>2. p + 1 \in Positions(s) => Parses(s, t, p + 1, ParseSelect(s, p + 1), ParseSelect(t, p + 1))
    BY SelectParses
  <2> QED
    BY <1>1, <1>2, <1>6, <2>1, <2>2
<1>7. CASE word = "UPDATE"
  <2>1. ParseStatement(s, p) = ParseUpdate(s, p + 1) /\ ParseStatement(t, p) = ParseUpdate(t, p + 1)
    BY <1>2, <1>3, <1>7 DEF ParseStatement
  <2>2. p + 1 \in Positions(s) => Parses(s, t, p + 1, ParseUpdate(s, p + 1), ParseUpdate(t, p + 1))
    BY <1>0, UpdateParses
  <2> QED
    BY <1>1, <1>2, <1>7, <2>1, <2>2
<1>8. CASE word = "DELETE"
  <2>1. ParseStatement(s, p) = ParseDelete(s, p + 1) /\ ParseStatement(t, p) = ParseDelete(t, p + 1)
    BY <1>2, <1>3, <1>8 DEF ParseStatement
  <2>2. p + 1 \in Positions(s) => Parses(s, t, p + 1, ParseDelete(s, p + 1), ParseDelete(t, p + 1))
    BY <1>0, DeleteParses
  <2> QED
    BY <1>1, <1>2, <1>8, <2>1, <2>2
<1>9. CASE word \in {"BEGIN", "COMMIT", "ROLLBACK"}
  <2> DEFINE r == Parsed(p + 1, Transaction(word))
  <2>1. ParseStatement(s, p) = r /\ ParseStatement(t, p) = r
    BY <1>2, <1>3, <1>9 DEF ParseStatement
  <2>2. p <= Len(s)
    BY <1>0, <1>2, <1>9, TokenWithin
  <2>3. p + 1 \in Nat /\ p <= p + 1 /\ p < p + 1 /\ p + 1 <= Len(s) + 1
    BY <1>0, <2>2
  <2>4. Ahead(s, p, r)
    BY <1>0, <2>3, ParsedWithin
  <2> HIDE DEF r
  <2>5. Meets(s, p, r, r)
    BY <2>4 DEF Meets, Ahead
  <2> QED
    BY <2>1, <2>4, <2>5 DEF Parses
<1>10. CASE word \notin {"CREATE", "INSERT", "SELECT", "UPDATE", "DELETE", "BEGIN", "COMMIT", "ROLLBACK"}
  <2>1. ParseStatement(s, p) = Failed(p) /\ (At(t, p) = word => ParseStatement(t, p) = Failed(p))
    BY <1>10 DEF ParseStatement
  <2>2. Ahead(s, p, Failed(p)) /\ Meets(s, p, Failed(p), Failed(p))
    BY <1>0, ParsedWithin, NothingMeets
  <2>3. Within(s, p, ParseStatement(s, p)) /\ Ahead(s, p, ParseStatement(s, p))
    BY <2>1, <2>2 DEF Ahead
  <2>4. At(s, p) = At(t, p) => Meets(s, p, ParseStatement(s, p), ParseStatement(t, p))
    BY <2>1, <2>2
  <2>5. Meets(s, p, ParseStatement(s, p), ParseStatement(t, p))
    BY <1>0, <2>3, <2>4, DecidedMeets
  <2> QED
    BY <2>3, <2>5 DEF Parses
<1> QED
  BY <1>4, <1>5, <1>6, <1>7, <1>8, <1>9, <1>10

\* A statement reads on.
LEMMA StatementAhead ==
  ASSUME NEW ts, Len(ts) \in Nat, NEW p \in Positions(ts)
  PROVE  /\ Ahead(ts, p, ParseStatement(ts, p))
         /\ LET r == ParseStatement(ts, p)
            IN  r.ok => r.at \in Positions(ts) /\ r.at \in p + 1 .. Len(ts) + 1 /\ r.at \in Nat /\ p < r.at
<1> DEFINE r == ParseStatement(ts, p)
<1>1. Continues(ts, ts)
  BY BeginsItself DEF Continues
<1>2. Ahead(ts, p, r)
  BY <1>1, StatementParses DEF Parses
<1> HIDE DEF r
<1>3. ASSUME r.ok PROVE r.at \in Positions(ts) /\ r.at \in Nat /\ p < r.at
  BY <1>2, <1>3, CommaAfter DEF Positions
<1> QED
  BY <1>2, <1>3, LaterIs DEF r

\* A script looks only at later positions.
LEMMA ScriptLater ==
  ASSUME NEW ts, Len(ts) \in Nat PROVE LaterOnly(ts, OfScript)
<1> SUFFICES ASSUME NEW i \in Positions(ts), NEW f, NEW h, \A j \in i + 1 .. Len(ts) + 1 : f[j] = h[j]
             PROVE  ScriptTurn(ts, i, f) = ScriptTurn(ts, i, h)
  BY TurnIs DEF LaterOnly
<1>1. CASE At(ts, i) = ";"
  <2>1. At(ts, i) # End
    BY <1>1 DEF End
  <2>2. i + 1 \in Positions(ts) /\ i < i + 1
    <3>1. i \in Nat /\ i <= Len(ts)
      BY <2>1, TokenWithin, PositionsAre
    <3> QED
      BY <3>1 DEF Positions
  <2>3. f[i + 1] = h[i + 1]
    BY <2>2, LaterIs
  <2> QED
    BY <1>1, <2>3 DEF ScriptTurn
<1>2. CASE At(ts, i) # ";"
  <2> DEFINE r == ParseStatement(ts, i)
  <2>1. r.ok => f[r.at] = h[r.at]
    BY StatementAhead
  <2> HIDE DEF r
  <2> QED
    BY <1>2, <2>1 DEF ScriptTurn, r, &&
<1> QED
  BY <1>1, <1>2

\* What a script has at every position.
LEMMA ScriptIs ==
  ASSUME NEW ts, Len(ts) \in Nat
  PROVE  \E f : ParseScript(ts) = f[1] /\ \A q \in Positions(ts) : f[q] = ScriptTurn(ts, q, f)
<1> DEFINE from == CHOOSE f : f = [p \in Positions(ts) |-> ScriptTurn(ts, p, f)]
<1>1. PICK f : f = [p \in Positions(ts) |-> Turn(ts, OfScript, p, f)]
  BY ScriptLater, TurnsExist
<1>2. \A p : Turn(ts, OfScript, p, f) = ScriptTurn(ts, p, f)
  BY TurnIs
<1>3. f = [p \in Positions(ts) |-> ScriptTurn(ts, p, f)]
  BY <1>1, <1>2
<1>4. from = [p \in Positions(ts) |-> ScriptTurn(ts, p, from)]
  BY <1>3
<1>5. ParseScript(ts) = from[1]
  BY DEF ParseScript, ScriptFrom, ScriptTurn
<1> HIDE DEF from
<1> QED
  BY <1>4, <1>5

\* Scripts meet: by induction from the end of the beginning.
LEMMA ScriptMeets ==
  ASSUME NEW s, NEW t, Continues(s, t)
  PROVE  Meets(s, 1, ParseScript(s), ParseScript(t))
<1>1. Len(s) \in Nat /\ Len(t) \in Nat /\ Begins(s, t) /\ "," # End /\ ";" # End
  BY DEF Continues, Begins, End
<1>2. PICK f : ParseScript(s) = f[1] /\ \A q \in Positions(s) : f[q] = ScriptTurn(s, q, f)
  BY <1>1, ScriptIs
<1>3. PICK g : ParseScript(t) = g[1] /\ \A q \in Positions(t) : g[q] = ScriptTurn(t, q, g)
  BY <1>1, ScriptIs
<1> DEFINE n == Len(s) + 1
           G == {q \in 1 .. n : Meets(s, q, f[q], g[q])}
<1>4. n \in Nat /\ Positions(s) = 1 .. n /\ 1 \in 1 .. n
  <2>1. n \in Nat /\ 1 <= n
    <3>1. Len(s) \in Nat
      BY <1>1
    <3> QED
      BY <3>1
  <2>2. Positions(s) = 1 .. n
    BY DEF Positions
  <2> HIDE DEF n
  <2> QED
    BY <2>1, <2>2
<1>5. ASSUME NEW q \in 1 .. n, \A j \in q + 1 .. n : j \in G PROVE q \in G
  <2>0. q \in Positions(s) /\ q \in Positions(t) /\ q \in Nat
    BY <1>1, <1>4, BeginsAt
  <2>1. q \in Positions(s) /\ q \in Positions(t) /\ q \in Nat /\ q + 1 \in Nat /\ q <= q + 1 /\ q < q + 1
    BY <2>0
  <2>2. f[q] = ScriptTurn(s, q, f) /\ g[q] = ScriptTurn(t, q, g)
    BY <1>2, <1>3, <2>1
  <2>3. CASE At(s, q) = ";"
    <3>1. q <= Len(s) /\ At(t, q) = ";" /\ q + 1 \in Positions(s)
      BY <1>1, <2>1, <2>3, TokenWithin, BeginsAt
    <3>2. Meets(s, q + 1, f[q + 1], g[q + 1])
      BY <1>1, <1>5, <2>1, <3>1, LaterIs
    <3>3. f[q] = f[q + 1] /\ g[q] = g[q + 1]
      BY <2>2, <2>3, <3>1 DEF ScriptTurn
    <3> QED
      BY <2>1, <3>2, <3>3, MeetsFurther
  <2>4. CASE At(s, q) = End
    <3>1. f[q] = Parsed(q, <<>>)
      BY <1>1, <2>2, <2>4 DEF ScriptTurn
    <3>2. Within(s, q, f[q])
      BY <1>1, <2>1, <3>1, NothingMeets DEF Meets
    <3>3. At(s, q) = At(t, q) => g[q] = Parsed(q, <<>>)
      BY <1>1, <2>2, <2>4 DEF ScriptTurn
    <3>4. At(s, q) = At(t, q) => Meets(s, q, f[q], g[q])
      BY <1>1, <2>1, <3>1, <3>3, NothingMeets
    <3> QED
      BY <1>1, <2>1, <3>2, <3>4, DecidedMeets
  <2>5. CASE At(s, q) \notin {";", End}
    <3> DEFINE After(u, r, h) == IF At(u, r.at) \in {";", End} THEN Before(r.node, h[r.at]) ELSE Failed(r.at)
               a == ParseStatement(s, q)
               b == ParseStatement(t, q)
    <3>1. At(t, q) = At(s, q)
      <4>1. At(s, q) # End
        BY <2>5
      <4>2. q <= Len(s)
        BY <1>1, <2>1, <4>1, TokenWithin
      <4> QED
        BY <1>1, <2>1, <4>2, BeginsAt
    <3>2. f[q] = (a && After(s, a, f)) /\ g[q] = (b && After(t, b, g))
      BY <2>2, <2>5, <3>1 DEF ScriptTurn
    <3>3. Parses(s, t, q, a, b)
      BY <2>1, StatementParses
    <3>4. a.ok => a.at \in Positions(s) /\ a.at \in q + 1 .. n /\ a.at \in Nat /\ q < a.at
      BY <1>1, <2>1, StatementAhead
    <3> HIDE DEF a, b
    <3>5. ASSUME a.ok PROVE Meets(s, a.at, After(s, a, f), After(t, a, g))
      <4>1. Meets(s, a.at, f[a.at], g[a.at])
        BY <1>5, <3>4, <3>5
      <4>2. Meets(s, a.at, Before(a.node, f[a.at]), Before(a.node, g[a.at]))
        BY <1>1, <3>4, <3>5, <4>1, BeforeMeets
      <4>3. Meets(s, a.at, Failed(a.at), Failed(a.at))
        BY <1>1, <3>4, <3>5, NothingMeets
      <4>4. Within(s, a.at, After(s, a, f))
        BY <4>2, <4>3 DEF Meets
      <4>5. At(s, a.at) = At(t, a.at) => Meets(s, a.at, After(s, a, f), After(t, a, g))
        BY <4>2, <4>3
      <4> HIDE DEF After
      <4> QED
        BY <1>1, <3>4, <3>5, <4>4, <4>5, DecidedMeets
    <3>6. a = b => After(t, b, g) = After(t, a, g)
      OBVIOUS
    <3> HIDE DEF After
    <3>7. Parses(s, t, q, a && After(s, a, f), b && After(t, b, g))
      BY <1>1, <2>1, <3>3, <3>5, <3>6, ThenParses
    <3> QED
      BY <3>2, <3>7 DEF Parses
  <2> QED
    BY <2>3, <2>4, <2>5
<1> HIDE DEF G
<1>6. \A q \in 1 .. n : q \in G
  BY <1>4, <1>5, Downwards
<1> QED
  BY <1>2, <1>3, <1>4, <1>6 DEF G

\* A rejection is final, whatever the tokens.
THEOREM RejectionIsFinalForAll ==
  ASSUME NEW T, NEW ts \in Seq(T)
  PROVE  FinalIn(ts, {n \in DOMAIN ts : ts[n] # "LIMIT"})
<1> SUFFICES ASSUME NEW n \in DOMAIN ts, ts[n] # "LIMIT",
                    Rejected(SubSeq(ts, 1, n), ParseScript(SubSeq(ts, 1, n)))
             PROVE  /\ Rejected(ts, ParseScript(ts))
                    /\ ParseScript(ts).at = ParseScript(SubSeq(ts, 1, n)).at
  BY DEF FinalIn, StaysRejected
<1> DEFINE s == SubSeq(ts, 1, n)
<1>1. Len(ts) \in Nat /\ n \in 1 .. Len(ts)
  OBVIOUS
<1>2. Len(s) = n /\ \A i \in 1 .. n : s[i] = ts[i]
  BY <1>1
<1> HIDE DEF s
<1>3. Begins(s, ts)
  BY <1>1, <1>2 DEF Begins
<1>4. At(s, Len(s)) # "LIMIT"
  <2>1. n \in 1 .. n /\ n <= n
    BY <1>1
  <2> QED
    BY <1>2, <2>1 DEF At
<1>5. Meets(s, 1, ParseScript(s), ParseScript(ts))
  BY <1>3, <1>4, ScriptMeets DEF Continues
<1> DEFINE a == ParseScript(s)
           b == ParseScript(ts)
<1>6. ~a.ok /\ a.at <= Len(s)
  BY DEF Rejected, s
<1> HIDE DEF a, b
<1>7. a.at \in Nat /\ (a = b \/ a.at = Len(s) + 1)
  BY <1>5 DEF Meets, Within, a, b
<1>8. a.at <= Len(ts) /\ a.at # Len(s) + 1
  BY <1>1, <1>2, <1>6, <1>7
<1>9. a = b
  BY <1>7, <1>8
<1> QED
  BY <1>6, <1>8, <1>9 DEF a, b, s, Rejected

-----------------------------------------------------------------------------
(* Parts of a text.                                                        *)

\* s stands in the text from p up to q.
Spans(ts, p, q, s) == s \in Seq(Tokens) /\ Occurs(ts, p, s) /\ q = p + Len(s)

\* The ends of a part are positions of the text.
LEMMA SpansAt ==
  ASSUME NEW ts, NEW p, NEW q, NEW s, Spans(ts, p, q, s)
  PROVE  p \in Positions(ts) /\ q \in Positions(ts) /\ Len(ts) \in Nat /\ p \in Nat /\ q \in Nat /\ p <= q
<1>1. s \in Seq(Tokens) /\ Occurs(ts, p, s) /\ q = p + Len(s) /\ Len(s) \in Nat
  BY DEF Spans
<1>2. p \in Nat /\ q \in Positions(ts) /\ Len(ts) \in Nat /\ p \in Positions(ts)
  BY <1>1, OccursAt DEF Occurs
<1> QED
  BY <1>1, <1>2

\* A text in two parts.
LEMMA SpansParts ==
  ASSUME NEW ts, NEW p, NEW q, NEW s \in Seq(Tokens), NEW t \in Seq(Tokens), Spans(ts, p, q, s \o t)
  PROVE  \E m \in Nat : Spans(ts, p, m, s) /\ Spans(ts, m, q, t)
<1> DEFINE u == s \o t
           m == p + Len(s)
<1>1. Occurs(ts, p, u) /\ q = p + Len(u)
  BY DEF Spans
<1>2. Occurs(ts, p, s) /\ Occurs(ts, m, t) /\ Len(u) = Len(s) + Len(t)
  BY <1>1, OccursJoined
<1>3. Len(s) \in Nat /\ Len(t) \in Nat /\ p \in Nat
  BY <1>2, OccursAt
<1> HIDE DEF u
<1>4. q = m + Len(t) /\ m \in Nat
  BY <1>1, <1>2, <1>3
<1> QED
  BY <1>2, <1>4 DEF Spans

\* A token.
LEMMA SpansToken ==
  ASSUME NEW ts, NEW p, NEW q, NEW token \in Tokens, Spans(ts, p, q, <<token>>)
  PROVE  /\ At(ts, p) = token /\ q = p + 1 /\ Len(ts) \in Nat
         /\ p \in Nat /\ q \in Nat /\ p \in Positions(ts) /\ q \in Positions(ts)
<1>1. Len(<<token>>) = 1
  BY OneIs
<1>2. q = p + 1
  BY <1>1 DEF Spans
<1>3. At(ts, p) = token
  BY OccursOne DEF Spans
<1> QED
  BY <1>2, <1>3, SpansAt

\* No tokens are a text.
LEMMA NoTokens == <<>> \in Seq(Tokens)
OBVIOUS

\* A part of no tokens ends where it begins.
LEMMA SpansNothing ==
  ASSUME NEW ts, NEW p, NEW q, Spans(ts, p, q, <<>>)
  PROVE  q = p
<1>1. p \in Nat /\ q = p + Len(<<>>)
  BY SpansAt DEF Spans
<1> QED
  BY <1>1

\* The whole text is a part of it.
LEMMA SpansItself ==
  ASSUME NEW s \in Seq(Tokens)
  PROVE  Spans(s, 1, Len(s) + 1, s) /\ At(s, Len(s) + 1) = End
BY OccursInItself DEF Spans

-----------------------------------------------------------------------------
(* Texts of lists.                                                         *)

\* What Joined makes.
LEMMA JoinedTexts ==
  ASSUME NEW parts \in Seq(Seq(Tokens)), Len(parts) >= 1
  PROVE  \E f \in [1 .. Len(parts) -> Seq(Tokens)] :
           /\ Joined(parts) = f[1]
           /\ \A i \in 1 .. Len(parts) :
                f[i] = IF i = Len(parts) THEN parts[i] ELSE parts[i] \o <<",">> \o f[i + 1]
<1> DEFINE n == Len(parts)
           T == Seq(Tokens)
           Next(i, f) == IF i = n THEN parts[i] ELSE parts[i] \o <<",">> \o f[i + 1]
           U == UNION {[i + 1 .. n -> T] : i \in 1 .. n}
           g == [p \in (1 .. n) \X U |-> Next(p[1], p[2])]
<1>1. n \in Nat /\ n >= 1 /\ \A i \in 1 .. n : parts[i] \in T
  OBVIOUS
<1>2. <<",">> \in T
  <2>1. "," \in Tokens
    BY TokensAre
  <2> QED
    BY <2>1, OneIs
<1>3. ASSUME NEW i \in 1 .. n, NEW f, i # n => f[i + 1] \in T
      PROVE  Next(i, f) \in T
  <2>1. CASE i = n
    BY <1>1, <2>1
  <2>2. CASE i # n
    <3> DEFINE a == parts[i]
               b == f[i + 1]
               c == <<",">>
    <3>1. a \in T /\ b \in T /\ c \in T
      BY <1>1, <1>2, <1>3, <2>2
    <3>2. Next(i, f) = a \o c \o b
      BY <2>2
    <3> HIDE DEF a, b, c, Next
    <3>3. a \o c \in T
      BY <3>1, ConcatIs
    <3>4. (a \o c) \o b \in T
      BY <3>1, <3>3, ConcatIs
    <3> QED
      BY <3>2, <3>4
  <2> QED
    BY <2>1, <2>2
<1> HIDE DEF T
<1>4. \A i \in 1 .. n : \A later \in [i + 1 .. n -> T] :
        g[<<i, later>>] = Next(i, later) /\ g[<<i, later>>] \in T
  <2> SUFFICES ASSUME NEW i \in 1 .. n, NEW later \in [i + 1 .. n -> T]
               PROVE  g[<<i, later>>] = Next(i, later) /\ g[<<i, later>>] \in T
    OBVIOUS
  <2>1. later \in U
    OBVIOUS
  <2>2. i # n => later[i + 1] \in T
    <3>1. i # n => i + 1 \in i + 1 .. n
      BY <1>1
    <3> QED
      BY <3>1
  <2>3. Next(i, later) \in T
    BY <1>3, <2>2
  <2> HIDE DEF U, Next
  <2> QED
    BY <2>1, <2>3
<1> HIDE DEF g
<1>5. PICK f \in [1 .. n -> T] : IsBackwards(f, g, n)
  BY <1>1, <1>4, Backwards
<1>6. \A i \in 1 .. n : f[i] = Next(i, f)
  <2> TAKE i \in 1 .. n
  <2> DEFINE later == [j \in i + 1 .. n |-> f[j]]
  <2>1. later \in [i + 1 .. n -> T]
    <3>1. \A j \in i + 1 .. n : j \in 1 .. n
      BY <1>1
    <3> QED
      BY <3>1
  <2>2. f[i] = Next(i, later)
    BY <1>4, <1>5, <2>1 DEF IsBackwards
  <2>3. i # n => later[i + 1] = f[i + 1]
    <3>1. i # n => i + 1 \in i + 1 .. n
      BY <1>1
    <3> QED
      BY <3>1
  <2> HIDE DEF later
  <2> QED
    BY <2>2, <2>3
<1> DEFINE IsFrom(h) == h = [i \in 1 .. n |-> Next(i, h)]
           from == CHOOSE h : IsFrom(h)
<1>7. IsFrom(f)
  <2>1. f = [i \in 1 .. n |-> f[i]]
    OBVIOUS
  <2> HIDE DEF Next
  <2> QED
    BY <1>6, <2>1
<1>8. IsFrom(from)
  BY <1>7
<1>9. Joined(parts) = from[1]
  BY DEF Joined
<1> HIDE DEF from
<1> DEFINE G == {i \in 1 .. n : from[i] \in T}
<1>10. ASSUME NEW i \in 1 .. n, \A j \in i + 1 .. n : j \in G PROVE i \in G
  <2>1. from[i] = Next(i, from)
    BY <1>8
  <2>2. i # n => i + 1 \in i + 1 .. n
    BY <1>1
  <2>3. i # n => from[i + 1] \in T
    BY <1>10, <2>2
  <2>4. Next(i, from) \in T
    BY <1>3, <2>3
  <2> QED
    BY <2>1, <2>4
<1> HIDE DEF G, n, Next
<1>11. \A i \in 1 .. n : i \in G
  BY <1>1, <1>10, Downwards
<1>12. from \in [1 .. n -> T] /\ \A i \in 1 .. n : from[i] = Next(i, from)
  BY <1>8, <1>11 DEF G
<1> QED
  BY <1>9, <1>12 DEF n, T, Next

\* An item reads its text, wherever it stands, if what stops a list follows.
ItemReads(ts, items, part, node, stops) ==
  \A p, q : Spans(ts, p, q, part) /\ At(ts, q) \in stops => items[p] = Parsed(q, node)

\* Each item of a list reads its part of the text as its node, if what stops a list follows.
Lists(ts, items, parts, nodes, stops) ==
  /\ AreItems(ts, items)
  /\ parts \in Seq(Seq(Tokens)) /\ Len(parts) >= 1 /\ Len(nodes) = Len(parts) /\ \E N : nodes \in Seq(N)
  /\ "," \in stops
  /\ \A i \in 1 .. Len(parts) : ItemReads(ts, items, parts[i], nodes[i], stops)

\* Something stops the list, and it is no comma.
EndsList(ts, q, stops) == At(ts, q) \in stops /\ At(ts, q) # ","

\* Then the list reads the text of the list.
LEMMA ListReads ==
  ASSUME NEW ts, NEW items, NEW parts, NEW nodes, NEW stops, Lists(ts, items, parts, nodes, stops),
         NEW p, NEW q, Spans(ts, p, q, Joined(parts)), EndsList(ts, q, stops)
  PROVE  List(ts, p, items) = Parsed(q, nodes)
<1> DEFINE n == Len(parts)
           Rest(i) == SubSeq(nodes, i, n)
<1>0. /\ AreItems(ts, items) /\ "," \in stops
      /\ \A i \in 1 .. n : ItemReads(ts, items, parts[i], nodes[i], stops)
  BY DEF Lists
<1>p. parts \in Seq(Seq(Tokens))
  BY DEF Lists
<1>1. n >= 1 /\ Len(nodes) = n /\ n \in Nat
  <2>1. n >= 1 /\ Len(nodes) = n
    BY DEF Lists
  <2>2. n \in Nat
    BY <1>p
  <2> QED
    BY <2>1, <2>2
<1>2. PICK N : nodes \in Seq(N)
  BY DEF Lists
<1>3. PICK f \in [1 .. n -> Seq(Tokens)] :
        /\ Joined(parts) = f[1]
        /\ \A i \in 1 .. n : f[i] = IF i = n THEN parts[i] ELSE parts[i] \o <<",">> \o f[i + 1]
  BY <1>1, <1>p, JoinedTexts
<1>4. "," \in Tokens /\ <<",">> \in Seq(Tokens)
  <2>1. "," \in Tokens
    BY TokensAre
  <2> QED
    BY <2>1, OneIs
<1>5. Len(ts) \in Nat
  BY SpansAt
<1>6. \A i \in 1 .. n : parts[i] \in Seq(Tokens)
  BY <1>p
<1>7. \A i \in 1 .. n : Rest(i) = <<nodes[i]>> \o Rest(i + 1)
  <2> TAKE i \in 1 .. n
  <2>1. i \in 1 .. Len(nodes) /\ n \in i .. Len(nodes)
    BY <1>1
  <2> QED
    BY <1>2, <2>1, SubSeqRecursiveFirst
<1>8. Rest(n + 1) = <<>> /\ Rest(1) = nodes
  <2>1. n + 1 \in Int /\ n \in Int /\ n < n + 1
    BY <1>1
  <2>2. Rest(n + 1) = <<>>
    BY <2>1, SubSeqEmpty
  <2>3. Rest(1) = nodes
    BY <1>1, <1>2, SubSeqFull
  <2> QED
    BY <2>2, <2>3
<1> DEFINE G == {i \in 1 .. n : \A a : Spans(ts, a, q, f[i]) => List(ts, a, items) = Parsed(q, Rest(i))}
<1> HIDE DEF n, Rest
<1>9. ASSUME NEW i \in 1 .. n, \A j \in i + 1 .. n : j \in G PROVE i \in G
  <2> SUFFICES ASSUME NEW a, Spans(ts, a, q, f[i]) PROVE List(ts, a, items) = Parsed(q, Rest(i))
    OBVIOUS
  <2>1. CASE i = n
    <3>1. items[a] = Parsed(q, nodes[i])
      BY <1>0, <1>3, <2>1 DEF ItemReads, EndsList
    <3>2. a \in Positions(ts)
      BY SpansAt
    <3> DEFINE first == items[a]
    <3>3. first.ok /\ first.at = q /\ first.node = nodes[i]
      BY <3>1 DEF Parsed
    <3>4. List(ts, a, items) = (first && Parsed(first.at, <<first.node>>))
      BY <1>0, <1>5, <3>2, <3>3, ListUnfolds DEF EndsList
    <3> HIDE DEF first
    <3>5. List(ts, a, items) = Parsed(q, <<nodes[i]>>)
      BY <3>3, <3>4 DEF &&
    <3>6. Rest(i) = <<nodes[i]>> \o <<>>
      BY <1>7, <1>8, <2>1
    <3>7. <<nodes[i]>> \o <<>> = <<nodes[i]>>
      <4>1. nodes[i] \in N
        BY <1>1, <1>2
      <4>2. <<nodes[i]>> \in Seq(N)
        BY <4>1
      <4> QED
        BY <4>2, ConcatEmptySeq
    <3> QED
      BY <3>5, <3>6, <3>7
  <2>2. CASE i # n
    <3>0. i + 1 \in i + 1 .. n /\ i + 1 \in 1 .. n
      BY <1>1, <2>2
    <3> DEFINE s == parts[i]
               comma == <<",">>
               t == f[i + 1]
    <3>1. f[i] = (s \o comma) \o t /\ s \in Seq(Tokens) /\ comma \in Seq(Tokens) /\ t \in Seq(Tokens)
      BY <1>3, <1>4, <1>6, <2>2, <3>0
    <3> HIDE DEF s, t, comma
    <3>2. s \o comma \in Seq(Tokens)
      BY <3>1, ConcatIs
    <3>3. PICK c : Spans(ts, a, c, s \o comma) /\ Spans(ts, c, q, t)
      BY <3>1, <3>2, SpansParts
    <3>4. PICK b : Spans(ts, a, b, s) /\ Spans(ts, b, c, comma)
      BY <3>1, <3>3, SpansParts
    <3>5. At(ts, b) = "," /\ c = b + 1
      BY <1>4, <3>4, SpansToken DEF comma
    <3>6. items[a] = Parsed(b, nodes[i])
      BY <1>0, <3>4, <3>5 DEF s, ItemReads
    <3>7. List(ts, c, items) = Parsed(q, Rest(i + 1))
      BY <1>9, <3>0, <3>3 DEF t
    <3>8. a \in Positions(ts)
      BY <3>4, SpansAt
    <3> DEFINE first == items[a]
               rest  == List(ts, c, items)
    <3>9. first.ok /\ first.at = b /\ first.node = nodes[i]
      BY <3>6 DEF Parsed
    <3>10. List(ts, a, items) = (first && Before(first.node, rest))
      BY <1>0, <1>5, <3>5, <3>8, <3>9, ListUnfolds
    <3>11. rest.ok /\ rest.at = q /\ rest.node = Rest(i + 1)
      BY <3>7 DEF Parsed
    <3> HIDE DEF first, rest
    <3>12. List(ts, a, items) = Parsed(q, <<nodes[i]>> \o Rest(i + 1))
      BY <3>9, <3>10, <3>11 DEF &&, Before
    <3> QED
      BY <1>7, <3>12
  <2> QED
    BY <2>1, <2>2
<1> HIDE DEF G
<1>10. \A i \in 1 .. n : i \in G
  BY <1>1, <1>9, Downwards
<1>11. 1 \in G
  BY <1>1, <1>10
<1> QED
  BY <1>3, <1>8, <1>11 DEF G

-----------------------------------------------------------------------------
(* Reading the parts of a statement.                                       *)

\* Two tokens, at their positions.
LEMMA SpansTwo ==
  ASSUME NEW ts, NEW p, NEW q, NEW a \in Tokens, NEW b \in Tokens, Spans(ts, p, q, <<a, b>>)
  PROVE  /\ At(ts, p) = a /\ At(ts, p + 1) = b /\ q = p + 2
         /\ p \in Nat /\ q \in Nat /\ p \in Positions(ts) /\ p + 1 \in Positions(ts) /\ q \in Positions(ts)
<1> DEFINE s == <<a, b>>
<1>1. Len(s) = 2 /\ s[1] = a /\ s[2] = b
  OBVIOUS
<1>2. s \in Seq(Tokens) /\ Occurs(ts, p, s) /\ q = p + Len(s)
  BY DEF Spans
<1> HIDE DEF s
<1>3. p \in Nat /\ \A i \in 1 .. Len(s) : At(ts, p + i - 1) = s[i] /\ p + i - 1 \in Positions(ts)
  BY <1>2, OccursAt
<1>4. 1 \in 1 .. Len(s) /\ 2 \in 1 .. Len(s)
  BY <1>1
<1>5. p + 1 - 1 = p /\ p + 2 - 1 = p + 1 /\ q = p + 2 /\ q \in Nat
  BY <1>1, <1>2, <1>3
<1>6. q \in Positions(ts)
  BY SpansAt
<1> QED
  BY <1>1, <1>3, <1>4, <1>5, <1>6

\* Three tokens, at their positions.
LEMMA SpansThree ==
  ASSUME NEW ts, NEW p, NEW q, NEW a \in Tokens, NEW b \in Tokens, NEW c \in Tokens,
         Spans(ts, p, q, <<a, b, c>>)
  PROVE  /\ At(ts, p) = a /\ At(ts, p + 1) = b /\ At(ts, p + 2) = c /\ q = p + 3
         /\ p \in Nat /\ q \in Nat /\ p \in Positions(ts) /\ p + 1 \in Positions(ts) /\ p + 2 \in Positions(ts)
<1> DEFINE s == <<a, b, c>>
<1>1. Len(s) = 3 /\ s[1] = a /\ s[2] = b /\ s[3] = c
  OBVIOUS
<1>2. s \in Seq(Tokens) /\ Occurs(ts, p, s) /\ q = p + Len(s)
  BY DEF Spans
<1> HIDE DEF s
<1>3. p \in Nat /\ \A i \in 1 .. Len(s) : At(ts, p + i - 1) = s[i] /\ p + i - 1 \in Positions(ts)
  BY <1>2, OccursAt
<1>4. 1 \in 1 .. Len(s) /\ 2 \in 1 .. Len(s) /\ 3 \in 1 .. Len(s)
  BY <1>1
<1>5. p + 1 - 1 = p /\ p + 2 - 1 = p + 1 /\ p + 3 - 1 = p + 2 /\ q = p + 3 /\ q \in Nat
  BY <1>1, <1>2, <1>3
<1> QED
  BY <1>1, <1>3, <1>4, <1>5

\* The words of statements are tokens.
LEMMA WordsAre ==
  /\ \A w \in {"SELECT", "FROM", "WHERE", "INSERT", "INTO", "VALUES", "UPDATE", "SET", "DELETE", "CREATE",
               "TABLE", "PRIMARY", "KEY", "NOT", "NULL", "ORDER", "BY", "ASC", "DESC", "LIMIT",
               "BEGIN", "COMMIT", "ROLLBACK", "(", ")", ",", ";", "=", "*"} : w \in Tokens
  /\ Names \subseteq Tokens /\ Numerals \subseteq Tokens /\ ColumnTypeWords \subseteq Tokens
  /\ "*" \notin Names
<1>1. {"SELECT", "FROM", "WHERE", "INSERT", "INTO", "VALUES", "UPDATE", "SET", "DELETE", "CREATE",
       "TABLE", "PRIMARY", "KEY", "NOT", "NULL", "ORDER", "BY", "ASC", "DESC", "LIMIT",
       "BEGIN", "COMMIT", "ROLLBACK"} \subseteq Keywords /\ ColumnTypeWords \subseteq Keywords
  BY DEF Keywords, ColumnTypeWords
<1>2. {"(", ")", ",", ";", "=", "*"} \subseteq Symbols
  BY DEF Symbols, ArithmeticOps, ComparisonOps
<1>3. Names \cap Symbols = {}
  BY TokenAssumption
<1> QED
  BY <1>1, <1>2, <1>3 DEF Tokens

\* expect reads the token that is there.
LEMMA ExpectReads ==
  ASSUME NEW ts, NEW p, NEW token, At(ts, p) = token PROVE Expect(ts, p, token) = Parsed(p + 1, None)
BY DEF Expect

\* An identifier reads the name that is there.
LEMMA IdentReads ==
  ASSUME NEW ts, NEW p, NEW name \in Names, At(ts, p) = name PROVE Ident(ts, p) = Parsed(p + 1, name)
BY DEF Ident

\* What may follow an expression.
ExprStops == {",", ")", "WHERE", "ORDER", "LIMIT", ";", End}

\* The text of an expression reads as the expression, if what may end one follows.
LEMMA ExprReads ==
  ASSUME NEW x \in Written, NEW ts, NEW p, NEW q, Spans(ts, p, q, Render(x)), At(ts, q) \in ExprStops
  PROVE  FullExpr(ts, p) = Parsed(q, x)
<1> DEFINE s == Render(x)
<1>1. Writes(s, x, 8)
  BY RenderWrites
<1>2. Occurs(ts, p, s) /\ q = p + Len(s)
  BY DEF Spans
<1>3. \A j \in 1 .. 8 : At(ts, q) \notin GoesOn(j)
  <2>1. \A j \in 1 .. 8 : GoesOn(j) \subseteq {"OR", "AND", "=", "<>", "<", "<=", ">", ">=", "IS", "+", "-", "*", "/"}
    BY GoesOnIs
  <2> QED
    BY <2>1 DEF ExprStops, End
<1>4. 8 \in 1 .. 8
  OBVIOUS
<1> HIDE DEF s
<1>5. \A j \in 1 .. 8 : At(ts, p + Len(s)) \notin GoesOn(j)
  BY <1>2, <1>3
<1>6. FullExpr(ts, p) = Parsed(p + Len(s), x)
  BY <1>1, <1>2, <1>4, <1>5, FullExprReads
<1> QED
  BY <1>2, <1>6

\* It is a text.
LEMMA RenderIsText == \A x \in Written : Render(x) \in Seq(Tokens)
BY RenderWrites DEF Writes

\* Lists of names.
Named == Seq(Names) \ {<<>>}

NameParts(names) == [i \in DOMAIN names |-> <<names[i]>>]

\* The texts of names.
LEMMA NamePartsAre ==
  ASSUME NEW names \in Named
  PROVE  /\ NameParts(names) \in Seq(Seq(Tokens)) /\ Len(NameParts(names)) = Len(names) /\ Len(names) >= 1
         /\ \A i \in 1 .. Len(names) : NameParts(names)[i] = <<names[i]>> /\ names[i] \in Names
<1>1. names \in Seq(Names) /\ names # <<>>
  BY DEF Named
<1>2. Len(names) \in Nat /\ Len(names) >= 1 /\ DOMAIN names = 1 .. Len(names)
  BY <1>1
<1>3. \A i \in 1 .. Len(names) : names[i] \in Names /\ <<names[i]>> \in Seq(Tokens)
  <2> TAKE i \in 1 .. Len(names)
  <2>1. names[i] \in Names
    BY <1>1
  <2>2. names[i] \in Tokens
    BY <2>1, WordsAre
  <2> QED
    BY <2>1, <2>2, OneIs
<1>4. NameParts(names) \in [1 .. Len(names) -> Seq(Tokens)]
  BY <1>2, <1>3 DEF NameParts
<1>5. NameParts(names) \in Seq(Seq(Tokens)) /\ Len(NameParts(names)) = Len(names)
  BY <1>2, <1>4, IsASeq
<1> QED
  BY <1>2, <1>3, <1>5 DEF NameParts

\* Texts with commas between them are a text.
LEMMA JoinedIsText ==
  ASSUME NEW parts \in Seq(Seq(Tokens)), Len(parts) >= 1
  PROVE  Joined(parts) \in Seq(Tokens)
<1>1. 1 \in 1 .. Len(parts)
  OBVIOUS
<1>2. PICK f \in [1 .. Len(parts) -> Seq(Tokens)] : Joined(parts) = f[1]
  BY JoinedTexts
<1> QED
  BY <1>1, <1>2

\* No comma follows.
NoComma(ts, q) == At(ts, q) # ","

\* Names read as the names.
LEMMA NamesRead ==
  ASSUME NEW names \in Named, NEW ts, NEW p, NEW q, Spans(ts, p, q, Names1(names)), NoComma(ts, q)
  PROVE  NameList(ts, p) = Parsed(q, names) /\ At(ts, p) \in Names
<1> DEFINE items == [i \in Positions(ts) |-> Ident(ts, i)]
           parts == NameParts(names)
           stops == {",", At(ts, q)}
<1>1. /\ parts \in Seq(Seq(Tokens)) /\ Len(parts) = Len(names) /\ Len(names) >= 1
      /\ \A i \in 1 .. Len(names) : parts[i] = <<names[i]>> /\ names[i] \in Names
  BY NamePartsAre
<1>2. Len(ts) \in Nat /\ p \in Positions(ts)
  BY SpansAt
<1>3. AreItems(ts, items)
  <2>1. Begins(ts, ts)
    BY <1>2, BeginsItself
  <2> QED
    BY <2>1, IdentParses DEF Parses, AreItems
<1>4. \A i \in 1 .. Len(parts) : ItemReads(ts, items, parts[i], names[i], stops)
  <2> SUFFICES ASSUME NEW i \in 1 .. Len(parts), NEW a, NEW b, Spans(ts, a, b, parts[i])
               PROVE  items[a] = Parsed(b, names[i])
    BY DEF ItemReads
  <2>1. Spans(ts, a, b, <<names[i]>>) /\ names[i] \in Names /\ names[i] \in Tokens
    BY <1>1, WordsAre
  <2>2. At(ts, a) = names[i] /\ b = a + 1 /\ a \in Positions(ts)
    BY <2>1, SpansToken
  <2> QED
    BY <2>1, <2>2, IdentReads
<1>5. \E N : names \in Seq(N)
  BY DEF Named
<1>6. Lists(ts, items, parts, names, stops)
  BY <1>1, <1>3, <1>4, <1>5 DEF Lists
<1>7. Spans(ts, p, q, Joined(parts)) /\ EndsList(ts, q, stops)
  BY DEF Names1, NameParts, EndsList, NoComma
<1> HIDE DEF items, parts, stops
<1>8. List(ts, p, items) = Parsed(q, names)
  BY <1>6, <1>7, ListReads
<1>9. At(ts, p) \in Names
  <2> SUFFICES ASSUME At(ts, p) \notin Names PROVE FALSE
    OBVIOUS
  <2>1. items[p] = Failed(p)
    BY <1>2 DEF Ident, items
  <2>2. ~items[p].ok
    BY <2>1 DEF Failed
  <2>3. List(ts, p, items) = items[p]
    BY <1>2, <1>3, <2>2, ListUnfolds DEF &&
  <2> QED
    BY <1>8, <2>2, <2>3 DEF Parsed
<1>10. NameList(ts, p) = List(ts, p, items)
  BY DEF NameList, items
<1> QED
  BY <1>8, <1>9, <1>10

\* Clauses that may be missing.
Optional(S) == {None} \cup {Some(x) : x \in S}

\* Something is not nothing.
LEMMA OptionIs ==
  \A x : Some(x) # None /\ Some(x).it = x
BY DEF Some, None

WhereText(f) == Opt(f, <<"WHERE">>, Render)

\* A filter is rendered as WHERE and its expression, none as nothing.
LEMMA WhereIs ==
  ASSUME NEW f \in Optional(Written)
  PROVE  /\ WhereText(f) \in Seq(Tokens)
         /\ \/ f = None /\ WhereText(f) = <<>>
            \/ \E x \in Written : f = Some(x) /\ WhereText(f) = <<"WHERE">> \o Render(x)
<1>1. CASE f = None
  BY <1>1, NoTokens DEF WhereText, Opt
<1>2. CASE \E x \in Written : f = Some(x)
  <2>1. PICK x \in Written : f = Some(x)
    BY <1>2
  <2>2. WhereText(f) = <<"WHERE">> \o Render(x)
    BY <2>1, OptionIs DEF WhereText, Opt
  <2>3. <<"WHERE">> \in Seq(Tokens) /\ Render(x) \in Seq(Tokens)
    BY WordsAre, OneIs, RenderIsText
  <2> QED
    BY <2>1, <2>2, <2>3, ConcatIs
<1> QED
  BY <1>1, <1>2 DEF Optional

\* What may follow a WHERE.
WhereStops == {"ORDER", "LIMIT", ";", End}

\* It reads as the filter.
LEMMA WhereReads ==
  ASSUME NEW f \in Optional(Written), NEW ts, NEW p, NEW q, Spans(ts, p, q, WhereText(f)),
         At(ts, q) \in WhereStops
  PROVE  OptWhere(ts, p) = Parsed(q, f)
<1>1. CASE f = None /\ WhereText(f) = <<>>
  <2>1. q = p
    BY <1>1, SpansNothing
  <2>2. At(ts, p) # "WHERE"
    BY <2>1 DEF End, WhereStops
  <2> QED
    BY <1>1, <2>1, <2>2 DEF OptWhere, Made
<1>2. CASE \E x \in Written : f = Some(x) /\ WhereText(f) = <<"WHERE">> \o Render(x)
  <2>1. PICK x \in Written : f = Some(x) /\ WhereText(f) = <<"WHERE">> \o Render(x)
    BY <1>2
  <2> DEFINE s == Render(x)
             w == <<"WHERE">>
  <2>2. "WHERE" \in Tokens /\ w \in Seq(Tokens) /\ s \in Seq(Tokens)
    BY WordsAre, OneIs, RenderIsText
  <2>3. Spans(ts, p, q, w \o s)
    BY <2>1
  <2> HIDE DEF w, s
  <2>4. PICK m : Spans(ts, p, m, w) /\ Spans(ts, m, q, s)
    BY <2>2, <2>3, SpansParts
  <2>5. At(ts, p) = "WHERE" /\ m = p + 1
    BY <2>2, <2>4, SpansToken DEF w
  <2>6. At(ts, q) \in ExprStops
    BY DEF ExprStops, WhereStops
  <2>7. FullExpr(ts, p + 1) = Parsed(q, x)
    BY <2>4, <2>5, <2>6, ExprReads DEF s
  <2> DEFINE e == FullExpr(ts, p + 1)
  <2>8. e.ok /\ e.at = q /\ e.node = x
    BY <2>7 DEF Parsed
  <2>9. OptWhere(ts, p) = (e && Parsed(e.at, Some(e.node)))
    BY <2>5 DEF OptWhere, Made
  <2> HIDE DEF e
  <2> QED
    BY <2>1, <2>8, <2>9 DEF &&
<1> QED
  BY <1>1, <1>2, WhereIs

\* Once a part of the parse succeeds, the parse is what comes next.
LEMMA Goes == \A r, next : r.ok => (r && next) = next
BY DEF &&

\* The parts of a success.
LEMMA ParsedIs == \A p, node : Parsed(p, node).ok /\ Parsed(p, node).at = p /\ Parsed(p, node).node = node
BY DEF Parsed

\* What may follow a statement, and what a LIMIT and an ORDER BY may add to that.
Closings   == {";", End}
LimitStops == {"LIMIT", ";", End}

\* What may follow a later part may follow an earlier one.
LEMMA StopsAre ==
  Closings \subseteq LimitStops /\ LimitStops \subseteq WhereStops /\ WhereStops \subseteq ExprStops
BY DEF Closings, LimitStops, WhereStops, ExprStops

\* Texts of two and of three tokens.
LEMMA TwoTokens ==
  ASSUME NEW a \in Tokens, NEW b \in Tokens PROVE <<a>> \o <<b>> = <<a, b>>
<1> DEFINE s == <<a>>
           t == <<b>>
           u == <<a, b>>
           v == s \o t
<1>1. s \in Seq(Tokens) /\ t \in Seq(Tokens) /\ u \in Seq(Tokens)
  OBVIOUS
<1>2. Len(s) = 1 /\ s[1] = a /\ Len(t) = 1 /\ t[1] = b /\ Len(u) = 2 /\ u[1] = a /\ u[2] = b
  OBVIOUS
<1> HIDE DEF s, t, u
<1>3. /\ v \in Seq(Tokens) /\ Len(v) = Len(s) + Len(t)
      /\ \A i \in 1 .. Len(s) + Len(t) : v[i] = IF i <= Len(s) THEN s[i] ELSE t[i - Len(s)]
  BY <1>1, ConcatProperties
<1> HIDE DEF v
<1>4. Len(v) = 2 /\ \A i \in 1 .. 2 : v[i] = IF i <= 1 THEN s[i] ELSE t[i - 1]
  BY <1>2, <1>3
<1>5. \A i \in 1 .. 2 : v[i] = u[i]
  <2>1. v[1] = s[1] /\ v[2] = t[1]
    BY <1>4
  <2>2. \A i \in 1 .. 2 : i = 1 \/ i = 2
    OBVIOUS
  <2> QED
    BY <1>2, <2>1, <2>2
<1>6. v = u
  BY <1>1, <1>2, <1>3, <1>4, <1>5, SeqEqual
<1> QED
  BY <1>6 DEF s, t, u, v

LimitText(l) == Opt(l, <<"LIMIT">>, OneToken)

\* A limit is rendered as LIMIT and its numeral, none as nothing.
LEMMA LimitIs ==
  ASSUME NEW l \in Optional(Numerals)
  PROVE  /\ LimitText(l) \in Seq(Tokens)
         /\ \/ l = None /\ LimitText(l) = <<>>
            \/ \E n \in Numerals : l = Some(n) /\ LimitText(l) = <<"LIMIT", n>>
<1>1. CASE l = None
  BY <1>1, NoTokens DEF LimitText, Opt
<1>2. CASE \E n \in Numerals : l = Some(n)
  <2>1. PICK n \in Numerals : l = Some(n)
    BY <1>2
  <2>2. LimitText(l) = <<"LIMIT">> \o <<n>>
    BY <2>1, OptionIs DEF LimitText, Opt, OneToken
  <2>4. "LIMIT" \in Tokens /\ n \in Tokens
    BY WordsAre
  <2>3. LimitText(l) = <<"LIMIT", n>>
    BY <2>2, <2>4, TwoTokens
  <2>5. <<"LIMIT", n>> \in Seq(Tokens)
    BY <2>4
  <2> QED
    BY <2>1, <2>3, <2>5
<1> QED
  BY <1>1, <1>2 DEF Optional

\* It reads as the limit.
LEMMA LimitReads ==
  ASSUME NEW l \in Optional(Numerals), NEW ts, NEW p, NEW q, Spans(ts, p, q, LimitText(l)),
         At(ts, q) \in Closings
  PROVE  OptLimit(ts, p) = Parsed(q, l) /\ At(ts, p) \in LimitStops
<1>1. CASE l = None /\ LimitText(l) = <<>>
  <2>1. q = p
    BY <1>1, SpansNothing
  <2>2. At(ts, p) # "LIMIT"
    BY <2>1 DEF End, Closings
  <2> QED
    BY <1>1, <2>1, <2>2, StopsAre DEF OptLimit
<1>2. CASE \E n \in Numerals : l = Some(n) /\ LimitText(l) = <<"LIMIT", n>>
  <2>1. PICK n \in Numerals : l = Some(n) /\ LimitText(l) = <<"LIMIT", n>>
    BY <1>2
  <2>2. "LIMIT" \in Tokens /\ n \in Tokens
    BY WordsAre
  <2>3. Spans(ts, p, q, <<"LIMIT", n>>)
    BY <2>1
  <2>4. At(ts, p) = "LIMIT" /\ At(ts, p + 1) = n /\ q = p + 2
    BY <2>2, <2>3, SpansTwo
  <2> QED
    BY <2>1, <2>4 DEF OptLimit, LimitStops
<1> QED
  BY <1>1, <1>2, LimitIs

Orders == {OrderBy(column, desc) : column \in Names, desc \in BOOLEAN}

OrderText(o) == Opt(o, <<"ORDER", "BY">>, RenderOrder)

Direction(desc) == IF desc THEN "DESC" ELSE "ASC"

\* An order is rendered as ORDER BY, its column and the direction, none as nothing.
LEMMA OrderIs ==
  ASSUME NEW o \in Optional(Orders)
  PROVE  /\ OrderText(o) \in Seq(Tokens)
         /\ \/ o = None /\ OrderText(o) = <<>>
            \/ \E column \in Names, desc \in BOOLEAN :
                 o = Some(OrderBy(column, desc)) /\ OrderText(o) = <<"ORDER", "BY">> \o <<column, Direction(desc)>>
<1>1. CASE o = None
  BY <1>1, NoTokens DEF OrderText, Opt
<1>2. CASE \E column \in Names, desc \in BOOLEAN : o = Some(OrderBy(column, desc))
  <2>1. PICK column \in Names, desc \in BOOLEAN : o = Some(OrderBy(column, desc))
    BY <1>2
  <2>2. OrderBy(column, desc).column = column /\ OrderBy(column, desc).descending = desc
    BY DEF OrderBy
  <2>3. RenderOrder(OrderBy(column, desc)) = <<column, Direction(desc)>>
    BY <2>2 DEF RenderOrder, Direction
  <2>4. OrderText(o) = <<"ORDER", "BY">> \o <<column, Direction(desc)>>
    BY <2>1, <2>3, OptionIs DEF OrderText, Opt
  <2>5. "ORDER" \in Tokens /\ "BY" \in Tokens /\ column \in Tokens /\ Direction(desc) \in Tokens
    BY WordsAre DEF Direction
  <2>6. <<"ORDER", "BY">> \in Seq(Tokens) /\ <<column, Direction(desc)>> \in Seq(Tokens)
    BY <2>5
  <2> QED
    BY <2>1, <2>4, <2>6, ConcatIs
<1>3. o = None \/ \E x \in Orders : o = Some(x)
  BY DEF Optional
<1>4. o = None \/ \E column \in Names, desc \in BOOLEAN : o = Some(OrderBy(column, desc))
  BY <1>3 DEF Orders
<1> QED
  BY <1>1, <1>2, <1>4

\* It reads as the order.
LEMMA OrderReads ==
  ASSUME NEW o \in Optional(Orders), NEW ts, NEW p, NEW q, Spans(ts, p, q, OrderText(o)),
         At(ts, q) \in LimitStops
  PROVE  OptOrder(ts, p) = Parsed(q, o) /\ At(ts, p) \in WhereStops
<1>1. CASE o = None /\ OrderText(o) = <<>>
  <2>1. q = p
    BY <1>1, SpansNothing
  <2>2. At(ts, p) # "ORDER"
    BY <2>1 DEF End, LimitStops
  <2> QED
    BY <1>1, <2>1, <2>2, StopsAre DEF OptOrder
<1>2. CASE \E column \in Names, desc \in BOOLEAN :
             o = Some(OrderBy(column, desc)) /\ OrderText(o) = <<"ORDER", "BY">> \o <<column, Direction(desc)>>
  <2>1. PICK column \in Names, desc \in BOOLEAN :
             o = Some(OrderBy(column, desc)) /\ OrderText(o) = <<"ORDER", "BY">> \o <<column, Direction(desc)>>
    BY <1>2
  <2> DEFINE s == <<"ORDER", "BY">>
             t == <<column, Direction(desc)>>
  <2>2. "ORDER" \in Tokens /\ "BY" \in Tokens /\ column \in Tokens /\ Direction(desc) \in Tokens
    BY WordsAre DEF Direction
  <2>3. s \in Seq(Tokens) /\ t \in Seq(Tokens)
    BY <2>2
  <2>4. Spans(ts, p, q, s \o t)
    BY <2>1
  <2> HIDE DEF s, t
  <2>5. PICK m : Spans(ts, p, m, s) /\ Spans(ts, m, q, t)
    BY <2>3, <2>4, SpansParts
  <2>6. At(ts, p) = "ORDER" /\ At(ts, p + 1) = "BY" /\ m = p + 2 /\ p \in Nat
    BY <2>2, <2>5, SpansTwo DEF s
  <2>7. At(ts, m) = column /\ At(ts, m + 1) = Direction(desc) /\ q = m + 2 /\ m \in Nat
    BY <2>2, <2>5, SpansTwo DEF t
  <2>8. m = p + 1 + 1 /\ q = m + 1 + 1
    BY <2>6, <2>7
  <2> DEFINE by == Expect(ts, p + 1, "BY")
             it == Ident(ts, by.at)
             last == Parsed(SkipDirection(ts, it.at), Some(OrderBy(it.node, At(ts, it.at) = "DESC")))
  <2>9. by = Parsed(m, None)
    BY <2>6, <2>8, ExpectReads
  <2>10. by.ok /\ by.at = m
    BY <2>9, ParsedIs
  <2>11. Ident(ts, m) = Parsed(m + 1, column)
    BY <2>7, IdentReads
  <2>12. it.ok /\ it.at = m + 1 /\ it.node = column
    BY <2>10, <2>11, ParsedIs
  <2>13. SkipDirection(ts, m + 1) = q /\ (At(ts, m + 1) = "DESC") = desc
    BY <2>7, <2>8 DEF SkipDirection, Direction
  <2>14. OptOrder(ts, p) = (by && it && last)
    BY <2>6 DEF OptOrder
  <2> HIDE DEF by, it
  <2>15. last = Parsed(q, o)
    BY <2>1, <2>12, <2>13
  <2> HIDE DEF last
  <2>16. OptOrder(ts, p) = Parsed(q, o)
    BY <2>10, <2>12, <2>14, <2>15, Goes
  <2> QED
    BY <2>6, <2>16 DEF WhereStops
<1> QED
  BY <1>1, <1>2, OrderIs

\* Where the filter stands, an expression can end, and no list goes on.
LEMMA WhereBegins ==
  ASSUME NEW f \in Optional(Written), NEW ts, NEW p, NEW q, Spans(ts, p, q, WhereText(f)),
         At(ts, q) \in WhereStops
  PROVE  At(ts, p) \in ExprStops /\ NoComma(ts, p)
<1>1. CASE f = None /\ WhereText(f) = <<>>
  <2>1. q = p
    BY <1>1, SpansNothing
  <2> QED
    BY <2>1, StopsAre DEF End, WhereStops, NoComma
<1>2. CASE \E x \in Written : f = Some(x) /\ WhereText(f) = <<"WHERE">> \o Render(x)
  <2>1. PICK x \in Written : f = Some(x) /\ WhereText(f) = <<"WHERE">> \o Render(x)
    BY <1>2
  <2> DEFINE s == Render(x)
             w == <<"WHERE">>
  <2>2. "WHERE" \in Tokens /\ w \in Seq(Tokens) /\ s \in Seq(Tokens)
    BY WordsAre, OneIs, RenderIsText
  <2>3. Spans(ts, p, q, w \o s)
    BY <2>1
  <2> HIDE DEF w, s
  <2>4. PICK m : Spans(ts, p, m, w) /\ Spans(ts, m, q, s)
    BY <2>2, <2>3, SpansParts
  <2>5. At(ts, p) = "WHERE"
    BY <2>2, <2>4, SpansToken DEF w
  <2> QED
    BY <2>5 DEF ExprStops, NoComma
<1> QED
  BY <1>1, <1>2, WhereIs

-----------------------------------------------------------------------------
(* Reading the lists of a statement.                                       *)

HasComma(stops) == "," \in stops

\* The texts of a list.
LEMMA PartsAre ==
  ASSUME NEW N, NEW xs \in Seq(N), xs # <<>>, NEW parts \in [DOMAIN xs -> Seq(Tokens)]
  PROVE  /\ parts \in Seq(Seq(Tokens)) /\ Len(parts) = Len(xs) /\ Len(parts) >= 1
         /\ DOMAIN xs = 1 .. Len(xs) /\ Joined(parts) \in Seq(Tokens)
<1>1. Len(xs) \in Nat /\ Len(xs) >= 1 /\ DOMAIN xs = 1 .. Len(xs)
  OBVIOUS
<1>2. parts \in Seq(Seq(Tokens)) /\ Len(parts) = Len(xs)
  BY <1>1, IsASeq
<1>3. Len(parts) >= 1
  BY <1>1, <1>2
<1> QED
  BY <1>1, <1>2, <1>3, JoinedIsText

\* The items read their parts.
AllRead(ts, items, parts, xs, stops) ==
  /\ AreItems(ts, items) /\ HasComma(stops)
  /\ \A i \in DOMAIN xs : ItemReads(ts, items, parts[i], xs[i], stops)

\* A list of texts that read as its items.
LEMMA PartsRead ==
  ASSUME NEW N, NEW xs \in Seq(N), xs # <<>>, NEW parts \in [DOMAIN xs -> Seq(Tokens)],
         NEW ts, NEW items, NEW stops, AllRead(ts, items, parts, xs, stops)
  PROVE  Lists(ts, items, parts, xs, stops)
<1>1. /\ parts \in Seq(Seq(Tokens)) /\ Len(parts) = Len(xs) /\ Len(parts) >= 1
      /\ DOMAIN xs = 1 .. Len(xs)
  BY PartsAre
<1>2. \A i \in 1 .. Len(parts) : ItemReads(ts, items, parts[i], xs[i], stops)
  BY <1>1 DEF AllRead
<1>3. \E M : xs \in Seq(M)
  OBVIOUS
<1> QED
  BY <1>1, <1>2, <1>3 DEF Lists, HasComma, AllRead

\* Parentheses around a text.
LEMMA ParenIsText ==
  ASSUME NEW s \in Seq(Tokens)
  PROVE  Paren(s) \in Seq(Tokens)
<1> DEFINE a == <<"(">>
           c == <<")">>
<1>1. a \in Seq(Tokens) /\ c \in Seq(Tokens)
  BY WordsAre, OneIs
<1>2. Paren(s) = (a \o s) \o c
  BY DEF Paren
<1> HIDE DEF a, c
<1>3. a \o s \in Seq(Tokens)
  BY <1>1, ConcatIs
<1> QED
  BY <1>1, <1>2, <1>3, ConcatIs

\* A part in parentheses.
LEMMA SpansParen ==
  ASSUME NEW s \in Seq(Tokens), NEW ts, NEW p, NEW q, Spans(ts, p, q, Paren(s))
  PROVE  \E m \in Nat : /\ At(ts, p) = "(" /\ Spans(ts, p + 1, m, s)
                        /\ At(ts, m) = ")" /\ q = m + 1
<1> DEFINE a == <<"(">>
           c == <<")">>
<1>1. "(" \in Tokens /\ ")" \in Tokens /\ a \in Seq(Tokens) /\ c \in Seq(Tokens)
  BY WordsAre, OneIs
<1>2. Spans(ts, p, q, (a \o s) \o c)
  BY DEF Paren
<1> HIDE DEF a, c
<1>3. a \o s \in Seq(Tokens)
  BY <1>1, ConcatIs
<1>4. PICK m \in Nat : Spans(ts, p, m, a \o s) /\ Spans(ts, m, q, c)
  BY <1>1, <1>2, <1>3, SpansParts
<1>5. PICK n : Spans(ts, p, n, a) /\ Spans(ts, n, m, s)
  BY <1>1, <1>4, SpansParts
<1>6. At(ts, p) = "(" /\ n = p + 1
  BY <1>1, <1>5, SpansToken DEF a
<1>7. At(ts, m) = ")" /\ q = m + 1
  BY <1>1, <1>4, SpansToken DEF c
<1> QED
  BY <1>5, <1>6, <1>7

-----------------------------------------------------------------------------
(* Rows.                                                                   *)

TextRows == Seq(Written) \ {<<>>}

RowParts(row) == [i \in DOMAIN row |-> Render(row[i])]

\* The text of a row.
LEMMA RowIs ==
  ASSUME NEW row \in TextRows
  PROVE  /\ row \in Seq(Written) /\ row # <<>> /\ RowParts(row) \in [DOMAIN row -> Seq(Tokens)]
         /\ \A i \in DOMAIN row : row[i] \in Written /\ RowParts(row)[i] = Render(row[i])
         /\ RenderRow(row) = Paren(Joined(RowParts(row)))
         /\ Joined(RowParts(row)) \in Seq(Tokens) /\ RenderRow(row) \in Seq(Tokens)
<1>1. row \in Seq(Written) /\ row # <<>>
  BY DEF TextRows
<1>2. \A i \in DOMAIN row : row[i] \in Written /\ Render(row[i]) \in Seq(Tokens)
  <2>1. \A i \in DOMAIN row : row[i] \in Written
    BY <1>1
  <2> QED
    BY <2>1, RenderIsText
<1>3. RowParts(row) \in [DOMAIN row -> Seq(Tokens)]
  BY <1>2 DEF RowParts
<1>4. RenderRow(row) = Paren(Joined(RowParts(row)))
  BY DEF RenderRow, RowParts
<1>5. Joined(RowParts(row)) \in Seq(Tokens)
  BY <1>1, <1>3, PartsAre
<1>6. RenderRow(row) \in Seq(Tokens)
  BY <1>4, <1>5, ParenIsText
<1> QED
  BY <1>1, <1>2, <1>3, <1>4, <1>5, <1>6 DEF RowParts

\* Expressions and rows are items, which read on.
LEMMA ExprItems ==
  ASSUME NEW ts, Len(ts) \in Nat
  PROVE  AreItems(ts, [q \in Positions(ts) |-> FullExpr(ts, q)])
<1>1. Begins(ts, ts)
  BY BeginsItself
<1> QED
  BY <1>1, FullExprParses DEF Parses, AreItems

\* Rows.
LEMMA RowItems ==
  ASSUME NEW ts, Len(ts) \in Nat
  PROVE  AreItems(ts, [q \in Positions(ts) |-> ParseRow(ts, q)])
<1>1. Begins(ts, ts)
  BY BeginsItself
<1> QED
  BY <1>1, RowParses DEF Parses, AreItems

\* The text of an expression in a list.
LEMMA ExprItemReads ==
  ASSUME NEW x \in Written, NEW ts
  PROVE  ItemReads(ts, [q \in Positions(ts) |-> FullExpr(ts, q)], Render(x), x, ExprStops)
<1> SUFFICES ASSUME NEW p, NEW q, Spans(ts, p, q, Render(x)), At(ts, q) \in ExprStops
             PROVE  [i \in Positions(ts) |-> FullExpr(ts, i)][p] = Parsed(q, x)
  BY DEF ItemReads
<1>1. p \in Positions(ts)
  BY SpansAt
<1> QED
  BY <1>1, ExprReads

\* A row reads as the row.
LEMMA RowReads ==
  ASSUME NEW row \in TextRows, NEW ts, NEW p, NEW q, Spans(ts, p, q, RenderRow(row))
  PROVE  ParseRow(ts, p) = Parsed(q, row)
<1> DEFINE items == [i \in Positions(ts) |-> FullExpr(ts, i)]
           parts == RowParts(row)
<1>1. /\ row \in Seq(Written) /\ row # <<>> /\ parts \in [DOMAIN row -> Seq(Tokens)]
      /\ \A i \in DOMAIN row : row[i] \in Written /\ parts[i] = Render(row[i])
      /\ RenderRow(row) = Paren(Joined(parts)) /\ Joined(parts) \in Seq(Tokens)
  BY RowIs
<1>2. Len(ts) \in Nat
  BY SpansAt
<1>3. AreItems(ts, items)
  BY <1>2, ExprItems
<1>4. \A i \in DOMAIN row : ItemReads(ts, items, parts[i], row[i], ExprStops)
  BY <1>1, ExprItemReads
<1> HIDE DEF items, parts
<1>5. PICK m : At(ts, p) = "(" /\ Spans(ts, p + 1, m, Joined(parts)) /\ At(ts, m) = ")" /\ q = m + 1
  BY <1>1, SpansParen
<1>6. HasComma(ExprStops) /\ EndsList(ts, m, ExprStops)
  BY <1>5 DEF HasComma, EndsList, ExprStops
<1>7. AllRead(ts, items, parts, row, ExprStops)
  BY <1>3, <1>4, <1>6 DEF AllRead
<1>8. List(ts, p + 1, items) = Parsed(m, row)
  <2>1. row \in Seq(Written) /\ row # <<>> /\ parts \in [DOMAIN row -> Seq(Tokens)]
    BY <1>1
  <2>2. Lists(ts, items, parts, row, ExprStops)
    BY <1>7, <2>1, PartsRead
  <2>3. Spans(ts, p + 1, m, Joined(parts)) /\ EndsList(ts, m, ExprStops)
    BY <1>5, <1>6
  <2> QED
    BY <2>2, <2>3, ListReads
<1>9. ExprList(ts, p + 1) = Parsed(m, row)
  BY <1>8 DEF ExprList, items
<1> DEFINE open  == Expect(ts, p, "(")
           list  == ExprList(ts, open.at)
           close == Expect(ts, list.at, ")")
<1>10. open = Parsed(p + 1, None)
  BY <1>5, ExpectReads
<1>11. open.ok /\ open.at = p + 1
  BY <1>10, ParsedIs
<1>12. list.ok /\ list.at = m /\ list.node = row
  BY <1>9, <1>11, ParsedIs
<1>13. Expect(ts, m, ")") = Parsed(q, None)
  BY <1>5, ExpectReads
<1>14. close.ok /\ close.at = q
  BY <1>12, <1>13, ParsedIs
<1>15. ParseRow(ts, p) = (open && list && close && Parsed(close.at, list.node))
  BY DEF ParseRow, Enclosed, &&
<1> HIDE DEF open, list, close
<1> QED
  BY <1>11, <1>12, <1>14, <1>15, Goes

-----------------------------------------------------------------------------
(* Assignments.                                                            *)

Assignments == {Assign(column, value) : column \in Names, value \in Written}

\* The text of an assignment.
LEMMA AssignmentIs ==
  ASSUME NEW a \in Assignments
  PROVE  /\ RenderAssign(a) \in Seq(Tokens)
         /\ \E column \in Names, value \in Written :
              a = Assign(column, value) /\ RenderAssign(a) = <<column, "=">> \o Render(value)
<1>1. PICK column \in Names, value \in Written : a = Assign(column, value)
  BY DEF Assignments
<1>2. RenderAssign(a) = <<column, "=">> \o Render(value)
  BY <1>1 DEF RenderAssign, Assign
<1>3. column \in Tokens /\ "=" \in Tokens
  BY WordsAre
<1>4. <<column, "=">> \in Seq(Tokens) /\ Render(value) \in Seq(Tokens)
  BY <1>3, RenderIsText
<1> QED
  BY <1>1, <1>2, <1>4, ConcatIs

\* It reads as the assignment.
LEMMA AssignmentReads ==
  ASSUME NEW a \in Assignments, NEW ts, NEW p, NEW q, Spans(ts, p, q, RenderAssign(a)),
         At(ts, q) \in ExprStops
  PROVE  ParseAssignment(ts, p) = Parsed(q, a)
<1>1. PICK column \in Names, value \in Written :
           a = Assign(column, value) /\ RenderAssign(a) = <<column, "=">> \o Render(value)
  BY AssignmentIs
<1> DEFINE s == <<column, "=">>
           t == Render(value)
<1>2. column \in Tokens /\ "=" \in Tokens
  BY WordsAre
<1>3. s \in Seq(Tokens) /\ t \in Seq(Tokens)
  BY <1>2, RenderIsText
<1>4. Spans(ts, p, q, s \o t)
  BY <1>1
<1> HIDE DEF s, t
<1>5. PICK m : Spans(ts, p, m, s) /\ Spans(ts, m, q, t)
  BY <1>3, <1>4, SpansParts
<1>6. At(ts, p) = column /\ At(ts, p + 1) = "=" /\ m = p + 2 /\ p \in Nat
  BY <1>2, <1>5, SpansTwo DEF s
<1>7. m = p + 1 + 1
  BY <1>6
<1>8. FullExpr(ts, m) = Parsed(q, value)
  BY <1>5, ExprReads DEF t
<1> DEFINE it == Ident(ts, p)
           eq == Expect(ts, it.at, "=")
           e  == FullExpr(ts, eq.at)
<1>9. it = Parsed(p + 1, column)
  BY <1>6, IdentReads
<1>10. it.ok /\ it.at = p + 1 /\ it.node = column
  BY <1>9, ParsedIs
<1>11. Expect(ts, p + 1, "=") = Parsed(m, None)
  BY <1>6, <1>7, ExpectReads
<1>12. eq.ok /\ eq.at = m
  BY <1>10, <1>11, ParsedIs
<1>13. e.ok /\ e.at = q /\ e.node = value
  BY <1>8, <1>12, ParsedIs
<1>14. ParseAssignment(ts, p) = (it && eq && e && Parsed(e.at, Assign(it.node, e.node)))
  BY DEF ParseAssignment, Made, &&
<1> HIDE DEF it, eq, e
<1> QED
  BY <1>1, <1>10, <1>12, <1>13, <1>14, Goes

\* Assignments are items.
LEMMA AssignmentItems ==
  ASSUME NEW ts, Len(ts) \in Nat
  PROVE  AreItems(ts, [q \in Positions(ts) |-> ParseAssignment(ts, q)])
<1>1. Begins(ts, ts)
  BY BeginsItself
<1> QED
  BY <1>1, AssignmentParses DEF Parses, AreItems

-----------------------------------------------------------------------------
(* Columns.                                                                *)

Specs == {ColumnSpec(name, type, pk, nn) :
            name \in Names, type \in ColumnTypeWords, pk \in BOOLEAN, nn \in BOOLEAN}

\* What may follow a column.
ColumnStops == {",", ")"}

\* A flag that may be missing: its text, and what it tells.
FlagText(token, second, given) == IF given THEN <<token, second>> ELSE <<>>
FlagSet(token, given)          == IF given THEN {token} ELSE {}

IsFlag(token, second) == token \in {"PRIMARY", "NOT"} /\ second = FlagWord(token)

\* The text of a flag, which is empty if it is not given.
LEMMA FlagIsText ==
  ASSUME NEW token \in Tokens, NEW second \in Tokens, NEW given \in BOOLEAN
  PROVE  FlagText(token, second, given) \in Seq(Tokens)
<1>1. <<token, second>> \in Seq(Tokens) /\ <<>> \in Seq(Tokens)
  OBVIOUS
<1> QED
  BY <1>1 DEF FlagText

\* It reads as the flag, before those that follow.
LEMMA FlagReads ==
  ASSUME NEW token \in Tokens, NEW second \in Tokens, IsFlag(token, second), NEW given \in BOOLEAN,
         NEW ts, NEW p, NEW m, NEW q, NEW flags, Spans(ts, p, m, FlagText(token, second, given)),
         ParseFlags(ts, m) = Parsed(q, flags)
  PROVE  ParseFlags(ts, p) = Parsed(q, FlagSet(token, given) \cup flags)
<1>1. CASE ~given
  <2>1. Spans(ts, p, m, <<>>)
    BY <1>1 DEF FlagText
  <2>2. m = p
    BY <2>1, SpansNothing
  <2>3. FlagSet(token, given) \cup flags = flags
    BY <1>1 DEF FlagSet
  <2> QED
    BY <2>2, <2>3
<1>2. CASE given
  <2>1. Spans(ts, p, m, <<token, second>>)
    BY <1>2 DEF FlagText
  <2>2. At(ts, p) = token /\ At(ts, p + 1) = second /\ m = p + 2 /\ p \in Nat /\ p \in Positions(ts)
    BY <2>1, SpansTwo
  <2>3. Len(ts) \in Nat
    BY <2>1, SpansAt
  <2>4. m = p + 1 + 1
    BY <2>2
  <2> DEFINE word == Expect(ts, p + 1, FlagWord(At(ts, p)))
             rest == ParseFlags(ts, word.at)
  <2>5. word = Parsed(m, None)
    BY <2>2, <2>4, ExpectReads DEF IsFlag
  <2>6. word.ok /\ word.at = m
    BY <2>5, ParsedIs
  <2>7. rest.ok /\ rest.at = q /\ rest.node = flags
    BY <2>6, ParsedIs
  <2>8. ParseFlags(ts, p) = (word && (rest && Parsed(rest.at, {At(ts, p)} \cup rest.node)))
    BY <2>2, <2>3, FlagsUnfold DEF IsFlag
  <2> HIDE DEF word, rest
  <2>9. ParseFlags(ts, p) = Parsed(q, {token} \cup flags)
    BY <2>2, <2>6, <2>7, <2>8, Goes
  <2> QED
    BY <1>2, <2>9 DEF FlagSet
<1> QED
  BY <1>1, <1>2

KeyText(c)  == FlagText("PRIMARY", "KEY", c.primary_key)
NullText(c) == FlagText("NOT", "NULL", c.not_null)

\* The text of a column.
LEMMA ColumnIs ==
  ASSUME NEW c \in Specs
  PROVE  /\ c = ColumnSpec(c.name, c.ty, c.primary_key, c.not_null)
         /\ c.name \in Names /\ c.name \in Tokens /\ c.ty \in ColumnTypeWords /\ c.ty \in Tokens
         /\ c.primary_key \in BOOLEAN /\ c.not_null \in BOOLEAN
         /\ <<c.name, c.ty>> \in Seq(Tokens) /\ KeyText(c) \in Seq(Tokens) /\ NullText(c) \in Seq(Tokens)
         /\ RenderColumn(c) = (<<c.name, c.ty>> \o KeyText(c)) \o NullText(c)
         /\ <<c.name, c.ty>> \o KeyText(c) \in Seq(Tokens) /\ RenderColumn(c) \in Seq(Tokens)
<1>1. PICK name \in Names, type \in ColumnTypeWords, pk \in BOOLEAN, nn \in BOOLEAN :
        c = ColumnSpec(name, type, pk, nn)
  BY DEF Specs
<1>2. c.name = name /\ c.ty = type /\ c.primary_key = pk /\ c.not_null = nn
  BY <1>1 DEF ColumnSpec
<1>3. name \in Tokens /\ type \in Tokens
  BY WordsAre
<1>4. <<c.name, c.ty>> \in Seq(Tokens)
  BY <1>2, <1>3
<1>5. "PRIMARY" \in Tokens /\ "KEY" \in Tokens /\ "NOT" \in Tokens /\ "NULL" \in Tokens
  BY WordsAre
<1>6. KeyText(c) \in Seq(Tokens) /\ NullText(c) \in Seq(Tokens)
  BY <1>2, <1>5, FlagIsText DEF KeyText, NullText
<1>7. RenderColumn(c) = (<<c.name, c.ty>> \o KeyText(c)) \o NullText(c)
  BY DEF RenderColumn, KeyText, NullText, FlagText
<1>8. <<c.name, c.ty>> \o KeyText(c) \in Seq(Tokens)
  BY <1>4, <1>6, ConcatIs
<1>9. RenderColumn(c) \in Seq(Tokens)
  BY <1>6, <1>7, <1>8, ConcatIs
<1> QED
  BY <1>1, <1>2, <1>3, <1>4, <1>6, <1>7, <1>8, <1>9

\* Its flags read as they were given.
LEMMA FlagsRead ==
  ASSUME NEW c \in Specs, NEW ts, NEW p, NEW m, NEW q, Spans(ts, p, m, KeyText(c)),
         Spans(ts, m, q, NullText(c)),
         At(ts, q) \in ColumnStops
  PROVE  \E flags : /\ ParseFlags(ts, p) = Parsed(q, flags)
                    /\ ("PRIMARY" \in flags) = c.primary_key /\ ("NOT" \in flags) = c.not_null
<1>1. "PRIMARY" \in Tokens /\ "KEY" \in Tokens /\ "NOT" \in Tokens /\ "NULL" \in Tokens
  BY WordsAre
<1>2. c.primary_key \in BOOLEAN /\ c.not_null \in BOOLEAN
  BY ColumnIs
<1>3. q \in Positions(ts) /\ Len(ts) \in Nat
  BY SpansAt
<1>4. At(ts, q) \notin {"PRIMARY", "NOT"}
  BY DEF ColumnStops
<1>5. ParseFlags(ts, q) = Parsed(q, {})
  BY <1>3, <1>4, FlagsUnfold
<1>6. IsFlag("PRIMARY", "KEY") /\ IsFlag("NOT", "NULL")
  BY DEF IsFlag, FlagWord
<1> DEFINE second == FlagSet("NOT", c.not_null) \cup {}
           flags  == FlagSet("PRIMARY", c.primary_key) \cup second
<1>7. ParseFlags(ts, m) = Parsed(q, second)
  BY <1>1, <1>2, <1>5, <1>6, FlagReads DEF NullText
<1> HIDE DEF second
<1>8. ParseFlags(ts, p) = Parsed(q, flags)
  BY <1>1, <1>2, <1>6, <1>7, FlagReads DEF KeyText
<1>9. ("PRIMARY" \in flags) = c.primary_key /\ ("NOT" \in flags) = c.not_null
  BY <1>2 DEF FlagSet, second
<1> HIDE DEF flags
<1> QED
  BY <1>8, <1>9

\* It reads as the column.
LEMMA ColumnReads ==
  ASSUME NEW c \in Specs, NEW ts, NEW p, NEW q, Spans(ts, p, q, RenderColumn(c)),
         At(ts, q) \in ColumnStops
  PROVE  ParseColumn(ts, p) = Parsed(q, c)
<1> DEFINE s == <<c.name, c.ty>>
           k == KeyText(c)
           n == NullText(c)
<1>1. /\ s \in Seq(Tokens) /\ k \in Seq(Tokens) /\ n \in Seq(Tokens)
      /\ RenderColumn(c) = (s \o k) \o n /\ s \o k \in Seq(Tokens)
  BY ColumnIs
<1>2. /\ c.name \in Names /\ c.name \in Tokens /\ c.ty \in ColumnTypeWords /\ c.ty \in Tokens
      /\ c = ColumnSpec(c.name, c.ty, c.primary_key, c.not_null)
  BY ColumnIs
<1>3. Spans(ts, p, q, (s \o k) \o n)
  BY <1>1
<1> HIDE DEF s, k, n
<1>4. PICK b : Spans(ts, p, b, s \o k) /\ Spans(ts, b, q, n)
  BY <1>1, <1>3, SpansParts
<1>5. PICK a : Spans(ts, p, a, s) /\ Spans(ts, a, b, k)
  BY <1>1, <1>4, SpansParts
<1>6. At(ts, p) = c.name /\ At(ts, p + 1) = c.ty /\ a = p + 2 /\ p \in Nat
  BY <1>2, <1>5, SpansTwo DEF s
<1>7. a = p + 1 + 1
  BY <1>6
<1>8. PICK set : /\ ParseFlags(ts, a) = Parsed(q, set)
                 /\ ("PRIMARY" \in set) = c.primary_key /\ ("NOT" \in set) = c.not_null
  BY <1>4, <1>5, FlagsRead DEF k, n
<1> DEFINE name  == Ident(ts, p)
           flags == ParseFlags(ts, name.at + 1)
           last  == Parsed(flags.at, ColumnSpec(name.node, At(ts, name.at), "PRIMARY" \in flags.node, "NOT" \in flags.node))
<1>9. name = Parsed(p + 1, c.name)
  BY <1>2, <1>6, IdentReads
<1>10. name.ok /\ name.at = p + 1 /\ name.node = c.name
  BY <1>9, ParsedIs
<1>11. flags = Parsed(q, set)
  BY <1>7, <1>8, <1>10
<1>12. flags.ok /\ flags.at = q /\ flags.node = set
  BY <1>11, ParsedIs
<1>13. ParseColumn(ts, p) = (name && IF At(ts, name.at) \notin ColumnTypeWords THEN Failed(name.at) ELSE flags && last)
  BY DEF ParseColumn
<1> HIDE DEF name, flags
<1>14. last = Parsed(q, c)
  BY <1>2, <1>6, <1>8, <1>10, <1>12
<1> HIDE DEF last
<1> QED
  BY <1>2, <1>6, <1>10, <1>12, <1>13, <1>14, Goes

\* Columns are items.
LEMMA ColumnItems ==
  ASSUME NEW ts, Len(ts) \in Nat
  PROVE  AreItems(ts, [q \in Positions(ts) |-> ParseColumn(ts, q)])
<1>1. Begins(ts, ts)
  BY BeginsItself
<1> QED
  BY <1>1, ColumnParses DEF Parses, AreItems

\* What may follow a row.
RowStops == {",", ";", End}

-----------------------------------------------------------------------------
(* Several rows.                                                           *)

RowsParts(xs) == [i \in DOMAIN xs |-> RenderRow(xs[i])]
RowsText(xs)  == Joined(RowsParts(xs))

\* Their texts.
LEMMA RowsAre ==
  ASSUME NEW xs \in Seq(TextRows), xs # <<>>
  PROVE  /\ RowsParts(xs) \in [DOMAIN xs -> Seq(Tokens)] /\ RowsText(xs) \in Seq(Tokens)
         /\ \A i \in DOMAIN xs : xs[i] \in TextRows /\ RowsParts(xs)[i] = RenderRow(xs[i])
<1>1. \A i \in DOMAIN xs : xs[i] \in TextRows /\ RenderRow(xs[i]) \in Seq(Tokens)
  <2>1. \A i \in DOMAIN xs : xs[i] \in TextRows
    OBVIOUS
  <2> QED
    BY <2>1, RowIs
<1>2. RowsParts(xs) \in [DOMAIN xs -> Seq(Tokens)]
  BY <1>1 DEF RowsParts
<1>3. RowsText(xs) \in Seq(Tokens)
  BY <1>2, PartsAre DEF RowsText
<1> QED
  BY <1>1, <1>2, <1>3 DEF RowsParts

\* They read as the rows.
LEMMA RowsRead ==
  ASSUME NEW xs \in Seq(TextRows), xs # <<>>, NEW ts, NEW p, NEW q,
         Spans(ts, p, q, RowsText(xs)), EndsList(ts, q, RowStops)
  PROVE  List(ts, p, [i \in Positions(ts) |-> ParseRow(ts, i)]) = Parsed(q, xs)
<1> DEFINE items == [i \in Positions(ts) |-> ParseRow(ts, i)]
           parts == RowsParts(xs)
<1>1. /\ parts \in [DOMAIN xs -> Seq(Tokens)]
      /\ \A i \in DOMAIN xs : xs[i] \in TextRows /\ parts[i] = RenderRow(xs[i])
  BY RowsAre
<1>2. Len(ts) \in Nat
  BY SpansAt
<1>3. AreItems(ts, items)
  BY <1>2, RowItems
<1>4. \A i \in DOMAIN xs : ItemReads(ts, items, parts[i], xs[i], RowStops)
  <2> SUFFICES ASSUME NEW i \in DOMAIN xs, NEW a, NEW b, Spans(ts, a, b, parts[i]), At(ts, b) \in RowStops
               PROVE  items[a] = Parsed(b, xs[i])
    BY DEF ItemReads
  <2> HIDE DEF parts
  <2>1. xs[i] \in TextRows /\ Spans(ts, a, b, RenderRow(xs[i]))
    BY <1>1
  <2>2. a \in Positions(ts)
    BY SpansAt
  <2>3. ParseRow(ts, a) = Parsed(b, xs[i])
    BY <2>1, RowReads
  <2> QED
    BY <2>2, <2>3
<1>5. HasComma(RowStops)
  BY DEF HasComma, RowStops
<1> HIDE DEF items, parts
<1>6. AllRead(ts, items, parts, xs, RowStops)
  BY <1>3, <1>4, <1>5 DEF AllRead
<1>7. Lists(ts, items, parts, xs, RowStops)
  BY <1>1, <1>6, PartsRead
<1>8. Spans(ts, p, q, Joined(parts))
  BY DEF RowsText, parts
<1>9. List(ts, p, items) = Parsed(q, xs)
  BY <1>7, <1>8, ListReads
<1> QED
  BY <1>9 DEF items

-----------------------------------------------------------------------------
(* Several assignments.                                                    *)

AssignedParts(xs) == [i \in DOMAIN xs |-> RenderAssign(xs[i])]
AssignedText(xs)  == Joined(AssignedParts(xs))

\* Their texts.
LEMMA AssignedAre ==
  ASSUME NEW xs \in Seq(Assignments), xs # <<>>
  PROVE  /\ AssignedParts(xs) \in [DOMAIN xs -> Seq(Tokens)] /\ AssignedText(xs) \in Seq(Tokens)
         /\ \A i \in DOMAIN xs : xs[i] \in Assignments /\ AssignedParts(xs)[i] = RenderAssign(xs[i])
<1>1. \A i \in DOMAIN xs : xs[i] \in Assignments /\ RenderAssign(xs[i]) \in Seq(Tokens)
  <2>1. \A i \in DOMAIN xs : xs[i] \in Assignments
    OBVIOUS
  <2> QED
    BY <2>1, AssignmentIs
<1>2. AssignedParts(xs) \in [DOMAIN xs -> Seq(Tokens)]
  BY <1>1 DEF AssignedParts
<1>3. AssignedText(xs) \in Seq(Tokens)
  BY <1>2, PartsAre DEF AssignedText
<1> QED
  BY <1>1, <1>2, <1>3 DEF AssignedParts

\* They read as the assignments.
LEMMA AssignedRead ==
  ASSUME NEW xs \in Seq(Assignments), xs # <<>>, NEW ts, NEW p, NEW q,
         Spans(ts, p, q, AssignedText(xs)), EndsList(ts, q, ExprStops)
  PROVE  List(ts, p, [i \in Positions(ts) |-> ParseAssignment(ts, i)]) = Parsed(q, xs)
<1> DEFINE items == [i \in Positions(ts) |-> ParseAssignment(ts, i)]
           parts == AssignedParts(xs)
<1>1. /\ parts \in [DOMAIN xs -> Seq(Tokens)]
      /\ \A i \in DOMAIN xs : xs[i] \in Assignments /\ parts[i] = RenderAssign(xs[i])
  BY AssignedAre
<1>2. Len(ts) \in Nat
  BY SpansAt
<1>3. AreItems(ts, items)
  BY <1>2, AssignmentItems
<1>4. \A i \in DOMAIN xs : ItemReads(ts, items, parts[i], xs[i], ExprStops)
  <2> SUFFICES ASSUME NEW i \in DOMAIN xs, NEW a, NEW b, Spans(ts, a, b, parts[i]), At(ts, b) \in ExprStops
               PROVE  items[a] = Parsed(b, xs[i])
    BY DEF ItemReads
  <2> HIDE DEF parts
  <2>1. xs[i] \in Assignments /\ Spans(ts, a, b, RenderAssign(xs[i]))
    BY <1>1
  <2>2. a \in Positions(ts)
    BY SpansAt
  <2>3. ParseAssignment(ts, a) = Parsed(b, xs[i])
    BY <2>1, AssignmentReads
  <2> QED
    BY <2>2, <2>3
<1>5. HasComma(ExprStops)
  BY DEF HasComma, ExprStops
<1> HIDE DEF items, parts
<1>6. AllRead(ts, items, parts, xs, ExprStops)
  BY <1>3, <1>4, <1>5 DEF AllRead
<1>7. Lists(ts, items, parts, xs, ExprStops)
  BY <1>1, <1>6, PartsRead
<1>8. Spans(ts, p, q, Joined(parts))
  BY DEF AssignedText, parts
<1>9. List(ts, p, items) = Parsed(q, xs)
  BY <1>7, <1>8, ListReads
<1> QED
  BY <1>9 DEF items

-----------------------------------------------------------------------------
(* Several columns.                                                        *)

ColumnedParts(xs) == [i \in DOMAIN xs |-> RenderColumn(xs[i])]
ColumnedText(xs)  == Joined(ColumnedParts(xs))

\* Their texts.
LEMMA ColumnedAre ==
  ASSUME NEW xs \in Seq(Specs), xs # <<>>
  PROVE  /\ ColumnedParts(xs) \in [DOMAIN xs -> Seq(Tokens)] /\ ColumnedText(xs) \in Seq(Tokens)
         /\ \A i \in DOMAIN xs : xs[i] \in Specs /\ ColumnedParts(xs)[i] = RenderColumn(xs[i])
<1>1. \A i \in DOMAIN xs : xs[i] \in Specs /\ RenderColumn(xs[i]) \in Seq(Tokens)
  <2>1. \A i \in DOMAIN xs : xs[i] \in Specs
    OBVIOUS
  <2> QED
    BY <2>1, ColumnIs
<1>2. ColumnedParts(xs) \in [DOMAIN xs -> Seq(Tokens)]
  BY <1>1 DEF ColumnedParts
<1>3. ColumnedText(xs) \in Seq(Tokens)
  BY <1>2, PartsAre DEF ColumnedText
<1> QED
  BY <1>1, <1>2, <1>3 DEF ColumnedParts

\* They read as the columns.
LEMMA ColumnedRead ==
  ASSUME NEW xs \in Seq(Specs), xs # <<>>, NEW ts, NEW p, NEW q,
         Spans(ts, p, q, ColumnedText(xs)), EndsList(ts, q, ColumnStops)
  PROVE  List(ts, p, [i \in Positions(ts) |-> ParseColumn(ts, i)]) = Parsed(q, xs)
<1> DEFINE items == [i \in Positions(ts) |-> ParseColumn(ts, i)]
           parts == ColumnedParts(xs)
<1>1. /\ parts \in [DOMAIN xs -> Seq(Tokens)]
      /\ \A i \in DOMAIN xs : xs[i] \in Specs /\ parts[i] = RenderColumn(xs[i])
  BY ColumnedAre
<1>2. Len(ts) \in Nat
  BY SpansAt
<1>3. AreItems(ts, items)
  BY <1>2, ColumnItems
<1>4. \A i \in DOMAIN xs : ItemReads(ts, items, parts[i], xs[i], ColumnStops)
  <2> SUFFICES ASSUME NEW i \in DOMAIN xs, NEW a, NEW b, Spans(ts, a, b, parts[i]), At(ts, b) \in ColumnStops
               PROVE  items[a] = Parsed(b, xs[i])
    BY DEF ItemReads
  <2> HIDE DEF parts
  <2>1. xs[i] \in Specs /\ Spans(ts, a, b, RenderColumn(xs[i]))
    BY <1>1
  <2>2. a \in Positions(ts)
    BY SpansAt
  <2>3. ParseColumn(ts, a) = Parsed(b, xs[i])
    BY <2>1, ColumnReads
  <2> QED
    BY <2>2, <2>3
<1>5. HasComma(ColumnStops)
  BY DEF HasComma, ColumnStops
<1> HIDE DEF items, parts
<1>6. AllRead(ts, items, parts, xs, ColumnStops)
  BY <1>3, <1>4, <1>5 DEF AllRead
<1>7. Lists(ts, items, parts, xs, ColumnStops)
  BY <1>1, <1>6, PartsRead
<1>8. Spans(ts, p, q, Joined(parts))
  BY DEF ColumnedText, parts
<1>9. List(ts, p, items) = Parsed(q, xs)
  BY <1>7, <1>8, ListReads
<1> QED
  BY <1>9 DEF items

-----------------------------------------------------------------------------
(* Names that may be missing, and those that may be all.                   *)

\* Names are rendered as a text.
LEMMA NamesAreText ==
  ASSUME NEW names \in Named
  PROVE  Names1(names) \in Seq(Tokens)
<1>1. NameParts(names) \in Seq(Seq(Tokens)) /\ Len(NameParts(names)) >= 1
  BY NamePartsAre
<1> QED
  BY <1>1, JoinedIsText DEF Names1, NameParts

NamesText(option) == Opt(option, <<>>, LAMBDA names : Paren(Names1(names)))

\* Column names in parentheses, or nothing.
LEMMA OptNamesIs ==
  ASSUME NEW option \in Optional(Named)
  PROVE  /\ NamesText(option) \in Seq(Tokens)
         /\ \/ option = None /\ NamesText(option) = <<>>
            \/ \E names \in Named : option = Some(names) /\ NamesText(option) = Paren(Names1(names))
<1>1. CASE option = None
  BY <1>1, NoTokens DEF NamesText, Opt
<1>2. CASE \E names \in Named : option = Some(names)
  <2>1. PICK names \in Named : option = Some(names)
    BY <1>2
  <2> DEFINE s == Paren(Names1(names))
  <2>2. NamesText(option) = <<>> \o s
    BY <2>1, OptionIs DEF NamesText, Opt
  <2>3. s \in Seq(Tokens)
    BY NamesAreText, ParenIsText
  <2> HIDE DEF s
  <2>4. <<>> \o s = s
    BY <2>3, ConcatEmptySeq
  <2> QED
    BY <2>1, <2>2, <2>3, <2>4 DEF s
<1> QED
  BY <1>1, <1>2 DEF Optional

\* They read as the names, or as none.
LEMMA OptNamesRead ==
  ASSUME NEW option \in Optional(Named), NEW ts, NEW p, NEW q, Spans(ts, p, q, NamesText(option)),
         At(ts, q) = "VALUES"
  PROVE  OptNames(ts, p) = Parsed(q, option)
<1>1. CASE option = None /\ NamesText(option) = <<>>
  <2>1. q = p
    BY <1>1, SpansNothing
  <2>2. At(ts, p) # "("
    BY <2>1
  <2> QED
    BY <1>1, <2>1, <2>2 DEF OptNames
<1>2. CASE \E names \in Named : option = Some(names) /\ NamesText(option) = Paren(Names1(names))
  <2>1. PICK names \in Named : option = Some(names) /\ NamesText(option) = Paren(Names1(names))
    BY <1>2
  <2> DEFINE s == Names1(names)
  <2>2. s \in Seq(Tokens) /\ Spans(ts, p, q, Paren(s))
    BY <2>1, NamesAreText
  <2> HIDE DEF s
  <2>3. PICK m : At(ts, p) = "(" /\ Spans(ts, p + 1, m, s) /\ At(ts, m) = ")" /\ q = m + 1
    BY <2>2, SpansParen
  <2>4. NoComma(ts, m)
    BY <2>3 DEF NoComma
  <2>5. Spans(ts, p + 1, m, s)
    BY <2>3
  <2>6. NameList(ts, p + 1) = Parsed(m, names)
    BY <2>4, <2>5, NamesRead DEF s
  <2> DEFINE list  == NameList(ts, p + 1)
             close == Expect(ts, list.at, ")")
  <2>7. list.ok /\ list.at = m /\ list.node = names
    BY <2>6, ParsedIs
  <2>8. Expect(ts, m, ")") = Parsed(q, None)
    BY <2>3, ExpectReads
  <2>9. close.ok /\ close.at = q
    BY <2>7, <2>8, ParsedIs
  <2>10. OptNames(ts, p) = (list && close && Parsed(close.at, Some(list.node)))
    BY <2>3 DEF OptNames
  <2> HIDE DEF list, close
  <2> QED
    BY <2>1, <2>7, <2>9, <2>10, Goes
<1> QED
  BY <1>1, <1>2, OptNamesIs

Projections == Named \cup {AllColumns}

\* All columns are a star.
LEMMA AllIs == Names1(AllColumns) = <<"*">>
<1> DEFINE parts == [i \in DOMAIN AllColumns |-> <<AllColumns[i]>>]
<1>1. "*" \in Tokens
  BY WordsAre
<1>2. DOMAIN AllColumns = 1 .. 1 /\ AllColumns[1] = "*"
  BY DEF AllColumns
<1>3. parts = [i \in 1 .. 1 |-> <<"*">>]
  <2>1. \A i \in 1 .. 1 : AllColumns[i] = "*"
    BY <1>2
  <2> QED
    BY <1>2, <2>1
<1> DEFINE star == <<"*">>
<1>4. star \in Seq(Tokens)
  BY <1>1, OneIs
<1> HIDE DEF star
<1>5. parts = [i \in 1 .. 1 |-> star]
  BY <1>3 DEF star
<1> HIDE DEF parts
<1>6. parts \in [1 .. 1 -> Seq(Tokens)]
  BY <1>4, <1>5
<1>7. parts \in Seq(Seq(Tokens)) /\ Len(parts) = 1
  <2> DEFINE n == 1
  <2>1. n \in Nat /\ parts \in [1 .. n -> Seq(Tokens)]
    BY <1>6
  <2> HIDE DEF n
  <2>2. parts \in Seq(Seq(Tokens)) /\ Len(parts) = n
    BY <2>1
  <2> QED
    BY <2>2 DEF n
<1>8. PICK f : /\ Joined(parts) = f[1]
               /\ \A i \in 1 .. Len(parts) :
                    f[i] = IF i = Len(parts) THEN parts[i] ELSE parts[i] \o <<",">> \o f[i + 1]
  <2>1. Len(parts) >= 1
    BY <1>7
  <2> QED
    BY <1>7, <2>1, JoinedTexts
<1>9. Len(parts) = 1 /\ 1 \in 1 .. Len(parts)
  BY <1>7
<1>10. f[1] = parts[1]
  BY <1>8, <1>9
<1>11. parts[1] = star
  BY <1>5
<1> QED
  BY <1>8, <1>10, <1>11 DEF Names1, parts, star

\* A projection is rendered as a text.
LEMMA ProjectionIsText == \A xs \in Projections : Names1(xs) \in Seq(Tokens)
<1>1. "*" \in Tokens
  BY WordsAre
<1>2. Names1(AllColumns) \in Seq(Tokens)
  BY <1>1, AllIs, OneIs
<1> QED
  BY <1>2, NamesAreText DEF Projections

\* It reads as the projection.
LEMMA ProjectionReads ==
  ASSUME NEW xs \in Projections, NEW ts, NEW p, NEW q, Spans(ts, p, q, Names1(xs)), NoComma(ts, q)
  PROVE  Projection(ts, p) = Parsed(q, xs)
<1>1. CASE xs = AllColumns
  <2>1. "*" \in Tokens
    BY WordsAre
  <2>2. Spans(ts, p, q, <<"*">>)
    BY <1>1, AllIs
  <2>3. At(ts, p) = "*" /\ q = p + 1
    BY <2>1, <2>2, SpansToken
  <2> QED
    BY <1>1, <2>3 DEF Projection
<1>2. CASE xs \in Named
  <2>1. NameList(ts, p) = Parsed(q, xs) /\ At(ts, p) \in Names
    BY <1>2, NamesRead
  <2>2. At(ts, p) # "*"
    BY <2>1, WordsAre
  <2> QED
    BY <2>1, <2>2 DEF Projection
<1> QED
  BY <1>1, <1>2 DEF Projections

-----------------------------------------------------------------------------
(* Reading statements.                                                     *)

\* The parser of a statement is chosen by its first word.
LEMMA StatementWords ==
  \A ts, p :
    /\ At(ts, p) = "CREATE" => ParseStatement(ts, p) = ParseCreate(ts, p + 1)
    /\ At(ts, p) = "INSERT" => ParseStatement(ts, p) = ParseInsert(ts, p + 1)
    /\ At(ts, p) = "SELECT" => ParseStatement(ts, p) = ParseSelect(ts, p + 1)
    /\ At(ts, p) = "UPDATE" => ParseStatement(ts, p) = ParseUpdate(ts, p + 1)
    /\ At(ts, p) = "DELETE" => ParseStatement(ts, p) = ParseDelete(ts, p + 1)
    /\ \A word \in {"BEGIN", "COMMIT", "ROLLBACK"} :
         At(ts, p) = word => ParseStatement(ts, p) = Parsed(p + 1, Transaction(word))
BY DEF ParseStatement

\* Three tokens, each at the position after the one before it.
LEMMA SpansWords ==
  ASSUME NEW ts, NEW p, NEW q, NEW a \in Tokens, NEW b \in Tokens, NEW c \in Tokens,
         Spans(ts, p, q, <<a, b, c>>)
  PROVE  At(ts, p) = a /\ At(ts, p + 1) = b /\ At(ts, p + 1 + 1) = c /\ q = p + 1 + 1 + 1
<1>1. At(ts, p) = a /\ At(ts, p + 1) = b /\ At(ts, p + 2) = c /\ q = p + 3 /\ p \in Nat
  BY SpansThree
<1>2. p + 2 = p + 1 + 1 /\ p + 3 = p + 1 + 1 + 1
  BY <1>1
<1> QED
  BY <1>1, <1>2

\* The text of a DELETE.
LEMMA DeleteIs ==
  ASSUME NEW table \in Names, NEW filter \in Optional(Written)
  PROVE  /\ RenderStatement(Delete(table, filter)) = <<"DELETE", "FROM", table>> \o WhereText(filter)
         /\ <<"DELETE", "FROM", table>> \in Seq(Tokens)
         /\ WhereText(filter) \in Seq(Tokens)
         /\ RenderStatement(Delete(table, filter)) \in Seq(Tokens)
<1> DEFINE head == <<"DELETE", "FROM", table>>
           tail == WhereText(filter)
<1>1. head \in Seq(Tokens)
  <2>1. "DELETE" \in Tokens /\ "FROM" \in Tokens /\ table \in Tokens
    BY WordsAre
  <2> QED
    BY <2>1
<1>2. tail \in Seq(Tokens)
  BY WhereIs
<1>3. RenderStatement(Delete(table, filter)) = head \o tail
  BY DEF RenderStatement, Delete, WhereText
<1> HIDE DEF head, tail
<1>4. head \o tail \in Seq(Tokens)
  BY <1>1, <1>2, ConcatIs
<1> QED
  BY <1>1, <1>2, <1>3, <1>4 DEF head, tail

\* It reads as the DELETE.
LEMMA DeleteReads ==
  ASSUME NEW table \in Names, NEW filter \in Optional(Written),
         NEW ts, NEW p, NEW q, Spans(ts, p, q, RenderStatement(Delete(table, filter))),
         At(ts, q) \in Closings
  PROVE  ParseStatement(ts, p) = Parsed(q, Delete(table, filter)) /\ At(ts, p) \notin Closings
<1> DEFINE head == <<"DELETE", "FROM", table>>
           tail == WhereText(filter)
<1>1. head \in Seq(Tokens) /\ tail \in Seq(Tokens) /\ RenderStatement(Delete(table, filter)) = head \o tail
  BY DeleteIs
<1>2. Spans(ts, p, q, head \o tail)
  BY <1>1
<1> HIDE DEF head, tail
<1>s2. PICK m1 : Spans(ts, p, m1, head) /\ Spans(ts, m1, q, tail)
  BY <1>1, <1>2, SpansParts
<1>t. "DELETE" \in Tokens /\ "FROM" \in Tokens /\ table \in Tokens
  BY WordsAre
<1>p. At(ts, p) = "DELETE" /\ At(ts, p + 1) = "FROM" /\ At(ts, p + 1 + 1) = table /\ m1 = p + 1 + 1 + 1
  BY <1>s2, <1>t, SpansWords DEF head
<1>g. OptWhere(ts, m1) = Parsed(q, filter)
  BY <1>s2, StopsAre, WhereReads DEF tail
<1> DEFINE from == Expect(ts, p + 1, "FROM")
           it == Ident(ts, from.at)
           where == OptWhere(ts, it.at)
<1>r0. Expect(ts, p + 1, "FROM") = Parsed(p + 1 + 1, None)
  BY <1>p, ExpectReads
<1>v0. from.ok /\ from.at = p + 1 + 1
  BY <1>r0, ParsedIs
<1>r1. Ident(ts, p + 1 + 1) = Parsed(m1, table)
  BY <1>p, IdentReads
<1>v1. it.ok /\ it.at = m1 /\ it.node = table
  BY <1>r1, <1>v0, ParsedIs
<1>r2. OptWhere(ts, m1) = Parsed(q, filter)
  BY <1>g
<1>v2. where.ok /\ where.at = q /\ where.node = filter
  BY <1>r2, <1>v1, ParsedIs
<1>e. ParseDelete(ts, p + 1) = (from && it && where && Parsed(where.at, Delete(it.node, where.node)))
  BY DEF ParseDelete, Made, &&
<1> HIDE DEF from, it, where
<1>f. ParseDelete(ts, p + 1) = Parsed(q, Delete(table, filter))
  BY <1>e, <1>v0, <1>v1, <1>v2, Goes
<1>w. ParseStatement(ts, p) = ParseDelete(ts, p + 1)
  BY <1>p, StatementWords
<1> QED
  BY <1>f, <1>w, <1>p DEF Closings, End

\* The text of an UPDATE.
LEMMA UpdateIs ==
  ASSUME NEW table \in Names, NEW sets \in Seq(Assignments), NEW filter \in Optional(Written),
         sets # <<>>
  PROVE  /\ RenderStatement(Update(table, sets, filter)) = (<<"UPDATE", table, "SET">> \o AssignedText(sets)) \o WhereText(filter)
         /\ <<"UPDATE", table, "SET">> \in Seq(Tokens)
         /\ AssignedText(sets) \in Seq(Tokens)
         /\ WhereText(filter) \in Seq(Tokens)
         /\ RenderStatement(Update(table, sets, filter)) \in Seq(Tokens)
<1> DEFINE head == <<"UPDATE", table, "SET">>
           list == AssignedText(sets)
           tail == WhereText(filter)
<1>1. head \in Seq(Tokens)
  <2>1. "UPDATE" \in Tokens /\ "SET" \in Tokens /\ table \in Tokens
    BY WordsAre
  <2> QED
    BY <2>1
<1>2. list \in Seq(Tokens)
  BY AssignedAre
<1>3. tail \in Seq(Tokens)
  BY WhereIs
<1>4. RenderStatement(Update(table, sets, filter)) = (head \o list) \o tail
  BY DEF RenderStatement, Update, AssignedText, AssignedParts, WhereText
<1> HIDE DEF head, list, tail
<1>5. head \o list \in Seq(Tokens)
  BY <1>1, <1>2, <1>3, ConcatIs
<1>6. (head \o list) \o tail \in Seq(Tokens)
  BY <1>1, <1>2, <1>3, <1>5, ConcatIs
<1> QED
  BY <1>1, <1>2, <1>3, <1>4, <1>6 DEF head, list, tail

\* It reads as the UPDATE.
LEMMA UpdateReads ==
  ASSUME NEW table \in Names, NEW sets \in Seq(Assignments), NEW filter \in Optional(Written),
         sets # <<>>,
         NEW ts, NEW p, NEW q, Spans(ts, p, q, RenderStatement(Update(table, sets, filter))),
         At(ts, q) \in Closings
  PROVE  ParseStatement(ts, p) = Parsed(q, Update(table, sets, filter)) /\ At(ts, p) \notin Closings
<1> DEFINE head == <<"UPDATE", table, "SET">>
           list == AssignedText(sets)
           tail == WhereText(filter)
<1>1. head \in Seq(Tokens) /\ list \in Seq(Tokens) /\ tail \in Seq(Tokens) /\ RenderStatement(Update(table, sets, filter)) = (head \o list) \o tail
  BY UpdateIs
<1>2. Spans(ts, p, q, (head \o list) \o tail)
  BY <1>1
<1> HIDE DEF head, list, tail
<1>c2. head \o list \in Seq(Tokens)
  BY <1>1, ConcatIs
<1>s3. PICK m2 : Spans(ts, p, m2, head \o list) /\ Spans(ts, m2, q, tail)
  BY <1>1, <1>2, <1>c2, SpansParts
<1>s2. PICK m1 : Spans(ts, p, m1, head) /\ Spans(ts, m1, m2, list)
  BY <1>1, <1>s3, SpansParts
<1>t. "UPDATE" \in Tokens /\ "SET" \in Tokens /\ table \in Tokens
  BY WordsAre
<1>p. At(ts, p) = "UPDATE" /\ At(ts, p + 1) = table /\ At(ts, p + 1 + 1) = "SET" /\ m1 = p + 1 + 1 + 1
  BY <1>s2, <1>t, SpansWords DEF head
<1>g. /\ OptWhere(ts, m2) = Parsed(q, filter)
      /\ At(ts, m2) \in ExprStops /\ NoComma(ts, m2)
  BY <1>s3, StopsAre, WhereReads, WhereBegins DEF tail
<1>h. EndsList(ts, m2, ExprStops)
  BY <1>g DEF EndsList, NoComma
<1>i. List(ts, m1, [i \in Positions(ts) |-> ParseAssignment(ts, i)]) = Parsed(m2, sets)
  BY <1>s2, <1>h, AssignedRead DEF list
<1> DEFINE it == Ident(ts, p + 1)
           set == Expect(ts, it.at, "SET")
           all == List(ts, set.at, [i \in Positions(ts) |-> ParseAssignment(ts, i)])
           where == OptWhere(ts, all.at)
<1>r0. Ident(ts, p + 1) = Parsed(p + 1 + 1, table)
  BY <1>p, IdentReads
<1>v0. it.ok /\ it.at = p + 1 + 1 /\ it.node = table
  BY <1>r0, ParsedIs
<1>r1. Expect(ts, p + 1 + 1, "SET") = Parsed(m1, None)
  BY <1>p, ExpectReads
<1>v1. set.ok /\ set.at = m1
  BY <1>r1, <1>v0, ParsedIs
<1>r2. List(ts, m1, [i \in Positions(ts) |-> ParseAssignment(ts, i)]) = Parsed(m2, sets)
  BY <1>i
<1>v2. all.ok /\ all.at = m2 /\ all.node = sets
  BY <1>r2, <1>v1, ParsedIs
<1>r3. OptWhere(ts, m2) = Parsed(q, filter)
  BY <1>g
<1>v3. where.ok /\ where.at = q /\ where.node = filter
  BY <1>r3, <1>v2, ParsedIs
<1>e. ParseUpdate(ts, p + 1) = (it && set && all && where && Parsed(where.at, Update(it.node, all.node, where.node)))
  BY DEF ParseUpdate, UpdateAfter, Made, &&
<1> HIDE DEF it, set, all, where
<1>f. ParseUpdate(ts, p + 1) = Parsed(q, Update(table, sets, filter))
  BY <1>e, <1>v0, <1>v1, <1>v2, <1>v3, Goes
<1>w. ParseStatement(ts, p) = ParseUpdate(ts, p + 1)
  BY <1>p, StatementWords
<1> QED
  BY <1>f, <1>w, <1>p DEF Closings, End

\* The text of an INSERT.
LEMMA InsertIs ==
  ASSUME NEW table \in Names, NEW names \in Optional(Named), NEW rows \in Seq(TextRows), rows # <<>>
  PROVE  /\ RenderStatement(Insert(table, names, rows)) = ((<<"INSERT", "INTO", table>> \o NamesText(names)) \o <<"VALUES">>) \o RowsText(rows)
         /\ <<"INSERT", "INTO", table>> \in Seq(Tokens)
         /\ NamesText(names) \in Seq(Tokens)
         /\ <<"VALUES">> \in Seq(Tokens)
         /\ RowsText(rows) \in Seq(Tokens)
         /\ RenderStatement(Insert(table, names, rows)) \in Seq(Tokens)
<1> DEFINE head == <<"INSERT", "INTO", table>>
           some == NamesText(names)
           word == <<"VALUES">>
           list == RowsText(rows)
<1>1. head \in Seq(Tokens)
  <2>1. "INSERT" \in Tokens /\ "INTO" \in Tokens /\ table \in Tokens
    BY WordsAre
  <2> QED
    BY <2>1
<1>2. some \in Seq(Tokens)
  BY OptNamesIs
<1>3. word \in Seq(Tokens)
  BY WordsAre, OneIs
<1>4. list \in Seq(Tokens)
  BY RowsAre
<1>5. RenderStatement(Insert(table, names, rows)) = ((head \o some) \o word) \o list
  BY DEF RenderStatement, Insert, NamesText, RowsText, RowsParts
<1> HIDE DEF head, some, word, list
<1>6. head \o some \in Seq(Tokens)
  BY <1>1, <1>2, <1>3, <1>4, ConcatIs
<1>7. (head \o some) \o word \in Seq(Tokens)
  BY <1>1, <1>2, <1>3, <1>4, <1>6, ConcatIs
<1>8. ((head \o some) \o word) \o list \in Seq(Tokens)
  BY <1>1, <1>2, <1>3, <1>4, <1>7, ConcatIs
<1> QED
  BY <1>1, <1>2, <1>3, <1>4, <1>5, <1>8 DEF head, some, word, list

\* It reads as the INSERT.
LEMMA InsertReads ==
  ASSUME NEW table \in Names, NEW names \in Optional(Named), NEW rows \in Seq(TextRows), rows # <<>>,
         NEW ts, NEW p, NEW q, Spans(ts, p, q, RenderStatement(Insert(table, names, rows))),
         At(ts, q) \in Closings
  PROVE  ParseStatement(ts, p) = Parsed(q, Insert(table, names, rows)) /\ At(ts, p) \notin Closings
<1> DEFINE head == <<"INSERT", "INTO", table>>
           some == NamesText(names)
           word == <<"VALUES">>
           list == RowsText(rows)
<1>1. head \in Seq(Tokens) /\ some \in Seq(Tokens) /\ word \in Seq(Tokens) /\ list \in Seq(Tokens) /\ RenderStatement(Insert(table, names, rows)) = ((head \o some) \o word) \o list
  BY InsertIs
<1>2. Spans(ts, p, q, ((head \o some) \o word) \o list)
  BY <1>1
<1> HIDE DEF head, some, word, list
<1>c2. head \o some \in Seq(Tokens)
  BY <1>1, ConcatIs
<1>c3. (head \o some) \o word \in Seq(Tokens)
  BY <1>1, <1>c2, ConcatIs
<1>s4. PICK m3 : Spans(ts, p, m3, (head \o some) \o word) /\ Spans(ts, m3, q, list)
  BY <1>1, <1>2, <1>c3, SpansParts
<1>s3. PICK m2 : Spans(ts, p, m2, head \o some) /\ Spans(ts, m2, m3, word)
  BY <1>1, <1>s4, <1>c2, SpansParts
<1>s2. PICK m1 : Spans(ts, p, m1, head) /\ Spans(ts, m1, m2, some)
  BY <1>1, <1>s3, SpansParts
<1>t. "INSERT" \in Tokens /\ "INTO" \in Tokens /\ table \in Tokens /\ "VALUES" \in Tokens
  BY WordsAre
<1>p. At(ts, p) = "INSERT" /\ At(ts, p + 1) = "INTO" /\ At(ts, p + 1 + 1) = table /\ m1 = p + 1 + 1 + 1
  BY <1>s2, <1>t, SpansWords DEF head
<1>g. At(ts, m2) = "VALUES" /\ m3 = m2 + 1
  BY <1>s3, <1>t, SpansToken DEF word
<1>h. OptNames(ts, m1) = Parsed(m2, names)
  BY <1>s2, <1>g, OptNamesRead DEF some
<1>i. EndsList(ts, q, RowStops)
  BY DEF EndsList, RowStops, Closings, End
<1>j. List(ts, m3, [i \in Positions(ts) |-> ParseRow(ts, i)]) = Parsed(q, rows)
  BY <1>s4, <1>i, RowsRead DEF list
<1> DEFINE into == Expect(ts, p + 1, "INTO")
           it == Ident(ts, into.at)
           columns == OptNames(ts, it.at)
           values == Expect(ts, columns.at, "VALUES")
           all == List(ts, values.at, [i \in Positions(ts) |-> ParseRow(ts, i)])
<1>r0. Expect(ts, p + 1, "INTO") = Parsed(p + 1 + 1, None)
  BY <1>p, ExpectReads
<1>v0. into.ok /\ into.at = p + 1 + 1
  BY <1>r0, ParsedIs
<1>r1. Ident(ts, p + 1 + 1) = Parsed(m1, table)
  BY <1>p, IdentReads
<1>v1. it.ok /\ it.at = m1 /\ it.node = table
  BY <1>r1, <1>v0, ParsedIs
<1>r2. OptNames(ts, m1) = Parsed(m2, names)
  BY <1>h
<1>v2. columns.ok /\ columns.at = m2 /\ columns.node = names
  BY <1>r2, <1>v1, ParsedIs
<1>r3. Expect(ts, m2, "VALUES") = Parsed(m3, None)
  BY <1>g, ExpectReads
<1>v3. values.ok /\ values.at = m3
  BY <1>r3, <1>v2, ParsedIs
<1>r4. List(ts, m3, [i \in Positions(ts) |-> ParseRow(ts, i)]) = Parsed(q, rows)
  BY <1>j
<1>v4. all.ok /\ all.at = q /\ all.node = rows
  BY <1>r4, <1>v3, ParsedIs
<1>e. ParseInsert(ts, p + 1) = (into && it && columns && values && all && Parsed(all.at, Insert(it.node, columns.node, all.node)))
  BY DEF ParseInsert, Made, &&
<1> HIDE DEF into, it, columns, values, all
<1>f. ParseInsert(ts, p + 1) = Parsed(q, Insert(table, names, rows))
  BY <1>e, <1>v0, <1>v1, <1>v2, <1>v3, <1>v4, Goes
<1>w. ParseStatement(ts, p) = ParseInsert(ts, p + 1)
  BY <1>p, StatementWords
<1> QED
  BY <1>f, <1>w, <1>p DEF Closings, End

\* The text of a SELECT.
LEMMA SelectIs ==
  ASSUME NEW projection \in Projections, NEW table \in Names, NEW filter \in Optional(Written),
         NEW order \in Optional(Orders), NEW limit \in Optional(Numerals)
  PROVE  /\ RenderStatement(Select(projection, table, filter, order, limit)) = ((((<<"SELECT">> \o Names1(projection)) \o <<"FROM", table>>) \o WhereText(filter)) \o OrderText(order)) \o LimitText(limit)
         /\ <<"SELECT">> \in Seq(Tokens)
         /\ Names1(projection) \in Seq(Tokens)
         /\ <<"FROM", table>> \in Seq(Tokens)
         /\ WhereText(filter) \in Seq(Tokens)
         /\ OrderText(order) \in Seq(Tokens)
         /\ LimitText(limit) \in Seq(Tokens)
         /\ RenderStatement(Select(projection, table, filter, order, limit)) \in Seq(Tokens)
<1> DEFINE head == <<"SELECT">>
           which == Names1(projection)
           from == <<"FROM", table>>
           some == WhereText(filter)
           by == OrderText(order)
           tail == LimitText(limit)
<1>1. head \in Seq(Tokens)
  BY WordsAre, OneIs
<1>2. which \in Seq(Tokens)
  BY ProjectionIsText
<1>3. from \in Seq(Tokens)
  <2>1. "FROM" \in Tokens /\ table \in Tokens
    BY WordsAre
  <2> QED
    BY <2>1
<1>4. some \in Seq(Tokens)
  BY WhereIs
<1>5. by \in Seq(Tokens)
  BY OrderIs
<1>6. tail \in Seq(Tokens)
  BY LimitIs
<1>7. RenderStatement(Select(projection, table, filter, order, limit)) = ((((head \o which) \o from) \o some) \o by) \o tail
  BY DEF RenderStatement, Select, WhereText, OrderText, LimitText
<1> HIDE DEF head, which, from, some, by, tail
<1>8. head \o which \in Seq(Tokens)
  BY <1>1, <1>2, <1>3, <1>4, <1>5, <1>6, ConcatIs
<1>9. (head \o which) \o from \in Seq(Tokens)
  BY <1>1, <1>2, <1>3, <1>4, <1>5, <1>6, <1>8, ConcatIs
<1>10. ((head \o which) \o from) \o some \in Seq(Tokens)
  BY <1>1, <1>2, <1>3, <1>4, <1>5, <1>6, <1>9, ConcatIs
<1>11. (((head \o which) \o from) \o some) \o by \in Seq(Tokens)
  BY <1>1, <1>2, <1>3, <1>4, <1>5, <1>6, <1>10, ConcatIs
<1>12. ((((head \o which) \o from) \o some) \o by) \o tail \in Seq(Tokens)
  BY <1>1, <1>2, <1>3, <1>4, <1>5, <1>6, <1>11, ConcatIs
<1> QED
  BY <1>1, <1>2, <1>3, <1>4, <1>5, <1>6, <1>7, <1>12 DEF head, which, from, some, by, tail

\* It reads as the SELECT.
LEMMA SelectReads ==
  ASSUME NEW projection \in Projections, NEW table \in Names, NEW filter \in Optional(Written),
         NEW order \in Optional(Orders), NEW limit \in Optional(Numerals),
         NEW ts, NEW p, NEW q, Spans(ts, p, q, RenderStatement(Select(projection, table, filter, order, limit))), At(ts, q) \in Closings
  PROVE  ParseStatement(ts, p) = Parsed(q, Select(projection, table, filter, order, limit)) /\ At(ts, p) \notin Closings
<1> DEFINE head == <<"SELECT">>
           which == Names1(projection)
           from == <<"FROM", table>>
           some == WhereText(filter)
           by == OrderText(order)
           tail == LimitText(limit)
<1>1. head \in Seq(Tokens) /\ which \in Seq(Tokens) /\ from \in Seq(Tokens) /\ some \in Seq(Tokens) /\ by \in Seq(Tokens) /\ tail \in Seq(Tokens) /\ RenderStatement(Select(projection, table, filter, order, limit)) = ((((head \o which) \o from) \o some) \o by) \o tail
  BY SelectIs
<1>2. Spans(ts, p, q, ((((head \o which) \o from) \o some) \o by) \o tail)
  BY <1>1
<1> HIDE DEF head, which, from, some, by, tail
<1>c2. head \o which \in Seq(Tokens)
  BY <1>1, ConcatIs
<1>c3. (head \o which) \o from \in Seq(Tokens)
  BY <1>1, <1>c2, ConcatIs
<1>c4. ((head \o which) \o from) \o some \in Seq(Tokens)
  BY <1>1, <1>c3, ConcatIs
<1>c5. (((head \o which) \o from) \o some) \o by \in Seq(Tokens)
  BY <1>1, <1>c4, ConcatIs
<1>s6. PICK m5 : Spans(ts, p, m5, (((head \o which) \o from) \o some) \o by) /\ Spans(ts, m5, q, tail)
  BY <1>1, <1>2, <1>c5, SpansParts
<1>s5. PICK m4 : Spans(ts, p, m4, ((head \o which) \o from) \o some) /\ Spans(ts, m4, m5, by)
  BY <1>1, <1>s6, <1>c4, SpansParts
<1>s4. PICK m3 : Spans(ts, p, m3, (head \o which) \o from) /\ Spans(ts, m3, m4, some)
  BY <1>1, <1>s5, <1>c3, SpansParts
<1>s3. PICK m2 : Spans(ts, p, m2, head \o which) /\ Spans(ts, m2, m3, from)
  BY <1>1, <1>s4, <1>c2, SpansParts
<1>s2. PICK m1 : Spans(ts, p, m1, head) /\ Spans(ts, m1, m2, which)
  BY <1>1, <1>s3, SpansParts
<1>t. "SELECT" \in Tokens /\ "FROM" \in Tokens /\ table \in Tokens
  BY WordsAre
<1>p. At(ts, p) = "SELECT" /\ m1 = p + 1
  BY <1>s2, <1>t, SpansToken DEF head
<1>g. At(ts, m2) = "FROM" /\ At(ts, m2 + 1) = table /\ m3 = m2 + 2 /\ m2 \in Nat
  BY <1>s3, <1>t, SpansTwo DEF from
<1>h. m3 = m2 + 1 + 1
  BY <1>g
<1>i. OptLimit(ts, m5) = Parsed(q, limit) /\ At(ts, m5) \in LimitStops
  BY <1>s6, LimitReads DEF tail
<1>j. OptOrder(ts, m4) = Parsed(m5, order) /\ At(ts, m4) \in WhereStops
  BY <1>s5, <1>i, OrderReads DEF by
<1>k. OptWhere(ts, m3) = Parsed(m4, filter)
  BY <1>s4, <1>j, WhereReads DEF some
<1>l. NoComma(ts, m2)
  BY <1>g DEF NoComma
<1>m. Projection(ts, p + 1) = Parsed(m2, projection)
  BY <1>s2, <1>p, <1>l, ProjectionReads DEF which
<1> DEFINE columns == Projection(ts, p + 1)
           word == Expect(ts, columns.at, "FROM")
           it == Ident(ts, word.at)
           where == OptWhere(ts, it.at)
           sorted == OptOrder(ts, where.at)
           most == OptLimit(ts, sorted.at)
<1>r0. Projection(ts, p + 1) = Parsed(m2, projection)
  BY <1>m
<1>v0. columns.ok /\ columns.at = m2 /\ columns.node = projection
  BY <1>r0, ParsedIs
<1>r1. Expect(ts, m2, "FROM") = Parsed(m2 + 1, None)
  BY <1>g, ExpectReads
<1>v1. word.ok /\ word.at = m2 + 1
  BY <1>r1, <1>v0, ParsedIs
<1>r2. Ident(ts, m2 + 1) = Parsed(m3, table)
  BY <1>g, <1>h, IdentReads
<1>v2. it.ok /\ it.at = m3 /\ it.node = table
  BY <1>r2, <1>v1, ParsedIs
<1>r3. OptWhere(ts, m3) = Parsed(m4, filter)
  BY <1>k
<1>v3. where.ok /\ where.at = m4 /\ where.node = filter
  BY <1>r3, <1>v2, ParsedIs
<1>r4. OptOrder(ts, m4) = Parsed(m5, order)
  BY <1>j
<1>v4. sorted.ok /\ sorted.at = m5 /\ sorted.node = order
  BY <1>r4, <1>v3, ParsedIs
<1>r5. OptLimit(ts, m5) = Parsed(q, limit)
  BY <1>i
<1>v5. most.ok /\ most.at = q /\ most.node = limit
  <2>1. most = OptLimit(ts, sorted.at)
    OBVIOUS
  <2> HIDE DEF columns, word, it, where, sorted, most
  <2>2. most = Parsed(q, limit)
    BY <1>r5, <1>v4, <2>1
  <2> QED
    BY <2>2, ParsedIs
<1>e. ParseSelect(ts, p + 1) = (columns && word && it && where && sorted && most && Parsed(most.at, Select(columns.node, it.node, where.node, sorted.node, most.node)))
  BY DEF ParseSelect, SelectAfter, &&
<1> HIDE DEF columns, word, it, where, sorted, most
<1>f. ParseSelect(ts, p + 1) = Parsed(q, Select(projection, table, filter, order, limit))
  BY <1>e, <1>v0, <1>v1, <1>v2, <1>v3, <1>v4, <1>v5, Goes
<1>w. ParseStatement(ts, p) = ParseSelect(ts, p + 1)
  BY <1>p, StatementWords
<1> QED
  BY <1>f, <1>w, <1>p DEF Closings, End

\* The text of a CREATE TABLE.
LEMMA CreateIs ==
  ASSUME NEW name \in Names, NEW columns \in Seq(Specs), columns # <<>>
  PROVE  /\ RenderStatement(CreateTable(name, columns)) = <<"CREATE", "TABLE", name>> \o Paren(ColumnedText(columns))
         /\ <<"CREATE", "TABLE", name>> \in Seq(Tokens)
         /\ Paren(ColumnedText(columns)) \in Seq(Tokens)
         /\ RenderStatement(CreateTable(name, columns)) \in Seq(Tokens)
<1> DEFINE head == <<"CREATE", "TABLE", name>>
           tail == Paren(ColumnedText(columns))
<1>1. head \in Seq(Tokens)
  <2>1. "CREATE" \in Tokens /\ "TABLE" \in Tokens /\ name \in Tokens
    BY WordsAre
  <2> QED
    BY <2>1
<1>2. tail \in Seq(Tokens)
  BY ColumnedAre, ParenIsText
<1>3. RenderStatement(CreateTable(name, columns)) = head \o tail
  BY DEF RenderStatement, CreateTable, ColumnedText, ColumnedParts
<1> HIDE DEF head, tail
<1>4. head \o tail \in Seq(Tokens)
  BY <1>1, <1>2, ConcatIs
<1> QED
  BY <1>1, <1>2, <1>3, <1>4 DEF head, tail

\* It reads as the CREATE TABLE.
LEMMA CreateReads ==
  ASSUME NEW name \in Names, NEW columns \in Seq(Specs), columns # <<>>,
         NEW ts, NEW p, NEW q, Spans(ts, p, q, RenderStatement(CreateTable(name, columns))),
         At(ts, q) \in Closings
  PROVE  ParseStatement(ts, p) = Parsed(q, CreateTable(name, columns)) /\ At(ts, p) \notin Closings
<1> DEFINE head == <<"CREATE", "TABLE", name>>
           tail == Paren(ColumnedText(columns))
<1>1. head \in Seq(Tokens) /\ tail \in Seq(Tokens) /\ RenderStatement(CreateTable(name, columns)) = head \o tail
  BY CreateIs
<1>2. Spans(ts, p, q, head \o tail)
  BY <1>1
<1> HIDE DEF head, tail
<1>s2. PICK m1 : Spans(ts, p, m1, head) /\ Spans(ts, m1, q, tail)
  BY <1>1, <1>2, SpansParts
<1>t. "CREATE" \in Tokens /\ "TABLE" \in Tokens /\ name \in Tokens /\ ColumnedText(columns) \in Seq(Tokens)
  BY WordsAre, ColumnedAre
<1>p. At(ts, p) = "CREATE" /\ At(ts, p + 1) = "TABLE" /\ At(ts, p + 1 + 1) = name /\ m1 = p + 1 + 1 + 1
  BY <1>s2, <1>t, SpansWords DEF head
<1>g. PICK m2 : At(ts, m1) = "(" /\ Spans(ts, m1 + 1, m2, ColumnedText(columns)) /\ At(ts, m2) = ")" /\ q = m2 + 1
  BY <1>s2, <1>t, SpansParen DEF tail
<1>h. EndsList(ts, m2, ColumnStops)
  BY <1>g DEF EndsList, ColumnStops
<1>i. Spans(ts, m1 + 1, m2, ColumnedText(columns))
  BY <1>g
<1>j. List(ts, m1 + 1, [i \in Positions(ts) |-> ParseColumn(ts, i)]) = Parsed(m2, columns)
  BY <1>h, <1>i, ColumnedRead
<1> DEFINE table == Expect(ts, p + 1, "TABLE")
           it == Ident(ts, table.at)
           open == Expect(ts, it.at, "(")
           all == List(ts, open.at, [i \in Positions(ts) |-> ParseColumn(ts, i)])
           close == Expect(ts, all.at, ")")
<1>r0. Expect(ts, p + 1, "TABLE") = Parsed(p + 1 + 1, None)
  BY <1>p, ExpectReads
<1>v0. table.ok /\ table.at = p + 1 + 1
  BY <1>r0, ParsedIs
<1>r1. Ident(ts, p + 1 + 1) = Parsed(m1, name)
  BY <1>p, IdentReads
<1>v1. it.ok /\ it.at = m1 /\ it.node = name
  BY <1>r1, <1>v0, ParsedIs
<1>r2. Expect(ts, m1, "(") = Parsed(m1 + 1, None)
  BY <1>g, ExpectReads
<1>v2. open.ok /\ open.at = m1 + 1
  BY <1>r2, <1>v1, ParsedIs
<1>r3. List(ts, m1 + 1, [i \in Positions(ts) |-> ParseColumn(ts, i)]) = Parsed(m2, columns)
  BY <1>j
<1>v3. all.ok /\ all.at = m2 /\ all.node = columns
  BY <1>r3, <1>v2, ParsedIs
<1>r4. Expect(ts, m2, ")") = Parsed(q, None)
  BY <1>g, ExpectReads
<1>v4. close.ok /\ close.at = q
  BY <1>r4, <1>v3, ParsedIs
<1>e. ParseCreate(ts, p + 1) = (table && it && open && all && close && Parsed(close.at, CreateTable(it.node, all.node)))
  BY DEF ParseCreate
<1> HIDE DEF table, it, open, all, close
<1>f. ParseCreate(ts, p + 1) = Parsed(q, CreateTable(name, columns))
  BY <1>e, <1>v0, <1>v1, <1>v2, <1>v3, <1>v4, Goes
<1>w. ParseStatement(ts, p) = ParseCreate(ts, p + 1)
  BY <1>p, StatementWords
<1> QED
  BY <1>f, <1>w, <1>p DEF Closings, End

-----------------------------------------------------------------------------
(* Every statement that can be written.                                    *)

Some1(S) == Seq(S) \ {<<>>}

Statements ==
  {CreateTable(name, columns) : name \in Names, columns \in Some1(Specs)}
   \cup {Insert(table, names, rows) : table \in Names, names \in Optional(Named), rows \in Some1(TextRows)}
   \cup {Select(projection, table, filter, order, limit) :
           projection \in Projections, table \in Names, filter \in Optional(Written),
           order \in Optional(Orders), limit \in Optional(Numerals)}
   \cup {Update(table, sets, filter) :
           table \in Names, sets \in Some1(Assignments), filter \in Optional(Written)}
   \cup {Delete(table, filter) : table \in Names, filter \in Optional(Written)}
   \cup {Transaction(word) : word \in {"BEGIN", "COMMIT", "ROLLBACK"}}

\* The text of BEGIN, COMMIT and ROLLBACK is the word.
LEMMA TransactionIs ==
  ASSUME NEW word \in {"BEGIN", "COMMIT", "ROLLBACK"}
  PROVE  RenderStatement(Transaction(word)) = <<word>> /\ word \in Tokens
BY WordsAre DEF RenderStatement, Transaction

\* It reads as the statement.
LEMMA TransactionReads ==
  ASSUME NEW word \in {"BEGIN", "COMMIT", "ROLLBACK"}, NEW ts, NEW p, At(ts, p) = word
  PROVE  ParseStatement(ts, p) = Parsed(p + 1, Transaction(word)) /\ At(ts, p) \notin Closings
BY StatementWords DEF Closings, End

\* A statement is rendered as a text.
LEMMA StatementIsText == \A s \in Statements : RenderStatement(s) \in Seq(Tokens)
<1> SUFFICES ASSUME NEW s \in Statements PROVE RenderStatement(s) \in Seq(Tokens)
  OBVIOUS
<1>1. CASE \E name \in Names, columns \in Some1(Specs) : s = CreateTable(name, columns)
  BY <1>1, CreateIs DEF Some1
<1>2. CASE \E table \in Names, names \in Optional(Named), rows \in Some1(TextRows) : s = Insert(table, names, rows)
  BY <1>2, InsertIs DEF Some1
<1>3. CASE \E projection \in Projections, table \in Names, filter \in Optional(Written),
              order \in Optional(Orders), limit \in Optional(Numerals) :
             s = Select(projection, table, filter, order, limit)
  BY <1>3, SelectIs
<1>4. CASE \E table \in Names, sets \in Some1(Assignments), filter \in Optional(Written) :
             s = Update(table, sets, filter)
  BY <1>4, UpdateIs DEF Some1
<1>5. CASE \E table \in Names, filter \in Optional(Written) : s = Delete(table, filter)
  BY <1>5, DeleteIs
<1>6. CASE \E word \in {"BEGIN", "COMMIT", "ROLLBACK"} : s = Transaction(word)
  BY <1>6, TransactionIs, OneIs
<1> QED
  BY <1>1, <1>2, <1>3, <1>4, <1>5, <1>6 DEF Statements

\* The text of a statement reads as the statement, if what closes one follows.
LEMMA StatementReads ==
  ASSUME NEW s \in Statements, NEW ts, NEW p, NEW q, Spans(ts, p, q, RenderStatement(s)),
         At(ts, q) \in Closings
  PROVE  ParseStatement(ts, p) = Parsed(q, s) /\ At(ts, p) \notin Closings
<1>1. CASE \E name \in Names, columns \in Some1(Specs) : s = CreateTable(name, columns)
  BY <1>1, CreateReads DEF Some1
<1>2. CASE \E table \in Names, names \in Optional(Named), rows \in Some1(TextRows) : s = Insert(table, names, rows)
  BY <1>2, InsertReads DEF Some1
<1>3. CASE \E projection \in Projections, table \in Names, filter \in Optional(Written),
              order \in Optional(Orders), limit \in Optional(Numerals) :
             s = Select(projection, table, filter, order, limit)
  BY <1>3, SelectReads
<1>4. CASE \E table \in Names, sets \in Some1(Assignments), filter \in Optional(Written) :
             s = Update(table, sets, filter)
  BY <1>4, UpdateReads DEF Some1
<1>5. CASE \E table \in Names, filter \in Optional(Written) : s = Delete(table, filter)
  BY <1>5, DeleteReads
<1>6. CASE \E word \in {"BEGIN", "COMMIT", "ROLLBACK"} : s = Transaction(word)
  <2>1. PICK word \in {"BEGIN", "COMMIT", "ROLLBACK"} : s = Transaction(word)
    BY <1>6
  <2>2. word \in Tokens /\ Spans(ts, p, q, <<word>>)
    BY <2>1, TransactionIs
  <2>3. At(ts, p) = word /\ q = p + 1
    BY <2>2, SpansToken
  <2> QED
    BY <2>1, <2>3, TransactionReads
<1> QED
  BY <1>1, <1>2, <1>3, <1>4, <1>5, <1>6 DEF Statements

-----------------------------------------------------------------------------
(* Scripts.                                                                *)

IsScript(ts, f) == ParseScript(ts) = f[1] /\ \A q \in Positions(ts) : f[q] = ScriptTurn(ts, q, f)

\* A spare semicolon, the end, and a statement with what comes after it.
LEMMA ScriptSkips ==
  ASSUME NEW ts, NEW f, IsScript(ts, f), NEW p \in Positions(ts), At(ts, p) = ";"
  PROVE  f[p] = f[p + 1]
BY DEF IsScript, ScriptTurn

\* The end of the text ends the script.
LEMMA ScriptEnds ==
  ASSUME NEW ts, NEW f, IsScript(ts, f), NEW p \in Positions(ts), At(ts, p) = End
  PROVE  f[p] = Parsed(p, <<>>)
BY DEF IsScript, ScriptTurn, End

Takes(ts, p, q, s) ==
  ParseStatement(ts, p) = Parsed(q, s) /\ At(ts, p) \notin Closings /\ At(ts, q) \in Closings

\* A statement comes before what the rest of the script has.
LEMMA ScriptTakes ==
  ASSUME NEW ts, NEW f, IsScript(ts, f), NEW p \in Positions(ts), NEW q, NEW s, NEW e, NEW rest,
         Takes(ts, p, q, s), f[q] = Parsed(e, rest)
  PROVE  f[p] = Parsed(e, <<s>> \o rest)
<1> DEFINE r == ParseStatement(ts, p)
           t == f[q]
<1>1. r.ok /\ r.at = q /\ r.node = s
  BY ParsedIs DEF Takes
<1>2. t.ok /\ t.at = e /\ t.node = rest
  BY ParsedIs
<1>3. f[p] = (r && IF At(ts, r.at) \in Closings THEN Before(r.node, f[r.at]) ELSE Failed(r.at))
  BY DEF IsScript, ScriptTurn, Closings, Takes
<1> HIDE DEF r
<1>4. f[p] = Before(s, t)
  BY <1>1, <1>3, Goes DEF Takes
<1> HIDE DEF t
<1>5. Before(s, t) = Parsed(e, <<s>> \o rest)
  BY <1>2, Goes DEF Before
<1> QED
  BY <1>4, <1>5

\* Small sequences.
LEMMA OneMore == \A x : <<x>> \o <<>> = <<x>>
<1> TAKE x
<1>1. <<x>> \in Seq({x})
  OBVIOUS
<1> QED
  BY <1>1, ConcatEmptySeq

\* A statement alone.
LEMMA ParsesBack ==
  ASSUME NEW s \in Statements
  PROVE  LET ts == RenderStatement(s) IN Parse(ts) = Parsed(Len(ts) + 1, s)
<1> DEFINE ts == RenderStatement(s)
           e  == Len(ts) + 1
<1>1. ts \in Seq(Tokens)
  BY StatementIsText
<1>2. Spans(ts, 1, e, ts) /\ At(ts, e) = End
  BY <1>1, SpansItself
<1>3. At(ts, e) \in Closings
  BY <1>2 DEF Closings
<1>4. ParseStatement(ts, 1) = Parsed(e, s) /\ At(ts, 1) \notin Closings
  BY <1>2, <1>3, StatementReads
<1>5. Len(ts) \in Nat /\ 1 \in Positions(ts) /\ e \in Positions(ts)
  BY <1>2, SpansAt
<1>6. PICK f : IsScript(ts, f)
  BY <1>5, ScriptIs DEF IsScript
<1>7. f[e] = Parsed(e, <<>>)
  BY <1>2, <1>5, <1>6, ScriptEnds
<1>8. f[1] = Parsed(e, <<s>> \o <<>>)
  <2>1. Takes(ts, 1, e, s)
    BY <1>3, <1>4 DEF Takes
  <2> DEFINE one  == 1
             none == <<>>
  <2>2. Takes(ts, one, e, s) /\ one \in Positions(ts) /\ f[e] = Parsed(e, none)
    BY <1>5, <1>7, <2>1
  <2> HIDE DEF ts, e, one, none
  <2>3. f[one] = Parsed(e, <<s>> \o none)
    BY <1>6, <2>2, ScriptTakes
  <2> QED
    BY <2>3 DEF one, none
<1>9. ParseScript(ts) = Parsed(e, <<s>>)
  BY <1>6, <1>8, OneMore DEF IsScript
<1> DEFINE r == ParseScript(ts)
<1>10. r.ok /\ r.at = e /\ r.node = <<s>>
  BY <1>9, ParsedIs
<1>11. Parse(ts) = (r && CASE Len(r.node) = 1 -> Parsed(r.at, r.node[1])
                           [] Len(r.node) = 0 -> Failed(Len(ts) + 1)
                           [] OTHER           -> Failed(1))
  BY DEF Parse, Single
<1>12. Len(<<s>>) = 1 /\ <<s>>[1] = s
  OBVIOUS
<1> HIDE DEF r, e, ts
<1>13. Parse(ts) = Parsed(e, s)
  BY <1>10, <1>11, <1>12, Goes
<1> QED
  BY <1>13 DEF ts, e

\* Two elements.
LEMMA TwoOf ==
  ASSUME NEW a, NEW b PROVE <<a>> \o <<b>> = <<a, b>>
<1> DEFINE S == {a, b}
           s == <<a>>
           t == <<b>>
           u == <<a, b>>
           v == s \o t
<1>1. s \in Seq(S) /\ t \in Seq(S) /\ u \in Seq(S)
  OBVIOUS
<1>2. Len(s) = 1 /\ s[1] = a /\ Len(t) = 1 /\ t[1] = b /\ Len(u) = 2 /\ u[1] = a /\ u[2] = b
  OBVIOUS
<1> HIDE DEF s, t, u, S
<1>3. /\ v \in Seq(S) /\ Len(v) = Len(s) + Len(t)
      /\ \A i \in 1 .. Len(s) + Len(t) : v[i] = IF i <= Len(s) THEN s[i] ELSE t[i - Len(s)]
  BY <1>1, ConcatProperties
<1> HIDE DEF v
<1>4. Len(v) = 2 /\ \A i \in 1 .. 2 : v[i] = IF i <= 1 THEN s[i] ELSE t[i - 1]
  BY <1>2, <1>3
<1>5. \A i \in 1 .. 2 : v[i] = u[i]
  <2>1. v[1] = s[1] /\ v[2] = t[1]
    BY <1>4
  <2>2. \A i \in 1 .. 2 : i = 1 \/ i = 2
    OBVIOUS
  <2> QED
    BY <1>2, <2>1, <2>2
<1>6. v = u
  BY <1>1, <1>2, <1>3, <1>4, <1>5, SeqEqual
<1> QED
  BY <1>6 DEF s, t, u, v

\* Three elements.
LEMMA ThreeOf ==
  ASSUME NEW a, NEW b, NEW c PROVE <<a>> \o <<b, c>> = <<a, b, c>> /\ <<a, b>> \o <<c>> = <<a, b, c>>
<1> DEFINE S == {a, b, c}
           r == <<a>>
           s == <<a, b>>
           t == <<c>>
           u == <<b, c>>
           w == <<a, b, c>>
           v == r \o u
           x == s \o t
<1>1. r \in Seq(S) /\ s \in Seq(S) /\ t \in Seq(S) /\ u \in Seq(S) /\ w \in Seq(S)
  OBVIOUS
<1>2. /\ Len(r) = 1 /\ r[1] = a /\ Len(u) = 2 /\ u[1] = b /\ u[2] = c
      /\ Len(s) = 2 /\ s[1] = a /\ s[2] = b /\ Len(t) = 1 /\ t[1] = c
      /\ Len(w) = 3 /\ w[1] = a /\ w[2] = b /\ w[3] = c
  OBVIOUS
<1> HIDE DEF r, s, t, u, w, S
<1>3. /\ v \in Seq(S) /\ Len(v) = Len(r) + Len(u)
      /\ \A i \in 1 .. Len(r) + Len(u) : v[i] = IF i <= Len(r) THEN r[i] ELSE u[i - Len(r)]
  BY <1>1, ConcatProperties
<1>4. /\ x \in Seq(S) /\ Len(x) = Len(s) + Len(t)
      /\ \A i \in 1 .. Len(s) + Len(t) : x[i] = IF i <= Len(s) THEN s[i] ELSE t[i - Len(s)]
  BY <1>1, ConcatProperties
<1> HIDE DEF v, x
<1>5. Len(v) = 3 /\ \A i \in 1 .. 3 : v[i] = IF i <= 1 THEN r[i] ELSE u[i - 1]
  BY <1>2, <1>3
<1>6. Len(x) = 3 /\ \A i \in 1 .. 3 : x[i] = IF i <= 2 THEN s[i] ELSE t[i - 2]
  BY <1>2, <1>4
<1>7. \A i \in 1 .. 3 : v[i] = w[i] /\ x[i] = w[i]
  <2>1. v[1] = r[1] /\ v[2] = u[1] /\ v[3] = u[2] /\ x[1] = s[1] /\ x[2] = s[2] /\ x[3] = t[1]
    BY <1>5, <1>6
  <2>2. \A i \in 1 .. 3 : i = 1 \/ i = 2 \/ i = 3
    OBVIOUS
  <2> QED
    BY <1>2, <2>1, <2>2
<1>8. v = w
  BY <1>1, <1>2, <1>3, <1>5, <1>7, SeqEqual
<1>9. x = w
  BY <1>1, <1>2, <1>4, <1>6, <1>7, SeqEqual
<1> QED
  BY <1>8, <1>9 DEF r, s, t, u, v, w, x

\* Tokens make texts.
LEMMA TuplesAre == \A a, b, c \in Tokens : <<a, b>> \in Seq(Tokens) /\ <<a, b, c>> \in Seq(Tokens)
OBVIOUS

\* A statement between two others.
LEMMA ScriptParsesBack ==
  ASSUME NEW s \in Statements
  PROVE  ParseScript(<<"BEGIN", ";">> \o RenderStatement(s) \o <<";", ";", "COMMIT">>).node
           = <<Transaction("BEGIN"), s, Transaction("COMMIT")>>
<1> DEFINE head == <<"BEGIN", ";">>
           text == RenderStatement(s)
           tail == <<";", ";", "COMMIT">>
           ts   == (head \o text) \o tail
           e    == Len(ts) + 1
           B    == Transaction("BEGIN")
           C    == Transaction("COMMIT")
<1>1. "BEGIN" \in Tokens /\ ";" \in Tokens /\ "COMMIT" \in Tokens
  BY WordsAre
<1>2. head \in Seq(Tokens) /\ text \in Seq(Tokens) /\ tail \in Seq(Tokens)
  <2>1. head \in Seq(Tokens)
    BY <1>1, TuplesAre
  <2>2. tail \in Seq(Tokens)
    BY <1>1, TuplesAre
  <2>3. text \in Seq(Tokens)
    BY StatementIsText
  <2> QED
    BY <2>1, <2>2, <2>3
<1> HIDE DEF head, text, tail
<1>3. head \o text \in Seq(Tokens)
  BY <1>2, ConcatIs
<1>4. ts \in Seq(Tokens)
  BY <1>2, <1>3, ConcatIs
<1>5. Spans(ts, 1, e, ts) /\ At(ts, e) = End
  BY <1>4, SpansItself
<1>6. Spans(ts, 1, e, (head \o text) \o tail)
  BY <1>5
<1> HIDE DEF ts, e
<1>7. PICK m : Spans(ts, 1, m, head \o text) /\ Spans(ts, m, e, tail)
  BY <1>2, <1>3, <1>6, SpansParts
<1>8. PICK n : Spans(ts, 1, n, head) /\ Spans(ts, n, m, text)
  BY <1>2, <1>7, SpansParts
<1>9. At(ts, 1) = "BEGIN" /\ At(ts, 1 + 1) = ";"
  BY <1>1, <1>8, SpansTwo DEF head
<1>p. n = 1 + 2 /\ 1 \in Positions(ts) /\ 1 + 1 \in Positions(ts) /\ n \in Positions(ts)
  BY <1>1, <1>8, SpansTwo DEF head
<1>10. At(ts, m) = ";" /\ At(ts, m + 1) = ";" /\ At(ts, m + 2) = "COMMIT"
  <2>1. Spans(ts, m, e, <<";", ";", "COMMIT">>)
    BY <1>7 DEF tail
  <2> DEFINE a == ";"
             c == "COMMIT"
  <2>2. Spans(ts, m, e, <<a, a, c>>) /\ a \in Tokens /\ c \in Tokens
    BY <1>1, <2>1
  <2> HIDE DEF a, c
  <2>3. At(ts, m) = a /\ At(ts, m + 1) = a /\ At(ts, m + 2) = c
    BY <2>2, SpansThree
  <2> QED
    BY <2>3 DEF a, c
<1>q. /\ e = m + 3 /\ m \in Nat /\ m \in Positions(ts) /\ m + 1 \in Positions(ts)
      /\ m + 2 \in Positions(ts)
  BY <1>1, <1>7, SpansThree DEF tail
<1>11. Len(ts) \in Nat /\ e \in Positions(ts)
  BY <1>5, SpansAt
<1>12. PICK f : IsScript(ts, f)
  BY <1>11, ScriptIs DEF IsScript
<1>13. m + 1 + 1 = m + 2 /\ m + 2 + 1 = e /\ 1 + 1 + 1 = n
  BY <1>p, <1>q
<1>14. End \in Closings /\ ";" \in Closings
  BY DEF Closings
<1>15. f[e] = Parsed(e, <<>>)
  BY <1>5, <1>11, <1>12, ScriptEnds
<1>a. Takes(ts, m + 2, e, C)
  <2>1. ParseStatement(ts, m + 2) = Parsed(e, C) /\ At(ts, m + 2) \notin Closings
    BY <1>10, <1>13, TransactionReads
  <2> QED
    BY <1>5, <1>14, <2>1 DEF Takes
<1>b. Takes(ts, n, m, s)
  <2>1. ParseStatement(ts, n) = Parsed(m, s) /\ At(ts, n) \notin Closings
    BY <1>8, <1>10, <1>14, StatementReads DEF text
  <2> QED
    BY <1>10, <1>14, <2>1 DEF Takes
<1>c. Takes(ts, 1, 1 + 1, B)
  <2>1. ParseStatement(ts, 1) = Parsed(1 + 1, B) /\ At(ts, 1) \notin Closings
    BY <1>9, TransactionReads
  <2> QED
    BY <1>9, <1>14, <2>1 DEF Takes
<1>d. f[m] = f[m + 1] /\ f[m + 1] = f[m + 2] /\ f[1 + 1] = f[n]
  <2>1. f[m] = f[m + 1]
    BY <1>10, <1>12, <1>q, ScriptSkips
  <2>2. f[m + 1] = f[m + 1 + 1]
    BY <1>10, <1>12, <1>q, ScriptSkips
  <2>3. f[1 + 1] = f[1 + 1 + 1]
    BY <1>9, <1>12, <1>p, ScriptSkips
  <2> QED
    BY <1>13, <2>1, <2>2, <2>3
<1> HIDE DEF B, C
<1>16. f[m + 2] = Parsed(e, <<C>> \o <<>>)
  <2> DEFINE k    == m + 2
             none == <<>>
  <2>1. Takes(ts, k, e, C) /\ k \in Positions(ts) /\ f[e] = Parsed(e, none)
    BY <1>15, <1>a, <1>q
  <2> HIDE DEF k, none
  <2>2. f[k] = Parsed(e, <<C>> \o none)
    BY <1>12, <2>1, ScriptTakes
  <2> QED
    BY <2>2 DEF k, none
<1>18. f[m] = Parsed(e, <<C>>)
  BY <1>16, <1>d, OneMore
<1>19. f[n] = Parsed(e, <<s>> \o <<C>>)
  BY <1>12, <1>18, <1>b, <1>p, ScriptTakes
<1>20. f[1 + 1] = Parsed(e, <<s, C>>)
  BY <1>19, <1>d, TwoOf
<1>21. f[1] = Parsed(e, <<B>> \o <<s, C>>)
  <2> DEFINE two == 1 + 1
  <2>1. Takes(ts, 1, two, B) /\ f[two] = Parsed(e, <<s, C>>) /\ 1 \in Positions(ts)
    BY <1>20, <1>c, <1>p
  <2> HIDE DEF two
  <2> QED
    BY <1>12, <2>1, ScriptTakes
<1>22. ParseScript(ts) = Parsed(e, <<B, s, C>>)
  BY <1>12, <1>21, ThreeOf DEF IsScript
<1> DEFINE r == ParseScript(ts)
<1>23. r.node = <<B, s, C>>
  BY <1>22, ParsedIs
<1> QED
  BY <1>23 DEF ts, head, text, tail, B, C

\* Every statement that can be written, over any names and literals, with lists of any length and
\* expressions of any height, parses back from its rendering, alone and within a script.
THEOREM RoundTripForAll == \A s \in Statements : RoundTrips(s)
BY ParsesBack, ScriptParsesBack DEF RoundTrips

-----------------------------------------------------------------------------
(* What .schema prints.                                                    *)

\* The column that describe writes for one of a schema.
Described(c, is_pk) == ColumnSpec(c.name, c.ty, is_pk, ~c.nullable /\ ~is_pk)

\* A described column is rendered as the column it describes.
LEMMA DescribedText ==
  ASSUME NEW c, c.name \in Names, c.ty \in ColumnTypeWords, c.nullable \in BOOLEAN,
         NEW is_pk \in BOOLEAN
  PROVE  DescribeColumn(c, is_pk) = RenderColumn(Described(c, is_pk)) /\ Described(c, is_pk) \in Specs
<1> DEFINE d == Described(c, is_pk)
           s == <<c.name, c.ty>>
           nn == ~c.nullable /\ ~is_pk
<1>1. d \in Specs
  <2>1. d = ColumnSpec(c.name, c.ty, is_pk, nn) /\ nn \in BOOLEAN
    BY DEF Described
  <2> HIDE DEF d, nn
  <2> QED
    BY <2>1 DEF Specs
<1>2. d.name = c.name /\ d.ty = c.ty /\ d.primary_key = is_pk /\ d.not_null = nn
  BY DEF Described, ColumnSpec
<1>3. s \in Seq(Tokens)
  <2>1. c.name \in Tokens /\ c.ty \in Tokens
    BY WordsAre
  <2> QED
    BY <2>1, TuplesAre
<1>4. RenderColumn(d) = (s \o (IF is_pk THEN <<"PRIMARY", "KEY">> ELSE <<>>)) \o (IF nn THEN <<"NOT", "NULL">> ELSE <<>>)
  BY <1>2 DEF RenderColumn
<1>5. "PRIMARY" \in Tokens /\ "KEY" \in Tokens
  BY WordsAre
<1> DEFINE key == <<"PRIMARY", "KEY">>
           not == <<"NOT", "NULL">>
<1>6. key \in Seq(Tokens)
  BY <1>5, TuplesAre
<1>7. DescribeColumn(c, is_pk) = s \o (IF is_pk THEN key ELSE IF ~c.nullable THEN not ELSE <<>>)
  BY DEF DescribeColumn
<1>8. RenderColumn(d) = (s \o (IF is_pk THEN key ELSE <<>>)) \o (IF nn THEN not ELSE <<>>)
  BY <1>4
<1> HIDE DEF s, key, not, d
<1>9. s \o key \in Seq(Tokens) /\ s \o <<>> = s
  BY <1>3, <1>6, ConcatIs, ConcatEmptySeq
<1>10. (s \o key) \o <<>> = s \o key
  BY <1>9, ConcatEmptySeq
<1>11. DescribeColumn(c, is_pk) = RenderColumn(d)
  <2>1. CASE is_pk
    BY <1>7, <1>8, <1>10, <2>1
  <2>2. CASE ~is_pk
    BY <1>7, <1>8, <1>9, <2>2
  <2> QED
    BY <2>1, <2>2
<1> QED
  BY <1>1, <1>11 DEF d

\* The columns of a schema are those of the statement, and nullable unless it says otherwise.
Defined(columns, pk) == [i \in DOMAIN columns |-> ColumnDef(columns[i], i = pk)]

\* The columns describe writes for it.
Again(columns, pk) == [i \in DOMAIN columns |-> Described(Defined(columns, pk)[i], i = pk)]

\* The columns that .schema prints define the same schema.
LEMMA AgainIs ==
  ASSUME NEW columns \in Seq(Specs), columns # <<>>, NEW pk \in DOMAIN columns
  PROVE  /\ Again(columns, pk) \in Seq(Specs) /\ Again(columns, pk) # <<>>
         /\ DOMAIN Again(columns, pk) = DOMAIN columns
         /\ Defined(Again(columns, pk), pk) = Defined(columns, pk)
         /\ \A i \in DOMAIN columns :
              /\ Again(columns, pk)[i].primary_key = (i = pk)
              /\ DescribeColumn(Defined(columns, pk)[i], i = pk) = RenderColumn(Again(columns, pk)[i])
<1> DEFINE defs  == Defined(columns, pk)
           again == Again(columns, pk)
<1>1. Len(columns) \in Nat /\ DOMAIN columns = 1 .. Len(columns) /\ Len(columns) >= 1
  OBVIOUS
<1>2. ASSUME NEW i \in DOMAIN columns
      PROVE  /\ defs[i].name \in Names /\ defs[i].ty \in ColumnTypeWords /\ defs[i].nullable \in BOOLEAN
             /\ again[i] = Described(defs[i], i = pk)
             /\ defs[i].nullable => i # pk
             /\ defs[i] = [name |-> defs[i].name, ty |-> defs[i].ty, nullable |-> defs[i].nullable]
  <2>1. columns[i] \in Specs
    BY <1>2
  <2>2. /\ columns[i].name \in Names /\ columns[i].ty \in ColumnTypeWords
        /\ columns[i].primary_key \in BOOLEAN /\ columns[i].not_null \in BOOLEAN
    BY <2>1, ColumnIs
  <2>3. defs[i] = ColumnDef(columns[i], i = pk) /\ again[i] = Described(defs[i], i = pk)
    BY <1>2 DEF Defined, Again
  <2> HIDE DEF defs, again
  <2> DEFINE b == i = pk
             c == columns[i]
             n == ~c.not_null /\ ~b
  <2>4. b \in BOOLEAN /\ n \in BOOLEAN /\ (n => ~b)
    OBVIOUS
  <2>5. defs[i] = [name |-> c.name, ty |-> c.ty, nullable |-> n]
    BY <2>3 DEF ColumnDef
  <2>6. c.name \in Names /\ c.ty \in ColumnTypeWords
    BY <2>2
  <2> HIDE DEF b, c, n
  <2>7. defs[i].name = c.name /\ defs[i].ty = c.ty /\ defs[i].nullable = n
    BY <2>5
  <2>8. defs[i].nullable => ~b
    BY <2>4, <2>7
  <2> QED
    BY <2>3, <2>4, <2>5, <2>6, <2>7, <2>8 DEF b
<1> HIDE DEF defs, again
<1>3. \A i \in DOMAIN columns :
        /\ DescribeColumn(defs[i], i = pk) = RenderColumn(again[i])
        /\ again[i] \in Specs
  <2> TAKE i \in DOMAIN columns
  <2>1. /\ defs[i].name \in Names /\ defs[i].ty \in ColumnTypeWords /\ defs[i].nullable \in BOOLEAN
        /\ again[i] = Described(defs[i], i = pk)
    BY <1>2
  <2> DEFINE b == i = pk
  <2>2. b \in BOOLEAN
    OBVIOUS
  <2>3. again[i] = Described(defs[i], b)
    BY <2>1
  <2> HIDE DEF b
  <2>4. DescribeColumn(defs[i], b) = RenderColumn(again[i]) /\ again[i] \in Specs
    BY <2>1, <2>2, <2>3, DescribedText
  <2> QED
    BY <2>4 DEF b
<1>4. \A i \in DOMAIN columns : again[i].primary_key = (i = pk)
  <2> TAKE i \in DOMAIN columns
  <2>1. again[i] = Described(defs[i], i = pk)
    BY <1>2
  <2> QED
    BY <2>1 DEF Described, ColumnSpec
<1>5. \A i \in DOMAIN columns : ColumnDef(again[i], i = pk) = defs[i]
  <2> TAKE i \in DOMAIN columns
  <2> DEFINE d == defs[i]
             b == i = pk
  <2>1. again[i] = Described(d, b) /\ d.nullable \in BOOLEAN /\ (d.nullable => ~b)
        /\ d = [name |-> d.name, ty |-> d.ty, nullable |-> d.nullable]
    BY <1>2
  <2>2. b \in BOOLEAN
    OBVIOUS
  <2> HIDE DEF d, b
  <2>3. again[i].name = d.name /\ again[i].ty = d.ty /\ again[i].not_null = (~d.nullable /\ ~b)
    BY <2>1 DEF Described, ColumnSpec
  <2>4. (~again[i].not_null /\ ~b) = d.nullable
    BY <2>1, <2>2, <2>3
  <2>5. ColumnDef(again[i], b) = [name |-> again[i].name, ty |-> again[i].ty, nullable |-> ~again[i].not_null /\ ~b]
    BY DEF ColumnDef
  <2>6. ColumnDef(again[i], b) = d
    BY <2>1, <2>3, <2>4, <2>5
  <2> QED
    BY <2>6 DEF d, b
<1>6. DOMAIN again = DOMAIN columns /\ DOMAIN defs = DOMAIN columns
  BY DEF again, defs, Again, Defined
<1>7. again \in [1 .. Len(columns) -> Specs]
  <2>1. again = [i \in DOMAIN columns |-> again[i]]
    BY DEF again, Again
  <2> QED
    BY <1>1, <1>3, <2>1
<1>8. again \in Seq(Specs) /\ again # <<>>
  <2> DEFINE n == Len(columns)
  <2>1. again \in [1 .. n -> Specs] /\ n \in Nat /\ n >= 1
    BY <1>1, <1>7
  <2> HIDE DEF n
  <2>2. again \in Seq(Specs) /\ Len(again) = n
    BY <2>1
  <2> QED
    BY <2>1, <2>2
<1>9. Defined(again, pk) = defs
  <2>1. Defined(again, pk) = [i \in DOMAIN columns |-> ColumnDef(again[i], i = pk)]
    BY <1>6 DEF Defined
  <2>2. defs = [i \in DOMAIN columns |-> defs[i]]
    BY DEF defs, Defined
  <2> QED
    BY <1>5, <2>1, <2>2
<1> QED
  BY <1>3, <1>4, <1>6, <1>8, <1>9 DEF defs, again

\* A CREATE TABLE with one primary key.
LEMMA SchemaIs ==
  ASSUME NEW name, NEW columns, NEW pk \in DOMAIN columns,
         \A i \in DOMAIN columns : columns[i].primary_key = (i = pk)
  PROVE  SchemaOf(CreateTable(name, columns)) = SchemaNew(name, Defined(columns, pk), pk)
<1> DEFINE s   == CreateTable(name, columns)
           pks == {i \in DOMAIN columns : columns[i].primary_key}
           k   == CHOOSE i \in pks : TRUE
<1>1. s.name = name /\ s.columns = columns
  BY DEF CreateTable
<1>2. pks = {pk}
  OBVIOUS
<1>3. Cardinality(pks) = 1
  BY <1>2, FS_Singleton
<1>4. k = pk
  BY <1>2
<1>5. SchemaOf(s) = IF Cardinality(pks) # 1 THEN NoSchema("PrimaryKeyCount")
                    ELSE SchemaNew(name, [i \in DOMAIN columns |-> ColumnDef(columns[i], i = k)], k)
  BY <1>1 DEF SchemaOf
<1> HIDE DEF s, pks, k
<1>6. SchemaOf(s) = SchemaNew(name, [i \in DOMAIN columns |-> ColumnDef(columns[i], i = pk)], pk)
  BY <1>3, <1>4, <1>5
<1> QED
  BY <1>6 DEF s, Defined

\* Creating a table anew from what .schema prints of it gives the table.
THEOREM CreatesItselfForAll ==
  ASSUME NEW name \in Names, NEW columns \in Some1(Specs)
  PROVE  CreatesItself(CreateTable(name, columns))
<1> DEFINE s      == CreateTable(name, columns)
           schema == SchemaOf(s)
           pks    == {i \in DOMAIN columns : columns[i].primary_key}
           pk     == CHOOSE i \in pks : TRUE
           text   == <<"CREATE", "TABLE">> \o Describe(schema)
<1> SUFFICES ASSUME schema.ok PROVE Parse(text).ok /\ SchemaOf(Parse(text).node) = schema
  BY DEF CreatesItself
<1>1. s.name = name /\ s.columns = columns /\ columns \in Seq(Specs) /\ columns # <<>>
  BY DEF CreateTable, Some1
<1>2. schema = IF Cardinality(pks) # 1 THEN NoSchema("PrimaryKeyCount")
               ELSE SchemaNew(name, [i \in DOMAIN columns |-> ColumnDef(columns[i], i = pk)], pk)
  BY <1>1 DEF SchemaOf
<1> HIDE DEF schema
<1>3. Cardinality(pks) = 1 /\ schema = SchemaNew(name, Defined(columns, pk), pk)
  BY <1>2 DEF NoSchema, Defined
<1>4. pks # {}
  BY <1>3, FS_EmptySet
<1>5. pk \in DOMAIN columns
  BY <1>4
<1> DEFINE again == Again(columns, pk)
           defs  == Defined(columns, pk)
<1> HIDE DEF pk, pks
<1>6. /\ again \in Seq(Specs) /\ again # <<>> /\ DOMAIN again = DOMAIN columns
      /\ Defined(again, pk) = defs
      /\ \A i \in DOMAIN columns :
           /\ again[i].primary_key = (i = pk)
           /\ DescribeColumn(defs[i], i = pk) = RenderColumn(again[i])
  BY <1>1, <1>5, AgainIs
<1>7. DOMAIN defs = DOMAIN columns
  BY DEF Defined
<1> HIDE DEF again, defs
<1>8. schema.table_name = name /\ schema.columns = defs /\ schema.primary_key = pk
  <2>1. schema = SchemaNew(name, defs, pk)
    BY <1>3 DEF defs
  <2> QED
    BY <2>1 DEF SchemaNew, Schema, NoSchema
<1>9. text = RenderStatement(CreateTable(name, again))
  <2> DEFINE cols == ColumnedText(again)
             a == <<"CREATE", "TABLE">>
             b == <<name>>
             c == Paren(cols)
  <2>1. cols = Joined([i \in DOMAIN defs |-> DescribeColumn(defs[i], i = pk)])
    <3>1. [i \in DOMAIN defs |-> DescribeColumn(defs[i], i = pk)] = [i \in DOMAIN again |-> RenderColumn(again[i])]
      BY <1>6, <1>7
    <3> QED
      BY <3>1 DEF ColumnedText, ColumnedParts
  <2>2. Describe(schema) = b \o c
    BY <1>8, <2>1 DEF Describe
  <2>3. RenderStatement(CreateTable(name, again)) = <<"CREATE", "TABLE", name>> \o c
    BY <1>6, CreateIs
  <2>4. "CREATE" \in Tokens /\ "TABLE" \in Tokens /\ name \in Tokens
    BY WordsAre
  <2>5. a \in Seq(Tokens) /\ b \in Seq(Tokens)
    BY <2>4, TuplesAre, OneIs
  <2>6. c \in Seq(Tokens)
    BY <1>6, ColumnedAre, ParenIsText
  <2>7. a \o b = <<"CREATE", "TABLE", name>>
    BY ThreeOf
  <2>8. text = a \o (b \o c)
    BY <2>2
  <2>9. RenderStatement(CreateTable(name, again)) = (a \o b) \o c
    BY <2>3, <2>7
  <2> HIDE DEF a, b, c, text
  <2> QED
    BY <2>5, <2>6, <2>8, <2>9, ConcatAssociative
<1> DEFINE t == CreateTable(name, again)
           e == Len(RenderStatement(t)) + 1
<1>10. t \in Statements
  BY <1>6 DEF Statements, Some1
<1>11. Parse(text) = Parsed(e, t)
  BY <1>9, <1>10, ParsesBack
<1> HIDE DEF text, e
<1>12. Parse(text).ok /\ Parse(text).node = t
  BY <1>11, ParsedIs
<1>13. SchemaOf(t) = SchemaNew(name, defs, pk)
  <2>1. pk \in DOMAIN again /\ \A i \in DOMAIN again : again[i].primary_key = (i = pk)
    BY <1>5, <1>6
  <2> QED
    BY <1>6, <2>1, SchemaIs
<1> QED
  BY <1>3, <1>12, <1>13 DEF defs

-----------------------------------------------------------------------------
(* The statements of Sentences.                                            *)

\* Leaves can be written.
LEMMA LeavesWritten == WrittenLeaves \subseteq Written
<1>1. CASE MaxHeight = 0
  BY <1>1, TreesAt DEF Written
<1>2. CASE MaxHeight # 0
  <2>1. MaxHeight \in 1 .. MaxHeight
    BY <1>2, HeightAssumption
  <2> QED
    BY <2>1, TreesAt DEF Written
<1> QED
  BY <1>1, <1>2

\* Lists of one and two.
LEMMA ListsAre ==
  ASSUME NEW S, NEW a \in S, NEW b \in S
  PROVE  <<a>> \in Some1(S) /\ <<a, b>> \in Some1(S)
<1>1. <<a>> \in Seq(S) /\ <<a, b>> \in Seq(S)
  OBVIOUS
<1>2. Len(<<a>>) = 1 /\ Len(<<a, b>>) = 2 /\ Len(<<>>) = 0
  OBVIOUS
<1> QED
  BY <1>1, <1>2 DEF Some1

\* The identifiers of Sentences.
LEMMA NamesAreNamed == <<Name>> \in Named /\ <<Name, Other>> \in Named /\ Name \in Names /\ Other \in Names
BY ListsAre, SentencesAssumption DEF Named, Some1

\* Nothing, or something.
LEMMA OptionsAre ==
  ASSUME NEW S
  PROVE  None \in Optional(S) /\ \A x \in S : Some(x) \in Optional(S)
BY DEF Optional

\* The statements around an expression can be written.
LEMMA AroundAre ==
  ASSUME NEW e \in Written
  PROVE  Around(e) \subseteq Statements
<1>1. Col(Name) \in Written /\ Col(Other) \in Written
  BY LeavesWritten, NamesAreNamed DEF WrittenLeaves
<1>2. None \in Optional(Written) /\ Some(e) \in Optional(Written)
  BY OptionsAre
<1> SUFFICES ASSUME NEW s \in Around(e) PROVE s \in Statements
  OBVIOUS
<1>3. CASE s \in {Insert(Name, columns, rows) :
                    columns \in {None, Some(<<Name>>), Some(<<Name, Other>>)},
                    rows \in {<<<<e>>>>, <<<<Col(Name), e>>, <<e>>>>}}
  <2>1. PICK columns \in {None, Some(<<Name>>), Some(<<Name, Other>>)},
             rows \in {<<<<e>>>>, <<<<Col(Name), e>>, <<e>>>>} : s = Insert(Name, columns, rows)
    BY <1>3
  <2>2. columns \in Optional(Named)
    BY OptionsAre, NamesAreNamed
  <2>3. <<e>> \in TextRows /\ <<Col(Name), e>> \in TextRows
    BY <1>1, ListsAre DEF TextRows, Some1
  <2>4. <<<<e>>>> \in Some1(TextRows) /\ <<<<Col(Name), e>>, <<e>>>> \in Some1(TextRows)
    BY <2>3, ListsAre
  <2>5. rows \in Some1(TextRows)
    BY <2>4
  <2> QED
    BY <2>1, <2>2, <2>5, NamesAreNamed DEF Statements
<1>4. CASE s \in {Select(projection, Name, Some(e), order, limit) :
                    projection \in {AllColumns, <<Name, Other>>},
                    order \in {None} \cup {Some(OrderBy(Other, desc)) : desc \in BOOLEAN},
                    limit \in {None, Some(Number)}}
  <2>1. PICK projection \in {AllColumns, <<Name, Other>>},
             order \in {None} \cup {Some(OrderBy(Other, desc)) : desc \in BOOLEAN},
             limit \in {None, Some(Number)} : s = Select(projection, Name, Some(e), order, limit)
    BY <1>4
  <2>2. projection \in Projections
    BY NamesAreNamed DEF Projections
  <2>3. order \in Optional(Orders)
    <3>1. \A desc \in BOOLEAN : OrderBy(Other, desc) \in Orders
      BY NamesAreNamed DEF Orders
    <3> QED
      BY <3>1, OptionsAre
  <2>4. limit \in Optional(Numerals)
    BY OptionsAre, SentencesAssumption
  <2> QED
    BY <1>2, <2>1, <2>2, <2>3, <2>4, NamesAreNamed DEF Statements
<1>5. CASE s \in {Update(Name, assignments, filter) :
                    assignments \in {<<Assign(Name, e)>>, <<Assign(Name, Col(Other)), Assign(Other, e)>>},
                    filter \in {None, Some(e)}}
  <2>1. PICK assignments \in {<<Assign(Name, e)>>, <<Assign(Name, Col(Other)), Assign(Other, e)>>},
             filter \in {None, Some(e)} : s = Update(Name, assignments, filter)
    BY <1>5
  <2>2. Assign(Name, e) \in Assignments /\ Assign(Name, Col(Other)) \in Assignments /\ Assign(Other, e) \in Assignments
    BY <1>1, NamesAreNamed DEF Assignments
  <2>3. assignments \in Some1(Assignments)
    BY <2>2, ListsAre
  <2> QED
    BY <1>2, <2>1, <2>3, NamesAreNamed DEF Statements
<1>6. CASE s \in {Delete(Other, filter) : filter \in {None, Some(e)}}
  BY <1>2, <1>6, NamesAreNamed DEF Statements
<1> QED
  BY <1>3, <1>4, <1>5, <1>6 DEF Around

\* So can the creations.
LEMMA CreationsAre ==
  ASSUME NEW s \in Creations
  PROVE  \E columns \in Some1(Specs) : s = CreateTable(Name, columns)
<1>0. "INTEGER" \in ColumnTypeWords /\ "TEXT" \in ColumnTypeWords
  BY DEF ColumnTypeWords
<1>1. \A name \in Names, type \in ColumnTypeWords : Columns(name, type) \subseteq Specs
  BY DEF Columns, Specs
<1>2. CASE s \in {CreateTable(Name, <<c>>) : c \in UNION {Columns(Name, type) : type \in ColumnTypeWords}}
  <2>1. PICK c \in UNION {Columns(Name, type) : type \in ColumnTypeWords} : s = CreateTable(Name, <<c>>)
    BY <1>2
  <2>2. c \in Specs
    BY <1>1, NamesAreNamed
  <2> QED
    BY <2>1, <2>2, ListsAre
<1>3. CASE s \in {CreateTable(Name, <<c, d>>) : c \in Columns(Name, "INTEGER"),
                                                d \in Columns(Other, "TEXT") \cup Columns(Name, "TEXT")}
  <2>1. PICK c \in Columns(Name, "INTEGER"), d \in Columns(Other, "TEXT") \cup Columns(Name, "TEXT") :
          s = CreateTable(Name, <<c, d>>)
    BY <1>3
  <2>2. c \in Specs /\ d \in Specs
    BY <1>0, <1>1, NamesAreNamed
  <2> QED
    BY <2>1, <2>2, ListsAre
<1> QED
  BY <1>2, <1>3 DEF Creations

\* And those with no expression.
LEMMA PlainAre == Plain \subseteq Statements
<1> SUFFICES ASSUME NEW s \in Plain PROVE s \in Statements
  OBVIOUS
<1>1. CASE s \in {Transaction(word) : word \in {"BEGIN", "COMMIT", "ROLLBACK"}}
  BY <1>1 DEF Statements
<1>2. CASE s \in {Select(AllColumns, Name, None, None, limit) : limit \in {None, Some(Number)}}
  <2>1. PICK limit \in {None, Some(Number)} : s = Select(AllColumns, Name, None, None, limit)
    BY <1>2
  <2>2. limit \in Optional(Numerals)
    BY OptionsAre, SentencesAssumption
  <2>3. AllColumns \in Projections /\ None \in Optional(Written) /\ None \in Optional(Orders)
    BY OptionsAre DEF Projections
  <2> QED
    BY <2>1, <2>2, <2>3, NamesAreNamed DEF Statements
<1>3. CASE s \in Creations
  BY <1>3, CreationsAre, NamesAreNamed DEF Statements
<1> QED
  BY <1>1, <1>2, <1>3 DEF Plain

-----------------------------------------------------------------------------
(* The theorems.                                                           *)

\* Parsing what ast.rs renders gives the statement back, and creating a table from its .schema
\* gives the table.
THEOREM RenderedTextsAlwaysParseBack == ExprSpec => []RenderedTextsParseBack
<1>1. ExprInv => RenderedTextsParseBack
  <2> SUFFICES ASSUME ExprInv PROVE RenderedTextsParseBack
    OBVIOUS
  <2>1. expr \in Written
    BY GrownAreWritten
  <2>2. Delete(Other, Some(expr)) \in Statements
    BY <2>1, OptionsAre, NamesAreNamed DEF Statements
  <2>3. \A s \in Around(expr) \cup Plain \cup {Delete(Other, Some(expr))} : RoundTrips(s)
    BY <2>1, <2>2, AroundAre, PlainAre, RoundTripForAll
  <2>4. \A s \in Creations : CreatesItself(s)
    BY CreationsAre, CreatesItselfForAll, NamesAreNamed
  <2> QED
    BY <2>3, <2>4 DEF RenderedTextsParseBack
<1> QED
  BY <1>1, ExpressionsStayShallow, PTL

\* The disturbed texts are texts over the tokens and the foreign ones.
LEMMA DisturbedAre ==
  ASSUME NEW ts \in Seq(Tokens), NEW u \in Disturbed(ts)
  PROVE  u \in Seq(Tokens \cup Foreign)
<1> DEFINE T == Tokens \cup Foreign
<1>1. ts \in Seq(T)
  OBVIOUS
<1>2. CASE u = ts
  BY <1>1, <1>2
<1>3. CASE \E n \in 0 .. Len(ts), token \in Foreign : u = PutAfter(ts, n, token)
  <2>1. PICK n \in 0 .. Len(ts), token \in Foreign : u = PutAfter(ts, n, token)
    BY <1>3
  <2> DEFINE a == SubSeq(ts, 1, n)
             b == <<token>>
             c == SubSeq(ts, n + 1, Len(ts))
  <2> HIDE DEF T
  <2>2. a \in Seq(T) /\ c \in Seq(T)
    BY <1>1
  <2>3. b \in Seq(T)
    <3>1. token \in T
      BY DEF T
    <3> QED
      BY <3>1
  <2> HIDE DEF a, b, c
  <2>4. u = (a \o b) \o c
    BY <2>1 DEF a, b, c, PutAfter
  <2>5. a \o b \in Seq(T)
    BY <2>2, <2>3
  <2> QED
    BY <2>2, <2>4, <2>5 DEF T
<1> QED
  BY <1>2, <1>3 DEF Disturbed

\* A text rejected at a token stays rejected there whatever follows.
THEOREM RejectionIsAlwaysFinal == ExprSpec => []RejectionIsFinal
<1>1. ExprInv => RejectionIsFinal
  <2> SUFFICES ASSUME ExprInv, NEW s \in Around(expr) \cup Plain, NEW ts \in Disturbed(RenderStatement(s))
               PROVE  FinalIn(ts, {n \in DOMAIN ts : ts[n] # "LIMIT"})
    BY DEF RejectionIsFinal
  <2>1. s \in Statements
    BY GrownAreWritten, AroundAre, PlainAre
  <2>2. RenderStatement(s) \in Seq(Tokens)
    BY <2>1, StatementIsText
  <2>3. ts \in Seq(Tokens \cup Foreign)
    BY <2>2, DisturbedAre
  <2> QED
    BY <2>3, RejectionIsFinalForAll
<1> QED
  BY <1>1, ExpressionsStayShallow, PTL

=============================================================================
