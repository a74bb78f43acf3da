---------------------------- MODULE ShellProofs -----------------------------
(***************************************************************************)
(* Lexer for every text and Shell for every input: the lexer reads a text  *)
(* cut at white space or at a semicolon piece by piece, a rendered literal *)
(* is read back, and the shell, which looks for semicolons by counting     *)
(* quotes, executes what the lexer finds in all it has read.               *)
(*                                                                         *)
(* Lexing is a recursive function from the last position on, so its lemmas *)
(* are inductions downwards: what follows a text is read as it is alone    *)
(* (LexingMoved), and so is its beginning (LexingBegun).  Together they    *)
(* give LexJoined, from which the rest follows: a statement the shell cuts *)
(* off is Whole, whole texts are read one after the other, and ShellInv    *)
(* says that the input is what was executed and then buf.                  *)
(***************************************************************************)
EXTENDS Shell, Induction, SequenceTheorems

\* Texts of characters.
Texts == Seq(Characters)

-----------------------------------------------------------------------------
(* String literals.                                                        *)

\* What Strings finds at a position.
Literals == [end : Nat, text : Texts]

\* What Strings says of a position, given what it says of those after it.
LiteralFrom(text, i, later) ==
  IF i > Len(text) THEN [end |-> 0, text |-> <<>>]
  ELSE IF text[i] # "'" THEN Says(text[i], later[i + 1])
  ELSE IF CharAt(text, i + 1) = "'" THEN Says("'", later[i + 2])
  ELSE [end |-> i + 1, text |-> <<>>]

\* A literal with one more character says it first and ends where it did.
LEMMA SaysIs ==
  ASSUME NEW c \in Characters, NEW rest \in Literals
  PROVE  /\ Says(c, rest) \in Literals
         /\ Says(c, rest).end = rest.end
         /\ Says(c, rest).text = <<c>> \o rest.text
<1>1. rest.text \in Texts /\ rest.end \in Nat
  BY DEF Literals
<1>2. <<c>> \o rest.text \in Texts
  BY <1>1 DEF Texts
<1>3. Says(c, rest) = [end |-> rest.end, text |-> <<c>> \o rest.text]
  BY DEF Says, Literals
<1> QED
  BY <1>1, <1>2, <1>3 DEF Literals

\* The quote is a character, and the end of a text is none.
LEMMA QuoteIs == "'" \in Characters /\ "end" \notin Characters
  BY DEF Characters, Digits, Letters, WhiteSpace, Singles

\* What is found at a position is a literal, if it is at those after it.
LEMMA LiteralFromIs ==
  ASSUME NEW text \in Texts, NEW i \in 1 .. Len(text) + 1,
         NEW later, \A j \in i + 1 .. Len(text) + 1 : later[j] \in Literals
  PROVE  LiteralFrom(text, i, later) \in Literals
<1> DEFINE n == Len(text)
<1>0. n \in Nat
  BY DEF Texts
<1>1. [end |-> 0, text |-> <<>>] \in Literals /\ [end |-> i + 1, text |-> <<>>] \in Literals
  BY <1>0 DEF Literals, Texts
<1>2. ~(i > n) => text[i] \in Characters /\ i + 1 \in i + 1 .. n + 1
  BY <1>0 DEF Texts
<1>3. CharAt(text, i + 1) = "'" => i + 2 \in i + 1 .. n + 1
  BY <1>0 DEF CharAt
<1> HIDE DEF n
<1>4. \A j \in i + 1 .. n + 1 : later[j] \in Literals
  BY DEF n
<1>5. ~(i > n) => Says(text[i], later[i + 1]) \in Literals
  BY <1>2, <1>4, SaysIs
<1>6. CharAt(text, i + 1) = "'" => Says("'", later[i + 2]) \in Literals
  BY <1>3, <1>4, SaysIs, QuoteIs
<1> QED
  BY <1>1, <1>5, <1>6 DEF LiteralFrom, n

\* Strings is what its definition says.
LEMMA StringsAre ==
  ASSUME NEW text \in Texts
  PROVE  \A i \in 1 .. Len(text) + 1 :
           /\ Strings(text)[i] \in Literals
           /\ Strings(text)[i] = LiteralFrom(text, i, Strings(text))
<1> DEFINE n == Len(text) + 1
           Is(f) == f = [i \in 1 .. Len(text) + 1 |-> LiteralFrom(text, i, f)]
           from == CHOOSE f : Is(f)
           U == UNION {[i + 1 .. n -> Literals] : i \in 1 .. n}
           g == [p \in (1 .. n) \X U |-> LiteralFrom(text, p[1], p[2])]
<1>1. n \in Nat
  BY DEF Texts
<1>2. Strings(text) = from
  BY DEF Strings, LiteralFrom
<1>3. \A i \in 1 .. n : \A later \in [i + 1 .. n -> Literals] :
        g[<<i, later>>] = LiteralFrom(text, i, later) /\ g[<<i, later>>] \in Literals
  <2> TAKE i \in 1 .. n
  <2> TAKE later \in [i + 1 .. n -> Literals]
  <2>1. later \in U
    OBVIOUS
  <2>2. LiteralFrom(text, i, later) \in Literals
    BY LiteralFromIs
  <2> HIDE DEF U
  <2> QED
    BY <2>1, <2>2
<1> HIDE DEF g, n
<1>4. PICK f \in [1 .. n -> Literals] : IsBackwards(f, g, n)
  BY <1>1, <1>3, Backwards
<1>5. \A i \in 1 .. n : f[i] = LiteralFrom(text, i, f)
  <2> TAKE i \in 1 .. n
  <2> DEFINE later == [j \in i + 1 .. n |-> f[j]]
  <2>1. \A j \in i + 1 .. n : j \in 1 .. n
    BY <1>1
  <2>2. later \in [i + 1 .. n -> Literals]
    BY <2>1
  <2>3. f[i] = LiteralFrom(text, i, later)
    BY <1>3, <1>4, <2>2 DEF IsBackwards
  <2>4. LiteralFrom(text, i, later) = LiteralFrom(text, i, f)
    <3>1. ~(i > Len(text)) => later[i + 1] = f[i + 1]
      BY <1>1 DEF n, Texts
    <3>2. CharAt(text, i + 1) = "'" => later[i + 2] = f[i + 2]
      BY <1>1 DEF n, Texts, CharAt
    <3> HIDE DEF later
    <3> QED
      BY <3>1, <3>2 DEF LiteralFrom
  <2> QED
    BY <2>3, <2>4
<1>6. Is(f)
  <2>1. f = [i \in 1 .. n |-> f[i]]
    BY <1>4
  <2> QED
    BY <1>5, <2>1 DEF n
<1>7. Is(from)
  BY <1>6
<1> HIDE DEF from
<1> HIDE DEF from
<1>8. \A i \in 1 .. n : from[i] = LiteralFrom(text, i, from)
  BY <1>7 DEF n
<1> DEFINE G == {i \in 1 .. n : from[i] \in Literals}
<1>9. ASSUME NEW i \in 1 .. n, \A j \in i + 1 .. n : j \in G PROVE i \in G
  <2>1. \A j \in i + 1 .. n : from[j] \in Literals
    BY <1>9
  <2>2. LiteralFrom(text, i, from) \in Literals
    BY <2>1, LiteralFromIs DEF n
  <2> QED
    BY <1>8, <2>2
<1> HIDE DEF G
<1>10. \A i \in 1 .. n : i \in G
  BY <1>1, <1>9, Downwards
<1> QED
  BY <1>2, <1>8, <1>10 DEF G, n

\* Among some numbers one is the least.
LEMMA Least ==
  ASSUME NEW S, S \subseteq Nat, S # {}
  PROVE  \E m \in S : \A j \in S : m <= j
<1> DEFINE R == {ss \in Nat \X Nat : ss[1] < ss[2]}
<1>1. IsWellFoundedOn(R, Nat)
  BY NatLessThanWellFounded DEF OpToRel
<1>2. PICK m \in S : \A y \in S : ~(<<y, m>> \in R)
  <2> HIDE DEF R
  <2> QED
    BY <1>1, WFMin
<1>3. m \in Nat /\ m \in S
  OBVIOUS
<1>4. ASSUME NEW j \in S PROVE m <= j
  <2>1. j \in Nat /\ ~(<<j, m>> \in R)
    BY <1>2
  <2>2. ~(j < m)
    BY <1>3, <2>1
  <2> QED
    BY <1>3, <2>1, <2>2
<1> HIDE DEF R
<1> QED
  BY <1>3, <1>4

-----------------------------------------------------------------------------
(* Runs of characters.                                                     *)

\* j is where the run of a class that begins at i ends.
IsRunEnd(j, text, i, class) ==
  /\ j \in i .. Len(text) + 1
  /\ CharAt(text, j) \notin class /\ \A m \in i .. j - 1 : text[m] \in class

\* A run ends where RunEnd says, and nowhere else.
LEMMA RunEndIs ==
  ASSUME NEW text, Len(text) \in Nat, NEW i \in 1 .. Len(text) + 1,
         NEW class, class \subseteq Characters
  PROVE  /\ IsRunEnd(RunEnd(text, i, class), text, i, class)
         /\ \A j : IsRunEnd(j, text, i, class) => j = RunEnd(text, i, class)
<1> DEFINE n == Len(text) + 1
           S == {j \in i .. n : CharAt(text, j) \notin class}
<1>0. n \in Nat /\ n > Len(text) /\ i \in 1 .. n
  OBVIOUS
<1>1. n \in S
  BY <1>0, QuoteIs DEF CharAt
<1>2. PICK j \in S : \A m \in S : j <= m
  <2>1. S \subseteq Nat /\ S # {}
    BY <1>0, <1>1
  <2> HIDE DEF S
  <2> QED
    BY <2>1, Least
<1>3. \A m \in i .. j - 1 : CharAt(text, m) \in class /\ m <= Len(text)
  BY <1>2
<1>4. IsRunEnd(j, text, i, class)
  BY <1>3 DEF IsRunEnd, CharAt
<1>5. IsRunEnd(RunEnd(text, i, class), text, i, class)
  BY <1>4 DEF IsRunEnd, RunEnd
<1>6. \A a, b : IsRunEnd(a, text, i, class) /\ IsRunEnd(b, text, i, class) => ~(a < b)
  <2> SUFFICES ASSUME NEW a, NEW b, IsRunEnd(a, text, i, class), IsRunEnd(b, text, i, class), a < b
               PROVE  FALSE
    OBVIOUS
  <2>1. a \in i .. b - 1 /\ a <= Len(text)
    BY DEF IsRunEnd
  <2> QED
    BY <2>1 DEF IsRunEnd, CharAt
<1>7. ASSUME NEW a, IsRunEnd(a, text, i, class) PROVE a = RunEnd(text, i, class)
  <2> DEFINE b == RunEnd(text, i, class)
  <2> HIDE DEF b
  <2>1. IsRunEnd(b, text, i, class)
    BY <1>5 DEF b
  <2>2. a \in Int /\ b \in Int
    BY <1>7, <2>1 DEF IsRunEnd
  <2>3. ~(a < b) /\ ~(b < a)
    BY <1>6, <1>7, <2>1
  <2>4. a = b
    BY <2>2, <2>3
  <2> QED
    BY <2>4 DEF b
<1> QED
  BY <1>5, <1>7

\* A part of a text is a text.
LEMMA PartIs ==
  ASSUME NEW S, NEW text \in Seq(S), NEW i \in 1 .. Len(text) + 1, NEW j \in i - 1 .. Len(text)
  PROVE  /\ SubSeq(text, i, j) \in Seq(S)
         /\ Len(SubSeq(text, i, j)) = j - i + 1
         /\ \A m \in 1 .. j - i + 1 : SubSeq(text, i, j)[m] = text[i + m - 1]
<1>1. i .. j \subseteq 1 .. Len(text)
  OBVIOUS
<1> QED
  BY <1>1, SubSeqProperties

-----------------------------------------------------------------------------
(* Lexemes.                                                                *)

\* The kinds of tokens, and all that may stand at a position.
Kinds   == {"symbol", "string", "integer", "word"}
Lexemes == [k : Kinds \cup Errors \cup {"blank"}, text : Texts, end : Nat]

\* A lexeme that is no error ends after it begins.
Fits(lexeme, text, i) ==
  /\ lexeme \in Lexemes
  /\ lexeme.k \notin Errors => lexeme.end \in i + 1 .. Len(text) + 1

\* An error is a lexeme.
LEMMA FailureFits ==
  ASSUME NEW k \in Errors, NEW text, NEW i PROVE Fits(Failure(k), text, i) /\ Failure(k).k = k
  BY DEF Fits, Failure, Lexeme, Lexemes, Texts

\* So is a token or white space that ends after it begins.
LEMMA LexemeFits ==
  ASSUME NEW k \in Kinds \cup {"blank"}, NEW read \in Texts, NEW text \in Texts,
         NEW i \in 1 .. Len(text), NEW end \in i + 1 .. Len(text) + 1
  PROVE  /\ Fits(Lexeme(k, read, end), text, i) /\ Lexeme(k, read, end).k = k
         /\ Lexeme(k, read, end).text = read /\ Lexeme(k, read, end).end = end
<1>1. end \in Nat /\ k \notin Errors
  BY DEF Kinds, Errors, Texts
<1> QED
  BY <1>1 DEF Fits, Lexeme, Lexemes

\* An operator takes two characters only where there are two.
LEMMA ComparisonFits ==
  ASSUME NEW text \in Texts, NEW i \in 1 .. Len(text), text[i] \in {"<", ">", "!"}
  PROVE  Fits(ComparisonAt(text, i), text, i)
<1> DEFINE op == Comparison(text, i)
<1>1. \/ op = <<text[i]>>
      \/ op = <<text[i], CharAt(text, i + 1)>> /\ CharAt(text, i + 1) \in {"=", ">"}
  BY DEF Comparison
<1>2. {"<", ">", "!", "="} \subseteq Characters
  BY DEF Characters, Singles
<1>3. CharAt(text, i + 1) \in {"=", ">"} => i + 2 \in i + 1 .. Len(text) + 1
  BY DEF CharAt, Texts
<1> HIDE DEF op
<1>4. op \in Texts /\ i + Len(op) \in i + 1 .. Len(text) + 1
  <2>1. CASE op = <<text[i]>>
    <3>1. op \in Seq(Characters) /\ Len(op) = 1
      BY <1>2, <2>1
    <3> QED
      BY <3>1 DEF Texts
  <2>2. CASE op = <<text[i], CharAt(text, i + 1)>> /\ CharAt(text, i + 1) \in {"=", ">"}
    <3>1. text[i] \in Characters /\ CharAt(text, i + 1) \in Characters
      BY <1>2, <2>2
    <3>2. op \in Seq(Characters) /\ Len(op) = 2
      BY <2>2, <3>1
    <3> QED
      BY <1>3, <2>2, <3>2 DEF Texts
  <2> QED
    BY <1>1, <2>1, <2>2 DEF op
<1>5. Fits(Lexeme("symbol", op, i + Len(op)), text, i)
  BY <1>4, LexemeFits DEF Kinds
<1> QED
  BY <1>5, FailureFits DEF ComparisonAt, op, Errors

\* Where a string literal ends.
LEMMA LiteralEnds ==
  ASSUME NEW text \in Texts
  PROVE  \A i \in 1 .. Len(text) + 1 :
           StringFrom(text, i).end = 0 \/ StringFrom(text, i).end \in i + 1 .. Len(text) + 1
<1> DEFINE n == Len(text) + 1
           G == {i \in 1 .. n : \/ Strings(text)[i].end = 0
                                \/ Strings(text)[i].end \in i + 1 .. n}
<1>0. n \in Nat /\ \A i \in 1 .. n : ~(i > Len(text)) => i + 1 \in 1 .. n
  BY DEF Texts
<1>1. ASSUME NEW i \in 1 .. n, \A j \in i + 1 .. n : j \in G PROVE i \in G
  <2> DEFINE L == Strings(text)
  <2>1. L[i] = LiteralFrom(text, i, L) /\ \A j \in 1 .. n : L[j] \in Literals
    BY StringsAre
  <2>2. CASE i > Len(text)
    BY <2>1, <2>2 DEF LiteralFrom
  <2>3. CASE i <= Len(text) /\ text[i] # "'"
    <3>1. text[i] \in Characters /\ i + 1 \in i + 1 .. n /\ i + 1 \in 1 .. n
      BY <1>0, <2>3 DEF Texts
    <3>2. L[i] = Says(text[i], L[i + 1])
      BY <2>1, <2>3 DEF LiteralFrom
    <3>3. L[i].end = L[i + 1].end
      BY <2>1, <3>1, <3>2, SaysIs
    <3> QED
      BY <1>1, <3>1, <3>3
  <2>4. CASE i <= Len(text) /\ text[i] = "'" /\ CharAt(text, i + 1) = "'"
    <3>1. i + 2 \in i + 1 .. n /\ i + 2 \in 1 .. n
      BY <1>0, <2>4 DEF CharAt
    <3>2. L[i] = Says("'", L[i + 2])
      BY <2>1, <2>4 DEF LiteralFrom
    <3>3. L[i].end = L[i + 2].end
      BY <2>1, <3>1, <3>2, SaysIs, QuoteIs
    <3> QED
      BY <1>1, <3>1, <3>3
  <2>5. CASE i <= Len(text) /\ text[i] = "'" /\ CharAt(text, i + 1) # "'"
    <3>1. L[i].end = i + 1
      BY <2>1, <2>5 DEF LiteralFrom
    <3> QED
      BY <1>0, <2>5, <3>1
  <2> QED
    BY <1>0, <2>2, <2>3, <2>4, <2>5
<1> HIDE DEF G, n
<1>2. \A i \in 1 .. n : i \in G
  BY <1>0, <1>1, Downwards
<1> QED
  BY <1>2 DEF G, n, StringFrom

\* A string literal ends after it begins, or is an error.
LEMMA StringFits ==
  ASSUME NEW text \in Texts, NEW i \in 1 .. Len(text)
  PROVE  Fits(StringAt(text, i), text, i)
<1> DEFINE literal == StringFrom(text, i + 1)
<1>1. i + 1 \in 1 .. Len(text) + 1
  BY DEF Texts
<1>2. literal.text \in Texts
  BY <1>1, StringsAre DEF StringFrom, Literals
<1>3. literal.end = 0 \/ literal.end \in i + 1 .. Len(text) + 1
  <2>1. literal.end = 0 \/ literal.end \in (i + 1) + 1 .. Len(text) + 1
    BY <1>1, LiteralEnds
  <2> HIDE DEF literal
  <2> QED
    BY <2>1
<1> HIDE DEF literal
<1>4. literal.end # 0 => Fits(Lexeme("string", literal.text, literal.end), text, i)
  BY <1>2, <1>3, LexemeFits DEF Kinds
<1> QED
  BY <1>4, FailureFits DEF StringAt, literal, Errors

\* A run of one of the lexer's classes that begins with one of its characters.
LEMMA RunFits ==
  ASSUME NEW text \in Texts, NEW i \in 1 .. Len(text),
         NEW class, class \subseteq Characters, text[i] \in class
  PROVE  /\ RunEnd(text, i, class) \in i + 1 .. Len(text) + 1
         /\ SubSeq(text, i, RunEnd(text, i, class) - 1) \in Texts
<1> DEFINE end == RunEnd(text, i, class)
<1>0. Len(text) \in Nat /\ i \in 1 .. Len(text) + 1
  BY DEF Texts
<1>1. IsRunEnd(end, text, i, class)
  BY <1>0, RunEndIs
<1> HIDE DEF end
<1>2. end \in i + 1 .. Len(text) + 1
  BY <1>0, <1>1 DEF IsRunEnd, CharAt
<1>3. end - 1 \in i - 1 .. Len(text)
  BY <1>0, <1>2
<1>4. SubSeq(text, i, end - 1) \in Texts
  BY <1>0, <1>3, PartIs DEF Texts
<1> QED
  BY <1>2, <1>4 DEF end

\* The classes of characters are classes of characters.
LEMMA ClassesAre ==
  /\ Digits \subseteq Characters /\ Letters \subseteq Characters
  /\ WhiteSpace \subseteq Characters /\ Singles \subseteq Characters
  /\ Letters \cup Digits \subseteq Characters /\ {"0"} \subseteq Digits
  BY DEF Characters, Digits

\* Digits without their leading zeros are a text.
LEMMA SignificantIs ==
  ASSUME NEW digits \in Texts PROVE Significant(digits) \in Texts
<1> DEFINE start == RunEnd(digits, 1, {"0"})
<1>0. Len(digits) \in Nat /\ 1 \in 1 .. Len(digits) + 1
  BY DEF Texts
<1>1. IsRunEnd(start, digits, 1, {"0"})
  BY <1>0, RunEndIs, ClassesAre
<1> HIDE DEF start
<1>2. start \in 1 .. Len(digits) + 1 /\ Len(digits) \in start - 1 .. Len(digits)
  BY <1>0, <1>1 DEF IsRunEnd
<1>3. SubSeq(digits, start, Len(digits)) \in Texts
  BY <1>2, PartIs DEF Texts
<1> QED
  BY <1>3 DEF Significant, start

\* An integer ends after it begins, or is an error.
LEMMA IntegerFits ==
  ASSUME NEW text \in Texts, NEW i \in 1 .. Len(text), text[i] \in Digits
  PROVE  Fits(IntegerAt(text, i), text, i)
<1> DEFINE end    == RunEnd(text, i, Digits)
           digits == Significant(SubSeq(text, i, end - 1))
<1>1. end \in i + 1 .. Len(text) + 1 /\ digits \in Texts
  BY RunFits, ClassesAre, SignificantIs
<1> HIDE DEF digits, end
<1>2. Fits(Lexeme("integer", digits, end), text, i)
  BY <1>1, LexemeFits DEF Kinds
<1> QED
  BY <1>2, FailureFits DEF IntegerAt, digits, end, Errors

\* A word ends after it begins.
LEMMA WordFits ==
  ASSUME NEW text \in Texts, NEW i \in 1 .. Len(text), text[i] \in Letters
  PROVE  Fits(WordAt(text, i), text, i)
<1> DEFINE end  == RunEnd(text, i, Letters \cup Digits)
           word == SubSeq(text, i, end - 1)
<1>1. end \in i + 1 .. Len(text) + 1 /\ word \in Texts
  BY RunFits, ClassesAre
<1> HIDE DEF word, end
<1>2. Fits(Lexeme("word", word, end), text, i)
  BY <1>1, LexemeFits DEF Kinds
<1> QED
  BY <1>2 DEF WordAt, word, end

\* At every position there is a lexeme, which is an error or ends later.
LEMMA LexemesFit ==
  ASSUME NEW text \in Texts, NEW i \in 1 .. Len(text)
  PROVE  Fits(LexemeAt(text, i), text, i)
<1>1. text[i] \in Characters /\ i + 1 \in i + 1 .. Len(text) + 1
  BY DEF Texts
<1>2. <<>> \in Texts /\ <<text[i]>> \in Texts
  BY <1>1 DEF Texts
<1>3. Fits(Lexeme("blank", <<>>, i + 1), text, i) /\ Fits(Lexeme("symbol", <<text[i]>>, i + 1), text, i)
  BY <1>1, <1>2, LexemeFits DEF Kinds
<1>4. Fits(Failure("UnexpectedChar"), text, i)
  BY FailureFits DEF Errors
<1>5. text[i] \in {"<", ">", "!"} => Fits(ComparisonAt(text, i), text, i)
  BY ComparisonFits
<1>6. Fits(StringAt(text, i), text, i)
  BY StringFits
<1>7. text[i] \in Digits => Fits(IntegerAt(text, i), text, i)
  BY IntegerFits
<1>8. text[i] \in Letters => Fits(WordAt(text, i), text, i)
  BY WordFits
<1> QED
  BY <1>3, <1>4, <1>5, <1>6, <1>7, <1>8 DEF LexemeAt

-----------------------------------------------------------------------------
(* The loop of lex.                                                        *)

\* Tokens, and what lex may return.
Tokens  == [k : Kinds, pos : Nat, text : Texts]
Results == [tokens : Seq(Tokens), error : {NoError} \cup [k : Errors, pos : Nat]]

\* A token before what was found is found as well.
LEMMA FindsIs ==
  ASSUME NEW token \in Tokens, NEW rest \in Results
  PROVE  /\ Finds(token, rest) \in Results
         /\ Finds(token, rest).tokens = <<token>> \o rest.tokens
         /\ Finds(token, rest).error = rest.error
<1>1. rest.tokens \in Seq(Tokens)
  BY DEF Results
<1>2. <<token>> \o rest.tokens \in Seq(Tokens)
  BY <1>1
<1>3. Finds(token, rest) = [tokens |-> <<token>> \o rest.tokens, error |-> rest.error]
  BY DEF Finds
<1> HIDE DEF Tokens
<1> QED
  BY <1>2, <1>3 DEF Results

\* What Lexing says of a position, given what it says of those after it.
LexedFrom(text, i, later) ==
  IF i > Len(text) THEN [tokens |-> <<>>, error |-> NoError]
  ELSE Turn(LexemeAt(text, i), i, later)

\* Nothing is a result.
LEMMA NothingIsRead == [tokens |-> <<>>, error |-> NoError] \in Results
<1>1. <<>> \in Seq(Tokens)
  OBVIOUS
<1> QED
  BY <1>1 DEF Results, NoError

\* The three ways a turn may go.
LEMMA TurnIs ==
  ASSUME NEW text \in Texts, NEW i \in 1 .. Len(text), NEW lexeme, Fits(lexeme, text, i),
         NEW later, \A j \in i + 1 .. Len(text) + 1 : later[j] \in Results
  PROVE  /\ Turn(lexeme, i, later) \in Results
         /\ lexeme.k \in Errors =>
              Turn(lexeme, i, later) = [tokens |-> <<>>, error |-> LexError(lexeme.k, i)]
         /\ lexeme.k \notin Errors => later[lexeme.end] \in Results
         /\ lexeme.k = "blank" => Turn(lexeme, i, later) = later[lexeme.end]
         /\ lexeme.k \notin Errors \cup {"blank"} =>
              /\ Token(lexeme.k, i, lexeme.text) \in Tokens
              /\ Turn(lexeme, i, later) = Finds(Token(lexeme.k, i, lexeme.text), later[lexeme.end])
<1>1. i \in Nat /\ lexeme.text \in Texts /\ lexeme.k \in Kinds \cup Errors \cup {"blank"}
  BY DEF Texts, Fits, Lexemes
<1>2. lexeme.k \notin Errors => later[lexeme.end] \in Results
  BY DEF Fits
<1>3. lexeme.k \notin Errors \cup {"blank"} => Token(lexeme.k, i, lexeme.text) \in Tokens
  BY <1>1 DEF Tokens, Token
<1>4. lexeme.k \in Errors => [tokens |-> <<>>, error |-> LexError(lexeme.k, i)] \in Results
  <2>1. <<>> \in Seq(Tokens)
    OBVIOUS
  <2> QED
    BY <1>1, <2>1 DEF Results, LexError
<1>5. lexeme.k \notin Errors \cup {"blank"} =>
        Finds(Token(lexeme.k, i, lexeme.text), later[lexeme.end]) \in Results
  BY <1>2, <1>3, FindsIs
<1>6. lexeme.k = "blank" => lexeme.k \notin Errors
  BY DEF Errors
<1> QED
  BY <1>2, <1>3, <1>4, <1>5, <1>6 DEF Turn

\* A turn of the loop has a result, if the turns after it have.
LEMMA LexedFromIs ==
  ASSUME NEW text \in Texts, NEW i \in 1 .. Len(text) + 1,
         NEW later, \A j \in i + 1 .. Len(text) + 1 : later[j] \in Results
  PROVE  LexedFrom(text, i, later) \in Results
<1>1. Len(text) \in Nat
  BY DEF Texts
<1>2. CASE i > Len(text)
  BY <1>2, NothingIsRead DEF LexedFrom
<1>3. CASE i \in 1 .. Len(text)
  <2>1. Fits(LexemeAt(text, i), text, i)
    BY <1>3, LexemesFit
  <2> QED
    BY <1>1, <1>3, <2>1, TurnIs DEF LexedFrom
<1> QED
  BY <1>1, <1>2, <1>3

\* A turn looks at what the turns after it find, and nowhere else.
LEMMA LexedFromLater ==
  ASSUME NEW text \in Texts, NEW i \in 1 .. Len(text) + 1, NEW one, NEW other,
         \A j \in i + 1 .. Len(text) + 1 : one[j] = other[j]
  PROVE  LexedFrom(text, i, one) = LexedFrom(text, i, other)
<1>1. Len(text) \in Nat
  BY DEF Texts
<1>2. CASE i > Len(text)
  BY <1>2 DEF LexedFrom
<1>3. CASE i \in 1 .. Len(text)
  <2> DEFINE lexeme == LexemeAt(text, i)
  <2>1. Fits(lexeme, text, i)
    BY <1>3, LexemesFit
  <2> HIDE DEF lexeme
  <2>2. lexeme.k \notin Errors => one[lexeme.end] = other[lexeme.end]
    BY <2>1 DEF Fits
  <2>3. Turn(lexeme, i, one) = Turn(lexeme, i, other)
    BY <2>2 DEF Turn
  <2> QED
    BY <1>1, <1>3, <2>3 DEF LexedFrom, lexeme
<1> QED
  BY <1>1, <1>2, <1>3

\* Lexing is what its definition says.
LEMMA LexingIs ==
  ASSUME NEW text \in Texts
  PROVE  \A i \in 1 .. Len(text) + 1 :
           /\ Lexing(text)[i] \in Results
           /\ Lexing(text)[i] = LexedFrom(text, i, Lexing(text))
<1> DEFINE n == Len(text) + 1
           Is(f) == f = [i \in 1 .. Len(text) + 1 |-> LexedFrom(text, i, f)]
           from == CHOOSE f : Is(f)
           U == UNION {[i + 1 .. n -> Results] : i \in 1 .. n}
           g == [p \in (1 .. n) \X U |-> LexedFrom(text, p[1], p[2])]
<1>1. n \in Nat
  BY DEF Texts
<1>2. Lexing(text) = from
  BY DEF Lexing, LexedFrom
<1>3. \A i \in 1 .. n : \A later \in [i + 1 .. n -> Results] :
        g[<<i, later>>] = LexedFrom(text, i, later) /\ g[<<i, later>>] \in Results
  <2> TAKE i \in 1 .. n
  <2> TAKE later \in [i + 1 .. n -> Results]
  <2>1. later \in U
    OBVIOUS
  <2>2. LexedFrom(text, i, later) \in Results
    BY LexedFromIs
  <2> HIDE DEF U
  <2> QED
    BY <2>1, <2>2
<1> HIDE DEF g, n
<1>4. PICK f \in [1 .. n -> Results] : IsBackwards(f, g, n)
  BY <1>1, <1>3, Backwards
<1>5. \A i \in 1 .. n : f[i] = LexedFrom(text, i, f)
  <2> TAKE i \in 1 .. n
  <2> DEFINE later == [j \in i + 1 .. n |-> f[j]]
  <2>1. \A j \in i + 1 .. n : j \in 1 .. n
    BY <1>1
  <2>2. later \in [i + 1 .. n -> Results]
    BY <2>1
  <2>3. f[i] = LexedFrom(text, i, later)
    BY <1>3, <1>4, <2>2 DEF IsBackwards
  <2>4. \A j \in i + 1 .. n : later[j] = f[j]
    OBVIOUS
  <2> HIDE DEF later
  <2>5. LexedFrom(text, i, later) = LexedFrom(text, i, f)
    BY <2>4, LexedFromLater DEF n
  <2> QED
    BY <2>3, <2>5
<1>6. Is(f)
  <2>1. f = [i \in 1 .. n |-> f[i]]
    BY <1>4
  <2> QED
    BY <1>5, <2>1 DEF n
<1>7. Is(from)
  BY <1>6
<1> HIDE DEF from
<1>8. \A i \in 1 .. n : from[i] = LexedFrom(text, i, from)
  BY <1>7 DEF n
<1> DEFINE G == {i \in 1 .. n : from[i] \in Results}
<1>9. ASSUME NEW i \in 1 .. n, \A j \in i + 1 .. n : j \in G PROVE i \in G
  <2>1. \A j \in i + 1 .. n : from[j] \in Results
    BY <1>9
  <2>2. LexedFrom(text, i, from) \in Results
    BY <2>1, LexedFromIs DEF n
  <2> QED
    BY <1>8, <2>2
<1> HIDE DEF G
<1>10. \A i \in 1 .. n : i \in G
  BY <1>1, <1>9, Downwards
<1> QED
  BY <1>2, <1>8, <1>10 DEF G, n

\* What is found from a position on, by what stands there.
LEMMA LexingFrom ==
  ASSUME NEW text \in Texts, NEW i \in 1 .. Len(text)
  PROVE  LET lexeme == LexemeAt(text, i)
             after  == Lexing(text)[lexeme.end]
         IN  /\ Fits(lexeme, text, i)
             /\ lexeme.k \in Errors =>
                  Lexing(text)[i] = [tokens |-> <<>>, error |-> LexError(lexeme.k, i)]
             /\ lexeme.k \notin Errors => after \in Results
             /\ lexeme.k = "blank" => Lexing(text)[i] = after
             /\ lexeme.k \notin Errors \cup {"blank"} =>
                  /\ Token(lexeme.k, i, lexeme.text) \in Tokens
                  /\ Lexing(text)[i] = Finds(Token(lexeme.k, i, lexeme.text), after)
<1> DEFINE lexeme == LexemeAt(text, i)
<1>1. i \in 1 .. Len(text) + 1 /\ ~(i > Len(text)) /\ \A j \in i + 1 .. Len(text) + 1 : j \in 1 .. Len(text) + 1
  BY DEF Texts
<1>2. Fits(lexeme, text, i)
  BY LexemesFit
<1>3. Lexing(text)[i] = Turn(lexeme, i, Lexing(text))
  BY <1>1, LexingIs DEF LexedFrom
<1>4. \A j \in i + 1 .. Len(text) + 1 : Lexing(text)[j] \in Results
  BY <1>1, LexingIs
<1> HIDE DEF lexeme
<1> QED
  BY <1>2, <1>3, <1>4, TurnIs DEF lexeme

\* After its last character a text has nothing.
LEMMA LexingAtEnd ==
  ASSUME NEW text \in Texts
  PROVE  Lexing(text)[Len(text) + 1] = [tokens |-> <<>>, error |-> NoError]
<1>1. Len(text) + 1 \in 1 .. Len(text) + 1 /\ Len(text) + 1 > Len(text)
  BY DEF Texts
<1> QED
  BY <1>1, LexingIs DEF LexedFrom

-----------------------------------------------------------------------------
(* What follows a text, read in place and read alone.                      *)

\* The characters of two texts, one after the other.
LEMMA JoinIs ==
  ASSUME NEW x \in Texts, NEW y \in Texts
  PROVE  /\ x \o y \in Texts /\ Len(x) \in Nat /\ Len(y) \in Nat
         /\ Len(x \o y) = Len(x) + Len(y)
         /\ \A i \in 1 .. Len(x) : (x \o y)[i] = x[i] /\ CharAt(x \o y, i) = CharAt(x, i)
         /\ \A i \in 1 .. Len(y) : (x \o y)[Len(x) + i] = y[i]
         /\ \A i \in Nat \ {0} : CharAt(x \o y, Len(x) + i) = CharAt(y, i)
<1>1. x \in Seq(Characters) /\ y \in Seq(Characters)
  BY DEF Texts
<1>2. /\ x \o y \in Seq(Characters) /\ Len(x \o y) = Len(x) + Len(y)
      /\ \A i \in 1 .. Len(x) + Len(y) :
           (x \o y)[i] = IF i <= Len(x) THEN x[i] ELSE y[i - Len(x)]
  BY <1>1, ConcatProperties
<1>3. Len(x) \in Nat /\ Len(y) \in Nat
  BY <1>1
<1> DEFINE t == x \o y
<1> HIDE DEF t
<1>4. \A i \in 1 .. Len(x) : t[i] = x[i] /\ CharAt(t, i) = CharAt(x, i)
  BY <1>2, <1>3 DEF t, CharAt
<1>5. \A i \in 1 .. Len(y) : t[Len(x) + i] = y[i]
  BY <1>2, <1>3 DEF t
<1>6. \A i \in Nat \ {0} : CharAt(t, Len(x) + i) = CharAt(y, i)
  BY <1>2, <1>3, <1>5 DEF t, CharAt
<1> QED
  BY <1>2, <1>3, <1>4, <1>5, <1>6 DEF t, Texts

\* A literal, further on by n.
MovedLiteral(literal, n) ==
  [end |-> IF literal.end = 0 THEN 0 ELSE literal.end + n, text |-> literal.text]

\* It says what it did, and still has an end or has none.
LEMMA MovedLiteralIs ==
  ASSUME NEW l, l.end \in Nat, NEW n \in Nat
  PROVE  /\ MovedLiteral(l, n).text = l.text
         /\ l.end # 0 => MovedLiteral(l, n).end = l.end + n
         /\ MovedLiteral(l, n).end = 0 <=> l.end = 0
  BY DEF MovedLiteral

\* Moving it and putting a character before it come to the same in either
\* order.
LEMMA MovedSays ==
  ASSUME NEW c \in Characters, NEW rest \in Literals, NEW n \in Nat
  PROVE  /\ MovedLiteral(rest, n) \in Literals
         /\ Says(c, MovedLiteral(rest, n)) = MovedLiteral(Says(c, rest), n)
<1>1. rest.end \in Nat /\ rest.text \in Texts
  BY DEF Literals
<1>2. MovedLiteral(rest, n) \in Literals
  BY <1>1 DEF MovedLiteral, Literals
<1>3. Says(c, rest) = [end |-> rest.end, text |-> <<c>> \o rest.text]
  BY SaysIs DEF Literals
<1>4. Says(c, MovedLiteral(rest, n)) =
        [end |-> MovedLiteral(rest, n).end, text |-> <<c>> \o MovedLiteral(rest, n).text]
  BY <1>2, SaysIs DEF Literals
<1> QED
  BY <1>2, <1>3, <1>4 DEF MovedLiteral

\* y is the end of t, after n characters.
Ends(t, n, y) ==
  /\ n \in Nat /\ Len(y) \in Nat /\ Len(t) = n + Len(y)
  /\ \A i \in 1 .. Len(y) : t[n + i] = y[i]
  /\ \A i \in Nat \ {0} : CharAt(t, n + i) = CharAt(y, i)

\* What is found at a position moves with what is found after it.
LEMMA LiteralMoved ==
  ASSUME NEW y \in Texts, NEW t, NEW n, Ends(t, n, y), NEW S, NEW R, NEW i \in 1 .. Len(y) + 1,
         \A j \in i + 1 .. Len(y) + 1 : R[j] \in Literals /\ S[n + j] = MovedLiteral(R[j], n)
  PROVE  LiteralFrom(t, n + i, S) = MovedLiteral(LiteralFrom(y, i, R), n)
<1>0. /\ n \in Nat /\ Len(y) \in Nat /\ Len(t) = n + Len(y)
  BY DEF Ends
<1>1. /\ i \in Nat \ {0} /\ i + 1 \in Nat \ {0}
      /\ (n + i) + 1 = n + (i + 1) /\ (n + i) + 2 = n + (i + 2) /\ n + (i + 1) = (i + 1) + n
      /\ n + i > Len(t) <=> i > Len(y)
  BY <1>0
<1>2. CharAt(t, (n + i) + 1) = CharAt(y, i + 1)
  BY <1>1 DEF Ends
<1>3. CASE i > Len(y)
  BY <1>1, <1>3 DEF LiteralFrom, MovedLiteral
<1>4. CASE ~(i > Len(y))
  <2>1. i \in 1 .. Len(y) /\ i + 1 \in i + 1 .. Len(y) + 1
    BY <1>0, <1>4
  <2>2. t[n + i] = y[i] /\ y[i] \in Characters
    BY <2>1 DEF Ends, Texts
  <2>3. CASE y[i] # "'"
    <3>1. R[i + 1] \in Literals /\ S[(n + i) + 1] = MovedLiteral(R[i + 1], n)
      BY <1>1, <2>1
    <3>2. LiteralFrom(t, n + i, S) = Says(y[i], S[(n + i) + 1])
      BY <1>1, <1>4, <2>2, <2>3 DEF LiteralFrom
    <3>3. LiteralFrom(y, i, R) = Says(y[i], R[i + 1])
      BY <1>4, <2>3 DEF LiteralFrom
    <3> QED
      BY <1>0, <2>2, <3>1, <3>2, <3>3, MovedSays
  <2>4. CASE y[i] = "'" /\ CharAt(y, i + 1) = "'"
    <3>1. i + 2 \in i + 1 .. Len(y) + 1
      BY <1>0, <2>1, <2>4 DEF CharAt
    <3>2. R[i + 2] \in Literals /\ S[(n + i) + 2] = MovedLiteral(R[i + 2], n)
      BY <1>1, <3>1
    <3>3. LiteralFrom(t, n + i, S) = Says("'", S[(n + i) + 2])
      BY <1>1, <1>2, <1>4, <2>2, <2>4 DEF LiteralFrom
    <3>4. LiteralFrom(y, i, R) = Says("'", R[i + 2])
      BY <1>4, <2>4 DEF LiteralFrom
    <3> QED
      BY <1>0, <3>2, <3>3, <3>4, MovedSays, QuoteIs
  <2>5. CASE y[i] = "'" /\ CharAt(y, i + 1) # "'"
    <3>1. LiteralFrom(t, n + i, S) = [end |-> (i + 1) + n, text |-> <<>>]
      BY <1>1, <1>2, <1>4, <2>2, <2>5 DEF LiteralFrom
    <3>2. LiteralFrom(y, i, R) = [end |-> i + 1, text |-> <<>>] /\ i + 1 # 0
      BY <1>1, <1>4, <2>5 DEF LiteralFrom
    <3> QED
      BY <3>1, <3>2 DEF MovedLiteral
  <2> QED
    BY <2>3, <2>4, <2>5
<1> QED
  BY <1>3, <1>4

\* String literals are found after another text as they are found alone.
LEMMA StringsMoved ==
  ASSUME NEW x \in Texts, NEW y \in Texts
  PROVE  \A i \in 1 .. Len(y) + 1 :
           Strings(x \o y)[Len(x) + i] = MovedLiteral(Strings(y)[i], Len(x))
<1> DEFINE t == x \o y
           n == Len(x)
           S == Strings(t)
           R == Strings(y)
<1>1. t \in Texts /\ Ends(t, n, y)
  BY JoinIs DEF Ends
<1>2. \A i \in 1 .. Len(y) + 1 : R[i] \in Literals /\ R[i] = LiteralFrom(y, i, R)
  BY StringsAre
<1>3. \A i \in 1 .. Len(t) + 1 : S[i] = LiteralFrom(t, i, S)
  BY <1>1, StringsAre
<1> HIDE DEF t, n, R, S
<1>4. n \in Nat /\ Len(y) \in Nat /\ \A i \in 1 .. Len(y) + 1 : n + i \in 1 .. Len(t) + 1
  BY <1>1 DEF Ends
<1> DEFINE G == {i \in 1 .. Len(y) + 1 : S[n + i] = MovedLiteral(R[i], n)}
<1>5. ASSUME NEW i \in 1 .. Len(y) + 1, \A j \in i + 1 .. Len(y) + 1 : j \in G PROVE i \in G
  <2>1. \A j \in i + 1 .. Len(y) + 1 : R[j] \in Literals /\ S[n + j] = MovedLiteral(R[j], n)
    BY <1>2, <1>5
  <2>2. LiteralFrom(t, n + i, S) = MovedLiteral(LiteralFrom(y, i, R), n)
    BY <1>1, <2>1, LiteralMoved
  <2> QED
    BY <1>2, <1>3, <1>4, <2>2
<1> HIDE DEF G
<1>6. \A i \in 1 .. Len(y) + 1 : i \in G
  <2> DEFINE m == Len(y) + 1
  <2>1. m \in Nat
    BY <1>4
  <2>2. ASSUME NEW i \in 1 .. m, \A j \in i + 1 .. m : j \in G PROVE i \in G
    BY <1>5, <2>2
  <2> HIDE DEF m
  <2>3. \A i \in 1 .. m : i \in G
    BY <2>1, <2>2, Downwards
  <2> QED
    BY <2>3 DEF m
<1> QED
  BY <1>6 DEF G, n, t, R, S

\* So are the ends of runs.
LEMMA RunEndMoved ==
  ASSUME NEW x \in Texts, NEW y \in Texts, NEW i \in 1 .. Len(y) + 1,
         NEW class, class \subseteq Characters
  PROVE  /\ RunEnd(y, i, class) \in i .. Len(y) + 1
         /\ RunEnd(x \o y, Len(x) + i, class) = Len(x) + RunEnd(y, i, class)
<1> DEFINE t == x \o y
           n == Len(x)
           e == RunEnd(y, i, class)
<1>1. /\ t \in Texts /\ n \in Nat /\ Len(t) = n + Len(y) /\ Len(y) \in Nat
      /\ \A j \in 1 .. Len(y) : t[n + j] = y[j]
      /\ \A j \in Nat \ {0} : CharAt(t, n + j) = CharAt(y, j)
  BY JoinIs
<1>2. IsRunEnd(e, y, i, class)
  BY <1>1, RunEndIs
<1> HIDE DEF t, n, e
<1>3. e \in i .. Len(y) + 1 /\ e \in Nat \ {0} /\ CharAt(y, e) \notin class
  BY <1>1, <1>2 DEF IsRunEnd
<1>4. \A j \in n + i .. (n + e) - 1 : j - n \in i .. e - 1 /\ j - n \in 1 .. Len(y) /\ n + (j - n) = j
  BY <1>1, <1>3
<1>5. \A j \in n + i .. (n + e) - 1 : t[j] \in class
  <2> TAKE j \in n + i .. (n + e) - 1
  <2> DEFINE k == j - n
  <2>1. k \in i .. e - 1 /\ k \in 1 .. Len(y) /\ n + k = j
    BY <1>4
  <2> HIDE DEF k
  <2> QED
    BY <1>1, <1>2, <2>1 DEF IsRunEnd
<1>6. n + e \in n + i .. Len(t) + 1 /\ CharAt(t, n + e) \notin class
  BY <1>1, <1>3
<1>7. IsRunEnd(n + e, t, n + i, class)
  BY <1>5, <1>6 DEF IsRunEnd
<1>8. n + i \in 1 .. Len(t) + 1 /\ Len(t) \in Nat
  BY <1>1
<1>9. n + e = RunEnd(t, n + i, class)
  BY <1>7, <1>8, RunEndIs
<1> QED
  BY <1>3, <1>9 DEF t, n, e

\* So are parts.
LEMMA PartMoved ==
  ASSUME NEW x \in Texts, NEW y \in Texts, NEW i \in 1 .. Len(y) + 1, NEW e \in i .. Len(y) + 1
  PROVE  SubSeq(x \o y, Len(x) + i, Len(x) + e - 1) = SubSeq(y, i, e - 1)
<1> DEFINE t == x \o y
           n == Len(x)
           a == SubSeq(t, n + i, n + e - 1)
           b == SubSeq(y, i, e - 1)
<1>1. /\ t \in Seq(Characters) /\ y \in Seq(Characters) /\ n \in Nat /\ Len(t) = n + Len(y) /\ Len(y) \in Nat
      /\ \A j \in 1 .. Len(y) : t[n + j] = y[j]
  BY JoinIs DEF Texts
<1> HIDE DEF t, n
<1>2. /\ n + i \in 1 .. Len(t) + 1 /\ n + e - 1 \in n + i - 1 .. Len(t) /\ e - 1 \in i - 1 .. Len(y)
      /\ (n + e - 1) - (n + i) + 1 = e - i /\ (e - 1) - i + 1 = e - i
  BY <1>1
<1>3. /\ a \in Seq(Characters) /\ Len(a) = e - i
      /\ \A j \in 1 .. e - i : a[j] = t[n + i + j - 1]
  BY <1>1, <1>2, PartIs
<1>4. /\ b \in Seq(Characters) /\ Len(b) = e - i
      /\ \A j \in 1 .. e - i : b[j] = y[i + j - 1]
  BY <1>1, <1>2, PartIs
<1> HIDE DEF a, b
<1>5. \A j \in 1 .. e - i : a[j] = b[j]
  <2> TAKE j \in 1 .. e - i
  <2>1. n + i + j - 1 = n + (i + j - 1) /\ i + j - 1 \in 1 .. Len(y)
    BY <1>1
  <2> QED
    BY <1>1, <1>3, <1>4, <2>1
<1>6. a = b
  BY <1>3, <1>4, <1>5, SeqEqual
<1> QED
  BY <1>6 DEF a, b, t, n

\* A lexeme, further on by n.
MovedLexeme(l, n) ==
  [k |-> l.k, text |-> l.text, end |-> IF l.k \in Errors THEN l.end ELSE l.end + n]

\* A moved lexeme has another end, a moved error is the same.
LEMMA MovedLexemeIs ==
  ASSUME NEW n, NEW text, NEW end
  PROVE  /\ \A k \in Kinds \cup {"blank"} :
              MovedLexeme(Lexeme(k, text, end), n) = Lexeme(k, text, end + n)
         /\ \A k \in Errors : MovedLexeme(Failure(k), n) = Failure(k)
<1>1. \A k \in Kinds \cup {"blank"} : k \notin Errors
  BY DEF Kinds, Errors
<1> QED
  BY <1>1 DEF MovedLexeme, Lexeme, Failure

\* Lexemes are found after another text as they are found alone.
LEMMA LexemesMoved ==
  ASSUME NEW x \in Texts, NEW y \in Texts, NEW i \in 1 .. Len(y)
  PROVE  LexemeAt(x \o y, Len(x) + i) = MovedLexeme(LexemeAt(y, i), Len(x))
<1> DEFINE t == x \o y
           n == Len(x)
<1>0. /\ t \in Texts /\ n \in Nat /\ Len(t) = n + Len(y) /\ Len(y) \in Nat
      /\ \A j \in 1 .. Len(y) : t[n + j] = y[j]
      /\ \A j \in Nat \ {0} : CharAt(t, n + j) = CharAt(y, j)
  BY JoinIs
<1>1. t[n + i] = y[i] /\ i \in 1 .. Len(y) + 1 /\ n \in Nat /\ i \in Nat
  <2> HIDE DEF t, n
  <2> QED
    BY <1>0
<1>2. /\ n + i + 1 = n + (i + 1) /\ i + 1 + n = n + (i + 1) /\ i + 1 \in 1 .. Len(y) + 1
      /\ CharAt(t, n + i + 1) = CharAt(y, i + 1)
  <2>1. n + i + 1 = n + (i + 1) /\ i + 1 + n = n + (i + 1) /\ i + 1 \in 1 .. Len(y) + 1 /\ i + 1 \in Nat \ {0}
    <3> HIDE DEF t, n
    <3> QED
      BY <1>0, <1>1
  <2> QED
    BY <1>0, <2>1
<1>3. StringFrom(t, n + (i + 1)) = MovedLiteral(StringFrom(y, i + 1), n)
  BY <1>2, StringsMoved DEF StringFrom
<1>4. \A class \in SUBSET Characters :
        /\ RunEnd(y, i, class) \in i .. Len(y) + 1
        /\ RunEnd(t, n + i, class) = n + RunEnd(y, i, class)
        /\ SubSeq(t, n + i, n + RunEnd(y, i, class) - 1) = SubSeq(y, i, RunEnd(y, i, class) - 1)
  <2> TAKE class \in SUBSET Characters
  <2>1. /\ RunEnd(y, i, class) \in i .. Len(y) + 1
        /\ RunEnd(t, n + i, class) = n + RunEnd(y, i, class)
    BY <1>1, RunEndMoved
  <2> QED
    BY <1>1, <2>1, PartMoved
<1> HIDE DEF t, n
<1>5. ComparisonAt(t, n + i) = MovedLexeme(ComparisonAt(y, i), n)
  <2> DEFINE op == Comparison(y, i)
  <2>1. Comparison(t, n + i) = op
    BY <1>1, <1>2, Zenon DEF Comparison
  <2>2. Len(op) \in Nat
    BY DEF Comparison
  <2> HIDE DEF op
  <2>3. n + i + Len(op) = i + Len(op) + n
    BY <1>1, <2>2
  <2>4. MovedLexeme(Lexeme("symbol", op, i + Len(op)), n) = Lexeme("symbol", op, i + Len(op) + n)
    BY MovedLexemeIs DEF Kinds
  <2>5. MovedLexeme(Failure("UnexpectedChar"), n) = Failure("UnexpectedChar")
    BY MovedLexemeIs DEF Errors
  <2> QED
    BY <2>1, <2>3, <2>4, <2>5 DEF ComparisonAt, op
<1>6. StringAt(t, n + i) = MovedLexeme(StringAt(y, i), n)
  <2> DEFINE literal == StringFrom(y, i + 1)
  <2>1. literal.end \in Nat
    BY <1>2, StringsAre DEF StringFrom, Literals
  <2> HIDE DEF literal
  <2>2. StringFrom(t, n + i + 1) = MovedLiteral(literal, n)
    BY <1>2, <1>3 DEF literal
  <2>3. /\ MovedLiteral(literal, n).text = literal.text
        /\ literal.end # 0 => MovedLiteral(literal, n).end = literal.end + n
        /\ MovedLiteral(literal, n).end = 0 <=> literal.end = 0
    BY <1>1, <2>1, MovedLiteralIs
  <2>4. MovedLexeme(Lexeme("string", literal.text, literal.end), n) = Lexeme("string", literal.text, literal.end + n)
    BY MovedLexemeIs DEF Kinds
  <2>5. MovedLexeme(Failure("UnterminatedString"), n) = Failure("UnterminatedString")
    BY MovedLexemeIs DEF Errors
  <2> QED
    BY <2>2, <2>3, <2>4, <2>5 DEF StringAt, literal
<1>7. IntegerAt(t, n + i) = MovedLexeme(IntegerAt(y, i), n)
  <2> DEFINE end    == RunEnd(y, i, Digits)
             digits == Significant(SubSeq(y, i, end - 1))
  <2>1. /\ RunEnd(t, n + i, Digits) = n + end /\ n + end = end + n /\ end \in Nat
        /\ SubSeq(t, n + i, n + end - 1) = SubSeq(y, i, end - 1)
    <3>1. end \in i .. Len(y) + 1 /\ RunEnd(t, n + i, Digits) = n + end
          /\ SubSeq(t, n + i, n + end - 1) = SubSeq(y, i, end - 1)
      BY <1>4, ClassesAre
    <3> HIDE DEF end
    <3> QED
      BY <1>1, <3>1
  <2>2. Significant(SubSeq(t, n + i, n + end - 1)) = digits
    BY <2>1
  <2> HIDE DEF digits, end
  <2>4. MovedLexeme(Lexeme("integer", digits, end), n) = Lexeme("integer", digits, end + n)
    BY MovedLexemeIs DEF Kinds
  <2>5. MovedLexeme(Failure("IntegerOutOfRange"), n) = Failure("IntegerOutOfRange")
    BY MovedLexemeIs DEF Errors
  <2>6. IntegerAt(y, i) = IF Len(digits) > MaxDigits THEN Failure("IntegerOutOfRange")
                          ELSE Lexeme("integer", digits, end)
    BY DEF IntegerAt, digits, end
  <2>7. IntegerAt(t, n + i) = IF Len(digits) > MaxDigits THEN Failure("IntegerOutOfRange")
                              ELSE Lexeme("integer", digits, end + n)
    <3> DEFINE e == RunEnd(t, n + i, Digits)
    <3>1. Significant(SubSeq(t, n + i, e - 1)) = digits /\ e = end + n
      BY <1>1, <2>1, <2>2
    <3> HIDE DEF e
    <3>2. IntegerAt(t, n + i) = IF Len(Significant(SubSeq(t, n + i, e - 1))) > MaxDigits
                                THEN Failure("IntegerOutOfRange")
                                ELSE Lexeme("integer", Significant(SubSeq(t, n + i, e - 1)), e)
      BY DEF IntegerAt, e
    <3> QED
      BY <3>1, <3>2
  <2> QED
    BY <2>4, <2>5, <2>6, <2>7
<1>8. WordAt(t, n + i) = MovedLexeme(WordAt(y, i), n)
  <2> DEFINE class == Letters \cup Digits
             end   == RunEnd(y, i, class)
             word  == SubSeq(y, i, end - 1)
             e     == RunEnd(t, n + i, class)
  <2>1. WordAt(y, i) = Lexeme("word", word, end) /\ WordAt(t, n + i) = Lexeme("word", SubSeq(t, n + i, e - 1), e)
    BY DEF WordAt
  <2>2. class \in SUBSET Characters
    BY ClassesAre
  <2> HIDE DEF class
  <2>3. end \in i .. Len(y) + 1 /\ e = n + end /\ SubSeq(t, n + i, n + end - 1) = word
    BY <1>4, <2>2
  <2> HIDE DEF end, word, e
  <2>4. e = end + n /\ SubSeq(t, n + i, e - 1) = word
    BY <1>1, <2>3
  <2>5. MovedLexeme(Lexeme("word", word, end), n) = Lexeme("word", word, end + n)
    BY MovedLexemeIs DEF Kinds
  <2> QED
    BY <2>1, <2>4, <2>5
<1>9. /\ Lexeme("blank", <<>>, n + i + 1) = MovedLexeme(Lexeme("blank", <<>>, i + 1), n)
      /\ Lexeme("symbol", <<y[i]>>, n + i + 1) = MovedLexeme(Lexeme("symbol", <<y[i]>>, i + 1), n)
      /\ Failure("UnexpectedChar") = MovedLexeme(Failure("UnexpectedChar"), n)
  BY <1>2, MovedLexemeIs DEF Kinds, Errors
<1>10. LexemeAt(t, n + i) = MovedLexeme(LexemeAt(y, i), n)
  BY <1>1, <1>5, <1>6, <1>7, <1>8, <1>9 DEF LexemeAt
<1> QED
  BY <1>10 DEF t, n

\* Shifted tokens are tokens with other positions.
LEMMA ShiftedIs ==
  ASSUME NEW tokens \in Seq(Tokens), NEW n \in Nat
  PROVE  /\ Shifted(tokens, n) \in Seq(Tokens) /\ Len(Shifted(tokens, n)) = Len(tokens)
         /\ \A i \in 1 .. Len(tokens) :
              /\ tokens[i] \in Tokens
              /\ Shifted(tokens, n)[i] = Token(tokens[i].k, tokens[i].pos + n, tokens[i].text)
<1> DEFINE len == Len(tokens)
<1>1. len \in Nat /\ DOMAIN tokens = 1 .. len
  BY LenProperties
<1>2. \A i \in 1 .. len : tokens[i] \in Tokens
  BY ElementOfSeq
<1> DEFINE Moved(i) == [tokens[i] EXCEPT !.pos = @ + n]
<1>3. \A i \in 1 .. len : Moved(i) = Token(tokens[i].k, tokens[i].pos + n, tokens[i].text) /\ Moved(i) \in Tokens
  <2> TAKE i \in 1 .. len
  <2> DEFINE token == tokens[i]
  <2>1. token \in Tokens
    BY <1>2
  <2> HIDE DEF token
  <2>2. [token EXCEPT !.pos = @ + n] = Token(token.k, token.pos + n, token.text)
    BY <2>1 DEF Tokens, Token
  <2>3. Token(token.k, token.pos + n, token.text) \in Tokens
    BY <2>1 DEF Tokens, Token
  <2> QED
    BY <2>2, <2>3 DEF token
<1>4. Shifted(tokens, n) = [i \in 1 .. len |-> Moved(i)]
  BY <1>1 DEF Shifted
<1> HIDE DEF Moved, len
<1>5. Shifted(tokens, n) \in [1 .. len -> Tokens]
  BY <1>3, <1>4
<1>6. Shifted(tokens, n) \in Seq(Tokens)
  BY <1>1, <1>5, SeqDef
<1>7. Len(Shifted(tokens, n)) = len
  BY <1>1, <1>4, <1>6, LenProperties
<1> QED
  BY <1>2, <1>3, <1>4, <1>6, <1>7 DEF len

\* Tokens can be shifted before or after they are put together.
LEMMA ShiftedJoin ==
  ASSUME NEW first \in Seq(Tokens), NEW second \in Seq(Tokens), NEW n \in Nat
  PROVE  Shifted(first \o second, n) = Shifted(first, n) \o Shifted(second, n)
<1> DEFINE a == Len(first)
           b == Len(second)
           s == first \o second
           l == Shifted(s, n)
           u == Shifted(first, n)
           v == Shifted(second, n)
           r == u \o v
<1>1. a \in Nat /\ b \in Nat
  OBVIOUS
<1>2. s \in Seq(Tokens) /\ Len(s) = a + b /\ \A i \in 1 .. a + b : s[i] = IF i <= a THEN first[i] ELSE second[i - a]
  BY ConcatProperties
<1>3. /\ u \in Seq(Tokens) /\ Len(u) = a
      /\ \A i \in 1 .. a : u[i] = Token(first[i].k, first[i].pos + n, first[i].text)
      /\ v \in Seq(Tokens) /\ Len(v) = b
      /\ \A i \in 1 .. b : v[i] = Token(second[i].k, second[i].pos + n, second[i].text)
  BY ShiftedIs
<1>4. /\ l \in Seq(Tokens) /\ Len(l) = a + b
      /\ \A i \in 1 .. a + b : l[i] = Token(s[i].k, s[i].pos + n, s[i].text)
  <2> HIDE DEF s
  <2> QED
    BY <1>2, ShiftedIs
<1>5. /\ r \in Seq(Tokens) /\ Len(r) = a + b
      /\ \A i \in 1 .. a + b : r[i] = IF i <= a THEN u[i] ELSE v[i - a]
  <2> HIDE DEF u, v, a, b
  <2> QED
    BY <1>3, ConcatProperties
<1> HIDE DEF a, b, s, l, u, v, r
<1>6. \A i \in 1 .. a + b : l[i] = r[i]
  <2> TAKE i \in 1 .. a + b
  <2>1. CASE i <= a
    <3>1. i \in 1 .. a
      BY <1>1, <2>1
    <3>2. s[i] = first[i] /\ r[i] = u[i]
      BY <1>2, <1>5, <2>1
    <3>3. u[i] = Token(first[i].k, first[i].pos + n, first[i].text)
      BY <1>3, <3>1
    <3>4. l[i] = Token(s[i].k, s[i].pos + n, s[i].text)
      BY <1>4
    <3> QED
      BY <3>2, <3>3, <3>4
  <2>2. CASE ~(i <= a)
    <3>1. i - a \in 1 .. b
      BY <1>1, <2>2
    <3> QED
      BY <1>2, <1>3, <1>4, <1>5, <2>2, <3>1
  <2> QED
    BY <2>1, <2>2
<1>7. l = r
  BY <1>4, <1>5, <1>6, SeqEqual
<1> QED
  BY <1>7 DEF l, r, s, u, v

\* An error, further on by n.
MovedError(error, n) == IF error = NoError THEN NoError ELSE LexError(error.k, error.pos + n)

\* What was read, further on by n.
MovedResult(r, n) == [tokens |-> Shifted(r.tokens, n), error |-> MovedError(r.error, n)]

\* A result has an error of its kinds, or none.
LEMMA ErrorsAre ==
  ASSUME NEW r \in Results
  PROVE  /\ r.error.k = "none" <=> r.error = NoError
         /\ r.error # NoError => r.error.k \in Errors
         /\ r.tokens \in Seq(Tokens) /\ r = [tokens |-> r.tokens, error |-> r.error]
<1>1. r.error = NoError \/ r.error \in [k : Errors, pos : Nat]
  BY DEF Results
<1>2. r.error \in [k : Errors, pos : Nat] => r.error.k \in Errors
  OBVIOUS
<1>3. "none" \notin Errors
  BY DEF Errors
<1>4. NoError.k = "none"
  BY DEF NoError
<1>5. r.tokens \in Seq(Tokens) /\ r = [tokens |-> r.tokens, error |-> r.error]
  BY DEF Results
<1> QED
  BY <1>1, <1>2, <1>3, <1>4, <1>5

\* A moved result is a result, with the same kind of error.
LEMMA MovedResultIs ==
  ASSUME NEW r \in Results, NEW n \in Nat
  PROVE  MovedResult(r, n) \in Results /\ MovedResult(r, n).error.k = r.error.k
<1>1. Shifted(r.tokens, n) \in Seq(Tokens)
  BY ErrorsAre, ShiftedIs
<1>2. r.error = NoError \/ r.error \in [k : Errors, pos : Nat]
  BY DEF Results
<1>3. MovedError(r.error, n) \in {NoError} \cup [k : Errors, pos : Nat]
  BY <1>2 DEF MovedError, LexError
<1>4. MovedError(r.error, n).k = r.error.k
  BY DEF MovedError, LexError
<1> QED
  BY <1>1, <1>3, <1>4 DEF MovedResult, Results

\* After i, up to m, what S finds is what R finds, further on by n.
Moves(R, S, i, m, n) == \A j \in i + 1 .. m : R[j] \in Results /\ S[n + j] = MovedResult(R[j], n)

\* A turn of the loop moves with the turns after it.
LEMMA TurnMoved ==
  ASSUME NEW y \in Texts, NEW n \in Nat, NEW i \in 1 .. Len(y), NEW l, Fits(l, y, i), NEW S, NEW R,
         Moves(R, S, i, Len(y) + 1, n)
  PROVE  Turn(MovedLexeme(l, n), n + i, S) = MovedResult(Turn(l, i, R), n)
<1>0. i \in Nat /\ n + i = i + n /\ l.k \in Kinds \cup Errors \cup {"blank"} /\ l.text \in Texts
  BY DEF Fits, Lexemes, Texts
<1>1. MovedLexeme(l, n).k = l.k /\ MovedLexeme(l, n).text = l.text
  BY DEF MovedLexeme
<1>2. CASE l.k \in Errors
  <2>1. Turn(MovedLexeme(l, n), n + i, S) = [tokens |-> <<>>, error |-> LexError(l.k, n + i)]
    BY <1>1, <1>2 DEF Turn
  <2>2. Turn(l, i, R) = [tokens |-> <<>>, error |-> LexError(l.k, i)]
    BY <1>2 DEF Turn
  <2>3. Shifted(<<>>, n) = <<>>
    <3>1. <<>> \in Seq(Tokens) /\ Len(<<>>) = 0
      OBVIOUS
    <3>2. Shifted(<<>>, n) \in Seq(Tokens) /\ Len(Shifted(<<>>, n)) = 0
      BY <3>1, ShiftedIs
    <3> QED
      BY <3>2
  <2>4. LexError(l.k, i) # NoError
    BY <1>2 DEF LexError, NoError, Errors
  <2>5. MovedError(LexError(l.k, i), n) = LexError(l.k, n + i)
    BY <1>0, <2>4 DEF MovedError, LexError
  <2> QED
    BY <2>1, <2>2, <2>3, <2>5 DEF MovedResult
<1>3. CASE l.k \notin Errors
  <2>1. l.end \in i + 1 .. Len(y) + 1 /\ l.end \in Nat
    BY <1>3 DEF Fits, Lexemes
  <2>2. R[l.end] \in Results /\ S[n + l.end] = MovedResult(R[l.end], n)
    BY <2>1 DEF Moves
  <2>3. MovedLexeme(l, n).end = n + l.end
    BY <1>3, <2>1 DEF MovedLexeme
  <2>4. CASE l.k = "blank"
    BY <1>1, <1>3, <2>2, <2>3, <2>4 DEF Turn
  <2>5. CASE l.k # "blank"
    <3> DEFINE token == Token(l.k, i, l.text)
               moved == Token(l.k, n + i, l.text)
               rest  == R[l.end]
    <3>1. Turn(l, i, R) = Finds(token, rest)
      BY <1>3, <2>5 DEF Turn
    <3>2. Turn(MovedLexeme(l, n), n + i, S) = Finds(moved, MovedResult(rest, n))
      BY <1>1, <1>3, <2>2, <2>3, <2>5 DEF Turn
    <3>3. token \in Tokens /\ moved \in Tokens
      BY <1>0, <1>3, <2>5 DEF Tokens, Token
    <3>4. <<token>> \in Seq(Tokens) /\ rest.tokens \in Seq(Tokens)
      BY <2>2, <3>3, ErrorsAre
    <3>5. Shifted(<<token>>, n) = <<moved>>
      <4>1. token.k = l.k /\ token.pos + n = n + i /\ token.text = l.text
        BY <1>0 DEF Token
      <4> HIDE DEF token, moved
      <4> DEFINE one == <<token>>
      <4>2. Len(one) = 1 /\ one[1] = token /\ one \in Seq(Tokens)
        BY <3>4
      <4> HIDE DEF one
      <4>3. 1 \in 1 .. Len(one)
        BY <4>2
      <4>4. /\ Shifted(one, n) \in Seq(Tokens) /\ Len(Shifted(one, n)) = 1
            /\ Shifted(one, n)[1] = Token(token.k, token.pos + n, token.text)
        BY <4>2, <4>3, ShiftedIs
      <4>5. Shifted(one, n)[1] = moved
        BY <4>1, <4>4 DEF moved
      <4> QED
        BY <4>4, <4>5 DEF one
    <3> HIDE DEF token, moved, rest
    <3>6. Shifted(<<token>> \o rest.tokens, n) = <<moved>> \o Shifted(rest.tokens, n)
      BY <3>4, <3>5, ShiftedJoin
    <3>7. MovedResult(Finds(token, rest), n) = Finds(moved, MovedResult(rest, n))
      BY <3>6 DEF MovedResult, Finds
    <3> QED
      BY <3>1, <3>2, <3>7
  <2> QED
    BY <2>4, <2>5
<1> QED
  BY <1>2, <1>3

\* What follows a text is read in place as it is read alone.
LEMMA LexingMoved ==
  ASSUME NEW x \in Texts, NEW y \in Texts
  PROVE  \A i \in 1 .. Len(y) + 1 :
           Lexing(x \o y)[Len(x) + i] = MovedResult(Lexing(y)[i], Len(x))
<1> DEFINE t == x \o y
           n == Len(x)
           m == Len(y) + 1
           S == Lexing(t)
           R == Lexing(y)
           G == {i \in 1 .. m : S[n + i] = MovedResult(R[i], n)}
<1>1. t \in Texts /\ Ends(t, n, y)
  BY JoinIs DEF Ends
<1>2. \A i \in 1 .. m : R[i] \in Results /\ R[i] = LexedFrom(y, i, R)
  BY LexingIs
<1>3. \A i \in 1 .. Len(t) + 1 : S[i] = LexedFrom(t, i, S)
  <2> HIDE DEF t
  <2> QED
    BY <1>1, LexingIs
<1>4. \A i \in 1 .. Len(y) : LexemeAt(t, n + i) = MovedLexeme(LexemeAt(y, i), n)
  BY LexemesMoved
<1>5. R[m] = [tokens |-> <<>>, error |-> NoError]
  BY LexingAtEnd
<1>6. S[Len(t) + 1] = [tokens |-> <<>>, error |-> NoError]
  <2> HIDE DEF t
  <2> QED
    BY <1>1, LexingAtEnd
<1> HIDE DEF t, n, R, S
<1>7. n \in Nat /\ Len(y) \in Nat /\ m \in Nat /\ Len(t) = n + Len(y) /\ n + m = Len(t) + 1
  BY <1>1 DEF Ends
<1>8. ASSUME NEW i \in 1 .. m, \A j \in i + 1 .. m : j \in G PROVE i \in G
  <2>1. CASE i = m
    <3>1. Shifted(<<>>, n) = <<>>
      <4>1. <<>> \in Seq(Tokens) /\ Len(<<>>) = 0
        OBVIOUS
      <4>2. Shifted(<<>>, n) \in Seq(Tokens) /\ Len(Shifted(<<>>, n)) = 0
        BY <1>7, <4>1, ShiftedIs
      <4> QED
        BY <4>2
    <3>2. S[n + m] = [tokens |-> <<>>, error |-> NoError]
      BY <1>6, <1>7
    <3>3. MovedResult(R[m], n) = [tokens |-> <<>>, error |-> NoError]
      BY <1>5, <3>1 DEF MovedResult, MovedError
    <3> HIDE DEF m
    <3> QED
      BY <2>1, <3>2, <3>3
  <2>2. CASE i # m
    <3>1. i \in 1 .. Len(y) /\ n + i \in 1 .. Len(t) + 1 /\ ~(i > Len(y)) /\ ~(n + i > Len(t))
      BY <1>7, <2>2
    <3>2. Moves(R, S, i, Len(y) + 1, n)
      BY <1>2, <1>8 DEF Moves
    <3> DEFINE l == LexemeAt(y, i)
    <3>3. Fits(l, y, i)
      BY <3>1, LexemesFit
    <3>4. S[n + i] = Turn(MovedLexeme(l, n), n + i, S)
      BY <1>3, <1>4, <3>1 DEF LexedFrom
    <3>5. R[i] = Turn(l, i, R)
      BY <1>2, <3>1 DEF LexedFrom
    <3> HIDE DEF l, G, m
    <3>6. Turn(MovedLexeme(l, n), n + i, S) = MovedResult(Turn(l, i, R), n)
      BY <1>7, <3>1, <3>2, <3>3, TurnMoved
    <3> QED
      BY <3>4, <3>5, <3>6 DEF G
  <2> QED
    BY <2>1, <2>2
<1> HIDE DEF G, m
<1>9. \A i \in 1 .. m : i \in G
  BY <1>7, <1>8, Downwards
<1> QED
  BY <1>9 DEF G, m, n, t, R, S

-----------------------------------------------------------------------------
(* A text that ends before or after white space or a semicolon is read as  *)
(* it is in all of the text, unless it ends in a string literal.           *)

\* The characters that no token but a string literal has beside others.
Separators == {" ", "nl", ";"}

\* x is the beginning of t, up to where one of them is.
Begins(x, t) ==
  /\ Len(x) \in Nat /\ Len(t) \in Nat /\ Len(x) <= Len(t)
  /\ \A i \in 1 .. Len(x) : t[i] = x[i]
  /\ Len(x) > 0 /\ x[Len(x)] \notin Separators => CharAt(t, Len(x) + 1) \in Separators \cup {"end"}

\* The next character in the beginning of a text is the next one in the text.
LEMMA NextIs ==
  ASSUME NEW x, NEW t, Begins(x, t), NEW i \in 1 .. Len(x)
  PROVE  /\ t[i] = x[i] /\ i <= Len(x) /\ i <= Len(t)
         /\ i < Len(x) => CharAt(t, i + 1) = CharAt(x, i + 1) /\ CharAt(x, i + 1) = x[i + 1]
         /\ i = Len(x) => CharAt(x, i + 1) = "end"
         /\ i = Len(x) /\ x[i] \notin Separators => CharAt(t, i + 1) \in Separators \cup {"end"}
<1>1. Len(x) \in Nat /\ Len(t) \in Nat /\ Len(x) <= Len(t) /\ \A j \in 1 .. Len(x) : t[j] = x[j]
  BY DEF Begins
<1>2. i < Len(x) => i + 1 \in 1 .. Len(x)
  BY <1>1
<1>3. i < Len(x) => CharAt(t, i + 1) = CharAt(x, i + 1) /\ CharAt(x, i + 1) = x[i + 1]
  BY <1>1, <1>2 DEF CharAt
<1>4. i = Len(x) => CharAt(x, i + 1) = "end"
  BY <1>1 DEF CharAt
<1>5. i = Len(x) /\ x[i] \notin Separators => CharAt(t, i + 1) \in Separators \cup {"end"}
  BY <1>1 DEF Begins
<1> QED
  BY <1>1, <1>3, <1>4, <1>5

\* A literal that ends in the beginning is found as in all of the text, if
\* those after it are.
LEMMA LiteralBegun ==
  ASSUME NEW x \in Texts, NEW t, Begins(x, t), NEW X, NEW T, NEW i \in 1 .. Len(x) + 1,
         \A j \in i + 1 .. Len(x) + 1 : X[j] \in Literals /\ (X[j].end # 0 => T[j] = X[j]),
         LiteralFrom(x, i, X).end # 0
  PROVE  LiteralFrom(t, i, T) = LiteralFrom(x, i, X)
<1>0. Len(x) \in Nat
  BY DEF Begins
<1>1. ~(i > Len(x))
  BY DEF LiteralFrom
<1>2. i \in 1 .. Len(x) /\ i + 1 \in i + 1 .. Len(x) + 1
  BY <1>0, <1>1
<1>3. t[i] = x[i] /\ ~(i > Len(t)) /\ x[i] \in Characters
  <2>1. Len(t) \in Nat
    BY DEF Begins
  <2> QED
    BY <1>0, <1>2, <2>1, NextIs DEF Texts
<1>4. CASE x[i] # "'"
  <2>1. LiteralFrom(x, i, X) = Says(x[i], X[i + 1]) /\ LiteralFrom(t, i, T) = Says(x[i], T[i + 1])
    BY <1>1, <1>3, <1>4 DEF LiteralFrom
  <2>2. X[i + 1] \in Literals
    BY <1>2
  <2>3. X[i + 1].end # 0
    BY <1>3, <2>1, <2>2, SaysIs
  <2> QED
    BY <1>2, <2>1, <2>3
<1>5. CASE x[i] = "'" /\ CharAt(x, i + 1) = "'"
  <2>1. i < Len(x) /\ i + 2 \in i + 1 .. Len(x) + 1
    BY <1>0, <1>2, <1>5 DEF CharAt
  <2>2. CharAt(t, i + 1) = "'"
    BY <1>2, <1>5, <2>1, NextIs
  <2>3. LiteralFrom(x, i, X) = Says("'", X[i + 2]) /\ LiteralFrom(t, i, T) = Says("'", T[i + 2])
    BY <1>1, <1>3, <1>5, <2>2 DEF LiteralFrom
  <2>4. X[i + 2] \in Literals
    BY <2>1
  <2>5. X[i + 2].end # 0
    <3> DEFINE rest == X[i + 2]
    <3>1. Says("'", rest).end # 0
      BY <2>3
    <3> HIDE DEF rest
    <3>2. rest \in Literals
      BY <2>4 DEF rest
    <3>3. rest.end # 0
      BY <3>1, <3>2, SaysIs, QuoteIs
    <3> QED
      BY <3>3 DEF rest
  <2> QED
    BY <2>1, <2>3, <2>5
<1>6. CASE x[i] = "'" /\ CharAt(x, i + 1) # "'"
  <2>1. "'" \notin Separators \cup {"end"}
    BY DEF Separators
  <2>2. i < Len(x) \/ i = Len(x)
    BY <1>0, <1>2
  <2>3. CharAt(t, i + 1) # "'"
    BY <1>2, <1>6, <2>1, <2>2, NextIs
  <2> QED
    BY <1>1, <1>3, <1>6, <2>3 DEF LiteralFrom
<1> QED
  BY <1>4, <1>5, <1>6

\* Literals that end in the beginning are found as in all of the text.
LEMMA StringsBegun ==
  ASSUME NEW x \in Texts, NEW t \in Texts, Begins(x, t)
  PROVE  \A i \in 1 .. Len(x) + 1 : StringFrom(x, i).end # 0 => StringFrom(t, i) = StringFrom(x, i)
<1> DEFINE X == Strings(x)
           T == Strings(t)
           m == Len(x) + 1
           G == {i \in 1 .. m : X[i].end # 0 => T[i] = X[i]}
<1>0. m \in Nat /\ Len(x) <= Len(t) /\ Len(x) \in Nat /\ Len(t) \in Nat
  BY DEF Begins
<1>1. \A i \in 1 .. m : X[i] \in Literals /\ X[i] = LiteralFrom(x, i, X)
  BY StringsAre
<1>2. \A i \in 1 .. m : T[i] = LiteralFrom(t, i, T)
  <2>1. \A i \in 1 .. m : i \in 1 .. Len(t) + 1
    BY <1>0
  <2> HIDE DEF m
  <2> QED
    BY <2>1, StringsAre
<1> HIDE DEF X, T
<1>3. ASSUME NEW i \in 1 .. m, \A j \in i + 1 .. m : j \in G PROVE i \in G
  <2> SUFFICES ASSUME X[i].end # 0 PROVE T[i] = X[i]
    OBVIOUS
  <2>1. \A j \in i + 1 .. Len(x) + 1 : X[j] \in Literals /\ (X[j].end # 0 => T[j] = X[j])
    BY <1>0, <1>1, <1>3
  <2>2. LiteralFrom(x, i, X).end # 0
    BY <1>1
  <2> HIDE DEF G
  <2>3. LiteralFrom(t, i, T) = LiteralFrom(x, i, X)
    BY <2>1, <2>2, LiteralBegun
  <2> QED
    BY <1>1, <1>2, <2>3
<1> HIDE DEF G, m
<1>4. \A i \in 1 .. m : i \in G
  BY <1>0, <1>3, Downwards
<1> QED
  BY <1>4 DEF G, m, X, T, StringFrom

\* Classes without separators.
Apart(class) == \A c \in class : c \notin Separators

\* A run of such a class ends as in all of the text.
LEMMA RunEndBegun ==
  ASSUME NEW x \in Texts, NEW t, Begins(x, t), NEW i \in 1 .. Len(x),
         NEW class, class \subseteq Characters, x[i] \in class, Apart(class)
  PROVE  /\ RunEnd(t, i, class) = RunEnd(x, i, class)
         /\ SubSeq(t, i, RunEnd(x, i, class) - 1) = SubSeq(x, i, RunEnd(x, i, class) - 1)
<1> DEFINE e == RunEnd(x, i, class)
<1>0. /\ Len(x) \in Nat /\ Len(t) \in Nat /\ Len(x) <= Len(t) /\ x \in Seq(Characters)
      /\ \A j \in 1 .. Len(x) : t[j] = x[j]
  BY DEF Begins, Texts
<1>1. e \in i + 1 .. Len(x) + 1
  BY RunFits
<1>2. IsRunEnd(e, x, i, class)
  BY <1>0, RunEndIs
<1> HIDE DEF e
<1>3. \A m \in i .. e - 1 : m \in 1 .. Len(x) /\ x[m] \in class /\ t[m] = x[m]
  <2>1. \A m \in i .. e - 1 : m \in 1 .. Len(x)
    BY <1>0, <1>1
  <2> QED
    BY <1>0, <1>2, <2>1 DEF IsRunEnd
<1>4. CharAt(t, e) \notin class
  <2> DEFINE k == e - 1
  <2>1. k \in 1 .. Len(x) /\ k \in i .. e - 1 /\ e = k + 1
    BY <1>0, <1>1
  <2> HIDE DEF k
  <2>2. x[k] \in class /\ x[k] \notin Separators
    BY <1>3, <2>1 DEF Apart
  <2>3. CharAt(x, k + 1) \notin class
    BY <1>2, <2>1 DEF IsRunEnd
  <2>4. k < Len(x) \/ k = Len(x)
    BY <1>0, <2>1
  <2>5. "end" \notin class
    BY QuoteIs
  <2> QED
    BY <2>1, <2>2, <2>3, <2>4, <2>5, NextIs DEF Apart
<1>5. e \in i .. Len(t) + 1 /\ i \in 1 .. Len(t) + 1
  BY <1>0, <1>1
<1>6. IsRunEnd(e, t, i, class)
  BY <1>3, <1>4, <1>5 DEF IsRunEnd
<1>7. e = RunEnd(t, i, class)
  BY <1>0, <1>5, <1>6, RunEndIs
<1> DEFINE a == SubSeq(t, i, e - 1)
           b == SubSeq(x, i, e - 1)
<1>8. /\ i \in Int /\ e - 1 \in Int /\ i <= e - 1
      /\ \A m \in i .. e - 1 : x[m] \in Characters /\ t[m] \in Characters
  BY <1>0, <1>1, <1>3
<1>9. /\ a \in Seq(Characters) /\ Len(a) = (e - 1) - i + 1
      /\ \A m \in 1 .. (e - 1) - i + 1 : a[m] = t[i + m - 1]
  BY <1>8, SubSeqProperties
<1>10. /\ b \in Seq(Characters) /\ Len(b) = (e - 1) - i + 1
       /\ \A m \in 1 .. (e - 1) - i + 1 : b[m] = x[i + m - 1]
  BY <1>8, SubSeqProperties
<1> HIDE DEF a, b
<1>11. \A m \in 1 .. (e - 1) - i + 1 : a[m] = b[m]
  <2> TAKE m \in 1 .. (e - 1) - i + 1
  <2>1. i + m - 1 \in i .. e - 1
    BY <1>1
  <2> QED
    BY <1>3, <1>9, <1>10, <2>1
<1>12. a = b
  BY <1>9, <1>10, <1>11, SeqEqual
<1> QED
  BY <1>7, <1>12 DEF a, b, e

\* Each lexeme is found as in all of the text.
LEMMA LexemesBegun ==
  ASSUME NEW x \in Texts, NEW t \in Texts, Begins(x, t), NEW i \in 1 .. Len(x),
         LexemeAt(x, i).k # "UnterminatedString"
  PROVE  LexemeAt(t, i) = LexemeAt(x, i)
<1>0. t[i] = x[i] /\ x[i] \in Characters /\ Len(x) \in Nat
  BY NextIs DEF Texts
<1>1. i < Len(x) \/ i = Len(x)
  BY <1>0
<1>2. CASE x[i] \in {"<", ">", "!"}
  <2>1. x[i] \notin Separators /\ (Separators \cup {"end"}) \cap {"=", ">"} = {}
    BY <1>2 DEF Separators
  <2>2. \/ CharAt(t, i + 1) = CharAt(x, i + 1)
        \/ CharAt(t, i + 1) \notin {"=", ">"} /\ CharAt(x, i + 1) \notin {"=", ">"}
    BY <1>1, <2>1, NextIs
  <2>3. Comparison(t, i) = Comparison(x, i)
    <3>1. CASE CharAt(t, i + 1) = CharAt(x, i + 1)
      BY <1>0, <3>1 DEF Comparison
    <3>2. CASE CharAt(t, i + 1) \notin {"=", ">"} /\ CharAt(x, i + 1) \notin {"=", ">"}
      <4>1. Comparison(t, i) = <<t[i]>>
        BY <3>2 DEF Comparison
      <4>2. Comparison(x, i) = <<x[i]>>
        BY <3>2 DEF Comparison
      <4> QED
        BY <1>0, <4>1, <4>2
    <3> QED
      BY <2>2, <3>1, <3>2
  <2>4. ComparisonAt(t, i) = ComparisonAt(x, i)
    BY <2>3 DEF ComparisonAt
  <2>5. x[i] \notin WhiteSpace /\ x[i] \notin Singles
    BY <1>2 DEF WhiteSpace, Singles
  <2> QED
    BY <1>0, <1>2, <2>4, <2>5 DEF LexemeAt
<1>3. CASE x[i] = "'"
  <2>1. x[i] \notin WhiteSpace /\ x[i] \notin Singles /\ x[i] \notin {"<", ">", "!"}
        /\ x[i] \notin Digits /\ x[i] \notin Letters
    BY <1>3 DEF WhiteSpace, Singles, Digits, Letters
  <2>2. LexemeAt(x, i) = StringAt(x, i) /\ LexemeAt(t, i) = StringAt(t, i)
    BY <1>0, <1>3, <2>1 DEF LexemeAt
  <2>3. StringFrom(x, i + 1).end # 0
    BY <2>2 DEF StringAt, Failure, Lexeme
  <2>4. StringFrom(t, i + 1) = StringFrom(x, i + 1)
    <3>1. i + 1 \in 1 .. Len(x) + 1
      BY <1>0
    <3> QED
      BY <2>3, <3>1, StringsBegun
  <2> QED
    BY <2>2, <2>4 DEF StringAt
<1>4. CASE x[i] \in Digits
  <2>1. Apart(Digits) /\ Digits \subseteq Characters
    BY ClassesAre DEF Apart, Digits, Separators
  <2>2. /\ RunEnd(t, i, Digits) = RunEnd(x, i, Digits)
        /\ SubSeq(t, i, RunEnd(x, i, Digits) - 1) = SubSeq(x, i, RunEnd(x, i, Digits) - 1)
    BY <1>4, <2>1, RunEndBegun, ClassesAre
  <2>3. IntegerAt(t, i) = IntegerAt(x, i)
    BY <2>2 DEF IntegerAt
  <2>4. x[i] \notin WhiteSpace /\ x[i] \notin Singles /\ x[i] \notin {"<", ">", "!"} /\ x[i] # "'"
    BY <1>4 DEF WhiteSpace, Singles, Digits
  <2> QED
    BY <1>0, <1>4, <2>3, <2>4 DEF LexemeAt
<1>5. CASE x[i] \in Letters
  <2> DEFINE class == Letters \cup Digits
  <2>1. Apart(class) /\ class \subseteq Characters /\ x[i] \in class
    BY <1>5, ClassesAre DEF Apart, Digits, Letters, Separators
  <2>2. WordAt(t, i) = Lexeme("word", SubSeq(t, i, RunEnd(t, i, class) - 1), RunEnd(t, i, class))
        /\ WordAt(x, i) = Lexeme("word", SubSeq(x, i, RunEnd(x, i, class) - 1), RunEnd(x, i, class))
    BY DEF WordAt
  <2> HIDE DEF class
  <2>3. /\ RunEnd(t, i, class) = RunEnd(x, i, class)
        /\ SubSeq(t, i, RunEnd(x, i, class) - 1) = SubSeq(x, i, RunEnd(x, i, class) - 1)
    BY <2>1, RunEndBegun
  <2>4. WordAt(t, i) = WordAt(x, i)
    BY <2>2, <2>3
  <2>5. x[i] \notin WhiteSpace /\ x[i] \notin Singles /\ x[i] \notin {"<", ">", "!"} /\ x[i] # "'"
        /\ x[i] \notin Digits
    BY <1>5 DEF WhiteSpace, Singles, Digits, Letters
  <2> QED
    BY <1>0, <1>5, <2>4, <2>5 DEF LexemeAt
<1>6. CASE x[i] \notin {"<", ">", "!", "'"} /\ x[i] \notin Digits /\ x[i] \notin Letters
  BY <1>0, <1>6 DEF LexemeAt
<1> QED
  BY <1>2, <1>3, <1>4, <1>5, <1>6

\* One result after the other, up to the first error.
Chained(r, s) ==
  IF r.error # NoError THEN r ELSE [tokens |-> r.tokens \o s.tokens, error |-> s.error]

\* Two results, chained, are a result.
LEMMA ChainedIs ==
  ASSUME NEW r \in Results, NEW s \in Results
  PROVE  Chained(r, s) \in Results
<1>1. r.tokens \in Seq(Tokens) /\ s.tokens \in Seq(Tokens) /\ s.error \in {NoError} \cup [k : Errors, pos : Nat]
  BY DEF Results
<1>2. r.tokens \o s.tokens \in Seq(Tokens)
  BY <1>1
<1> QED
  BY <1>1, <1>2 DEF Chained, Results

\* A token is found first whether the results after it are chained or not.
LEMMA FindsChained ==
  ASSUME NEW token \in Tokens, NEW r \in Results, NEW s \in Results
  PROVE  Finds(token, Chained(r, s)) = Chained(Finds(token, r), s)
<1>1. r.tokens \in Seq(Tokens) /\ s.tokens \in Seq(Tokens)
  BY DEF Results
<1>2. Finds(token, r).tokens = <<token>> \o r.tokens /\ Finds(token, r).error = r.error
  BY DEF Finds
<1>3. CASE r.error # NoError
  BY <1>2, <1>3 DEF Chained
<1>4. CASE r.error = NoError
  <2>1. <<token>> \o (r.tokens \o s.tokens) = (<<token>> \o r.tokens) \o s.tokens
    <3> DEFINE a == <<token>>
               b == r.tokens
               c == s.tokens
    <3>1. a \in Seq(Tokens) /\ b \in Seq(Tokens) /\ c \in Seq(Tokens)
      BY <1>1
    <3> HIDE DEF a, b, c
    <3>2. (a \o b) \o c = a \o (b \o c)
      BY <3>1, ConcatAssociative
    <3> QED
      BY <3>2 DEF a, b, c
  <2>2. Chained(r, s) = [tokens |-> r.tokens \o s.tokens, error |-> s.error]
    BY <1>4 DEF Chained
  <2>3. Finds(token, Chained(r, s)) = [tokens |-> <<token>> \o (r.tokens \o s.tokens), error |-> s.error]
    BY <2>2 DEF Finds
  <2>4. Chained(Finds(token, r), s) = [tokens |-> (<<token>> \o r.tokens) \o s.tokens, error |-> s.error]
    BY <1>2, <1>4 DEF Chained
  <2> QED
    BY <2>1, <2>3, <2>4
<1> QED
  BY <1>3, <1>4

\* A turn in the beginning finds what it finds in all of the text, if the turns
\* after it do.
LEMMA TurnBegun ==
  ASSUME NEW x \in Texts, NEW i \in 1 .. Len(x), NEW l, Fits(l, x, i), NEW X, NEW T, NEW E \in Results,
         \A j \in i + 1 .. Len(x) + 1 :
           X[j] \in Results /\ (X[j].error.k # "UnterminatedString" => T[j] = Chained(X[j], E)),
         Turn(l, i, X).error.k # "UnterminatedString"
  PROVE  l.k # "UnterminatedString" /\ Turn(l, i, T) = Chained(Turn(l, i, X), E)
<1>1. CASE l.k \in Errors
  <2>1. /\ Turn(l, i, X) = [tokens |-> <<>>, error |-> LexError(l.k, i)]
        /\ Turn(l, i, T) = [tokens |-> <<>>, error |-> LexError(l.k, i)]
    BY <1>1 DEF Turn
  <2>2. LexError(l.k, i) # NoError /\ LexError(l.k, i).k = l.k
    BY <1>1 DEF LexError, NoError, Errors
  <2> QED
    BY <2>1, <2>2 DEF Chained
<1>2. CASE l.k \notin Errors
  <2>1. l.k # "UnterminatedString" /\ l.end \in i + 1 .. Len(x) + 1
    BY <1>2 DEF Errors, Fits
  <2>2. X[l.end] \in Results
    BY <2>1
  <2>3. CASE l.k = "blank"
    <3>1. Turn(l, i, X) = X[l.end] /\ Turn(l, i, T) = T[l.end]
      BY <1>2, <2>3 DEF Turn
    <3> QED
      BY <2>1, <3>1
  <2>4. CASE l.k # "blank"
    <3> DEFINE token == Token(l.k, i, l.text)
    <3>1. Turn(l, i, X) = Finds(token, X[l.end]) /\ Turn(l, i, T) = Finds(token, T[l.end])
      BY <1>2, <2>4 DEF Turn
    <3>2. token \in Tokens
      BY <1>2, <2>4 DEF Tokens, Token, Fits, Lexemes, Texts
    <3> HIDE DEF token
    <3>3. X[l.end].error.k # "UnterminatedString"
      BY <3>1 DEF Finds
    <3>4. T[l.end] = Chained(X[l.end], E)
      BY <2>1, <3>3
    <3> QED
      BY <2>1, <2>2, <3>1, <3>2, <3>4, FindsChained
  <2> QED
    BY <2>3, <2>4
<1> QED
  BY <1>1, <1>2

\* All of a text is what its beginning is read as and then the rest, unless the
\* beginning ends in a string literal.
LEMMA LexingBegun ==
  ASSUME NEW x \in Texts, NEW t \in Texts, Begins(x, t)
  PROVE  \A i \in 1 .. Len(x) + 1 :
           Lexing(x)[i].error.k # "UnterminatedString" =>
             Lexing(t)[i] = Chained(Lexing(x)[i], Lexing(t)[Len(x) + 1])
<1> DEFINE n == Len(x)
           m == n + 1
           X == Lexing(x)
           T == Lexing(t)
           E == T[m]
           G == {i \in 1 .. m : X[i].error.k # "UnterminatedString" => T[i] = Chained(X[i], E)}
<1>0. n \in Nat /\ m \in Nat /\ Len(t) \in Nat /\ n <= Len(t)
  BY DEF Begins
<1>1. \A i \in 1 .. m : X[i] \in Results
  BY LexingIs
<1>2. \A i \in 1 .. Len(t) + 1 : T[i] \in Results
  BY LexingIs
<1>3. X[m] = [tokens |-> <<>>, error |-> NoError]
  BY LexingAtEnd
<1>4. \A i \in 1 .. n : X[i] = Turn(LexemeAt(x, i), i, X)
  <2> TAKE i \in 1 .. n
  <2>1. i \in 1 .. Len(x) + 1 /\ ~(i > Len(x))
    BY <1>0
  <2> QED
    BY <2>1, LexingIs DEF LexedFrom
<1>5. \A i \in 1 .. n : T[i] = Turn(LexemeAt(t, i), i, T)
  <2> TAKE i \in 1 .. n
  <2>1. i \in 1 .. Len(t) + 1 /\ ~(i > Len(t))
    BY <1>0
  <2> QED
    BY <2>1, LexingIs DEF LexedFrom
<1> HIDE DEF X, T
<1>6. E \in Results
  <2>1. m \in 1 .. Len(t) + 1
    BY <1>0
  <2> QED
    BY <1>2, <2>1
<1> HIDE DEF E
<1>7. ASSUME NEW i \in 1 .. m, \A j \in i + 1 .. m : j \in G PROVE i \in G
  <2>1. CASE i = m
    <3>1. <<>> \o E.tokens = E.tokens
      BY <1>6, ConcatEmptySeq DEF Results
    <3>2. E = [tokens |-> E.tokens, error |-> E.error]
      BY <1>6, ErrorsAre
    <3>3. Chained(X[m], E) = E
      BY <1>3, <3>1, <3>2 DEF Chained
    <3>4. T[m] = Chained(X[m], E)
      BY <3>3 DEF E
    <3> HIDE DEF m
    <3> QED
      BY <2>1, <3>4
  <2>2. CASE i # m
    <3> SUFFICES ASSUME X[i].error.k # "UnterminatedString" PROVE T[i] = Chained(X[i], E)
      OBVIOUS
    <3>1. i \in 1 .. n
      BY <1>0, <2>2
    <3>2. \A j \in i + 1 .. Len(x) + 1 :
            X[j] \in Results /\ (X[j].error.k # "UnterminatedString" => T[j] = Chained(X[j], E))
      BY <1>0, <1>1, <1>7
    <3> DEFINE l == LexemeAt(x, i)
    <3>3. Fits(l, x, i)
      BY <3>1, LexemesFit
    <3>4. X[i] = Turn(l, i, X)
      BY <1>4, <3>1
    <3>5. l.k # "UnterminatedString" => LexemeAt(t, i) = l
      BY <3>1, LexemesBegun
    <3>6. T[i] = Turn(LexemeAt(t, i), i, T)
      BY <1>5, <3>1
    <3> HIDE DEF l, G, m
    <3>7. l.k # "UnterminatedString" /\ Turn(l, i, T) = Chained(Turn(l, i, X), E)
      BY <1>6, <3>1, <3>2, <3>3, <3>4, TurnBegun
    <3> QED
      BY <3>4, <3>5, <3>6, <3>7
  <2> HIDE DEF G, m
  <2> QED
    BY <2>1, <2>2
<1> HIDE DEF G, m
<1>8. \A i \in 1 .. m : i \in G
  BY <1>0, <1>7, Downwards
<1> QED
  BY <1>8 DEF G, m, n, E, X, T

\* Two texts meet at white space or a semicolon.
Meet(x, y) ==
  \/ x = <<>> \/ y = <<>> \/ x[Len(x)] \in Separators \/ y[1] \in Separators

\* The first of two texts that meet is the beginning of both.
LEMMA MeetBegins ==
  ASSUME NEW x \in Texts, NEW y \in Texts, Meet(x, y)
  PROVE  Begins(x, x \o y)
<1>1. /\ Len(x) \in Nat /\ Len(y) \in Nat /\ Len(x \o y) = Len(x) + Len(y)
      /\ \A i \in 1 .. Len(x) : (x \o y)[i] = x[i]
      /\ \A i \in Nat \ {0} : CharAt(x \o y, Len(x) + i) = CharAt(y, i)
  BY JoinIs
<1>2. CharAt(x \o y, Len(x) + 1) = CharAt(y, 1)
  BY <1>1
<1>3. x = <<>> => Len(x) = 0
  OBVIOUS
<1>4. y = <<>> => CharAt(y, 1) = "end"
  BY DEF CharAt
<1>5. CharAt(y, 1) = y[1] \/ CharAt(y, 1) = "end"
  BY DEF CharAt
<1>6. Len(x) > 0 /\ x[Len(x)] \notin Separators => CharAt(y, 1) \in Separators \cup {"end"}
  BY <1>3, <1>4, <1>5 DEF Meet
<1> DEFINE t == x \o y
<1> HIDE DEF t
<1>7. Len(x) <= Len(t) /\ Len(t) \in Nat
  BY <1>1 DEF t
<1> QED
  BY <1>1, <1>2, <1>6, <1>7 DEF Begins, t

\* Cut at white space or at a semicolon, a text is read in two parts, unless
\* the first ends in a string literal.
LEMMA LexJoined ==
  ASSUME NEW x \in Texts, NEW y \in Texts, Meet(x, y), Lex(x).error.k # "UnterminatedString"
  PROVE  /\ x \o y \in Texts /\ Lex(x) \in Results /\ MovedResult(Lex(y), Len(x)) \in Results
         /\ Lex(x \o y) = Chained(Lex(x), MovedResult(Lex(y), Len(x)))
<1>1. x \o y \in Texts /\ Len(x) \in Nat /\ Len(y) \in Nat
  BY JoinIs
<1>2. 1 \in 1 .. Len(x) + 1 /\ 1 \in 1 .. Len(y) + 1
  BY <1>1
<1>3. Lex(x) \in Results /\ Lex(y) \in Results
  BY <1>2, LexingIs DEF Lex
<1>4. Lexing(x \o y)[1] = Chained(Lexing(x)[1], Lexing(x \o y)[Len(x) + 1])
  BY <1>1, <1>2, MeetBegins, LexingBegun DEF Lex
<1>5. Lexing(x \o y)[Len(x) + 1] = MovedResult(Lexing(y)[1], Len(x))
  BY <1>2, LexingMoved
<1>6. MovedResult(Lex(y), Len(x)) \in Results
  BY <1>1, <1>3, MovedResultIs
<1> QED
  BY <1>1, <1>3, <1>4, <1>5, <1>6 DEF Lex

\* A sequence of one element.
LEMMA OneIs ==
  ASSUME NEW S, NEW c \in S
  PROVE  <<c>> \in Seq(S) /\ Len(<<c>>) = 1 /\ <<c>>[1] = c
OBVIOUS

\* A separator stands for itself.
LEMMA SeparatorIs ==
  ASSUME NEW text \in Texts, NEW n \in 1 .. Len(text), text[n] \in Separators
  PROVE  /\ n + 1 \in 1 .. Len(text) + 1 /\ Lexing(text)[n + 1] \in Results
         /\ Token("symbol", n, <<";">>) \in Tokens
         /\ Lexing(text)[n] = IF text[n] = ";"
                              THEN Finds(Token("symbol", n, <<";">>), Lexing(text)[n + 1])
                              ELSE Lexing(text)[n + 1]
<1>1. n + 1 \in 1 .. Len(text) + 1 /\ n \in Nat
  BY DEF Texts
<1>2. Lexing(text)[n + 1] \in Results
  BY <1>1, LexingIs
<1>3. Token("symbol", n, <<";">>) \in Tokens
  <2>1. ";" \in Characters
    BY DEF Characters, Singles
  <2>2. <<";">> \in Texts
    BY <2>1, OneIs DEF Texts
  <2> QED
    BY <1>1, <2>2 DEF Tokens, Token, Kinds
<1>4. CASE text[n] = ";"
  <2>1. LexemeAt(text, n) = Lexeme("symbol", <<";">>, n + 1)
    BY <1>4 DEF LexemeAt, WhiteSpace, Singles, Digits, Letters
  <2> DEFINE l == Lexeme("symbol", <<";">>, n + 1)
  <2>2. l.k = "symbol" /\ l.text = <<";">> /\ l.end = n + 1 /\ l.k \notin Errors \cup {"blank"}
    BY DEF Lexeme, Errors
  <2>3. LexemeAt(text, n) = l
    BY <2>1
  <2> HIDE DEF l
  <2>4. Lexing(text)[n] = Finds(Token(l.k, n, l.text), Lexing(text)[l.end])
    BY <2>2, <2>3, LexingFrom
  <2> QED
    BY <1>1, <1>2, <1>3, <1>4, <2>2, <2>4
<1>5. CASE text[n] \in WhiteSpace
  <2>1. LexemeAt(text, n) = Lexeme("blank", <<>>, n + 1)
    BY <1>5 DEF LexemeAt, WhiteSpace, Singles, Digits, Letters
  <2> DEFINE l == Lexeme("blank", <<>>, n + 1)
  <2>2. l.k = "blank" /\ l.end = n + 1
    BY DEF Lexeme
  <2>3. LexemeAt(text, n) = l
    BY <2>1
  <2> HIDE DEF l
  <2>4. Lexing(text)[n] = Lexing(text)[l.end]
    BY <2>2, <2>3, LexingFrom
  <2>5. text[n] # ";"
    BY <1>5 DEF WhiteSpace
  <2> QED
    BY <1>1, <1>2, <1>3, <2>2, <2>4, <2>5
<1> QED
  BY <1>4, <1>5 DEF Separators, WhiteSpace

\* A text, cut before and after one of its characters.
LEMMA CutIs ==
  ASSUME NEW text \in Texts, NEW n \in 0 .. Len(text)
  PROVE  /\ SubSeq(text, 1, n) \in Texts /\ SubSeq(text, n + 1, Len(text)) \in Texts
         /\ Len(SubSeq(text, 1, n)) = n /\ Len(SubSeq(text, n + 1, Len(text))) = Len(text) - n
         /\ text = SubSeq(text, 1, n) \o SubSeq(text, n + 1, Len(text))
         /\ \A i \in 1 .. n : SubSeq(text, 1, n)[i] = text[i]
         /\ \A i \in 1 .. Len(text) - n : SubSeq(text, n + 1, Len(text))[i] = text[n + i]
<1>1. text \in Seq(Characters) /\ Len(text) \in Nat
  BY DEF Texts
<1>2. 1 \in 1 .. Len(text) + 1 /\ n \in 1 - 1 .. Len(text) /\ n - 1 + 1 = n
      /\ n + 1 \in 1 .. Len(text) + 1 /\ Len(text) \in (n + 1) - 1 .. Len(text)
      /\ Len(text) \in n .. Len(text) /\ Len(text) - (n + 1) + 1 = Len(text) - n
  BY <1>1
<1>3. /\ SubSeq(text, 1, n) \in Seq(Characters) /\ Len(SubSeq(text, 1, n)) = n
      /\ \A m \in 1 .. n : SubSeq(text, 1, n)[m] = text[1 + m - 1]
  BY <1>1, <1>2, PartIs
<1>4. /\ SubSeq(text, n + 1, Len(text)) \in Seq(Characters)
      /\ Len(SubSeq(text, n + 1, Len(text))) = Len(text) - n
      /\ \A m \in 1 .. Len(text) - n : SubSeq(text, n + 1, Len(text))[m] = text[n + 1 + m - 1]
  <2> DEFINE len == Len(text)
             from == n + 1
  <2>1. from \in 1 .. len + 1 /\ len \in from - 1 .. Len(text) /\ len - from + 1 = len - n
    BY <1>2
  <2> HIDE DEF len, from
  <2>2. /\ SubSeq(text, from, len) \in Seq(Characters) /\ Len(SubSeq(text, from, len)) = len - from + 1
        /\ \A m \in 1 .. len - from + 1 : SubSeq(text, from, len)[m] = text[from + m - 1]
    BY <1>1, <2>1, PartIs DEF len
  <2> QED
    BY <2>1, <2>2 DEF len, from
<1>5. SubSeq(text, 1, n) \o SubSeq(text, n + 1, Len(text)) = SubSeq(text, 1, Len(text))
  BY <1>1, <1>2, ConcatAdjacentSubSeq
<1>6. SubSeq(text, 1, Len(text)) = text
  BY <1>1, SubSeqFull
<1>7. \A i \in 1 .. n : 1 + i - 1 = i
  OBVIOUS
<1>8. \A i \in 1 .. Len(text) - n : n + 1 + i - 1 = n + i
  BY <1>1
<1> QED
  BY <1>3, <1>4, <1>5, <1>6, <1>7, <1>8 DEF Texts

\* White space and semicolons outside of string literals separate, in every
\* text.
LEMMA AllSeparate ==
  ASSUME NEW text \in Texts, NEW n \in 1 .. Len(text)
  PROVE  Separates(text, n)
<1> DEFINE x      == SubSeq(text, 1, n - 1)
           w      == SubSeq(text, 1, n)
           y      == SubSeq(text, n + 1, Len(text))
           before == Lex(x)
           after  == Lex(y)
           mark   == IF text[n] = ";" THEN <<Token("symbol", n, <<";">>)>> ELSE <<>>
           goal   == [tokens |-> before.tokens \o mark \o Shifted(after.tokens, n),
                      error  |-> IF after.error = NoError THEN NoError
                                 ELSE LexError(after.error.k, after.error.pos + n)]
<1> SUFFICES ASSUME text[n] \in Separators, before.error = NoError PROVE Lex(text) = goal
  BY DEF Separates, Separators
<1>0. n - 1 \in 0 .. Len(text) /\ n \in 0 .. Len(text) /\ n \in Nat /\ Len(text) \in Nat /\ (n - 1) + 1 = n
  BY DEF Texts
<1>1. x \in Texts /\ Len(x) = n - 1 /\ \A i \in 1 .. n - 1 : x[i] = text[i]
  BY <1>0, CutIs
<1>2. w \in Texts /\ Len(w) = n /\ y \in Texts /\ text = w \o y /\ Len(y) \in Nat
  BY <1>0, CutIs DEF Texts
<1> HIDE DEF x, w, y
<1>3. Begins(x, text)
  <2>1. CharAt(text, Len(x) + 1) = text[n]
    BY <1>0, <1>1 DEF CharAt
  <2>2. Len(x) \in Nat /\ Len(x) <= Len(text) /\ \A i \in 1 .. Len(x) : text[i] = x[i]
    BY <1>0, <1>1
  <2> QED
    BY <1>0, <2>1, <2>2 DEF Begins
<1>4. Lex(text) = Chained(before, Lexing(text)[n]) /\ before \in Results
  <2>1. 1 \in 1 .. Len(x) + 1 /\ Len(x) + 1 = n
    BY <1>0, <1>1
  <2>2. before.error.k # "UnterminatedString"
    BY DEF NoError
  <2>3. Lexing(x)[1] \in Results
    BY <1>1, <2>1, LexingIs
  <2> QED
    BY <1>1, <1>3, <2>1, <2>2, <2>3, LexingBegun DEF Lex
<1>5. Lexing(text)[n + 1] = MovedResult(after, n)
  <2>1. 1 \in 1 .. Len(y) + 1
    BY <1>2
  <2> QED
    BY <1>2, <2>1, LexingMoved DEF Lex
<1>6. /\ MovedResult(after, n) \in Results
      /\ Lexing(text)[n] = IF text[n] = ";" THEN Finds(Token("symbol", n, <<";">>), MovedResult(after, n))
                           ELSE MovedResult(after, n)
  BY <1>5, SeparatorIs
<1> DEFINE moved == MovedResult(after, n)
<1>7. /\ moved.tokens = Shifted(after.tokens, n)
      /\ moved.error = IF after.error = NoError THEN NoError ELSE LexError(after.error.k, after.error.pos + n)
  BY DEF MovedResult, MovedError
<1> DEFINE a == before.tokens
           c == moved.tokens
<1>8. a \in Seq(Tokens) /\ c \in Seq(Tokens) /\ mark \in Seq(Tokens)
  <2>1. Token("symbol", n, <<";">>) \in Tokens
    BY SeparatorIs
  <2> DEFINE one == <<Token("symbol", n, <<";">>)>>
  <2>2. one \in Seq(Tokens)
    BY <2>1, OneIs
  <2>3. mark = one \/ mark = <<>>
    OBVIOUS
  <2>4. <<>> \in Seq(Tokens)
    OBVIOUS
  <2> HIDE DEF mark, one
  <2>5. mark \in Seq(Tokens)
    BY <2>2, <2>3, <2>4
  <2> QED
    BY <1>4, <1>6, <2>5, ErrorsAre
<1>9. Lexing(text)[n].tokens = mark \o c /\ Lexing(text)[n].error = moved.error
  <2> DEFINE token == Token("symbol", n, <<";">>)
  <2> HIDE DEF moved, token
  <2>1. <<>> \o moved.tokens = moved.tokens
    BY <1>8, ConcatEmptySeq
  <2>2. Finds(token, moved).tokens = <<token>> \o moved.tokens /\ Finds(token, moved).error = moved.error
    BY DEF Finds
  <2> QED
    BY <1>6, <2>1, <2>2 DEF moved, token
<1> HIDE DEF moved, a, c, mark
<1>10. a \o (mark \o c) = a \o mark \o c
  BY <1>8, ConcatAssociative
<1>11. Chained(before, Lexing(text)[n]) = [tokens |-> a \o (mark \o c), error |-> moved.error]
  BY <1>9 DEF Chained, a
<1> QED
  BY <1>4, <1>7, <1>10, <1>11 DEF a, c, mark

-----------------------------------------------------------------------------
(* Rendered string literals.                                               *)

\* What Doubled makes of one character, and of the first n.
Doubling(c) == IF c = "'" THEN <<"'", "'">> ELSE <<c>>

IsDoubling(f, text) ==
  /\ f[0] = <<>> /\ \A i \in 0 .. Len(text) : f[i] \in Texts
  /\ \A i \in 1 .. Len(text) : f[i] = f[i - 1] \o Doubling(text[i])

\* Doubled is what its definition says.
LEMMA DoubledIs ==
  ASSUME NEW text \in Texts
  PROVE  \E f : IsDoubling(f, text) /\ Doubled(text) = f[Len(text)]
<1> DEFINE n == Len(text)
           Is(f) == f = [i \in 0 .. Len(text) |-> IF i = 0 THEN <<>> ELSE f[i - 1] \o Doubling(text[i])]
           upTo == CHOOSE f : Is(f)
           S == [i \in 0 .. n |-> Texts]
           g == [p \in Texts \X (1 .. n) |-> p[1] \o Doubling(text[p[2]])]
<1>0. n \in Nat /\ \A i \in 1 .. n : text[i] \in Characters
  BY DEF Texts
<1>1. Doubled(text) = upTo[n]
  BY DEF Doubled, Doubling
<1>2. \A i \in 1 .. n : \A s \in Texts : s \o Doubling(text[i]) \in Texts
  <2> TAKE i \in 1 .. n
  <2> TAKE s \in Texts
  <2>1. Doubling(text[i]) \in Texts
    BY <1>0 DEF Doubling, Texts
  <2> QED
    BY <2>1 DEF Texts
<1>3. \A i \in 1 .. n : \A s \in Texts : g[<<s, i>>] = s \o Doubling(text[i])
  OBVIOUS
<1> HIDE DEF g
<1>4. PICK f : IsTurns(f, g, <<>>, n) /\ \A i \in 0 .. n : f[i] \in S[i]
  <2>1. <<>> \in S[0]
    BY <1>0 DEF Texts
  <2>2. \A i \in 1 .. n : \A s \in S[i - 1] : g[<<s, i>>] \in S[i]
    <3> TAKE i \in 1 .. n
    <3>1. S[i - 1] = Texts /\ S[i] = Texts
      BY <1>0
    <3> HIDE DEF S
    <3>2. \A s \in Texts : g[<<s, i>>] \in Texts
      BY <1>2, <1>3
    <3> QED
      BY <3>1, <3>2
  <2> HIDE DEF S, n
  <2> QED
    BY <1>0, <2>1, <2>2, Turns
<1>5. \A i \in 0 .. n : f[i] \in Texts
  BY <1>4
<1>6. \A i \in 0 .. n : f[i] = IF i = 0 THEN <<>> ELSE f[i - 1] \o Doubling(text[i])
  <2> TAKE i \in 0 .. n
  <2>1. f[i] = IF i = 0 THEN <<>> ELSE g[<<f[i - 1], i>>]
    BY <1>4 DEF IsTurns
  <2>2. i # 0 => i \in 1 .. n /\ i - 1 \in 0 .. n
    BY <1>0
  <2> QED
    BY <1>3, <1>5, <2>1, <2>2
<1>7. Is(f)
  <2>1. f = [i \in 0 .. n |-> f[i]]
    BY <1>4 DEF IsTurns
  <2> QED
    BY <1>6, <2>1
<1>8. Is(upTo)
  BY <1>7
<1> HIDE DEF upTo, n
<1>9. \A i \in 0 .. n : upTo[i] = IF i = 0 THEN <<>> ELSE upTo[i - 1] \o Doubling(text[i])
  BY <1>8 DEF n
<1>10. upTo[0] = <<>> /\ \A i \in 1 .. n : upTo[i] = upTo[i - 1] \o Doubling(text[i])
  <2>1. 0 \in 0 .. n /\ \A i \in 1 .. n : i \in 0 .. n /\ i # 0
    BY <1>0
  <2> QED
    BY <1>9, <2>1
<1> DEFINE H == {i \in 0 .. n : upTo[i] \in Texts}
<1>11. 0 \in H
  <2>1. <<>> \in Texts
    BY DEF Texts
  <2> QED
    BY <1>0, <1>10, <2>1
<1>12. ASSUME NEW i \in 1 .. n, i - 1 \in H PROVE i \in H
  <2>1. i \in 0 .. n /\ upTo[i - 1] \in Texts
    BY <1>0, <1>12
  <2>2. upTo[i] = upTo[i - 1] \o Doubling(text[i])
    BY <1>10
  <2>3. upTo[i] \in Texts
    BY <1>2, <2>1, <2>2
  <2> QED
    BY <2>1, <2>3
<1> HIDE DEF H
<1>13. \A i \in 0 .. n : i \in H
  BY <1>0, <1>11, <1>12, IntervalInduction
<1>14. IsDoubling(upTo, text)
  BY <1>10, <1>13 DEF IsDoubling, H, n
<1> QED
  BY <1>1, <1>14 DEF n

\* The doubled text begins with what was made of every beginning of the text.
LEMMA DoubledBegins ==
  ASSUME NEW text \in Texts, NEW f, IsDoubling(f, text)
  PROVE  \A j \in 1 .. Len(text) + 1 :
           /\ f[j - 1] \in Texts /\ Len(f[j - 1]) <= Len(f[Len(text)])
           /\ \A m \in 1 .. Len(f[j - 1]) : f[Len(text)][m] = f[j - 1][m]
<1> DEFINE n == Len(text)
           D == f[n]
           G == {j \in 1 .. n + 1 : /\ Len(f[j - 1]) <= Len(D)
                                    /\ \A m \in 1 .. Len(f[j - 1]) : D[m] = f[j - 1][m]}
<1>0. n \in Nat /\ \A j \in 1 .. n + 1 : j - 1 \in 0 .. n /\ f[j - 1] \in Texts
  BY DEF Texts, IsDoubling
<1>1. ASSUME NEW j \in 1 .. n + 1, \A i \in j + 1 .. n + 1 : i \in G PROVE j \in G
  <2>1. CASE j = n + 1
    <3>1. (n + 1) - 1 = n
      BY <1>0
    <3>2. f[j - 1] = D
      BY <2>1, <3>1
    <3>3. Len(D) \in Nat
      BY <1>0, <3>2 DEF Texts
    <3> HIDE DEF D
    <3> QED
      BY <3>2, <3>3
  <2>2. CASE j # n + 1
    <3>1. j \in 1 .. n /\ j + 1 \in j + 1 .. n + 1 /\ (j + 1) - 1 = j
      BY <1>0, <2>2
    <3> DEFINE x == f[j - 1]
               y == Doubling(text[j])
    <3>2. f[j] = x \o y
      BY <3>1 DEF IsDoubling
    <3>3. x \in Texts /\ y \in Texts
      <4>1. text[j] \in Characters
        BY <3>1 DEF Texts
      <4> QED
        BY <1>0, <4>1, QuoteIs DEF Doubling, Texts
    <3>4. Len(f[j]) <= Len(D) /\ \A m \in 1 .. Len(f[j]) : D[m] = f[j][m]
      <4>1. j + 1 \in G
        BY <1>1, <3>1
      <4> HIDE DEF D
      <4> QED
        BY <3>1, <4>1
    <3>5. D \in Texts
      BY <1>0 DEF IsDoubling
    <3>6. Len(D) \in Nat
      BY <3>5 DEF Texts
    <3>7. /\ Len(f[j]) = Len(x) + Len(y) /\ Len(x) \in Nat /\ Len(y) \in Nat
          /\ \A m \in 1 .. Len(x) : f[j][m] = x[m]
      <4> HIDE DEF x, y
      <4> QED
        BY <3>2, <3>3, JoinIs
    <3> HIDE DEF y, D
    <3>8. Len(x) <= Len(D) /\ \A m \in 1 .. Len(x) : D[m] = x[m]
      <4> HIDE DEF x
      <4> QED
        BY <3>4, <3>6, <3>7
    <3> QED
      BY <3>8
  <2> QED
    BY <2>1, <2>2
<1> HIDE DEF G
<1>2. n + 1 \in Nat
  BY <1>0
<1>3. \A j \in 1 .. n + 1 : j \in G
  BY <1>1, <1>2, Downwards
<1> QED
  BY <1>0, <1>3 DEF G

\* Where every character of a text stands in its literal q.
Places(at, q, text) ==
  /\ q \in Texts /\ at \in [1 .. Len(text) + 1 -> Nat] /\ at[1] = 2 /\ at[Len(text) + 1] = Len(q)
  /\ q[1] = "'" /\ q[Len(q)] = "'"
  /\ \A j \in 1 .. Len(text) :
       /\ 2 <= at[j] /\ at[j] < Len(q) /\ q[at[j]] = text[j]
       /\ text[j] # "'" => at[j + 1] = at[j] + 1
       /\ text[j] = "'" => at[j + 1] = at[j] + 2 /\ at[j] + 1 < Len(q) /\ q[at[j] + 1] = "'"

\* Every character has its place.
LEMMA QuotedIs ==
  ASSUME NEW text \in Texts
  PROVE  \E at : Places(at, Quoted(text), text)
<1>1. PICK f : IsDoubling(f, text) /\ Doubled(text) = f[Len(text)]
  BY DoubledIs
<1> DEFINE n     == Len(text)
           D     == f[n]
           q     == Quoted(text)
           quote == <<"'">>
           at    == [j \in 1 .. n + 1 |-> Len(f[j - 1]) + 2]
<1>2. /\ n \in Nat /\ \A j \in 1 .. n : j \in 1 .. n + 1 /\ j + 1 \in 1 .. n + 1 /\ (j + 1) - 1 = j
      /\ 1 \in 1 .. n + 1 /\ n + 1 \in 1 .. n + 1 /\ (n + 1) - 1 = n /\ 1 - 1 = 0
  BY DEF Texts
<1>3. D \in Texts /\ Len(D) \in Nat
  BY <1>1, <1>2 DEF IsDoubling, Texts
<1>4. quote \in Texts /\ Len(quote) = 1 /\ quote[1] = "'"
  BY QuoteIs, OneIs DEF Texts
<1>5. q = (quote \o D) \o quote
  BY <1>1 DEF Quoted
<1> HIDE DEF q, D, quote
<1>6. /\ quote \o D \in Texts /\ Len(quote \o D) = Len(D) + 1 /\ (quote \o D)[1] = "'"
      /\ \A m \in 1 .. Len(D) : (quote \o D)[1 + m] = D[m]
  <2>1. /\ quote \o D \in Texts /\ Len(quote \o D) = Len(quote) + Len(D)
        /\ \A m \in 1 .. Len(quote) : (quote \o D)[m] = quote[m]
        /\ \A m \in 1 .. Len(D) : (quote \o D)[Len(quote) + m] = D[m]
    BY <1>3, <1>4, JoinIs
  <2> QED
    BY <1>3, <1>4, <2>1
<1>7. /\ q \in Texts /\ Len(q) = Len(D) + 2 /\ q[1] = "'" /\ q[Len(D) + 2] = "'"
      /\ \A m \in 1 .. Len(D) : q[m + 1] = D[m]
  <2> DEFINE w == quote \o D
  <2> HIDE DEF w
  <2>1. /\ w \o quote \in Texts /\ Len(w \o quote) = Len(w) + Len(quote)
        /\ \A m \in 1 .. Len(w) : (w \o quote)[m] = w[m]
        /\ \A m \in 1 .. Len(quote) : (w \o quote)[Len(w) + m] = quote[m]
    BY <1>4, <1>6, JoinIs DEF w
  <2>2. q = w \o quote
    BY <1>5 DEF w
  <2>3. Len(w) = Len(D) + 1 /\ w[1] = "'" /\ \A m \in 1 .. Len(D) : w[1 + m] = D[m]
    BY <1>6 DEF w
  <2>4. Len(q) = Len(D) + 2 /\ q[1] = "'" /\ \A m \in 1 .. Len(D) : q[m + 1] = D[m]
    <3>1. \A m \in 1 .. Len(D) : m + 1 \in 1 .. Len(w) /\ m + 1 = 1 + m
      BY <1>3, <2>3
    <3> QED
      BY <1>3, <1>4, <2>1, <2>2, <2>3, <3>1
  <2>5. q[Len(D) + 2] = "'"
    <3>1. q[Len(w) + 1] = quote[1]
      BY <1>4, <2>1, <2>2
    <3>2. Len(w) + 1 = Len(D) + 2
      BY <1>3, <2>3
    <3> QED
      BY <1>4, <3>1, <3>2
  <2> QED
    BY <2>1, <2>2, <2>4, <2>5
<1>8. \A j \in 1 .. n + 1 : /\ f[j - 1] \in Texts /\ Len(f[j - 1]) \in Nat
                            /\ Len(f[j - 1]) <= Len(D)
                            /\ \A m \in 1 .. Len(f[j - 1]) : D[m] = f[j - 1][m]
  BY <1>1, DoubledBegins DEF D, Texts
<1>9. at \in [1 .. n + 1 -> Nat]
  BY <1>8
<1>10. at[1] = 2 /\ at[n + 1] = Len(q)
  <2>1. at[1] = Len(f[0]) + 2 /\ at[n + 1] = Len(f[n]) + 2
    BY <1>2
  <2>2. Len(f[0]) = 0
    BY <1>1 DEF IsDoubling
  <2> QED
    BY <1>7, <2>1, <2>2 DEF D
<1>11. ASSUME NEW j \in 1 .. n
       PROVE  /\ 2 <= at[j] /\ at[j] < Len(q) /\ q[at[j]] = text[j]
              /\ text[j] # "'" => at[j + 1] = at[j] + 1
              /\ text[j] = "'" => at[j + 1] = at[j] + 2 /\ at[j] + 1 < Len(q) /\ q[at[j] + 1] = "'"
  <2> DEFINE b == Len(f[j - 1])
             y == Doubling(text[j])
             x == f[j - 1]
             z == f[j]
  <2>1. at[j] = b + 2 /\ at[j + 1] = Len(z) + 2
    <3>1. at[j] = Len(f[j - 1]) + 2 /\ at[j + 1] = Len(f[(j + 1) - 1]) + 2
      BY <1>2
    <3> HIDE DEF at
    <3> QED
      BY <1>2, <3>1
  <2>2. z = x \o y
    BY <1>1 DEF IsDoubling
  <2>3. text[j] \in Characters
    BY DEF Texts
  <2>4. y \in Texts /\ Len(y) \in Nat /\ y[1] = text[j]
        /\ (text[j] # "'" => Len(y) = 1) /\ (text[j] = "'" => Len(y) = 2 /\ y[2] = "'")
    <3>1. CASE text[j] # "'"
      BY <2>3, <3>1, OneIs DEF Doubling, Texts
    <3>2. CASE text[j] = "'"
      BY <3>2, QuoteIs DEF Doubling, Texts
    <3> QED
      BY <3>1, <3>2
  <2>5. b \in Nat /\ x \in Texts
    BY <1>2, <1>8
  <2>6. Len(z) <= Len(D) /\ \A m \in 1 .. Len(z) : D[m] = z[m]
    <3>1. (j + 1) - 1 = j /\ j + 1 \in 1 .. n + 1
      BY <1>2
    <3>2. Len(f[(j + 1) - 1]) <= Len(D) /\ \A m \in 1 .. Len(f[(j + 1) - 1]) : D[m] = f[(j + 1) - 1][m]
      BY <1>8, <3>1
    <3> QED
      BY <3>1, <3>2
  <2> HIDE DEF y, z, at, n
  <2>7. Len(z) = b + Len(y) /\ \A m \in 1 .. Len(y) : z[b + m] = y[m]
    <3> DEFINE u == x
    <3> HIDE DEF x
    <3>1. Len(x \o y) = Len(x) + Len(y) /\ \A m \in 1 .. Len(y) : (x \o y)[Len(x) + m] = y[m]
      BY <2>4, <2>5, JoinIs
    <3> QED
      BY <2>2, <3>1 DEF x
  <2> HIDE DEF b, x
  <2>8. \A m \in 1 .. Len(y) : /\ b + m \in 1 .. Len(z) /\ b + m \in 1 .. Len(D)
                               /\ q[(b + m) + 1] = y[m]
    <3> TAKE m \in 1 .. Len(y)
    <3>1. b + m \in 1 .. Len(z) /\ b + m \in 1 .. Len(D)
      BY <1>3, <2>4, <2>5, <2>6, <2>7
    <3>2. z[b + m] = y[m]
      BY <2>7
    <3>3. D[b + m] = z[b + m]
      BY <2>6, <3>1
    <3>4. q[(b + m) + 1] = D[b + m]
      BY <1>7, <3>1
    <3> QED
      BY <3>1, <3>2, <3>3, <3>4
  <2>9. 1 \in 1 .. Len(y) /\ (text[j] = "'" => 2 \in 1 .. Len(y))
    BY <2>4
  <2>10. b + 1 \in 1 .. Len(D) /\ q[(b + 1) + 1] = text[j]
    BY <2>4, <2>8, <2>9
  <2>11. text[j] = "'" => b + 2 \in 1 .. Len(D) /\ q[(b + 2) + 1] = "'"
    BY <2>4, <2>8, <2>9
  <2>12. (b + 1) + 1 = b + 2 /\ (b + 2) + 1 = b + 3
    BY <2>5
  <2>13. q[b + 2] = text[j] /\ (text[j] = "'" => q[b + 3] = "'")
    BY <2>10, <2>11, <2>12
  <2>14. at[j] + 1 = b + 3
    BY <2>1, <2>5
  <2> QED
    BY <1>3, <1>7, <2>1, <2>4, <2>5, <2>7, <2>10, <2>11, <2>13, <2>14
<1> HIDE DEF at
<1>12. Places(at, q, text)
  BY <1>7, <1>9, <1>10, <1>11 DEF Places, n
<1> QED
  BY <1>12 DEF q

\* The rest of a literal, from where a character stands, says the rest of the
\* text.
LEMMA LiteralSays ==
  ASSUME NEW text \in Texts, NEW q, NEW at, Places(at, q, text)
  PROVE  \A j \in 1 .. Len(text) + 1 :
           Strings(q)[at[j]] = [end |-> Len(q) + 1, text |-> SubSeq(text, j, Len(text))]
<1> DEFINE n       == Len(text)
           m       == n + 1
           Rest(j) == [end |-> Len(q) + 1, text |-> SubSeq(text, j, n)]
           G       == {j \in 1 .. m : Strings(q)[at[j]] = Rest(j)}
<1>0. n \in Nat /\ m \in Nat /\ q \in Texts /\ Len(q) \in Nat
  BY DEF Texts, Places
<1>1. ASSUME NEW j \in 1 .. m, \A i \in j + 1 .. m : i \in G PROVE j \in G
  <2>1. CASE j = m
    <3>1. at[j] = Len(q) /\ q[Len(q)] = "'"
      BY <2>1 DEF Places
    <3>2. 2 <= Len(q) \/ Len(q) = 2
      <4>1. n = 0 => at[1] = at[m]
        OBVIOUS
      <4>2. n # 0 => 1 \in 1 .. n
        BY <1>0
      <4> HIDE DEF n, m
      <4> QED
        BY <1>0, <4>1, <4>2 DEF Places, n, m
    <3>3. Len(q) \in 1 .. Len(q) + 1 /\ ~(Len(q) > Len(q))
      BY <1>0, <3>2
    <3>4. CharAt(q, Len(q) + 1) # "'"
      BY <1>0 DEF CharAt
    <3>5. Strings(q)[Len(q)] = [end |-> Len(q) + 1, text |-> <<>>]
      BY <1>0, <3>1, <3>3, <3>4, StringsAre DEF LiteralFrom
    <3>6. SubSeq(text, m, n) = <<>>
      BY <1>0, SubSeqEmpty
    <3> HIDE DEF m
    <3> QED
      BY <2>1, <3>1, <3>5, <3>6
  <2>2. CASE j # m
    <3>1. j \in 1 .. n /\ j + 1 \in j + 1 .. m /\ j + 1 \in 1 .. m
      BY <1>0, <2>2
    <3>2. /\ 2 <= at[j] /\ at[j] < Len(q) /\ q[at[j]] = text[j] /\ at[j] \in Nat
          /\ text[j] # "'" => at[j + 1] = at[j] + 1
          /\ text[j] = "'" => at[j + 1] = at[j] + 2 /\ at[j] + 1 < Len(q) /\ q[at[j] + 1] = "'"
      BY <3>1 DEF Places
    <3>3. Strings(q)[at[j + 1]] = Rest(j + 1)
      BY <1>1, <3>1
    <3>4. /\ at[j] \in 1 .. Len(q) + 1 /\ ~(at[j] > Len(q))
          /\ text[j] = "'" => at[j] + 1 <= Len(q)
      BY <1>0, <3>2
    <3>5. Strings(q)[at[j]] = LiteralFrom(q, at[j], Strings(q))
      BY <1>0, <3>4, StringsAre
    <3>6. Strings(q)[at[j]] = Says(text[j], Strings(q)[at[j + 1]])
      <4>1. CASE text[j] # "'"
        BY <3>2, <3>4, <3>5, <4>1 DEF LiteralFrom
      <4>2. CASE text[j] = "'"
        BY <3>2, <3>4, <3>5, <4>2 DEF LiteralFrom, CharAt
      <4> QED
        BY <4>1, <4>2
    <3>7. SubSeq(text, j, n) = <<text[j]>> \o SubSeq(text, j + 1, n)
      <4>1. j \in 1 .. Len(text) /\ n \in j .. Len(text)
        BY <1>0, <3>1
      <4> HIDE DEF n
      <4> QED
        BY <4>1, SubSeqRecursiveFirst DEF Texts
    <3>8. Says(text[j], Rest(j + 1)) = [end |-> Len(q) + 1, text |-> <<text[j]>> \o SubSeq(text, j + 1, n)]
      <4> DEFINE e == Len(q) + 1
                 c == text[j]
                 t == SubSeq(text, j + 1, n)
                 r == [end |-> e, text |-> t]
      <4>1. c \in Characters /\ e \in Nat
        BY <1>0, <3>1 DEF Texts
      <4>2. t \in Texts
        <5>1. j \in 0 .. Len(text)
          BY <1>0, <3>1
        <5>2. SubSeq(text, j + 1, Len(text)) \in Texts
          BY <5>1, CutIs
        <5> QED
          BY <5>2
      <4> HIDE DEF e, c, t
      <4>3. r \in Literals /\ r.end = e /\ r.text = t
        BY <4>1, <4>2 DEF Literals
      <4> HIDE DEF r
      <4>4. Says(c, r) \in Literals /\ Says(c, r).end = e /\ Says(c, r).text = <<c>> \o t
        BY <4>1, <4>3, SaysIs
      <4>5. Says(c, r) = [end |-> e, text |-> <<c>> \o t]
        BY <4>4 DEF Literals
      <4> QED
        BY <4>5 DEF e, c, t, r
    <3>9. Strings(q)[at[j]] = Rest(j)
      BY <3>3, <3>6, <3>7, <3>8
    <3> QED
      BY <3>9
  <2> QED
    BY <2>1, <2>2
<1> HIDE DEF G, m
<1>2. \A j \in 1 .. m : j \in G
  BY <1>0, <1>1, Downwards
<1> QED
  BY <1>2 DEF G, m

\* A rendered literal is read as its text, for every text.
LEMMA AllQuotedReadBack ==
  ASSUME NEW text \in Texts
  PROVE  QuotesBack(text)
<1> DEFINE q == Quoted(text)
<1>1. PICK at : Places(at, q, text)
  BY QuotedIs
<1> HIDE DEF q
<1>2. q \in Texts /\ q[1] = "'" /\ at[1] = 2 /\ Len(q) \in Nat /\ text \in Seq(Characters) /\ Len(text) \in Nat
  BY <1>1 DEF Places, Texts
<1>3. Strings(q)[2] = [end |-> Len(q) + 1, text |-> text]
  <2>1. 1 \in 1 .. Len(text) + 1
    BY <1>2
  <2>2. Strings(q)[at[1]] = [end |-> Len(q) + 1, text |-> SubSeq(text, 1, Len(text))]
    BY <1>1, <2>1, LiteralSays
  <2> QED
    BY <1>2, <2>2, SubSeqFull
<1>4. LexemeAt(q, 1) = Lexeme("string", text, Len(q) + 1)
  <2>1. LexemeAt(q, 1) = StringAt(q, 1)
    BY <1>2 DEF LexemeAt, WhiteSpace, Singles, Digits, Letters
  <2> DEFINE l == StringFrom(q, 1 + 1)
  <2>2. l = [end |-> Len(q) + 1, text |-> text]
    BY <1>3 DEF StringFrom
  <2>3. l.end # 0 /\ l.end = Len(q) + 1 /\ l.text = text
    BY <1>2, <2>2
  <2> QED
    BY <2>1, <2>3 DEF StringAt
<1>5. 1 \in 1 .. Len(q)
  <2>1. q # <<>> => Len(q) > 0
    BY <1>2
  <2>2. Len(q) = at[Len(text) + 1] /\ at[Len(text) + 1] \in Nat
    BY <1>1, <1>2 DEF Places
  <2>3. Len(text) = 0 => Len(q) = 2
    BY <1>2, <2>2
  <2>4. Len(text) # 0 => 1 \in 1 .. Len(text)
    BY <1>2
  <2>5. Len(text) # 0 => 2 < Len(q)
    BY <1>1, <1>2, <2>4 DEF Places
  <2> QED
    BY <1>2, <2>3, <2>5
<1> DEFINE l == Lexeme("string", text, Len(q) + 1)
<1>6. l.k = "string" /\ l.text = text /\ l.end = Len(q) + 1 /\ l.k \notin Errors \cup {"blank"}
  BY DEF Lexeme, Errors
<1>7. LexemeAt(q, 1) = l
  BY <1>4
<1> HIDE DEF l
<1>8. Lexing(q)[1] = Finds(Token("string", 1, text), Lexing(q)[Len(q) + 1])
  BY <1>2, <1>5, <1>6, <1>7, LexingFrom
<1>9. Lexing(q)[Len(q) + 1] = [tokens |-> <<>>, error |-> NoError]
  BY <1>2, LexingAtEnd
<1> DEFINE one == <<Token("string", 1, text)>>
<1>10. one \o <<>> = one
  <2>1. one \in Seq({Token("string", 1, text)})
    BY OneIs
  <2> QED
    BY <2>1, ConcatEmptySeq
<1> QED
  BY <1>8, <1>9, <1>10 DEF QuotesBack, Lex, Finds, q

-----------------------------------------------------------------------------
(* Counting quotes.                                                        *)

\* The positions after which in_str holds.
Inside(text) == {i \in 0 .. Len(text) : InString(text)[i]}

\* in_str is turned over by every quote and by nothing else.
LEMMA InStringIs ==
  ASSUME NEW text \in Texts
  PROVE  /\ 0 \notin Inside(text)
         /\ \A i \in 1 .. Len(text) :
              /\ text[i] = "'" => (i \in Inside(text) <=> i - 1 \notin Inside(text))
              /\ text[i] # "'" => (i \in Inside(text) <=> i - 1 \in Inside(text))
<1> DEFINE n == Len(text)
           Is(f) == f = [i \in 0 .. Len(text) |-> IF i = 0 THEN FALSE ELSE f[i - 1] # (text[i] = "'")]
           after == CHOOSE f : Is(f)
           g == [p \in BOOLEAN \X (1 .. n) |-> p[1] # (text[p[2]] = "'")]
<1>1. n \in Nat
  BY DEF Texts
<1>2. InString(text) = after
  BY DEF InString
<1>3. \A b \in BOOLEAN, i \in 1 .. n : g[<<b, i>>] = (b # (text[i] = "'")) /\ g[<<b, i>>] \in BOOLEAN
  BY Zenon
<1> HIDE DEF g
<1>4. IsStep(g, BOOLEAN, n)
  BY <1>3, Zenon DEF IsStep
<1>5. PICK f : Steps(f, g, BOOLEAN, FALSE, n)
  <2>1. FALSE \in BOOLEAN
    BY Zenon
  <2> HIDE DEF n
  <2> QED
    BY <1>1, <1>4, <2>1, Recursion, Zenon
<1>6. f \in [0 .. n -> BOOLEAN] /\ f[0] = FALSE /\ \A i \in 1 .. n : f[i] = g[<<f[i - 1], i>>]
  BY <1>5, Zenon DEF Steps
<1>7. \A i \in 0 .. n : i = 0 \/ (i \in 1 .. n /\ i - 1 \in 0 .. n)
  BY <1>1
<1>8. \A i \in 0 .. n : f[i] = IF i = 0 THEN FALSE ELSE f[i - 1] # (text[i] = "'")
  <2> TAKE i \in 0 .. n
  <2>1. CASE i = 0
    BY <1>6, <2>1, Zenon
  <2>2. CASE i # 0
    <3>1. i \in 1 .. n /\ i - 1 \in 0 .. n
      BY <1>7, <2>2, Zenon
    <3>2. f[i - 1] \in BOOLEAN
      BY <1>6, <3>1, Zenon
    <3>3. f[i] = g[<<f[i - 1], i>>]
      BY <1>6, <3>1, Zenon
    <3>4. g[<<f[i - 1], i>>] = (f[i - 1] # (text[i] = "'"))
      BY <1>3, <3>1, <3>2, Zenon
    <3> QED
      BY <2>2, <3>3, <3>4, Zenon
  <2> QED
    BY <2>1, <2>2, Zenon
<1>9. Is(f)
  <2>1. f = [i \in 0 .. n |-> f[i]]
    BY <1>6, Zenon
  <2> QED
    BY <1>8, <2>1, Zenon
<1>10. Is(after)
  BY <1>9, Zenon
<1> HIDE DEF after
<1>11. \A i \in 0 .. n : after[i] = IF i = 0 THEN FALSE ELSE after[i - 1] # (text[i] = "'")
  BY <1>10, Zenon DEF n
<1>12. 0 \in 0 .. n /\ ~after[0]
  <2>1. 0 \in 0 .. n
    BY <1>1
  <2> QED
    BY <1>11, <2>1, Zenon
<1>13. \A i \in 1 .. n : i \in 0 .. n /\ i # 0 /\ i - 1 \in 0 .. n
  BY <1>1
<1>14. ASSUME NEW i \in 1 .. n PROVE after[i] <=> (after[i - 1] # (text[i] = "'"))
  BY <1>11, <1>13, Zenon
<1>15. \A i \in 0 .. n : after[i] \in BOOLEAN
  <2> TAKE i \in 0 .. n
  <2>1. after[i] = FALSE \/ after[i] = (after[i - 1] # (text[i] = "'"))
    BY <1>11, Zenon
  <2> QED
    BY <2>1, Zenon
<1>16. ASSUME NEW i \in 1 .. n, text[i] = "'" PROVE after[i] <=> ~after[i - 1]
  BY <1>13, <1>14, <1>15, <1>16, Zenon
<1>17. ASSUME NEW i \in 1 .. n, text[i] # "'" PROVE after[i] <=> after[i - 1]
  BY <1>13, <1>14, <1>15, <1>17, Zenon
<1>18. \A i \in 0 .. n : i \in Inside(text) <=> after[i]
  BY <1>2, Zenon DEF Inside, n
<1> HIDE DEF n
<1> QED
  BY <1>12, <1>13, <1>16, <1>17, <1>18, Zenon DEF n

\* Where there are no quotes, it stays.
LEMMA NoQuotes ==
  ASSUME NEW text \in Texts, NEW a \in 0 .. Len(text), NEW b \in a .. Len(text),
         \A m \in a + 1 .. b : text[m] # "'"
  PROVE  b \in Inside(text) <=> a \in Inside(text)
<1> DEFINE n == b - a
           G == {i \in 0 .. n : a + i \in Inside(text) <=> a \in Inside(text)}
<1>0. a \in Nat /\ b \in Nat /\ n \in Nat /\ a + n = b /\ Len(text) \in Nat
  BY DEF Texts
<1>1. 0 \in G
  BY <1>0
<1>2. ASSUME NEW i \in 1 .. n, i - 1 \in G PROVE i \in G
  <2>1. a + i \in 1 .. Len(text) /\ (a + i) - 1 = a + (i - 1) /\ a + i \in a + 1 .. b
    BY <1>0
  <2>2. text[a + i] # "'"
    BY <2>1
  <2>3. a + i \in Inside(text) <=> (a + i) - 1 \in Inside(text)
    BY <2>1, <2>2, InStringIs
  <2> HIDE DEF n
  <2> QED
    BY <1>2, <2>1, <2>3
<1> HIDE DEF G, n
<1>3. \A i \in 0 .. n : i \in G
  BY <1>0, <1>1, <1>2, IntervalInduction
<1>4. n \in G
  BY <1>0, <1>3
<1> QED
  BY <1>0, <1>4 DEF G

\* A literal has an odd number of quotes before it ends, and an even one if
\* it does not.
LEMMA LiteralQuotes ==
  ASSUME NEW text \in Texts
  PROVE  \A j \in 1 .. Len(text) + 1 :
           /\ Strings(text)[j].end = 0 => (Len(text) \in Inside(text) <=> j - 1 \in Inside(text))
           /\ Strings(text)[j].end # 0 =>
                (Strings(text)[j].end - 1 \in Inside(text) <=> j - 1 \notin Inside(text))
<1> DEFINE n == Len(text)
           m == n + 1
           I == Inside(text)
           S == Strings(text)
           G == {j \in 1 .. m : /\ S[j].end = 0 => (n \in I <=> j - 1 \in I)
                                /\ S[j].end # 0 => (S[j].end - 1 \in I <=> j - 1 \notin I)}
<1>0. n \in Nat /\ m \in Nat
  BY DEF Texts
<1>1. \A j \in 1 .. m : S[j] = LiteralFrom(text, j, S) /\ S[j] \in Literals
  BY StringsAre
<1>2. \A i \in 1 .. n : /\ text[i] = "'" => (i \in I <=> i - 1 \notin I)
                        /\ text[i] # "'" => (i \in I <=> i - 1 \in I)
  BY InStringIs
<1>3. \A i \in 1 .. n : text[i] \in Characters
  BY DEF Texts
<1> HIDE DEF I, S
<1>4. ASSUME NEW j \in 1 .. m, \A i \in j + 1 .. m : i \in G PROVE j \in G
  <2>1. CASE j = m
    <3>1. j > Len(text) /\ j - 1 = n
      BY <1>0, <2>1
    <3>2. S[j] = [end |-> 0, text |-> <<>>]
      BY <1>1, <3>1 DEF LiteralFrom
    <3>3. S[j].end = 0
      BY <3>2
    <3> HIDE DEF n
    <3> QED
      BY <3>1, <3>3
  <2>2. CASE j # m /\ text[j] # "'"
    <3>1. j \in 1 .. n /\ ~(j > Len(text)) /\ j + 1 \in j + 1 .. m /\ j + 1 \in 1 .. m /\ (j + 1) - 1 = j
      BY <1>0, <2>2
    <3>2. S[j] = Says(text[j], S[j + 1])
      BY <1>1, <2>2, <3>1 DEF LiteralFrom
    <3>3. S[j].end = S[j + 1].end
      <4>1. text[j] \in Characters /\ S[j + 1] \in Literals
        BY <1>1, <1>3, <3>1
      <4> QED
        BY <3>2, <4>1, SaysIs
    <3>4. j + 1 \in G
      BY <1>4, <3>1
    <3>5. j \in I <=> j - 1 \in I
      BY <1>2, <2>2, <3>1, Zenon
    <3> HIDE DEF n, m
    <3> QED
      BY <3>1, <3>3, <3>4, <3>5
  <2>3. CASE j # m /\ text[j] = "'" /\ CharAt(text, j + 1) = "'"
    <3>1. j \in 1 .. n /\ ~(j > Len(text))
      BY <1>0, <2>3
    <3>2. j + 1 \in 1 .. n /\ text[j + 1] = "'"
      BY <1>0, <2>3, <3>1 DEF CharAt
    <3>3. j + 2 \in j + 1 .. m /\ j + 2 \in 1 .. m /\ (j + 2) - 1 = j + 1 /\ (j + 1) - 1 = j
      BY <1>0, <3>2
    <3>4. S[j] = Says("'", S[j + 2])
      BY <1>1, <2>3, <3>1 DEF LiteralFrom
    <3>5. S[j].end = S[j + 2].end
      <4>1. S[j + 2] \in Literals
        BY <1>1, <3>3
      <4> QED
        BY <3>4, <4>1, SaysIs, QuoteIs
    <3>6. j + 2 \in G
      BY <1>4, <3>3
    <3>7. (j \in I <=> j - 1 \notin I) /\ (j + 1 \in I <=> (j + 1) - 1 \notin I)
      BY <1>2, <2>3, <3>1, <3>2, Zenon
    <3> HIDE DEF n, m
    <3> QED
      BY <3>3, <3>5, <3>6, <3>7
  <2>4. CASE j # m /\ text[j] = "'" /\ CharAt(text, j + 1) # "'"
    <3>1. j \in 1 .. n /\ ~(j > Len(text)) /\ (j + 1) - 1 = j /\ j + 1 # 0
      BY <1>0, <2>4
    <3>2. S[j] = [end |-> j + 1, text |-> <<>>]
      BY <1>1, <2>4, <3>1 DEF LiteralFrom
    <3>3. S[j].end = j + 1
      BY <3>2
    <3>4. j \in I <=> j - 1 \notin I
      BY <1>2, <2>4, <3>1, Zenon
    <3> HIDE DEF n, m
    <3> QED
      BY <3>1, <3>3, <3>4
  <2> QED
    BY <2>1, <2>2, <2>3, <2>4
<1> HIDE DEF G, m
<1>5. \A j \in 1 .. m : j \in G
  BY <1>0, <1>4, Downwards
<1> QED
  BY <1>5 DEF G, m, n, I, S

\* Only string literals have quotes in them.
LEMMA QuotesInStrings ==
  ASSUME NEW text \in Texts, NEW i \in 1 .. Len(text), text[i] # "'",
         LexemeAt(text, i).k \notin Errors
  PROVE  \A m \in i .. LexemeAt(text, i).end - 1 : text[m] # "'"
<1>0. i \in Nat /\ Len(text) \in Nat /\ i \in 1 .. Len(text) + 1 /\ text[i] \in Characters
  BY DEF Texts
<1>1. CASE text[i] \in WhiteSpace
  <2>1. LexemeAt(text, i) = Lexeme("blank", <<>>, i + 1)
    BY <1>1 DEF LexemeAt, WhiteSpace, Singles, Digits, Letters
  <2>2. LexemeAt(text, i).end = i + 1
    BY <2>1 DEF Lexeme
  <2> QED
    BY <1>0, <2>2
<1>2. CASE text[i] \in Singles
  <2>1. LexemeAt(text, i) = Lexeme("symbol", <<text[i]>>, i + 1)
    BY <1>2 DEF LexemeAt, WhiteSpace, Singles, Digits, Letters
  <2>2. LexemeAt(text, i).end = i + 1
    BY <2>1 DEF Lexeme
  <2> QED
    BY <1>0, <2>2
<1>3. CASE text[i] \in {"<", ">", "!"}
  <2>1. LexemeAt(text, i) = ComparisonAt(text, i)
    BY <1>3 DEF LexemeAt, WhiteSpace, Singles, Digits, Letters
  <2> DEFINE op == Comparison(text, i)
  <2>2. op = <<text[i]>> \/ (op = <<text[i], CharAt(text, i + 1)>> /\ CharAt(text, i + 1) \in {"=", ">"})
    BY DEF Comparison
  <2>3. Len(op) = 1 \/ (Len(op) = 2 /\ text[i + 1] # "'")
    <3>1. op = <<text[i]>> => Len(op) = 1
      OBVIOUS
    <3>2. op = <<text[i], CharAt(text, i + 1)>> => Len(op) = 2
      OBVIOUS
    <3>3. CharAt(text, i + 1) \in {"=", ">"} => text[i + 1] # "'"
      BY DEF CharAt
    <3> QED
      BY <2>2, <3>1, <3>2, <3>3
  <2> HIDE DEF op
  <2>4. op # <<"!">>
    BY <2>1 DEF ComparisonAt, Failure, Lexeme, Errors, op
  <2>5. ComparisonAt(text, i) = Lexeme("symbol", op, i + Len(op))
    BY <2>4 DEF ComparisonAt, op
  <2> DEFINE end == LexemeAt(text, i).end
  <2>6. end = i + Len(op)
    BY <2>1, <2>5 DEF Lexeme
  <2> HIDE DEF end
  <2>7. end = i + 1 \/ (end = i + 2 /\ text[i + 1] # "'")
    BY <2>3, <2>6
  <2>8. \A m \in i .. end - 1 : m = i \/ (m = i + 1 /\ end = i + 2)
    BY <1>0, <2>7
  <2>9. i + 1 # i + 2
    BY <1>0
  <2> QED
    BY <2>7, <2>8, <2>9 DEF end
<1>4. CASE text[i] \in Digits
  <2> DEFINE end == RunEnd(text, i, Digits)
  <2>1. LexemeAt(text, i) = IntegerAt(text, i)
    BY <1>4 DEF LexemeAt, WhiteSpace, Singles, Digits, Letters
  <2>2. IsRunEnd(end, text, i, Digits)
    BY <1>0, ClassesAre, RunEndIs
  <2>3. LexemeAt(text, i).end = end
    <3> HIDE DEF end
    <3> QED
      BY <2>1 DEF IntegerAt, Failure, Lexeme, Errors, end
  <2>4. "'" \notin Digits
    BY DEF Digits
  <2> HIDE DEF end
  <2> QED
    BY <2>2, <2>3, <2>4 DEF IsRunEnd
<1>5. CASE text[i] \in Letters
  <2> DEFINE class == Letters \cup Digits
             end   == RunEnd(text, i, class)
  <2>1. LexemeAt(text, i) = WordAt(text, i)
    BY <1>5 DEF LexemeAt, WhiteSpace, Singles, Digits, Letters
  <2>2. class \subseteq Characters /\ "'" \notin class
    BY ClassesAre DEF Digits, Letters
  <2> HIDE DEF class
  <2>3. IsRunEnd(end, text, i, class)
    BY <1>0, <2>2, RunEndIs
  <2>4. LexemeAt(text, i).end = end
    BY <2>1 DEF WordAt, Lexeme, class
  <2> HIDE DEF end
  <2> QED
    BY <2>2, <2>3, <2>4 DEF IsRunEnd
<1>6. CASE text[i] \notin WhiteSpace \cup Singles \cup {"<", ">", "!"} \cup Digits \cup Letters
  <2>1. LexemeAt(text, i) = Failure("UnexpectedChar")
    BY <1>6 DEF LexemeAt, WhiteSpace, Singles, Digits, Letters
  <2> QED
    BY <2>1 DEF Failure, Lexeme, Errors
<1> QED
  BY <1>1, <1>2, <1>3, <1>4, <1>5, <1>6

\* A text with an even number of quotes ends no string literal.
LEMMA Balanced ==
  ASSUME NEW text \in Texts, Len(text) \notin Inside(text)
  PROVE  Lex(text).error.k # "UnterminatedString"
<1> DEFINE n == Len(text)
           m == n + 1
           I == Inside(text)
           T == Lexing(text)
           G == {i \in 1 .. m : i - 1 \notin I => T[i].error.k # "UnterminatedString"}
<1>0. n \in Nat /\ m \in Nat /\ 1 \in 1 .. m /\ 1 - 1 = 0
  BY DEF Texts
<1> HIDE DEF I, T
<1>1. ASSUME NEW i \in 1 .. m, \A j \in i + 1 .. m : j \in G PROVE i \in G
  <2> SUFFICES ASSUME i - 1 \notin I PROVE T[i].error.k # "UnterminatedString"
    OBVIOUS
  <2>1. CASE i = m
    <3>1. T[i] = [tokens |-> <<>>, error |-> NoError]
      BY <2>1, LexingAtEnd DEF T
    <3> QED
      BY <3>1 DEF NoError
  <2>2. CASE i # m
    <3> DEFINE l == LexemeAt(text, i)
    <3>1. i \in 1 .. n /\ i \in 0 .. n /\ i + 1 \in 1 .. m /\ i - 1 \in 0 .. n /\ (i + 1) - 1 = i /\ (i - 1) + 1 = i
      BY <1>0, <2>2
    <3>2. /\ Fits(l, text, i)
          /\ l.k \in Errors => T[i] = [tokens |-> <<>>, error |-> LexError(l.k, i)]
          /\ l.k = "blank" => T[i] = T[l.end]
          /\ l.k \notin Errors \cup {"blank"} => T[i] = Finds(Token(l.k, i, l.text), T[l.end])
      BY <3>1, LexingFrom DEF T
    <3>3. l.k \in Errors => l.k # "UnterminatedString"
      <4>1. CASE text[i] = "'"
        <5>1. l = StringAt(text, i)
          BY <4>1 DEF LexemeAt, WhiteSpace, Singles, Digits, Letters
        <5>2. i \in I
          BY <3>1, <4>1, InStringIs DEF I
        <5>3. Strings(text)[i + 1].end # 0
          BY <3>1, <5>2, LiteralQuotes DEF I
        <5> QED
          BY <5>1, <5>3 DEF StringAt, StringFrom, Lexeme, Errors
      <4>2. CASE text[i] # "'"
        BY <4>2 DEF LexemeAt, ComparisonAt, IntegerAt, WordAt, Lexeme, Failure, Errors
      <4> QED
        BY <4>1, <4>2
    <3>4. l.k \notin Errors => l.end - 1 \notin I
      <4> SUFFICES ASSUME l.k \notin Errors PROVE l.end - 1 \notin I
        OBVIOUS
      <4>1. CASE text[i] = "'"
        <5>1. l = StringAt(text, i)
          BY <4>1 DEF LexemeAt, WhiteSpace, Singles, Digits, Letters
        <5>2. i \in I
          BY <3>1, <4>1, InStringIs DEF I
        <5>3. Strings(text)[i + 1].end # 0
          BY <5>1 DEF StringAt, StringFrom, Failure, Lexeme, Errors
        <5>4. l.end = Strings(text)[i + 1].end
          BY <5>1, <5>3 DEF StringAt, StringFrom, Lexeme
        <5> HIDE DEF l
        <5> QED
          BY <3>1, <5>2, <5>3, <5>4, LiteralQuotes DEF I
      <4>2. CASE text[i] # "'"
        <5>1. \A c \in i .. l.end - 1 : text[c] # "'"
          BY <3>1, <4>2, QuotesInStrings
        <5>2. l.end - 1 \in i .. n /\ l.end - 1 \in i - 1 .. n
          BY <1>0, <3>1, <3>2 DEF Fits
        <5>3. i - 1 \in Inside(text) <=> l.end - 1 \in Inside(text)
          <6> DEFINE e == l.end - 1
                     a == i - 1
          <6>1. a \in 0 .. Len(text) /\ e \in a .. Len(text) /\ \A c \in a + 1 .. e : text[c] # "'"
            BY <3>1, <5>1, <5>2
          <6> HIDE DEF e, a
          <6>2. e \in Inside(text) <=> a \in Inside(text)
            BY <6>1, NoQuotes
          <6> QED
            BY <6>2 DEF e, a
        <5> QED
          BY <5>3 DEF I
      <4> QED
        BY <4>1, <4>2
    <3> HIDE DEF l
    <3>5. l.k \notin Errors => T[l.end].error.k # "UnterminatedString"
      <4> SUFFICES ASSUME l.k \notin Errors PROVE T[l.end].error.k # "UnterminatedString"
        OBVIOUS
      <4>1. l.end \in i + 1 .. m
        BY <3>2 DEF Fits
      <4>2. l.end \in G
        BY <1>1, <4>1
      <4> QED
        BY <3>4, <4>2
    <3> QED
      BY <3>2, <3>3, <3>5 DEF Finds, LexError, Errors
  <2> QED
    BY <2>1, <2>2
<1> HIDE DEF G, m
<1>2. \A i \in 1 .. m : i \in G
  BY <1>0, <1>1, Downwards
<1>3. 0 \notin I
  BY InStringIs DEF I
<1> QED
  BY <1>0, <1>2, <1>3 DEF G, T, Lex, m

-----------------------------------------------------------------------------
(* Combining the elements of sequences.                                    *)

\* op combines the elements of M, and e changes nothing.
Combines(op, e, M) ==
  /\ e \in M
  /\ \A a \in M, b \in M : op[<<a, b>>] \in M
  /\ \A a \in M : op[<<e, a>>] = a /\ op[<<a, e>>] = a
  /\ \A a \in M, b \in M, c \in M : op[<<op[<<a, b>>], c>>] = op[<<a, op[<<b, c>>]>>]

\* f combines n values, one after the other.
Combined(f, v, op, e, n) == f[0] = e /\ \A i \in 1 .. n : f[i] = op[<<f[i - 1], v[i]>>]

\* What is combined of elements of M is in M.
LEMMA CombinedIs ==
  ASSUME NEW op, NEW e, NEW M, Combines(op, e, M), NEW n \in Nat, NEW v, NEW f,
         \A i \in 1 .. n : v[i] \in M, Combined(f, v, op, e, n)
  PROVE  \A i \in 0 .. n : f[i] \in M
<1> DEFINE G == {i \in 0 .. n : f[i] \in M}
<1>1. 0 \in G
  BY DEF Combined, Combines
<1>2. ASSUME NEW i \in 1 .. n, i - 1 \in G PROVE i \in G
  <2>1. f[i - 1] \in M /\ v[i] \in M /\ f[i] = op[<<f[i - 1], v[i]>>] /\ i \in 0 .. n
    BY <1>2 DEF Combined
  <2> QED
    BY <2>1 DEF Combines
<1> HIDE DEF G
<1>3. \A i \in 0 .. n : i \in G
  BY <1>1, <1>2, IntervalInduction
<1> QED
  BY <1>3 DEF G

\* After k values of w come n of v.
Follow(v, w, k, n, M) == \A i \in 1 .. n : v[i] \in M /\ w[k + i] = v[i]

\* f combines the first a of the values that h combines, and g the other b.
Divided(f, u, a, g, v, b, h, w, op, e, M) ==
  /\ Combines(op, e, M) /\ a \in Nat /\ b \in Nat
  /\ Follow(u, w, 0, a, M) /\ Follow(v, w, a, b, M)
  /\ Combined(f, u, op, e, a) /\ Combined(g, v, op, e, b) /\ Combined(h, w, op, e, a + b)

\* What h combines is what f does combined with what g does.
IsWhole(f, a, g, b, h, op, M) ==
  f[a] \in M /\ g[b] \in M /\ h[a + b] = op[<<f[a], g[b]>>]

\* Combining all is combining some, and then the others.
LEMMA CombinedJoin ==
  ASSUME NEW f, NEW u, NEW a, NEW g, NEW v, NEW b, NEW h, NEW w, NEW op, NEW e, NEW M,
         Divided(f, u, a, g, v, b, h, w, op, e, M)
  PROVE  IsWhole(f, a, g, b, h, op, M)
<1>19. /\ Combines(op, e, M) /\ a \in Nat /\ b \in Nat
       /\ Follow(u, w, 0, a, M) /\ Follow(v, w, a, b, M)
       /\ Combined(f, u, op, e, a) /\ Combined(g, v, op, e, b) /\ Combined(h, w, op, e, a + b)
  BY DEF Divided
<1>20. \A i \in 1 .. a : u[i] \in M /\ w[i] = u[i]
  <2>1. \A i \in 1 .. a : 0 + i = i
    BY <1>19
  <2> QED
    BY <1>19, <2>1 DEF Follow
<1>21. \A i \in 1 .. b : v[i] \in M /\ w[a + i] = v[i]
  BY <1>19 DEF Follow
<1> DEFINE G == {i \in 0 .. a : h[i] = f[i]}
           H == {i \in 0 .. b : h[a + i] = op[<<f[a], g[i]>>]}
<1>1. \A i \in 0 .. a : f[i] \in M
  BY <1>19, <1>20, CombinedIs
<1>2. \A i \in 0 .. b : g[i] \in M
  BY <1>19, <1>21, CombinedIs
<1>3. \A i \in 1 .. a + b : h[i] = op[<<h[i - 1], w[i]>>]
  BY <1>19 DEF Combined
<1>4. 0 \in G
  BY <1>19 DEF Combined
<1>5. ASSUME NEW i \in 1 .. a, i - 1 \in G PROVE i \in G
  <2>1. i \in 1 .. a + b /\ i \in 0 .. a
    BY <1>19
  <2>2. h[i] = op[<<h[i - 1], w[i]>>] /\ h[i - 1] = f[i - 1] /\ w[i] = u[i]
    BY <1>3, <1>5, <1>20, <2>1
  <2>3. f[i] = op[<<f[i - 1], u[i]>>]
    BY <1>19 DEF Combined
  <2> QED
    BY <2>1, <2>2, <2>3
<1> HIDE DEF G
<1>6. \A i \in 0 .. a : i \in G
  BY <1>4, <1>5, <1>19, IntervalInduction
<1>7. \A i \in 0 .. a : h[i] = f[i]
  BY <1>6 DEF G
<1>8. f[a] \in M /\ h[a] = f[a] /\ g[b] \in M
  BY <1>1, <1>2, <1>7, <1>19
<1>9. 0 \in H
  <2>1. a + 0 = a /\ g[0] = e /\ 0 \in 0 .. b
    BY <1>19 DEF Combined
  <2> QED
    BY <1>8, <1>19, <2>1 DEF Combines
<1>10. ASSUME NEW i \in 1 .. b, i - 1 \in H PROVE i \in H
  <2>1. i \in 0 .. b /\ i - 1 \in 0 .. b /\ a + i \in 1 .. a + b /\ (a + i) - 1 = a + (i - 1)
    BY <1>19
  <2>2. h[a + i] = op[<<h[a + (i - 1)], v[i]>>]
    BY <1>3, <1>21, <2>1
  <2>3. h[a + (i - 1)] = op[<<f[a], g[i - 1]>>]
    BY <1>10
  <2>4. g[i] = op[<<g[i - 1], v[i]>>]
    BY <1>19 DEF Combined
  <2>5. g[i - 1] \in M /\ v[i] \in M
    BY <1>2, <1>21, <2>1
  <2>6. op[<<op[<<f[a], g[i - 1]>>], v[i]>>] = op[<<f[a], op[<<g[i - 1], v[i]>>]>>]
    BY <1>8, <1>19, <2>5 DEF Combines
  <2> QED
    BY <2>1, <2>2, <2>3, <2>4, <2>6
<1> HIDE DEF H
<1>11. \A i \in 0 .. b : i \in H
  BY <1>9, <1>10, <1>19, IntervalInduction
<1>12. h[a + b] = op[<<f[a], g[b]>>]
  BY <1>11, <1>19 DEF H
<1> QED
  BY <1>8, <1>12 DEF IsWhole

\* Putting sequences together.
Concat(S) == [p \in Seq(S) \X Seq(S) |-> p[1] \o p[2]]

\* Sequences can be combined by putting them together.
LEMMA ConcatIs ==
  ASSUME NEW S
  PROVE  /\ Combines(Concat(S), <<>>, Seq(S))
         /\ \A a \in Seq(S), b \in Seq(S) : Concat(S)[<<a, b>>] = a \o b
<1>1. \A a \in Seq(S), b \in Seq(S) : Concat(S)[<<a, b>>] = a \o b
  BY DEF Concat
<1>2. <<>> \in Seq(S) /\ \A a \in Seq(S), b \in Seq(S) : a \o b \in Seq(S)
  OBVIOUS
<1>3. \A a \in Seq(S) : <<>> \o a = a /\ a \o <<>> = a
  BY ConcatEmptySeq
<1>4. \A a \in Seq(S), b \in Seq(S), c \in Seq(S) : (a \o b) \o c = a \o (b \o c)
  BY ConcatAssociative
<1> DEFINE op == Concat(S)
           M  == Seq(S)
<1>5. \A a \in M, b \in M : op[<<a, b>>] = a \o b /\ op[<<a, b>>] \in M
  BY <1>1, <1>2
<1>6. \A a \in M : op[<<<<>>, a>>] = a /\ op[<<a, <<>>>>] = a
  <2> TAKE a \in M
  <2>1. <<>> \in M
    BY <1>2
  <2>2. op[<<<<>>, a>>] = <<>> \o a /\ op[<<a, <<>>>>] = a \o <<>>
    BY <1>1, <2>1
  <2> QED
    BY <1>3, <2>2
<1>7. \A a \in M, b \in M, c \in M : op[<<op[<<a, b>>], c>>] = op[<<a, op[<<b, c>>]>>]
  <2> TAKE a \in M, b \in M, c \in M
  <2>1. a \o b \in M /\ b \o c \in M /\ (a \o b) \o c = a \o (b \o c)
    BY <1>2, <1>4
  <2> HIDE DEF op, M
  <2>2. op[<<op[<<a, b>>], c>>] = (a \o b) \o c /\ op[<<a, op[<<b, c>>]>>] = a \o (b \o c)
    BY <1>5, <2>1
  <2> QED
    BY <2>1, <2>2
<1>8. <<>> \in M
  BY <1>2
<1> HIDE DEF op, M
<1>9. Combines(op, <<>>, M)
  BY <1>5, <1>6, <1>7, <1>8 DEF Combines
<1> QED
  BY <1>1, <1>9 DEF op, M

-----------------------------------------------------------------------------
(* Sequences without some of their elements.                               *)

\* What is kept of one element.
Kept(c, dropped) == IF c \in dropped THEN <<>> ELSE <<c>>

\* It is a sequence.
LEMMA KeptIs ==
  ASSUME NEW S, NEW c \in S, NEW dropped
  PROVE  Kept(c, dropped) \in Seq(S)
<1>1. <<c>> \in Seq(S) /\ <<>> \in Seq(S)
  BY OneIs
<1> QED
  BY <1>1 DEF Kept

\* f puts together what is kept of seq, v.
Keeps(f, v, S, seq, dropped) ==
  /\ v = [i \in 1 .. Len(seq) |-> Kept(seq[i], dropped)]
  /\ \A i \in 1 .. Len(seq) : v[i] \in Seq(S)
  /\ Combined(f, v, Concat(S), <<>>, Len(seq))
  /\ Without(seq, dropped) = f[Len(seq)]

\* Without is what its definition says.
LEMMA WithoutIs ==
  ASSUME NEW S, NEW seq \in Seq(S), NEW dropped
  PROVE  \E f, v : Keeps(f, v, S, seq, dropped)
<1> DEFINE n == Len(seq)
           Is(f) == f = [i \in 0 .. Len(seq) |->
                           IF i = 0 THEN <<>>
                           ELSE IF seq[i] \in dropped THEN f[i - 1] ELSE Append(f[i - 1], seq[i])]
           upTo == CHOOSE f : Is(f)
           v == [i \in 1 .. n |-> Kept(seq[i], dropped)]
           g == [p \in Seq(S) \X (1 .. n) |-> p[1] \o Kept(seq[p[2]], dropped)]
<1>0. n \in Nat /\ \A i \in 1 .. n : seq[i] \in S
  OBVIOUS
<1>1. Without(seq, dropped) = upTo[n]
  BY DEF Without
<1>2. \A i \in 1 .. n : Kept(seq[i], dropped) \in Seq(S)
  BY <1>0, KeptIs
<1>3. \A s \in Seq(S), i \in 1 .. n :
        /\ g[<<s, i>>] = s \o Kept(seq[i], dropped) /\ s \o Kept(seq[i], dropped) \in Seq(S)
        /\ s \o Kept(seq[i], dropped) = IF seq[i] \in dropped THEN s ELSE Append(s, seq[i])
  <2> TAKE s \in Seq(S), i \in 1 .. n
  <2>1. g[<<s, i>>] = s \o Kept(seq[i], dropped)
    OBVIOUS
  <2>2. s \o Kept(seq[i], dropped) \in Seq(S)
    <3> DEFINE k == Kept(seq[i], dropped)
    <3>1. k \in Seq(S)
      BY <1>2
    <3> HIDE DEF k
    <3>2. s \o k \in Seq(S)
      BY <3>1
    <3> QED
      BY <3>2 DEF k
  <2>3. s \o <<>> = s
    BY ConcatEmptySeq
  <2>4. Append(s, seq[i]) = s \o <<seq[i]>>
    BY <1>0, AppendIsConcat
  <2> HIDE DEF g, n
  <2> QED
    BY <2>1, <2>2, <2>3, <2>4 DEF Kept
<1> HIDE DEF g
<1>4. PICK f : Steps(f, g, Seq(S), <<>>, n)
  <2>1. IsStep(g, Seq(S), n)
    BY <1>3 DEF IsStep
  <2>2. <<>> \in Seq(S)
    OBVIOUS
  <2> HIDE DEF n
  <2> QED
    BY <1>0, <2>1, <2>2, Recursion
<1>5. \A i \in 0 .. n : i = 0 \/ (i \in 1 .. n /\ i - 1 \in 0 .. n)
  BY <1>0
<1>6. \A i \in 0 .. n : f[i] = IF i = 0 THEN <<>>
                              ELSE IF seq[i] \in dropped THEN f[i - 1] ELSE Append(f[i - 1], seq[i])
  <2> TAKE i \in 0 .. n
  <2>1. CASE i = 0
    BY <1>4, <2>1 DEF Steps
  <2>2. CASE i # 0
    <3>1. i \in 1 .. n /\ f[i - 1] \in Seq(S) /\ f[i] = g[<<f[i - 1], i>>]
      BY <1>4, <1>5, <2>2 DEF Steps
    <3> QED
      BY <1>3, <2>2, <3>1
  <2> QED
    BY <2>1, <2>2
<1>7. Is(f)
  <2>1. f = [i \in 0 .. n |-> f[i]]
    BY <1>4 DEF Steps
  <2> QED
    BY <1>6, <2>1
<1>8. Is(upTo)
  BY <1>7
<1> HIDE DEF upTo, n
<1>9. \A i \in 0 .. n : upTo[i] = IF i = 0 THEN <<>>
                                 ELSE IF seq[i] \in dropped THEN upTo[i - 1]
                                 ELSE Append(upTo[i - 1], seq[i])
  BY <1>8 DEF n
<1>10. 0 \in 0 .. n /\ \A i \in 1 .. n : i \in 0 .. n /\ i # 0 /\ i - 1 \in 0 .. n
  BY <1>0
<1>11. upTo[0] = <<>>
  BY <1>9, <1>10
<1> DEFINE H == {i \in 0 .. n : upTo[i] \in Seq(S)}
<1>12. 0 \in H
  <2>1. <<>> \in Seq(S)
    OBVIOUS
  <2> QED
    BY <1>10, <1>11, <2>1
<1>13. ASSUME NEW i \in 1 .. n, upTo[i - 1] \in Seq(S)
       PROVE  upTo[i] = upTo[i - 1] \o Kept(seq[i], dropped) /\ upTo[i] \in Seq(S)
  BY <1>3, <1>9, <1>10, <1>13
<1>14. ASSUME NEW i \in 1 .. n, i - 1 \in H PROVE i \in H
  BY <1>10, <1>13, <1>14
<1> HIDE DEF H
<1>15. \A i \in 0 .. n : i \in H
  BY <1>0, <1>12, <1>14, IntervalInduction
<1>16. ASSUME NEW i \in 1 .. n PROVE upTo[i] = Concat(S)[<<upTo[i - 1], v[i]>>]
  <2>1. upTo[i - 1] \in Seq(S)
    BY <1>10, <1>15 DEF H
  <2>2. v[i] = Kept(seq[i], dropped) /\ v[i] \in Seq(S)
    BY <1>2
  <2>3. upTo[i] = upTo[i - 1] \o Kept(seq[i], dropped)
    BY <1>13, <2>1
  <2> DEFINE a == upTo[i - 1]
             b == v[i]
  <2>4. a \in Seq(S) /\ b \in Seq(S)
    BY <2>1, <2>2
  <2> HIDE DEF a, b
  <2>5. Concat(S)[<<a, b>>] = a \o b
    BY <2>4, ConcatIs
  <2> QED
    BY <2>2, <2>3, <2>5 DEF a, b
<1>17. Combined(upTo, v, Concat(S), <<>>, n)
  BY <1>11, <1>16 DEF Combined
<1>18. \A i \in 1 .. n : v[i] \in Seq(S)
  BY <1>2
<1>19. Keeps(upTo, v, S, seq, dropped)
  BY <1>1, <1>17, <1>18 DEF Keeps, n
<1> QED
  BY <1>19

\* z is x and then y.
IsJoined(z, x, y) == z = x \o y

\* Elements can be left out before or after sequences are put together.
LEMMA WithoutJoined ==
  ASSUME NEW S, NEW x \in Seq(S), NEW y \in Seq(S), NEW dropped
  PROVE  /\ Without(x, dropped) \in Seq(S) /\ Without(y, dropped) \in Seq(S)
         /\ IsJoined(Without(x \o y, dropped), Without(x, dropped), Without(y, dropped))
<1> DEFINE a == Len(x)
           b == Len(y)
           z == x \o y
<1>1. /\ a \in Nat /\ b \in Nat /\ z \in Seq(S) /\ Len(z) = a + b
      /\ \A i \in 1 .. a : i \in 1 .. a + b /\ z[i] = x[i] /\ x[i] \in S
      /\ \A i \in 1 .. b : a + i \in 1 .. a + b /\ z[a + i] = y[i] /\ y[i] \in S
  <2>1. z \in Seq(S) /\ Len(z) = a + b /\ \A i \in 1 .. a + b : z[i] = IF i <= a THEN x[i] ELSE y[i - a]
    BY ConcatProperties
  <2>2. a \in Nat /\ b \in Nat /\ (\A i \in 1 .. a : x[i] \in S) /\ (\A i \in 1 .. b : y[i] \in S)
    OBVIOUS
  <2> HIDE DEF a, b, z
  <2>3. \A i \in 1 .. b : a + i \in 1 .. a + b /\ (a + i) - a = i /\ ~(a + i <= a)
    BY <2>2
  <2>4. \A i \in 1 .. a : i \in 1 .. a + b /\ i <= a
    BY <2>2
  <2> QED
    BY <2>1, <2>2, <2>3, <2>4
<1> HIDE DEF z
<1>2. PICK f, u : Keeps(f, u, S, x, dropped)
  BY WithoutIs
<1>3. PICK g, v : Keeps(g, v, S, y, dropped)
  BY WithoutIs
<1>4. PICK h, w : Keeps(h, w, S, z, dropped)
  BY <1>1, WithoutIs
<1>12. /\ u = [i \in 1 .. a |-> Kept(x[i], dropped)] /\ \A i \in 1 .. a : u[i] \in Seq(S)
       /\ Combined(f, u, Concat(S), <<>>, a) /\ Without(x, dropped) = f[a]
  BY <1>2 DEF Keeps
<1>13. /\ v = [i \in 1 .. b |-> Kept(y[i], dropped)] /\ \A i \in 1 .. b : v[i] \in Seq(S)
       /\ Combined(g, v, Concat(S), <<>>, b) /\ Without(y, dropped) = g[b]
  BY <1>3 DEF Keeps
<1>14. /\ w = [i \in 1 .. a + b |-> Kept(z[i], dropped)]
       /\ Combined(h, w, Concat(S), <<>>, a + b) /\ Without(z, dropped) = h[a + b]
  BY <1>1, <1>4 DEF Keeps
<1> HIDE DEF a, b
<1>5. \A i \in 1 .. a : u[i] \in Seq(S) /\ w[i] = u[i]
  BY <1>1, <1>12, <1>14
<1>6. \A i \in 1 .. b : v[i] \in Seq(S) /\ w[a + i] = v[i]
  BY <1>1, <1>13, <1>14
<1>7. f[a] \in Seq(S) /\ g[b] \in Seq(S) /\ h[a + b] = Concat(S)[<<f[a], g[b]>>]
  <2> DEFINE op == Concat(S)
             M == Seq(S)
  <2>1. Combines(op, <<>>, M)
    BY ConcatIs
  <2>2. Combined(f, u, op, <<>>, a) /\ Combined(g, v, op, <<>>, b) /\ Combined(h, w, op, <<>>, a + b)
    BY <1>12, <1>13, <1>14
  <2>3. Follow(u, w, 0, a, M)
    BY <1>1, <1>5 DEF Follow
  <2>5. Follow(v, w, a, b, M)
    BY <1>6 DEF Follow
  <2>6. a \in Nat /\ b \in Nat
    BY <1>1
  <2> HIDE DEF op, M
  <2>4. f[a] \in M /\ g[b] \in M /\ h[a + b] = op[<<f[a], g[b]>>]
    <3>1. Divided(f, u, a, g, v, b, h, w, op, <<>>, M)
      BY <2>1, <2>2, <2>3, <2>5, <2>6 DEF Divided
    <3>2. IsWhole(f, a, g, b, h, op, M)
      BY <3>1, CombinedJoin
    <3> QED
      BY <3>2 DEF IsWhole
  <2> QED
    BY <2>4 DEF op, M
<1>8. h[a + b] = f[a] \o g[b]
  BY <1>7, ConcatIs
<1> QED
  BY <1>7, <1>8, <1>12, <1>13, <1>14 DEF z, IsJoined

\* Without, of no element and of one.
LEMMA WithoutSmall ==
  ASSUME NEW S, NEW c \in S, NEW dropped
  PROVE  Without(<<>>, dropped) = <<>> /\ Without(<<c>>, dropped) = Kept(c, dropped)
<1>1. Without(<<>>, dropped) = <<>>
  <2> DEFINE none == <<>>
  <2>1. none \in Seq(S) /\ Len(none) = 0
    OBVIOUS
  <2> HIDE DEF none
  <2>2. PICK f, v : Keeps(f, v, S, none, dropped)
    BY <2>1, WithoutIs
  <2> QED
    BY <2>1, <2>2 DEF Combined, Keeps, none
<1>2. Without(<<c>>, dropped) = Kept(c, dropped)
  <2> DEFINE one == <<c>>
             k   == Kept(c, dropped)
  <2>1. one \in Seq(S) /\ Len(one) = 1 /\ one[1] = c
    BY OneIs
  <2> HIDE DEF one
  <2>6. PICK f, v : Keeps(f, v, S, one, dropped)
    BY <2>1, WithoutIs
  <2>2. /\ v = [i \in 1 .. Len(one) |-> Kept(one[i], dropped)]
        /\ Combined(f, v, Concat(S), <<>>, Len(one)) /\ Without(one, dropped) = f[Len(one)]
    BY <2>6 DEF Keeps
  <2>3. v[1] = k /\ k \in Seq(S)
    BY <2>1, <2>2, KeptIs
  <2>4. f[0] = <<>> /\ f[1] = Concat(S)[<<f[1 - 1], v[1]>>] /\ 1 - 1 = 0
    BY <2>1, <2>2 DEF Combined
  <2>5. Concat(S)[<<<<>>, k>>] = k
    BY <2>3, ConcatIs DEF Combines
  <2> QED
    BY <2>1, <2>2, <2>3, <2>4, <2>5 DEF one
<1> QED
  BY <1>1, <1>2

-----------------------------------------------------------------------------
(* Readings.                                                               *)

\* Tokens without their positions.
Names == Kinds \X Texts

\* A sequence of tokens without their positions.
Named(tokens) == [i \in DOMAIN tokens |-> <<tokens[i].k, tokens[i].text>>]

\* It has one for each token.
LEMMA NamedIs ==
  ASSUME NEW tokens \in Seq(Tokens)
  PROVE  /\ Named(tokens) \in Seq(Names) /\ Len(Named(tokens)) = Len(tokens)
         /\ \A i \in 1 .. Len(tokens) :
              /\ tokens[i] \in Tokens /\ Named(tokens)[i] \in Names
              /\ Named(tokens)[i] = <<tokens[i].k, tokens[i].text>>
<1> DEFINE n == Len(tokens)
<1>1. n \in Nat /\ DOMAIN tokens = 1 .. n /\ \A i \in 1 .. n : tokens[i] \in Tokens
  BY LenProperties, ElementOfSeq
<1>2. \A i \in 1 .. n : <<tokens[i].k, tokens[i].text>> \in Names
  <2> TAKE i \in 1 .. n
  <2>1. tokens[i].k \in Kinds /\ tokens[i].text \in Texts
    BY <1>1 DEF Tokens
  <2> QED
    BY <2>1 DEF Names
<1> HIDE DEF n
<1>3. Named(tokens) = [i \in 1 .. n |-> <<tokens[i].k, tokens[i].text>>]
  BY <1>1 DEF Named
<1>4. Named(tokens) \in [1 .. n -> Names]
  BY <1>2, <1>3
<1>5. Named(tokens) \in Seq(Names) /\ Len(Named(tokens)) = n
  BY <1>1, <1>4
<1> QED
  BY <1>1, <1>2, <1>3, <1>5 DEF n

\* Positions can be left out before or after tokens are put together.
LEMMA NamedJoined ==
  ASSUME NEW x \in Seq(Tokens), NEW y \in Seq(Tokens)
  PROVE  Named(x \o y) = Named(x) \o Named(y)
<1> DEFINE a == Len(x)
           b == Len(y)
           z == x \o y
           l == Named(z)
           u == Named(x)
           v == Named(y)
           r == u \o v
<1>1. /\ a \in Nat /\ b \in Nat /\ z \in Seq(Tokens) /\ Len(z) = a + b
      /\ \A i \in 1 .. a + b : z[i] = IF i <= a THEN x[i] ELSE y[i - a]
  BY ConcatProperties
<1> HIDE DEF z
<1>2. /\ u \in Seq(Names) /\ Len(u) = a /\ \A i \in 1 .. a : u[i] = <<x[i].k, x[i].text>>
  BY NamedIs
<1>3. /\ v \in Seq(Names) /\ Len(v) = b /\ \A i \in 1 .. b : v[i] = <<y[i].k, y[i].text>>
  BY NamedIs
<1>4. /\ l \in Seq(Names) /\ Len(l) = a + b /\ \A i \in 1 .. a + b : l[i] = <<z[i].k, z[i].text>>
  BY <1>1, NamedIs
<1> HIDE DEF a, b, l, u, v
<1>5. /\ r \in Seq(Names) /\ Len(r) = a + b
      /\ \A i \in 1 .. a + b : r[i] = IF i <= a THEN u[i] ELSE v[i - a]
  BY <1>2, <1>3, ConcatProperties
<1> HIDE DEF r
<1>6. ASSUME NEW i \in 1 .. a + b PROVE l[i] = r[i]
  <2>1. CASE i <= a
    <3>1. i \in 1 .. a
      BY <1>1, <2>1
    <3>2. l[i] = <<x[i].k, x[i].text>> /\ r[i] = u[i]
      BY <1>1, <1>4, <1>5, <2>1
    <3> QED
      BY <1>2, <3>1, <3>2
  <2>2. CASE ~(i <= a)
    <3>1. i - a \in 1 .. b
      BY <1>1, <2>2
    <3>2. l[i] = <<y[i - a].k, y[i - a].text>> /\ r[i] = v[i - a]
      BY <1>1, <1>4, <1>5, <2>2
    <3> QED
      BY <1>3, <3>1, <3>2
  <2> QED
    BY <2>1, <2>2
<1>7. l = r
  BY <1>4, <1>5, <1>6, SeqEqual
<1> QED
  BY <1>7 DEF l, r, u, v, z

\* Shifting tokens does not show without positions.
LEMMA NamedShifted ==
  ASSUME NEW x \in Seq(Tokens), NEW n \in Nat
  PROVE  Named(Shifted(x, n)) = Named(x)
<1> DEFINE a == Len(x)
           s == Shifted(x, n)
           u == Named(s)
           v == Named(x)
<1>1. s \in Seq(Tokens) /\ Len(s) = a /\ \A i \in 1 .. a : s[i] = Token(x[i].k, x[i].pos + n, x[i].text)
  BY ShiftedIs
<1> HIDE DEF s
<1>2. u \in Seq(Names) /\ Len(u) = a /\ \A i \in 1 .. a : u[i] = <<s[i].k, s[i].text>>
  BY <1>1, NamedIs
<1>3. v \in Seq(Names) /\ Len(v) = a /\ \A i \in 1 .. a : v[i] = <<x[i].k, x[i].text>>
  BY NamedIs
<1>4. \A i \in 1 .. a : s[i].k = x[i].k /\ s[i].text = x[i].text
  <2>1. \A k, p, t : Token(k, p, t).k = k /\ Token(k, p, t).text = t
    BY DEF Token
  <2> QED
    BY <1>1, <2>1
<1> HIDE DEF a, u, v
<1>5. \A i \in 1 .. a : u[i] = v[i]
  BY <1>2, <1>3, <1>4
<1>6. u = v
  BY <1>2, <1>3, <1>5, SeqEqual
<1> QED
  BY <1>6 DEF u, v, s

\* Tokens without positions and semicolons can be put together.
LEMMA BareIs ==
  ASSUME NEW x \in Seq(Tokens), NEW y \in Seq(Tokens), NEW n \in Nat
  PROVE  /\ Bare(x) \in Seq(Names) /\ Bare(x \o y) = Bare(x) \o Bare(y)
         /\ Bare(Shifted(x, n)) = Bare(x) /\ Bare(<<>>) = <<>>
<1>1. \A tokens : Bare(tokens) = Without(Named(tokens), {Semicolon})
  BY DEF Bare, Named
<1>2. Named(x) \in Seq(Names) /\ Named(y) \in Seq(Names) /\ Named(x \o y) = Named(x) \o Named(y)
  BY NamedIs, NamedJoined
<1>3. Bare(x) \in Seq(Names) /\ Bare(x \o y) = Bare(x) \o Bare(y)
  <2> DEFINE u == Named(x)
             v == Named(y)
             d == {Semicolon}
  <2> HIDE DEF u, v, d
  <2>1. u \in Seq(Names) /\ v \in Seq(Names)
    BY <1>2 DEF u, v
  <2>2. /\ Without(u, d) \in Seq(Names) /\ Without(v, d) \in Seq(Names)
        /\ IsJoined(Without(u \o v, d), Without(u, d), Without(v, d))
    BY <2>1, WithoutJoined
  <2>3. Without(u \o v, d) = Without(u, d) \o Without(v, d)
    BY <2>2 DEF IsJoined
  <2> QED
    BY <1>1, <1>2, <2>2, <2>3 DEF u, v, d
<1>4. Bare(Shifted(x, n)) = Bare(x)
  BY <1>1, NamedShifted
<1>5. Bare(<<>>) = <<>>
  <2> DEFINE none == <<>>
  <2>1. none \in Seq(Tokens) /\ Len(none) = 0
    OBVIOUS
  <2> HIDE DEF none
  <2>2. Named(none) \in Seq(Names) /\ Len(Named(none)) = 0
    BY <2>1, NamedIs
  <2>3. Named(none) = <<>>
    BY <2>2, EmptySeq
  <2>4. Semicolon \in {Semicolon}
    OBVIOUS
  <2>5. Without(<<>>, {Semicolon}) = <<>>
    BY <2>4, WithoutSmall
  <2> QED
    BY <1>1, <2>3, <2>5 DEF none
<1> QED
  BY <1>3, <1>4, <1>5

\* A semicolon is no token that counts.
LEMMA BareSemicolon ==
  ASSUME NEW n \in Nat
  PROVE  /\ Token("symbol", n, <<";">>) \in Tokens
         /\ Bare(<<Token("symbol", n, <<";">>)>>) = <<>>
<1> DEFINE token == Token("symbol", n, <<";">>)
           one   == <<token>>
<1>1. token \in Tokens /\ <<token.k, token.text>> = Semicolon
  <2>1. ";" \in Characters
    BY DEF Characters, Singles
  <2>2. <<";">> \in Texts
    BY <2>1, OneIs DEF Texts
  <2> QED
    BY <2>2 DEF Tokens, Token, Kinds, Semicolon
<1> HIDE DEF token
<1>2. one \in Seq(Tokens) /\ Len(one) = 1 /\ one[1] = token
  BY <1>1, OneIs
<1> HIDE DEF one
<1>3. Named(one) \in Seq(Names) /\ Len(Named(one)) = 1 /\ Named(one)[1] = Semicolon /\ Semicolon \in Names
  <2>1. 1 \in 1 .. Len(one)
    BY <1>2
  <2> QED
    BY <1>1, <1>2, <2>1, NamedIs
<1>4. Named(one) = <<Semicolon>>
  <2> DEFINE s == <<Semicolon>>
             u == Named(one)
  <2>1. s \in Seq(Names) /\ Len(s) = 1 /\ s[1] = Semicolon
    BY <1>3, OneIs
  <2>2. u \in Seq(Names) /\ Len(u) = 1 /\ u[1] = Semicolon
    BY <1>3
  <2> HIDE DEF s, u
  <2>3. \A i \in 1 .. Len(u) : u[i] = s[i]
    BY <2>1, <2>2
  <2>4. u = s
    BY <2>1, <2>2, <2>3, SeqEqual
  <2> QED
    BY <2>4 DEF s, u
<1>5. Without(<<Semicolon>>, {Semicolon}) = Kept(Semicolon, {Semicolon})
  BY <1>3, WithoutSmall
<1>6. Bare(one) = <<>>
  BY <1>4, <1>5 DEF Bare, Named, Kept
<1> QED
  BY <1>1, <1>6 DEF token, one

\* What a text may be read as.
Readings == [tokens : Seq(Names), error : Errors \cup {"none"}]
Nothing  == [tokens |-> <<>>, error |-> "none"]

\* The reading of a result of lex.
ReadingOf(r) == [tokens |-> Bare(r.tokens), error |-> r.error.k]

\* It is the same for a moved result, and one after the other for chained ones.
LEMMA ReadingOfIs ==
  ASSUME NEW r \in Results, NEW s \in Results, NEW n \in Nat
  PROVE  /\ ReadingOf(r) \in Readings
         /\ ReadingOf(MovedResult(r, n)) = ReadingOf(r)
         /\ ReadingOf(Chained(r, s)) = Then(ReadingOf(r), ReadingOf(s))
<1>1. r.tokens \in Seq(Tokens) /\ s.tokens \in Seq(Tokens) /\ r.error.k \in Errors \cup {"none"}
      /\ (r.error.k = "none" <=> r.error = NoError)
  BY ErrorsAre DEF NoError
<1>2. ReadingOf(r) \in Readings
  BY <1>1, BareIs DEF ReadingOf, Readings
<1>3. ReadingOf(MovedResult(r, n)) = ReadingOf(r)
  <2>1. MovedResult(r, n).error.k = r.error.k
    BY MovedResultIs
  <2>2. MovedResult(r, n).tokens = Shifted(r.tokens, n)
    BY DEF MovedResult
  <2> QED
    BY <1>1, <2>1, <2>2, BareIs DEF ReadingOf
<1>4. ReadingOf(Chained(r, s)) = Then(ReadingOf(r), ReadingOf(s))
  <2>1. CASE r.error = NoError
    <3>1. Chained(r, s).tokens = r.tokens \o s.tokens /\ Chained(r, s).error = s.error
      BY <2>1 DEF Chained
    <3>2. Bare(r.tokens \o s.tokens) = Bare(r.tokens) \o Bare(s.tokens)
      BY <1>1, BareIs
    <3>3. ReadingOf(Chained(r, s)) = [tokens |-> Bare(r.tokens) \o Bare(s.tokens), error |-> s.error.k]
      BY <3>1, <3>2 DEF ReadingOf
    <3> QED
      BY <1>1, <2>1, <3>3 DEF Then, ReadingOf
  <2>2. CASE r.error # NoError
    BY <1>1, <2>2 DEF Chained, Then, ReadingOf
  <2> QED
    BY <2>1, <2>2
<1> QED
  BY <1>2, <1>3, <1>4

\* Every text has a reading, that of what lex returns.
LEMMA ReadingIs ==
  ASSUME NEW text \in Texts
  PROVE  Lex(text) \in Results /\ Reading(text) \in Readings /\ Reading(text) = ReadingOf(Lex(text))
<1>1. 1 \in 1 .. Len(text) + 1 /\ 0 \in Nat
  BY DEF Texts
<1>2. Lex(text) \in Results
  BY <1>1, LexingIs DEF Lex
<1>3. Reading(text) = ReadingOf(Lex(text))
  BY DEF Reading, ReadingOf
<1> QED
  BY <1>1, <1>2, <1>3, ReadingOfIs

\* Cut at white space or at a semicolon, a text is read piece by piece.
LEMMA ReadingJoined ==
  ASSUME NEW x \in Texts, NEW y \in Texts, Meet(x, y), Lex(x).error.k # "UnterminatedString"
  PROVE  x \o y \in Texts /\ Reading(x \o y) = Then(Reading(x), Reading(y))
<1> DEFINE r == Lex(x)
           s == Lex(y)
           n == Len(x)
<1>1. /\ x \o y \in Texts /\ r \in Results /\ MovedResult(s, n) \in Results
      /\ Lex(x \o y) = Chained(r, MovedResult(s, n))
  BY LexJoined
<1>2. s \in Results /\ n \in Nat
  BY ReadingIs DEF Texts
<1>3. Reading(x \o y) = ReadingOf(Chained(r, MovedResult(s, n)))
  BY <1>1, ReadingIs
<1>4. Reading(x) = ReadingOf(r) /\ Reading(y) = ReadingOf(s)
  BY ReadingIs
<1> HIDE DEF r, s, n
<1>5. ReadingOf(Chained(r, MovedResult(s, n))) = Then(ReadingOf(r), ReadingOf(MovedResult(s, n)))
  BY <1>1, <1>2, ReadingOfIs
<1>6. ReadingOf(MovedResult(s, n)) = ReadingOf(s)
  BY <1>2, ReadingOfIs
<1> QED
  BY <1>1, <1>3, <1>4, <1>5, <1>6

\* Reading one thing and then another.
Thens == [p \in Readings \X Readings |-> Then(p[1], p[2])]

\* Reading one thing after another combines readings.
LEMMA ThenIs ==
  /\ Combines(Thens, Nothing, Readings)
  /\ \A a \in Readings, b \in Readings : Thens[<<a, b>>] = Then(a, b) /\ Then(a, b) \in Readings
<1>1. \A a \in Readings, b \in Readings : Thens[<<a, b>>] = Then(a, b)
  BY DEF Thens
<1>2. \A a \in Readings : /\ a.tokens \in Seq(Names) /\ a.error \in Errors \cup {"none"}
                          /\ a = [tokens |-> a.tokens, error |-> a.error]
  BY DEF Readings
<1>3. ASSUME NEW a \in Readings, NEW b \in Readings PROVE Then(a, b) \in Readings
  <2>1. a.tokens \o b.tokens \in Seq(Names)
    <3> DEFINE u == a.tokens
               v == b.tokens
               N == Names
    <3>1. u \in Seq(N) /\ v \in Seq(N)
      BY <1>2
    <3> HIDE DEF u, v, N
    <3>2. u \o v \in Seq(N)
      BY <3>1
    <3> QED
      BY <3>2 DEF u, v, N
  <2> QED
    BY <1>2, <2>1 DEF Then, Readings
<1>4. Nothing \in Readings
  <2>1. <<>> \in Seq(Names)
    OBVIOUS
  <2> QED
    BY <2>1 DEF Nothing, Readings
<1>5. ASSUME NEW a \in Readings PROVE Then(Nothing, a) = a /\ Then(a, Nothing) = a
  <2>1. <<>> \o a.tokens = a.tokens /\ a.tokens \o <<>> = a.tokens
    BY <1>2, ConcatEmptySeq
  <2> QED
    BY <1>2, <2>1 DEF Then, Nothing
<1>6. ASSUME NEW a \in Readings, NEW b \in Readings, NEW c \in Readings
      PROVE  Then(Then(a, b), c) = Then(a, Then(b, c))
  <2>1. (a.tokens \o b.tokens) \o c.tokens = a.tokens \o (b.tokens \o c.tokens)
    <3> DEFINE u == a.tokens
               v == b.tokens
               w == c.tokens
    <3>1. u \in Seq(Names) /\ v \in Seq(Names) /\ w \in Seq(Names)
      BY <1>2
    <3> HIDE DEF u, v, w
    <3>2. (u \o v) \o w = u \o (v \o w)
      BY <3>1, ConcatAssociative
    <3> QED
      BY <3>2 DEF u, v, w
  <2>2. CASE a.error # "none"
    BY <2>2 DEF Then
  <2>3. CASE a.error = "none" /\ b.error # "none"
    BY <2>3 DEF Then
  <2>4. CASE a.error = "none" /\ b.error = "none"
    BY <2>1, <2>4 DEF Then
  <2> QED
    BY <2>2, <2>3, <2>4
<1>7. \A a \in Readings, b \in Readings : Thens[<<a, b>>] \in Readings
  BY <1>1, <1>3
<1>8. \A a \in Readings : Thens[<<Nothing, a>>] = a /\ Thens[<<a, Nothing>>] = a
  BY <1>1, <1>4, <1>5
<1>9. \A a \in Readings, b \in Readings, c \in Readings :
        Thens[<<Thens[<<a, b>>], c>>] = Thens[<<a, Thens[<<b, c>>]>>]
  <2> TAKE a \in Readings, b \in Readings, c \in Readings
  <2>1. Then(a, b) \in Readings /\ Then(b, c) \in Readings /\ Then(Then(a, b), c) = Then(a, Then(b, c))
    BY <1>3, <1>6
  <2>2. Thens[<<Then(a, b), c>>] = Then(Then(a, b), c) /\ Thens[<<a, Then(b, c)>>] = Then(a, Then(b, c))
    BY <1>1, <2>1
  <2>3. Thens[<<a, b>>] = Then(a, b) /\ Thens[<<b, c>>] = Then(b, c)
    BY <1>1
  <2> QED
    BY <2>1, <2>2, <2>3
<1>10. Combines(Thens, Nothing, Readings)
  BY <1>4, <1>7, <1>8, <1>9 DEF Combines
<1> QED
  BY <1>1, <1>3, <1>10

\* f reads some texts one after the other, and each alone is read as in v.
Reads(f, v, texts) ==
  /\ v = [i \in 1 .. Len(texts) |-> Reading(texts[i])]
  /\ \A i \in 1 .. Len(texts) : v[i] \in Readings
  /\ Combined(f, v, Thens, Nothing, Len(texts))
  /\ Piecewise(texts) = f[Len(texts)]

\* Piecewise is what its definition says.
LEMMA PiecewiseIs ==
  ASSUME NEW texts \in Seq(Texts)
  PROVE  \E f, v : Reads(f, v, texts)
<1> DEFINE n == Len(texts)
           Is(f) == f = [i \in 0 .. Len(texts) |->
                           IF i = 0 THEN [tokens |-> <<>>, error |-> "none"]
                           ELSE Then(f[i - 1], Reading(texts[i]))]
           upTo == CHOOSE f : Is(f)
           v == [i \in 1 .. n |-> Reading(texts[i])]
           g == [p \in Readings \X (1 .. n) |-> Then(p[1], Reading(texts[p[2]]))]
<1>0. n \in Nat /\ \A i \in 1 .. n : texts[i] \in Texts
  OBVIOUS
<1>1. Piecewise(texts) = upTo[n]
  BY DEF Piecewise
<1>2. \A i \in 1 .. n : Reading(texts[i]) \in Readings
  BY <1>0, ReadingIs
<1>3. \A r \in Readings, i \in 1 .. n :
        g[<<r, i>>] = Then(r, Reading(texts[i])) /\ g[<<r, i>>] \in Readings
  <2> TAKE r \in Readings, i \in 1 .. n
  <2>1. g[<<r, i>>] = Then(r, Reading(texts[i]))
    OBVIOUS
  <2> HIDE DEF g, n
  <2> QED
    BY <1>2, <2>1, ThenIs
<1> HIDE DEF g
<1>4. PICK f : Steps(f, g, Readings, Nothing, n)
  <2>1. IsStep(g, Readings, n)
    BY <1>3 DEF IsStep
  <2>2. Nothing \in Readings
    BY ThenIs DEF Combines
  <2> HIDE DEF n
  <2> QED
    BY <1>0, <2>1, <2>2, Recursion
<1>5. \A i \in 0 .. n : i = 0 \/ (i \in 1 .. n /\ i - 1 \in 0 .. n)
  BY <1>0
<1>6. \A i \in 0 .. n : f[i] = IF i = 0 THEN [tokens |-> <<>>, error |-> "none"]
                              ELSE Then(f[i - 1], Reading(texts[i]))
  <2> TAKE i \in 0 .. n
  <2>1. CASE i = 0
    BY <1>4, <2>1 DEF Steps, Nothing
  <2>2. CASE i # 0
    <3>1. i \in 1 .. n /\ f[i - 1] \in Readings /\ f[i] = g[<<f[i - 1], i>>]
      BY <1>4, <1>5, <2>2 DEF Steps
    <3>2. f[i] = Then(f[i - 1], Reading(texts[i]))
      BY <1>3, <3>1
    <3> QED
      BY <2>2, <3>2
  <2> QED
    BY <2>1, <2>2
<1>7. Is(f)
  <2>1. f = [i \in 0 .. n |-> f[i]]
    BY <1>4 DEF Steps
  <2> QED
    BY <1>6, <2>1
<1>8. Is(upTo)
  BY <1>7
<1> HIDE DEF upTo, n
<1>9. \A i \in 0 .. n : upTo[i] = IF i = 0 THEN [tokens |-> <<>>, error |-> "none"]
                                 ELSE Then(upTo[i - 1], Reading(texts[i]))
  BY <1>8 DEF n
<1>10. 0 \in 0 .. n /\ \A i \in 1 .. n : i \in 0 .. n /\ i # 0 /\ i - 1 \in 0 .. n
  BY <1>0
<1>11. upTo[0] = Nothing
  BY <1>9, <1>10 DEF Nothing
<1>12. \A i \in 1 .. n : upTo[i] = Then(upTo[i - 1], Reading(texts[i]))
  BY <1>9, <1>10
<1> DEFINE H == {i \in 0 .. n : upTo[i] \in Readings}
<1>13. 0 \in H
  BY <1>10, <1>11, ThenIs DEF Combines
<1>14. ASSUME NEW i \in 1 .. n, i - 1 \in H PROVE i \in H
  BY <1>2, <1>10, <1>12, <1>14, ThenIs
<1> HIDE DEF H
<1>15. \A i \in 0 .. n : i \in H
  BY <1>0, <1>13, <1>14, IntervalInduction
<1>16. ASSUME NEW i \in 1 .. n PROVE upTo[i] = Thens[<<upTo[i - 1], v[i]>>]
  <2>1. upTo[i - 1] \in Readings
    BY <1>10, <1>15 DEF H
  <2>2. v[i] = Reading(texts[i]) /\ v[i] \in Readings
    BY <1>2
  <2> HIDE DEF v
  <2>3. Thens[<<upTo[i - 1], v[i]>>] = Then(upTo[i - 1], v[i])
    BY <2>1, <2>2, ThenIs
  <2> QED
    BY <1>12, <2>2, <2>3
<1>17. \A i \in 1 .. n : v[i] \in Readings
  BY <1>2
<1>18. Combined(upTo, v, Thens, Nothing, n)
  BY <1>11, <1>16 DEF Combined
<1>19. Reads(upTo, v, texts)
  BY <1>1, <1>17, <1>18 DEF Reads, n
<1> QED
  BY <1>19

\* Texts are read one after the other, however they are divided.
LEMMA PiecewiseJoined ==
  ASSUME NEW x \in Seq(Texts), NEW y \in Seq(Texts)
  PROVE  /\ Piecewise(x) \in Readings /\ Piecewise(y) \in Readings
         /\ Piecewise(x \o y) = Then(Piecewise(x), Piecewise(y))
<1> DEFINE a == Len(x)
           b == Len(y)
           z == x \o y
<1>1. /\ a \in Nat /\ b \in Nat /\ z \in Seq(Texts) /\ Len(z) = a + b
      /\ \A i \in 1 .. a : i \in 1 .. a + b /\ z[i] = x[i]
      /\ \A i \in 1 .. b : a + i \in 1 .. a + b /\ z[a + i] = y[i]
  <2>1. z \in Seq(Texts) /\ Len(z) = a + b /\ \A i \in 1 .. a + b : z[i] = IF i <= a THEN x[i] ELSE y[i - a]
    BY ConcatProperties
  <2>2. a \in Nat /\ b \in Nat
    OBVIOUS
  <2> HIDE DEF a, b, z
  <2>3. \A i \in 1 .. b : a + i \in 1 .. a + b /\ (a + i) - a = i /\ ~(a + i <= a)
    BY <2>2
  <2>4. \A i \in 1 .. a : i \in 1 .. a + b /\ i <= a
    BY <2>2
  <2> QED
    BY <2>1, <2>2, <2>3, <2>4
<1> HIDE DEF z
<1>2. PICK f, u : Reads(f, u, x)
  BY PiecewiseIs
<1>3. PICK g, v : Reads(g, v, y)
  BY PiecewiseIs
<1>4. PICK h, w : Reads(h, w, z)
  BY <1>1, PiecewiseIs
<1>5. /\ u = [i \in 1 .. a |-> Reading(x[i])] /\ \A i \in 1 .. a : u[i] \in Readings
      /\ Combined(f, u, Thens, Nothing, a) /\ Piecewise(x) = f[a]
  BY <1>2 DEF Reads
<1>6. /\ v = [i \in 1 .. b |-> Reading(y[i])] /\ \A i \in 1 .. b : v[i] \in Readings
      /\ Combined(g, v, Thens, Nothing, b) /\ Piecewise(y) = g[b]
  BY <1>3 DEF Reads
<1>7. /\ w = [i \in 1 .. a + b |-> Reading(z[i])]
      /\ Combined(h, w, Thens, Nothing, a + b) /\ Piecewise(z) = h[a + b]
  BY <1>1, <1>4 DEF Reads
<1> HIDE DEF a, b
<1>8. \A i \in 1 .. a : u[i] \in Readings /\ w[i] = u[i]
  BY <1>1, <1>5, <1>7
<1>9. \A i \in 1 .. b : v[i] \in Readings /\ w[a + i] = v[i]
  BY <1>1, <1>6, <1>7
<1>10. f[a] \in Readings /\ g[b] \in Readings /\ h[a + b] = Thens[<<f[a], g[b]>>]
  <2> DEFINE op == Thens
             M == Readings
             e == Nothing
  <2>1. Combines(op, e, M)
    BY ThenIs
  <2>2. a \in Nat /\ b \in Nat
    BY <1>1
  <2>3. Combined(f, u, op, e, a) /\ Combined(g, v, op, e, b) /\ Combined(h, w, op, e, a + b)
    BY <1>5, <1>6, <1>7
  <2>4. Follow(u, w, 0, a, M)
    BY <1>1, <1>8 DEF Follow
  <2>5. Follow(v, w, a, b, M)
    BY <1>9 DEF Follow
  <2> HIDE DEF op, M, e
  <2>6. f[a] \in M /\ g[b] \in M /\ h[a + b] = op[<<f[a], g[b]>>]
    <3>1. Divided(f, u, a, g, v, b, h, w, op, e, M)
      BY <2>1, <2>2, <2>3, <2>4, <2>5 DEF Divided
    <3>2. IsWhole(f, a, g, b, h, op, M)
      BY <3>1, CombinedJoin
    <3> QED
      BY <3>2 DEF IsWhole
  <2> QED
    BY <2>6 DEF op, M
<1>11. h[a + b] = Then(f[a], g[b])
  BY <1>10, ThenIs
<1> QED
  BY <1>5, <1>6, <1>7, <1>10, <1>11 DEF z

\* Piecewise, of no text and of one.
LEMMA PiecewiseSmall ==
  ASSUME NEW text \in Texts
  PROVE  Piecewise(<<>>) = Nothing /\ Piecewise(<<text>>) = Reading(text)
<1>1. Piecewise(<<>>) = Nothing
  <2> DEFINE none == <<>>
  <2>1. none \in Seq(Texts) /\ Len(none) = 0
    OBVIOUS
  <2> HIDE DEF none
  <2>2. PICK f, v : Reads(f, v, none)
    BY <2>1, PiecewiseIs
  <2> QED
    BY <2>1, <2>2 DEF Combined, Reads, none
<1>2. Piecewise(<<text>>) = Reading(text)
  <2> DEFINE one == <<text>>
  <2>1. one \in Seq(Texts) /\ Len(one) = 1 /\ one[1] = text
    BY OneIs
  <2> HIDE DEF one
  <2>2. PICK f, v : Reads(f, v, one)
    BY <2>1, PiecewiseIs
  <2>3. /\ v = [i \in 1 .. Len(one) |-> Reading(one[i])]
        /\ Combined(f, v, Thens, Nothing, Len(one)) /\ Piecewise(one) = f[Len(one)]
    BY <2>2 DEF Reads
  <2>4. v[1] = Reading(text) /\ Reading(text) \in Readings
    BY <2>1, <2>3, ReadingIs
  <2>5. f[0] = Nothing /\ f[1] = Thens[<<f[1 - 1], v[1]>>] /\ 1 - 1 = 0
    BY <2>1, <2>3 DEF Combined
  <2>6. Thens[<<Nothing, Reading(text)>>] = Reading(text)
    BY <2>4, ThenIs DEF Combines
  <2> QED
    BY <2>1, <2>3, <2>4, <2>5, <2>6 DEF one
<1> QED
  BY <1>1, <1>2

\* White space is nothing.
LEMMA BlankIs ==
  ASSUME NEW text \in Seq(WhiteSpace)
  PROVE  /\ text \in Texts /\ Lex(text) = [tokens |-> <<>>, error |-> NoError]
         /\ Reading(text) = Nothing
<1> DEFINE n == Len(text)
           m == n + 1
           T == Lexing(text)
           none == [tokens |-> <<>>, error |-> NoError]
           G == {i \in 1 .. m : T[i] = none}
<1>0. text \in Texts /\ n \in Nat /\ m \in Nat /\ 1 \in 1 .. m /\ \A i \in 1 .. n : text[i] \in WhiteSpace
  <2>1. text \in Seq(Characters)
    BY ClassesAre, SeqMonotonic
  <2> QED
    BY <2>1 DEF Texts
<1>1. ASSUME NEW i \in 1 .. m, \A j \in i + 1 .. m : j \in G PROVE i \in G
  <2>1. CASE i = m
    BY <1>0, <2>1, LexingAtEnd
  <2>2. CASE i # m
    <3>1. i \in 1 .. n /\ i + 1 \in i + 1 .. m
      BY <1>0, <2>2
    <3>2. text[i] \in Separators /\ text[i] # ";"
      BY <1>0, <3>1 DEF Separators, WhiteSpace
    <3>3. T[i] = T[i + 1]
      BY <1>0, <3>1, <3>2, SeparatorIs
    <3>4. i + 1 \in G
      BY <1>1, <3>1
    <3> HIDE DEF none, T, m
    <3> QED
      BY <3>3, <3>4
  <2> QED
    BY <2>1, <2>2
<1> HIDE DEF G, m
<1>2. \A i \in 1 .. m : i \in G
  BY <1>0, <1>1, Downwards
<1>3. Lex(text) = none
  BY <1>0, <1>2 DEF G, Lex, m
<1>4. Bare(<<>>) = <<>>
  <2>1. <<>> \in Seq(Tokens) /\ 0 \in Nat
    OBVIOUS
  <2> QED
    BY <2>1, BareIs
<1> QED
  BY <1>0, <1>3, <1>4 DEF Reading, Nothing, NoError

\* Blank statements make no difference.
LEMMA PiecewiseNotBlank ==
  ASSUME NEW texts \in Seq(Texts)
  PROVE  NotBlank(texts) \in Seq(Texts) /\ Piecewise(NotBlank(texts)) = Piecewise(texts)
<1> DEFINE n == Len(texts)
           blank == Seq(WhiteSpace)
<1> HIDE DEF blank
<1>0. n \in Nat /\ \A i \in 1 .. n : texts[i] \in Texts
  OBVIOUS
<1>1. PICK f, v : Keeps(f, v, Texts, texts, blank)
  BY WithoutIs
<1>2. PICK g, w : Reads(g, w, texts)
  BY PiecewiseIs
<1>3. /\ v = [i \in 1 .. n |-> Kept(texts[i], blank)] /\ \A i \in 1 .. n : v[i] \in Seq(Texts)
      /\ Combined(f, v, Concat(Texts), <<>>, n) /\ NotBlank(texts) = f[n]
  BY <1>1 DEF Keeps, NotBlank, blank
<1>4. /\ w = [i \in 1 .. n |-> Reading(texts[i])] /\ \A i \in 1 .. n : w[i] \in Readings
      /\ Combined(g, w, Thens, Nothing, n) /\ Piecewise(texts) = g[n]
  BY <1>2 DEF Reads
<1> HIDE DEF n
<1>5. \A i \in 0 .. n : f[i] \in Seq(Texts)
  <2> DEFINE op == Concat(Texts)
             M  == Seq(Texts)
             e  == <<>>
  <2>1. Combines(op, e, M) /\ (\A i \in 1 .. n : v[i] \in M) /\ Combined(f, v, op, e, n)
    BY <1>3, ConcatIs
  <2> HIDE DEF op, M, e
  <2>2. \A i \in 1 .. n : v[i] \in M
    BY <2>1
  <2>3. \A i \in 0 .. n : f[i] \in M
    BY <1>0, <2>1, <2>2, CombinedIs
  <2> QED
    BY <2>3 DEF M
<1>6. \A i \in 0 .. n : g[i] \in Readings
  BY <1>0, <1>4, ThenIs, CombinedIs
<1>7. \A i \in 1 .. n : Kept(texts[i], blank) \in Seq(Texts) /\ Piecewise(Kept(texts[i], blank)) = Reading(texts[i])
  <2> TAKE i \in 1 .. n
  <2>1. texts[i] \in Texts
    BY <1>0
  <2>2. CASE texts[i] \in blank
    BY <2>1, <2>2, BlankIs, PiecewiseSmall, KeptIs DEF Kept, blank
  <2>3. CASE texts[i] \notin blank
    BY <2>1, <2>3, PiecewiseSmall, KeptIs DEF Kept
  <2> QED
    BY <2>2, <2>3
<1> DEFINE H == {i \in 0 .. n : Piecewise(f[i]) = g[i]}
<1>8. 0 \in H
  <2>1. f[0] = <<>> /\ g[0] = Nothing
    BY <1>3, <1>4 DEF Combined
  <2>2. <<>> \in Texts
    BY DEF Texts
  <2>3. Piecewise(<<>>) = Nothing
    BY <2>2, PiecewiseSmall
  <2> QED
    BY <1>0, <2>1, <2>3
<1>9. ASSUME NEW i \in 1 .. n, i - 1 \in H PROVE i \in H
  <2> DEFINE a == f[i - 1]
             b == Kept(texts[i], blank)
  <2>1. i \in 0 .. n /\ i - 1 \in 0 .. n
    BY <1>0
  <2>2. a \in Seq(Texts) /\ b \in Seq(Texts) /\ v[i] = b
    BY <1>3, <1>5, <1>7, <2>1
  <2>3. f[i] = Concat(Texts)[<<a, b>>]
    BY <1>3, <2>2 DEF Combined
  <2>4. Piecewise(b) = Reading(texts[i])
    BY <1>7
  <2>5. Piecewise(a) = g[i - 1]
    BY <1>9
  <2>6. g[i] = Then(g[i - 1], Reading(texts[i]))
    <3>1. g[i] = Thens[<<g[i - 1], w[i]>>] /\ w[i] = Reading(texts[i]) /\ w[i] \in Readings
      BY <1>4 DEF Combined
    <3>2. g[i - 1] \in Readings
      BY <1>6, <2>1
    <3> QED
      BY <3>1, <3>2, ThenIs
  <2> HIDE DEF a, b
  <2>7. f[i] = a \o b
    BY <2>2, <2>3, ConcatIs
  <2>8. Piecewise(a \o b) = Then(Piecewise(a), Piecewise(b))
    BY <2>2, PiecewiseJoined
  <2>9. Piecewise(f[i]) = g[i]
    BY <2>4, <2>5, <2>6, <2>7, <2>8
  <2> QED
    BY <2>1, <2>9
<1> HIDE DEF H
<1>10. \A i \in 0 .. n : i \in H
  BY <1>0, <1>8, <1>9, IntervalInduction
<1>11. n \in 0 .. n
  BY <1>0
<1>12. Piecewise(f[n]) = g[n] /\ f[n] \in Seq(Texts)
  BY <1>5, <1>10, <1>11 DEF H
<1> QED
  BY <1>3, <1>4, <1>12

-----------------------------------------------------------------------------
(* Splitting.                                                              *)

\* A beginning of a text has the same quotes.
LEMMA InsideBegins ==
  ASSUME NEW x \in Texts, NEW text \in Texts, Len(x) <= Len(text),
         \A i \in 1 .. Len(x) : x[i] = text[i]
  PROVE  \A i \in 0 .. Len(x) : i \in Inside(x) <=> i \in Inside(text)
<1> DEFINE n == Len(x)
           I == Inside(x)
           J == Inside(text)
           G == {i \in 0 .. n : i \in I <=> i \in J}
<1>0. n \in Nat /\ Len(text) \in Nat /\ 0 \in 0 .. n
  BY DEF Texts
<1>1. 0 \notin I /\ 0 \notin J
  BY InStringIs
<1>2. \A i \in 1 .. n : /\ x[i] = "'" => (i \in I <=> i - 1 \notin I)
                        /\ x[i] # "'" => (i \in I <=> i - 1 \in I)
  BY InStringIs
<1>3. \A i \in 1 .. n : /\ text[i] = "'" => (i \in J <=> i - 1 \notin J)
                        /\ text[i] # "'" => (i \in J <=> i - 1 \in J)
  <2>1. \A i \in 1 .. n : i \in 1 .. Len(text)
    BY <1>0
  <2> QED
    BY <2>1, InStringIs
<1> HIDE DEF I, J
<1>4. 0 \in G
  BY <1>0, <1>1
<1>5. ASSUME NEW i \in 1 .. n, i - 1 \in G PROVE i \in G
  <2>1. i \in 0 .. n /\ (i - 1 \in I <=> i - 1 \in J) /\ x[i] = text[i]
    BY <1>0, <1>5
  <2>2. (x[i] = "'" => (i \in I <=> i - 1 \notin I)) /\ (x[i] # "'" => (i \in I <=> i - 1 \in I))
    BY <1>2, Zenon
  <2>3. (text[i] = "'" => (i \in J <=> i - 1 \notin J)) /\ (text[i] # "'" => (i \in J <=> i - 1 \in J))
    BY <1>3, Zenon
  <2>4. i \in I <=> i \in J
    BY <2>1, <2>2, <2>3, Zenon
  <2> QED
    BY <2>1, <2>4
<1> HIDE DEF G
<1>6. \A i \in 0 .. n : i \in G
  BY <1>0, <1>4, <1>5, IntervalInduction
<1> QED
  BY <1>6 DEF G, n, I, J

\* A statement ends here: a semicolon outside of string literals.
EndsAt(text, i) == i \in 1 .. Len(text) /\ text[i] = ";" /\ i \notin Inside(text)

\* FirstSplit is where a statement ends, if one does.
LEMMA FirstSplitIs ==
  ASSUME NEW text \in Texts
  PROVE  FirstSplit(text) = 0 \/ EndsAt(text, FirstSplit(text))
<1> DEFINE cuts == {i \in DOMAIN text : text[i] = ";" /\ ~InString(text)[i]}
<1>1. Len(text) \in Nat /\ DOMAIN text = 1 .. Len(text)
  BY DEF Texts
<1>2. cuts \subseteq 1 .. Len(text) /\ cuts \subseteq Nat
  <2>1. \A i \in cuts : i \in DOMAIN text
    BY Zenon
  <2> HIDE DEF cuts
  <2> QED
    BY <1>1, <2>1
<1>3. \A i \in cuts : text[i] = ";" /\ i \notin Inside(text)
  BY Zenon DEF Inside
<1>4. FirstSplit(text) = IF cuts = {} THEN 0 ELSE CHOOSE i \in cuts : \A j \in cuts : i <= j
  BY Zenon DEF FirstSplit
<1> HIDE DEF cuts
<1>5. CASE cuts = {}
  BY <1>4, <1>5
<1>6. CASE cuts # {}
  <2>1. \E i \in cuts : \A j \in cuts : i <= j
    BY <1>2, <1>6, Least
  <2> DEFINE i == FirstSplit(text)
  <2>2. i \in cuts
    BY <1>4, <1>6, <2>1
  <2> HIDE DEF i
  <2>3. i \in 1 .. Len(text)
    BY <1>2, <2>2
  <2>4. text[i] = ";" /\ i \notin Inside(text)
    BY <1>3, <2>2, Zenon
  <2> QED
    BY <2>3, <2>4 DEF EndsAt, i
<1> QED
  BY <1>5, <1>6

\* What a text of whole statements is: it ends with a separator, outside of a
\* string literal and after a semicolon, unless it is rejected before.
EndsStatement(r) ==
  /\ r.error.k # "UnterminatedString"
  /\ r.error.k = "none" =>
       r.tokens = <<>> \/ <<r.tokens[Len(r.tokens)].k, r.tokens[Len(r.tokens)].text>> = Semicolon

Whole(text) ==
  /\ text \in Texts /\ (text = <<>> \/ text[Len(text)] \in Separators)
  /\ EndsStatement(Lex(text))

\* A result ends a statement if its last part does, or if its first part does
\* and nothing follows.
LEMMA EndsJoined ==
  ASSUME NEW r \in Results, NEW s \in Results, NEW n \in Nat, EndsStatement(s),
         r.error.k # "UnterminatedString", EndsStatement(r) \/ s.tokens # <<>>
  PROVE  EndsStatement(Chained(r, MovedResult(s, n)))
<1> DEFINE m == MovedResult(s, n)
<1>1. /\ r.tokens \in Seq(Tokens) /\ s.tokens \in Seq(Tokens)
      /\ (r.error.k = "none" <=> r.error = NoError)
  BY ErrorsAre
<1>2. m.tokens = Shifted(s.tokens, n) /\ m.error.k = s.error.k
  BY MovedResultIs DEF MovedResult
<1>3. /\ m.tokens \in Seq(Tokens) /\ Len(m.tokens) = Len(s.tokens)
      /\ \A i \in 1 .. Len(s.tokens) : m.tokens[i].k = s.tokens[i].k /\ m.tokens[i].text = s.tokens[i].text
  <2>1. \A k, p, t : Token(k, p, t).k = k /\ Token(k, p, t).text = t
    BY DEF Token
  <2> QED
    BY <1>1, <1>2, <2>1, ShiftedIs
<1> HIDE DEF m
<1>4. CASE r.error # NoError
  <2>1. Chained(r, m) = r
    BY <1>4 DEF Chained
  <2>2. EndsStatement(r)
    BY <1>1, <1>4 DEF EndsStatement
  <2> QED
    BY <2>1, <2>2 DEF m
<1>5. CASE r.error = NoError
  <2> DEFINE a == r.tokens
             b == s.tokens
             c == m.tokens
             z == a \o c
             l == Len(z)
  <2>1. Chained(r, m).tokens = z /\ Chained(r, m).error.k = s.error.k
    BY <1>2, <1>5 DEF Chained
  <2>2. /\ z \in Seq(Tokens) /\ Len(z) = Len(a) + Len(c) /\ Len(a) \in Nat /\ Len(c) \in Nat
        /\ \A i \in 1 .. Len(a) + Len(c) : z[i] = IF i <= Len(a) THEN a[i] ELSE c[i - Len(a)]
    <3>1. a \in Seq(Tokens) /\ c \in Seq(Tokens)
      BY <1>1, <1>3
    <3> HIDE DEF a, c
    <3> QED
      BY <3>1, ConcatProperties
  <2>3. s.error.k # "UnterminatedString"
    BY DEF EndsStatement
  <2>4. ASSUME s.error.k = "none" PROVE z = <<>> \/ <<z[l].k, z[l].text>> = Semicolon
    <3>1. b = <<>> \/ <<b[Len(b)].k, b[Len(b)].text>> = Semicolon
      BY <2>4 DEF EndsStatement
    <3>2. a = <<>> \/ <<a[Len(a)].k, a[Len(a)].text>> = Semicolon \/ b # <<>>
      BY <1>1, <1>5 DEF EndsStatement
    <3>3. Len(c) = Len(b) /\ \A i \in 1 .. Len(b) : c[i].k = b[i].k /\ c[i].text = b[i].text
      BY <1>3
    <3>4. (b = <<>> => Len(b) = 0) /\ (Len(b) = 0 => b = <<>>) /\ (a = <<>> => Len(a) = 0)
          /\ (Len(z) = 0 => z = <<>>)
      BY <1>1, <2>2, EmptySeq
    <3> HIDE DEF a, b, c, z
    <3>5. CASE Len(c) = 0
      <4>1. l = Len(a)
        BY <2>2, <3>5
      <4>2. CASE l = 0
        BY <3>4, <4>2
      <4>3. CASE l # 0
        <5>1. l \in 1 .. Len(a) + Len(c) /\ l <= Len(a)
          BY <2>2, <3>5, <4>1, <4>3
        <5>2. z[l] = a[l]
          BY <2>2, <5>1
        <5> HIDE DEF l
        <5> QED
          BY <3>2, <3>3, <3>4, <3>5, <4>1, <4>3, <5>2
      <4> QED
        BY <4>2, <4>3
    <3>6. CASE Len(c) # 0
      <4>1. l \in 1 .. Len(a) + Len(c) /\ ~(l <= Len(a)) /\ l - Len(a) = Len(c) /\ Len(c) \in 1 .. Len(b)
        BY <2>2, <3>3, <3>6
      <4>2. z[l] = c[Len(c)]
        BY <2>2, <4>1
      <4>3. c[Len(c)].k = b[Len(b)].k /\ c[Len(c)].text = b[Len(b)].text
        BY <3>3, <4>1
      <4> HIDE DEF l
      <4> QED
        BY <3>1, <3>3, <3>4, <3>6, <4>2, <4>3
    <3> QED
      BY <3>5, <3>6
  <2> DEFINE d == Chained(r, m)
  <2>5. d.error.k # "UnterminatedString"
    BY <2>1, <2>3
  <2>6. d.error.k = "none" => d.tokens = <<>> \/ <<d.tokens[Len(d.tokens)].k, d.tokens[Len(d.tokens)].text>> = Semicolon
    BY <2>1, <2>4
  <2> HIDE DEF d
  <2>7. EndsStatement(d)
    BY <2>5, <2>6 DEF EndsStatement
  <2> QED
    BY <2>7 DEF d, m
<1> QED
  BY <1>4, <1>5 DEF m

\* Whole texts are whole one after the other, and are read so.
LEMMA WholeJoined ==
  ASSUME NEW x, Whole(x), NEW y, Whole(y)
  PROVE  Whole(x \o y) /\ Reading(x \o y) = Then(Reading(x), Reading(y))
<1>1. x \in Texts /\ y \in Texts /\ Meet(x, y) /\ Lex(x).error.k # "UnterminatedString"
  BY DEF Whole, Meet, EndsStatement
<1>2. x \o y \in Texts /\ Reading(x \o y) = Then(Reading(x), Reading(y))
  BY <1>1, ReadingJoined
<1>3. Lex(x) \in Results /\ Lex(y) \in Results /\ Len(x) \in Nat
  BY <1>1, ReadingIs DEF Texts
<1>4. Lex(x \o y) = Chained(Lex(x), MovedResult(Lex(y), Len(x)))
  BY <1>1, LexJoined
<1>5. EndsStatement(Lex(x \o y))
  <2>1. EndsStatement(Lex(x)) /\ EndsStatement(Lex(y))
    BY DEF Whole
  <2> QED
    BY <1>1, <1>3, <1>4, <2>1, EndsJoined
<1>6. x \o y = <<>> \/ (x \o y)[Len(x \o y)] \in Separators
  <2> DEFINE z == x \o y
  <2>1. /\ Len(z) = Len(x) + Len(y) /\ Len(x) \in Nat /\ Len(y) \in Nat
        /\ \A i \in 1 .. Len(x) : z[i] = x[i]
        /\ \A i \in 1 .. Len(y) : z[Len(x) + i] = y[i]
    BY <1>1, JoinIs
  <2>2. CASE y = <<>>
    <3>1. z = x
      BY <1>1, <2>2, ConcatEmptySeq DEF Texts
    <3> QED
      BY <3>1 DEF Whole
  <2>3. CASE y # <<>>
    <3>1. Len(y) \in 1 .. Len(y)
      BY <1>1, <2>1, <2>3, EmptySeq DEF Texts
    <3> HIDE DEF z
    <3>2. z[Len(z)] = y[Len(y)]
      BY <2>1, <3>1
    <3> QED
      BY <2>3, <3>2 DEF Whole, z
  <2> QED
    BY <2>2, <2>3
<1> QED
  BY <1>2, <1>5, <1>6 DEF Whole

\* White space is whole.
LEMMA BlankWhole ==
  ASSUME NEW text \in Seq(WhiteSpace)
  PROVE  Whole(text)
<1>1. text \in Texts /\ Lex(text) = [tokens |-> <<>>, error |-> NoError]
  BY BlankIs
<1>2. text = <<>> \/ text[Len(text)] \in Separators
  <2>1. text # <<>> => Len(text) \in 1 .. Len(text)
    BY EmptySeq
  <2>2. text # <<>> => text[Len(text)] \in WhiteSpace
    BY <2>1, ElementOfSeq
  <2> QED
    BY <2>2 DEF WhiteSpace, Separators
<1> QED
  BY <1>1, <1>2 DEF Whole, EndsStatement, NoError

\* What a statement is read as, its semicolon does not change.
LEMMA StatementIs ==
  ASSUME NEW text \in Texts, NEW n, EndsAt(text, n)
  PROVE  /\ SubSeq(text, 1, n - 1) \in Texts /\ SubSeq(text, 1, n) \in Texts
         /\ Whole(SubSeq(text, 1, n))
         /\ Reading(SubSeq(text, 1, n)) = Reading(SubSeq(text, 1, n - 1))
<1> DEFINE x == SubSeq(text, 1, n - 1)
           y == <<";">>
           z == SubSeq(text, 1, n)
           l == n - 1
           token == Token("symbol", 1, <<";">>)
           one == <<token>>
<1>0. n \in 1 .. Len(text) /\ text[n] = ";" /\ n \notin Inside(text)
  BY DEF EndsAt
<1>1. Len(text) \in Nat /\ l \in 0 .. Len(text) /\ n \in 0 .. Len(text) /\ n = l + 1
      /\ l \in Nat /\ n \in Nat /\ l <= Len(text) /\ n \in 1 .. n
  <2>1. n \in 1 .. Len(text)
    BY <1>0
  <2> QED
    BY <2>1 DEF Texts
<1>2. /\ x \in Texts /\ Len(x) = l /\ \A i \in 1 .. l : x[i] = text[i]
  BY <1>1, CutIs
<1>3. /\ z \in Texts /\ Len(z) = n /\ \A i \in 1 .. n : z[i] = text[i]
  BY <1>1, CutIs
<1>4. y \in Texts /\ Len(y) = 1 /\ y[1] = ";"
  <2>1. ";" \in Characters
    BY DEF Characters, Singles
  <2> QED
    BY <2>1, OneIs DEF Texts
<1>5. l \notin Inside(text)
  BY <1>0, InStringIs
<1> HIDE DEF x, y, z, l
<1>6. z = x \o y
  <2> DEFINE w == x \o y
  <2>1. w \in Texts /\ Len(w) = l + 1 /\ (\A i \in 1 .. l : w[i] = x[i]) /\ \A i \in 1 .. 1 : w[l + i] = y[i]
    <3>1. /\ w \in Texts /\ Len(w) = Len(x) + Len(y) /\ (\A i \in 1 .. Len(x) : w[i] = x[i])
          /\ \A i \in 1 .. Len(y) : w[Len(x) + i] = y[i]
      BY <1>2, <1>4, JoinIs
    <3>2. Len(x) = l /\ Len(y) = 1
      BY <1>2, <1>4
    <3> HIDE DEF w
    <3> QED
      BY <3>1, <3>2, Zenon
  <2> HIDE DEF w
  <2>2. w[l + 1] = y[1]
    <3>1. 1 \in 1 .. 1
      OBVIOUS
    <3> QED
      BY <2>1, <3>1
  <2>3. \A i \in 1 .. n : i \in 1 .. l \/ i = n
    BY <1>1
  <2>4. \A i \in 1 .. n : z[i] = w[i]
    <3> TAKE i \in 1 .. n
    <3>1. CASE i \in 1 .. l
      BY <1>2, <1>3, <2>1, <3>1
    <3>2. CASE i = n
      BY <1>0, <1>1, <1>3, <1>4, <2>2, <3>2
    <3> QED
      BY <2>3, <3>1, <3>2
  <2>5. z = w
    BY <1>1, <1>3, <2>1, <2>4, SeqEqual DEF Texts
  <2> QED
    BY <2>5 DEF w
<1>7. Lex(x) \in Results /\ Lex(y) \in Results /\ Lex(x).error.k # "UnterminatedString"
  <2>1. \A i \in 0 .. Len(x) : i \in Inside(x) <=> i \in Inside(text)
    <3>1. Len(x) <= Len(text) /\ \A i \in 1 .. Len(x) : x[i] = text[i]
      BY <1>1, <1>2
    <3> QED
      BY <1>2, <3>1, InsideBegins
  <2>2. Len(x) \notin Inside(x)
    <3>1. Len(x) \in 0 .. Len(x) /\ Len(x) = l
      BY <1>1, <1>2
    <3> QED
      BY <1>5, <2>1, <3>1
  <2> QED
    BY <1>2, <1>4, <2>2, Balanced, ReadingIs
<1>8. Meet(x, y)
  BY <1>4 DEF Meet, Separators
<1>9. Lex(y).tokens = one /\ Lex(y).error = NoError
  <2>1. 1 \in 1 .. Len(y) /\ Len(y) + 1 = 1 + 1
    <3>1. Len(y) = 1
      BY <1>4
    <3> QED
      BY <3>1
  <2>2. y[1] \in Separators /\ y[1] = ";"
    BY <1>4, Zenon DEF Separators
  <2>3. Lexing(y)[1] = Finds(token, Lexing(y)[1 + 1]) /\ Lexing(y)[1 + 1] \in Results /\ token \in Tokens
    BY <1>4, <2>1, <2>2, SeparatorIs
  <2>4. Lexing(y)[1 + 1] = [tokens |-> <<>>, error |-> NoError]
    BY <1>4, <2>1, LexingAtEnd
  <2> HIDE DEF token
  <2>5. one \in Seq(Tokens)
    BY <2>3, OneIs
  <2>6. one \o <<>> = one
    <3> HIDE DEF one
    <3> QED
      BY <2>5, ConcatEmptySeq
  <2> DEFINE rest == Lexing(y)[1 + 1]
  <2>7. rest.tokens = <<>> /\ rest.error = NoError
    BY <2>4
  <2> HIDE DEF rest
  <2>8. Finds(token, rest).tokens = one \o rest.tokens /\ Finds(token, rest).error = rest.error
    BY DEF Finds
  <2> HIDE DEF one
  <2>9. Finds(token, rest).tokens = one /\ Finds(token, rest).error = NoError
    BY <2>6, <2>7, <2>8
  <2> QED
    BY <2>3, <2>9 DEF Lex, rest
<1>10. Reading(y) = Nothing
  <2>1. Bare(one) = <<>>
    BY BareSemicolon
  <2> HIDE DEF one
  <2> QED
    BY <1>9, <2>1 DEF Reading, Nothing, NoError
<1>11. Reading(x \o y) = Reading(x)
  <2>1. Reading(x) \in Readings /\ Nothing \in Readings
    BY <1>2, ReadingIs, ThenIs DEF Combines
  <2>2. Reading(x \o y) = Then(Reading(x), Nothing)
    BY <1>2, <1>4, <1>7, <1>8, <1>10, ReadingJoined
  <2>3. Thens[<<Reading(x), Nothing>>] = Then(Reading(x), Nothing)
    BY <2>1, ThenIs
  <2>4. Thens[<<Reading(x), Nothing>>] = Reading(x)
    BY <2>1, ThenIs DEF Combines
  <2> QED
    BY <2>2, <2>3, <2>4
<1>12. EndsStatement(Lex(x \o y))
  <2> DEFINE r == Lex(x)
             s == Lex(y)
  <2>1. Lex(x \o y) = Chained(r, MovedResult(s, Len(x)))
    BY <1>2, <1>4, <1>7, <1>8, LexJoined
  <2>2. one # <<>> /\ Len(one) = 1 /\ one[1] = token
    OBVIOUS
  <2>3. <<token.k, token.text>> = Semicolon
    BY DEF Token, Semicolon
  <2>4. Len(x) \in Nat /\ r \in Results /\ s \in Results /\ r.error.k # "UnterminatedString"
    BY <1>1, <1>2, <1>7
  <2> HIDE DEF r, s, token, one
  <2>5. s.tokens = one /\ s.error = NoError
    BY <1>9 DEF s
  <2>6. EndsStatement(s) /\ s.tokens # <<>>
    <3>1. s.error.k = "none"
      BY <2>5 DEF NoError
    <3> QED
      BY <2>2, <2>3, <2>5, <3>1 DEF EndsStatement
  <2> QED
    BY <2>1, <2>4, <2>6, EndsJoined
<1>13. Whole(z)
  <2>1. z[Len(z)] = text[n]
    BY <1>1, <1>3
  <2>2. ";" \in Separators
    BY DEF Separators
  <2> QED
    BY <1>0, <1>3, <1>6, <1>12, <2>1, <2>2 DEF Whole
<1> QED
  BY <1>2, <1>3, <1>6, <1>11, <1>13 DEF x, z, l

-----------------------------------------------------------------------------
(* SplitAll.                                                               *)

\* Some statements of a text and the rest of it.
IsSplit(text, p) ==
  /\ p.statements \in Seq(Texts) /\ p.rest \in Texts
  /\ p = [statements |-> p.statements, rest |-> p.rest]
  /\ \E c \in Texts : /\ text = c \o p.rest /\ Whole(c)
                      /\ Reading(c) = Piecewise(p.statements)

\* Splitting off a statement splits the text at another place.
LEMMA SplitOffIs ==
  ASSUME NEW text \in Texts, NEW p, IsSplit(text, p)
  PROVE  IsSplit(text, SplitOff(p, FirstSplit(p.rest)))
<1> DEFINE r == p.rest
           s == p.statements
           i == FirstSplit(r)
           x == SubSeq(r, 1, i - 1)
           z == SubSeq(r, 1, i)
           t == SubSeq(r, i + 1, Len(r))
           new == s \o <<x>>
<1>1. r \in Texts /\ s \in Seq(Texts) /\ p = [statements |-> s, rest |-> r]
  BY DEF IsSplit
<1>2. PICK c \in Texts : text = c \o r /\ Whole(c) /\ Reading(c) = Piecewise(s)
  BY DEF IsSplit
<1> HIDE DEF r, s
<1>3. i = 0 \/ EndsAt(r, i)
  BY <1>1, FirstSplitIs
<1>4. CASE i = 0
  BY <1>4 DEF SplitOff, r
<1>5. CASE i # 0
  <2>1. EndsAt(r, i) /\ i \in 0 .. Len(r)
    <3> HIDE DEF i
    <3>1. EndsAt(r, i)
      BY <1>3, <1>5
    <3>2. i \in 1 .. Len(r)
      BY <3>1 DEF EndsAt
    <3> QED
      BY <3>1, <3>2
  <2>2. x \in Texts /\ z \in Texts /\ Whole(z) /\ Reading(z) = Reading(x)
    BY <1>1, <2>1, StatementIs
  <2>3. t \in Texts /\ r = z \o t
    BY <1>1, <2>1, CutIs
  <2>4. SplitOff(p, i) = [statements |-> Append(s, x), rest |-> t]
    BY <1>5 DEF SplitOff, r, s
  <2> HIDE DEF i, x, z, t
  <2>5. <<x>> \in Seq(Texts) /\ Append(s, x) = s \o <<x>> /\ s \o <<x>> \in Seq(Texts)
    BY <1>1, <2>2
  <2>6. Piecewise(s \o <<x>>) = Then(Piecewise(s), Reading(x))
    BY <1>1, <2>2, <2>5, PiecewiseJoined, PiecewiseSmall
  <2>7. Whole(c \o z) /\ Reading(c \o z) = Then(Reading(c), Reading(z))
    BY <1>2, <2>2, WholeJoined
  <2>8. c \o z \in Texts /\ text = (c \o z) \o t
    <3>1. c \o z \in Texts /\ text = c \o (z \o t)
      BY <1>2, <2>2, <2>3, JoinIs
    <3>2. c \in Seq(Characters) /\ z \in Seq(Characters) /\ t \in Seq(Characters)
      BY <2>2, <2>3 DEF Texts
    <3>3. (c \o z) \o t = c \o (z \o t)
      BY <3>2, ConcatAssociative
    <3> QED
      BY <3>1, <3>3
  <2>9. Reading(c \o z) = Piecewise(new)
    BY <1>2, <2>2, <2>6, <2>7
  <2> HIDE DEF new
  <2>10. IsSplit(text, [statements |-> new, rest |-> t])
    BY <2>3, <2>5, <2>7, <2>8, <2>9 DEF IsSplit, new
  <2> QED
    BY <2>4, <2>5, <2>10 DEF i, new, r
<1> QED
  BY <1>4, <1>5

\* SplitAll splits the text into whole statements and a rest.
LEMMA SplitAllIs ==
  ASSUME NEW text \in Texts
  PROVE  IsSplit(text, SplitAll(text))
<1> DEFINE n == Len(text)
           first == [statements |-> <<>>, rest |-> text]
           P == {p \in [statements : Seq(Texts), rest : Texts] : IsSplit(text, p)}
           Is(f) == f = [k \in 0 .. Len(text) |->
                           IF k = 0 THEN [statements |-> <<>>, rest |-> text]
                           ELSE LET split == f[k - 1] IN SplitOff(split, FirstSplit(split.rest))]
           after == CHOOSE f : Is(f)
           g == [q \in P \X (1 .. n) |-> SplitOff(q[1], FirstSplit(q[1].rest))]
<1>0. n \in Nat
  BY DEF Texts
<1>1. SplitAll(text) = after[n]
  BY DEF SplitAll
<1>2. first \in P
  <2>1. <<>> \in Seq(WhiteSpace) /\ <<>> \in Texts
    BY DEF Texts
  <2>2. Whole(<<>>) /\ Reading(<<>>) = Nothing /\ Piecewise(<<>>) = Nothing
    BY <2>1, BlankWhole, BlankIs, PiecewiseSmall
  <2>3. <<>> \o text = text
    BY ConcatEmptySeq DEF Texts
  <2>4. first.statements = <<>> /\ first.rest = text /\ first \in [statements : Seq(Texts), rest : Texts]
    OBVIOUS
  <2> HIDE DEF first
  <2>5. first = [statements |-> first.statements, rest |-> first.rest]
    BY <2>4
  <2>6. IsSplit(text, first)
    BY <2>1, <2>2, <2>3, <2>4, <2>5 DEF IsSplit
  <2> QED
    BY <2>4, <2>6
<1>3. \A p \in P : SplitOff(p, FirstSplit(p.rest)) \in P
  <2> TAKE p \in P
  <2> DEFINE q == SplitOff(p, FirstSplit(p.rest))
  <2>1. IsSplit(text, q)
    BY SplitOffIs
  <2> HIDE DEF q
  <2>2. q \in [statements : Seq(Texts), rest : Texts]
    BY <2>1 DEF IsSplit
  <2> QED
    BY <2>1, <2>2 DEF q
<1>4. \A p \in P, k \in 1 .. n : g[<<p, k>>] = SplitOff(p, FirstSplit(p.rest))
  OBVIOUS
<1> HIDE DEF P, g, n
<1>5. PICK f : Steps(f, g, P, first, n)
  <2>1. IsStep(g, P, n)
    BY <1>3, <1>4 DEF IsStep
  <2> HIDE DEF first
  <2> QED
    BY <1>0, <1>2, <2>1, Recursion
<1>6. \A k \in 0 .. n : k = 0 \/ (k \in 1 .. n /\ k - 1 \in 0 .. n)
  BY <1>0
<1>7. \A k \in 0 .. n : f[k] = IF k = 0 THEN [statements |-> <<>>, rest |-> text]
                              ELSE LET split == f[k - 1] IN SplitOff(split, FirstSplit(split.rest))
  <2> TAKE k \in 0 .. n
  <2>1. CASE k = 0
    BY <1>5, <2>1 DEF Steps
  <2>2. CASE k # 0
    <3>1. k \in 1 .. n /\ f[k - 1] \in P /\ f[k] = g[<<f[k - 1], k>>]
      BY <1>5, <1>6, <2>2 DEF Steps
    <3>2. f[k] = SplitOff(f[k - 1], FirstSplit(f[k - 1].rest))
      BY <1>4, <3>1
    <3> QED
      BY <2>2, <3>2
  <2> QED
    BY <2>1, <2>2
<1>8. Is(f)
  <2>1. f = [k \in 0 .. n |-> f[k]]
    BY <1>5 DEF Steps
  <2> QED
    BY <1>7, <2>1 DEF n
<1>9. Is(after)
  BY <1>8
<1> HIDE DEF after
<1>10. \A k \in 0 .. n : after[k] = IF k = 0 THEN [statements |-> <<>>, rest |-> text]
                                   ELSE SplitOff(after[k - 1], FirstSplit(after[k - 1].rest))
  BY <1>9 DEF n
<1> DEFINE H == {k \in 0 .. n : after[k] \in P}
<1>11. 0 \in 0 .. n /\ n \in 0 .. n /\ \A k \in 1 .. n : k \in 0 .. n /\ k # 0 /\ k - 1 \in 0 .. n
  BY <1>0
<1>12. 0 \in H
  BY <1>2, <1>10, <1>11
<1>13. ASSUME NEW k \in 1 .. n, k - 1 \in H PROVE k \in H
  <2>1. after[k] = SplitOff(after[k - 1], FirstSplit(after[k - 1].rest))
    BY <1>10, <1>11
  <2>2. after[k - 1] \in P
    BY <1>13
  <2> QED
    BY <1>3, <1>11, <2>1, <2>2
<1> HIDE DEF H
<1>14. \A k \in 0 .. n : k \in H
  BY <1>0, <1>12, <1>13, IntervalInduction
<1>15. after[n] \in P
  BY <1>11, <1>14 DEF H
<1> QED
  BY <1>1, <1>15 DEF P

\* Readings one after the other, however they are grouped.
LEMMA ThenAssociates ==
  ASSUME NEW a \in Readings, NEW b \in Readings, NEW c \in Readings
  PROVE  /\ Nothing \in Readings /\ Then(a, b) \in Readings
         /\ Then(Nothing, a) = a /\ Then(a, Nothing) = a
         /\ Then(Then(a, b), c) = Then(a, Then(b, c))
<1>1. /\ Nothing \in Readings
      /\ \A r \in Readings : Thens[<<Nothing, r>>] = r /\ Thens[<<r, Nothing>>] = r
      /\ \A p \in Readings, q \in Readings, r \in Readings :
           Thens[<<Thens[<<p, q>>], r>>] = Thens[<<p, Thens[<<q, r>>]>>]
  BY ThenIs DEF Combines
<1>2. \A p \in Readings, q \in Readings : Thens[<<p, q>>] = Then(p, q) /\ Then(p, q) \in Readings
  BY ThenIs
<1>3. Then(a, b) \in Readings /\ Then(b, c) \in Readings
  BY <1>2
<1>4. Thens[<<a, b>>] = Then(a, b) /\ Thens[<<b, c>>] = Then(b, c)
  BY <1>2
<1>5. Thens[<<Then(a, b), c>>] = Then(Then(a, b), c) /\ Thens[<<a, Then(b, c)>>] = Then(a, Then(b, c))
  BY <1>2, <1>3
<1>6. Thens[<<Nothing, a>>] = Then(Nothing, a) /\ Thens[<<a, Nothing>>] = Then(a, Nothing)
  BY <1>1, <1>2
<1>7. Thens[<<Thens[<<a, b>>], c>>] = Thens[<<a, Thens[<<b, c>>]>>]
  BY <1>1
<1> QED
  BY <1>1, <1>3, <1>4, <1>5, <1>6, <1>7

\* What is read first is a prefix of all that is read.
LEMMA PrefixIs ==
  ASSUME NEW a \in Readings, NEW b \in Readings
  PROVE  IsPrefix(a.tokens, Then(a, b).tokens)
<1> DEFINE s == a.tokens
           u == b.tokens
           N == Names
           t == s \o u
<1>1. s \in Seq(N) /\ u \in Seq(N)
  BY DEF Readings
<1>2. Then(a, b).tokens = s \/ Then(a, b).tokens = t
  BY DEF Then
<1> HIDE DEF s, u, N
<1>3. Len(s) \in Nat /\ Len(u) \in Nat
  BY <1>1
<1>4. /\ t \in Seq(N) /\ Len(t) = Len(s) + Len(u)
      /\ \A i \in 1 .. Len(s) + Len(u) : t[i] = IF i <= Len(s) THEN s[i] ELSE u[i - Len(s)]
  BY <1>1, ConcatProperties
<1> HIDE DEF t
<1>5. IsPrefix(s, s)
  BY <1>3 DEF IsPrefix
<1>6. IsPrefix(s, t)
  <2> DEFINE m == Len(s)
             x == SubSeq(s, 1, m)
             y == SubSeq(t, 1, m)
  <2>1. m \in Nat /\ m <= Len(t) /\ Len(t) \in Nat
    BY <1>3, <1>4
  <2>2. x \in Seq(N) /\ Len(x) = m /\ \A i \in 1 .. m : x[i] = s[i]
    BY <1>1, <2>1
  <2>3. y \in Seq(N) /\ Len(y) = m /\ \A i \in 1 .. m : y[i] = t[i]
    BY <1>4, <2>1
  <2>4. \A i \in 1 .. m : i \in 1 .. Len(s) + Len(u) /\ i <= Len(s)
    BY <1>3
  <2> HIDE DEF m, x, y
  <2>5. \A i \in 1 .. m : t[i] = s[i]
    BY <1>4, <2>4
  <2>6. \A i \in 1 .. m : x[i] = y[i]
    BY <2>2, <2>3, <2>5
  <2>7. x = y
    BY <2>2, <2>3, <2>6, SeqEqual
  <2> QED
    BY <2>1, <2>7 DEF IsPrefix, m, x, y
<1> QED
  BY <1>2, <1>5, <1>6 DEF s

\* A sequence is its first n elements and what follows them.
LEMMA FirstOf ==
  ASSUME NEW S, NEW seq \in Seq(S), NEW n \in 0 .. Len(seq)
  PROVE  /\ [i \in 1 .. n |-> seq[i]] \in Seq(S)
         /\ \E more \in Seq(S) : /\ seq = [i \in 1 .. n |-> seq[i]] \o more
                                 /\ n = Len(seq) => more = <<>>
<1> DEFINE l == Len(seq)
           m == l - n
           x == [i \in 1 .. n |-> seq[i]]
           y == [i \in 1 .. m |-> seq[n + i]]
           z == x \o y
<1>1. l \in Nat /\ n \in Nat /\ m \in Nat /\ l = n + m /\ \A i \in 1 .. l : seq[i] \in S
  OBVIOUS
<1>2. \A i \in 1 .. m : n + i \in 1 .. l
  BY <1>1
<1>3. \A i \in 1 .. n : i \in 1 .. l
  BY <1>1
<1> HIDE DEF l, m
<1>4. x \in Seq(S) /\ Len(x) = n /\ \A i \in 1 .. n : x[i] = seq[i]
  BY <1>1, <1>3
<1>5. y \in Seq(S) /\ Len(y) = m /\ \A i \in 1 .. m : y[i] = seq[n + i]
  BY <1>1, <1>2
<1> HIDE DEF x, y
<1>6. z \in Seq(S) /\ Len(z) = n + m /\ \A i \in 1 .. n + m : z[i] = IF i <= n THEN x[i] ELSE y[i - n]
  BY <1>4, <1>5, ConcatProperties
<1> HIDE DEF z
<1>7. \A i \in 1 .. l : seq[i] = z[i]
  <2> TAKE i \in 1 .. l
  <2>1. /\ i \in 1 .. n + m
        /\ \/ i \in 1 .. n /\ i <= n
           \/ ~(i <= n) /\ i - n \in 1 .. m /\ n + (i - n) = i
    BY <1>1
  <2> QED
    BY <1>4, <1>5, <1>6, <2>1
<1>8. seq = z
  BY <1>1, <1>6, <1>7, SeqEqual DEF l
<1>9. n = Len(seq) => y = <<>>
  <2>1. n = Len(seq) => m = 0
    BY DEF m, l
  <2> QED
    BY <1>5, <2>1, EmptySeq
<1> QED
  BY <1>4, <1>5, <1>8, <1>9 DEF x, z

-----------------------------------------------------------------------------
(* Executing.                                                              *)

\* What is recorded of an executed statement.
Outcomes == [text : Texts, ok : BOOLEAN]

\* The texts of the statements that were executed.
TextsOf(list) == [i \in DOMAIN list |-> list[i].text]

\* There is a text for every outcome.
LEMMA TextsOfIs ==
  ASSUME NEW list \in Seq(Outcomes)
  PROVE  /\ TextsOf(list) \in Seq(Texts) /\ Len(TextsOf(list)) = Len(list)
         /\ \A i \in 1 .. Len(list) : TextsOf(list)[i] = list[i].text
<1> DEFINE n == Len(list)
<1>1. n \in Nat /\ DOMAIN list = 1 .. n /\ \A i \in 1 .. n : list[i] \in Outcomes
  BY LenProperties, ElementOfSeq
<1>2. \A i \in 1 .. n : list[i].text \in Texts
  BY <1>1 DEF Outcomes
<1> HIDE DEF n
<1>3. TextsOf(list) = [i \in 1 .. n |-> list[i].text]
  BY <1>1 DEF TextsOf
<1>4. TextsOf(list) \in Seq(Texts) /\ Len(TextsOf(list)) = n
  BY <1>1, <1>2, <1>3
<1> QED
  BY <1>3, <1>4 DEF n

\* Texts can be taken before or after outcomes are put together.
LEMMA TextsOfJoined ==
  ASSUME NEW x \in Seq(Outcomes), NEW y \in Seq(Outcomes)
  PROVE  TextsOf(x \o y) = TextsOf(x) \o TextsOf(y)
<1> DEFINE a == Len(x)
           b == Len(y)
           z == x \o y
           l == TextsOf(z)
           u == TextsOf(x)
           v == TextsOf(y)
           r == u \o v
<1>1. /\ a \in Nat /\ b \in Nat /\ z \in Seq(Outcomes) /\ Len(z) = a + b
      /\ \A i \in 1 .. a + b : z[i] = IF i <= a THEN x[i] ELSE y[i - a]
  BY ConcatProperties
<1> HIDE DEF z
<1>2. u \in Seq(Texts) /\ Len(u) = a /\ \A i \in 1 .. a : u[i] = x[i].text
  BY TextsOfIs
<1>3. v \in Seq(Texts) /\ Len(v) = b /\ \A i \in 1 .. b : v[i] = y[i].text
  BY TextsOfIs
<1>4. l \in Seq(Texts) /\ Len(l) = a + b /\ \A i \in 1 .. a + b : l[i] = z[i].text
  BY <1>1, TextsOfIs
<1> HIDE DEF a, b, l, u, v
<1>5. /\ r \in Seq(Texts) /\ Len(r) = a + b
      /\ \A i \in 1 .. a + b : r[i] = IF i <= a THEN u[i] ELSE v[i - a]
  BY <1>2, <1>3, ConcatProperties
<1> HIDE DEF r
<1>6. \A i \in 1 .. a + b : l[i] = r[i]
  <2> TAKE i \in 1 .. a + b
  <2>1. CASE i <= a
    <3>1. i \in 1 .. a
      BY <1>1, <2>1
    <3> QED
      BY <1>1, <1>2, <1>4, <1>5, <2>1, <3>1
  <2>2. CASE ~(i <= a)
    <3>1. i - a \in 1 .. b
      BY <1>1, <2>2
    <3> QED
      BY <1>1, <1>3, <1>4, <1>5, <2>2, <3>1
  <2> QED
    BY <2>1, <2>2
<1>7. l = r
  BY <1>4, <1>5, <1>6, SeqEqual
<1> QED
  BY <1>7 DEF l, r, u, v, z

\* What executing some texts, and what may then be left of them, comes to.
Executes(list, new, texts, io) ==
  /\ new \in Seq(Outcomes)
  /\ \E rest \in Readings :
       /\ Then(Piecewise(TextsOf(list \o new)), rest) = Then(Piecewise(TextsOf(list)), Piecewise(texts))
       /\ ~io => rest = Nothing

\* The first n of some statements, and the rest of them if the output breaks.
LEMMA ExecutesFirst ==
  ASSUME NEW list \in Seq(Outcomes), NEW texts \in Seq(Texts), NEW n \in 0 .. Len(NotBlank(texts)),
         NEW oks \in [1 .. n -> BOOLEAN], NEW io \in BOOLEAN, n < Len(NotBlank(texts)) => io
  PROVE  Executes(list, [i \in 1 .. n |-> [text |-> NotBlank(texts)[i], ok |-> oks[i]]], texts, io)
<1> DEFINE s == NotBlank(texts)
           new == [i \in 1 .. n |-> [text |-> s[i], ok |-> oks[i]]]
           first == [i \in 1 .. n |-> s[i]]
<1>1. s \in Seq(Texts) /\ Piecewise(s) = Piecewise(texts) /\ (n < Len(s) => io)
  BY PiecewiseNotBlank
<1>2. n \in 0 .. Len(s)
  OBVIOUS
<1> HIDE DEF s
<1>3. Len(s) \in Nat /\ n \in Nat /\ \A i \in 1 .. n : s[i] \in Texts /\ oks[i] \in BOOLEAN
  BY <1>1, <1>2
<1>4. new \in Seq(Outcomes) /\ Len(new) = n
  <2> DEFINE e == [i \in 1 .. n |-> [text |-> s[i], ok |-> oks[i]]]
  <2>1. \A i \in 1 .. n : [text |-> s[i], ok |-> oks[i]] \in Outcomes
    BY <1>3 DEF Outcomes
  <2>2. e \in [1 .. n -> Outcomes]
    BY <2>1
  <2> HIDE DEF e
  <2>3. e \in Seq(Outcomes) /\ Len(e) = n
    BY <1>3, <2>2
  <2> QED
    BY <2>3 DEF e
<1>5. \A i \in 1 .. n : new[i].text = s[i]
  OBVIOUS
<1>6. PICK more \in Seq(Texts) : s = first \o more /\ (n = Len(s) => more = <<>>)
  BY <1>1, <1>2, FirstOf
<1>7. first \in Seq(Texts)
  BY <1>1, <1>2, FirstOf
<1>8. Len(first) = n /\ \A i \in 1 .. n : first[i] = s[i]
  BY <1>3
<1> HIDE DEF first, new
<1>9. TextsOf(new) = first
  <2> DEFINE l == TextsOf(new)
  <2>1. l \in Seq(Texts) /\ Len(l) = n /\ \A i \in 1 .. n : l[i] = new[i].text
    BY <1>4, TextsOfIs
  <2> HIDE DEF l
  <2>2. \A i \in 1 .. n : l[i] = first[i]
    BY <1>5, <1>8, <2>1
  <2>3. l = first
    BY <1>7, <1>8, <2>1, <2>2, SeqEqual
  <2> QED
    BY <2>3 DEF l
<1> DEFINE a == Piecewise(TextsOf(list))
           b == Piecewise(first)
           c == Piecewise(more)
<1>10. a \in Readings /\ Piecewise(TextsOf(list \o new)) = Then(a, b)
  <2>1. TextsOf(list) \in Seq(Texts)
    BY TextsOfIs
  <2>2. TextsOf(list \o new) = TextsOf(list) \o first
    BY <1>4, <1>9, TextsOfJoined
  <2> QED
    BY <1>7, <2>1, <2>2, PiecewiseJoined
<1>11. b \in Readings /\ c \in Readings /\ Piecewise(s) = Then(b, c)
  BY <1>6, <1>7, PiecewiseJoined
<1>12. ~io => c = Nothing
  <2>1. ~io => n = Len(s)
    BY <1>1, <1>2, <1>3
  <2>2. ~io => more = <<>>
    BY <1>6, <2>1
  <2>3. <<>> \in Texts
    BY DEF Texts
  <2> QED
    BY <2>2, <2>3, PiecewiseSmall
<1> HIDE DEF a, b, c
<1>13. Then(Then(a, b), c) = Then(a, Piecewise(texts))
  BY <1>1, <1>10, <1>11, ThenAssociates
<1>14. Executes(list, new, texts, io)
  BY <1>4, <1>10, <1>11, <1>12, <1>13 DEF Executes, a
<1> QED
  BY <1>14 DEF new, s

\* What Statements does, for whatever it is given.
LEMMA StatementsDo ==
  ASSUME outcomes \in Seq(Outcomes), NEW texts \in Seq(Texts), Statements(texts)
  PROVE  /\ broken' \in BOOLEAN
         /\ \E new : /\ Executes(outcomes, new, texts, broken')
                     /\ outcomes' = outcomes \o new
                     /\ had_error' = (had_error \/ \E i \in 1 .. Len(new) : ~new[i].ok)
<1> DEFINE s == NotBlank(texts)
<1>1. PICK n \in 0 .. Len(s), io \in BOOLEAN : \E oks \in [1 .. n -> BOOLEAN] :
        /\ n < Len(s) => io
        /\ io => n > 0
        /\ Breaks(io)
        /\ \A i \in 1 .. n : oks[i] => Lexes(s[i])
        /\ broken' = io
        /\ had_error' = HadError(oks)
        /\ outcomes' = outcomes \o [i \in 1 .. n |-> [text |-> s[i], ok |-> oks[i]]]
  BY Zenon DEF Statements
<1>2. PICK oks \in [1 .. n -> BOOLEAN] :
        /\ n < Len(s) => io
        /\ broken' = io
        /\ had_error' = HadError(oks)
        /\ outcomes' = outcomes \o [i \in 1 .. n |-> [text |-> s[i], ok |-> oks[i]]]
  BY <1>1, Zenon
<1> DEFINE new == [i \in 1 .. n |-> [text |-> s[i], ok |-> oks[i]]]
<1>3. Executes(outcomes, new, texts, io)
  BY <1>2, ExecutesFirst
<1>4. Len(new) = n
  <2>1. new \in Seq(Outcomes) /\ DOMAIN new = 1 .. n /\ n \in Nat
    BY <1>3 DEF Executes
  <2> HIDE DEF new
  <2> QED
    BY <2>1, LenProperties
<1>5. \A i \in 1 .. n : new[i].ok = oks[i]
  OBVIOUS
<1>6. DOMAIN oks = 1 .. n
  OBVIOUS
<1> HIDE DEF new
<1>7. had_error' = (had_error \/ \E i \in 1 .. Len(new) : ~new[i].ok)
  BY <1>2, <1>4, <1>5, <1>6, Zenon DEF HadError
<1> QED
  BY <1>2, <1>3, <1>7 DEF new

\* Statements that fail among some and others.
LEMMA FailuresJoined ==
  ASSUME NEW x \in Seq(Outcomes), NEW y \in Seq(Outcomes)
  PROVE  (\E i \in DOMAIN (x \o y) : ~(x \o y)[i].ok) <=>
           (\E i \in DOMAIN x : ~x[i].ok) \/ (\E i \in 1 .. Len(y) : ~y[i].ok)
<1> DEFINE z == x \o y
           a == Len(x)
           b == Len(y)
<1>1. a \in Nat /\ b \in Nat /\ DOMAIN x = 1 .. a
  BY LenProperties
<1>2. /\ DOMAIN z = 1 .. a + b
      /\ \A i \in 1 .. a + b : z[i] = IF i <= a THEN x[i] ELSE y[i - a]
  BY ConcatProperties, LenProperties
<1> HIDE DEF z, a, b
<1>3. ASSUME NEW i \in 1 .. a PROVE i \in 1 .. a + b /\ z[i] = x[i]
  BY <1>1, <1>2
<1>4. ASSUME NEW i \in 1 .. b PROVE a + i \in 1 .. a + b /\ z[a + i] = y[i]
  <2>1. a + i \in 1 .. a + b /\ ~(a + i <= a) /\ (a + i) - a = i
    BY <1>1
  <2> QED
    BY <1>2, <2>1
<1>5. ASSUME NEW i \in 1 .. a + b
      PROVE  (i \in 1 .. a /\ z[i] = x[i]) \/ (i - a \in 1 .. b /\ z[i] = y[i - a])
  <2>1. CASE i <= a
    BY <1>1, <1>2, <2>1
  <2>2. CASE ~(i <= a)
    BY <1>1, <1>2, <2>2
  <2> QED
    BY <2>1, <2>2
<1>6. ASSUME NEW i \in DOMAIN z, ~z[i].ok
      PROVE  (\E j \in DOMAIN x : ~x[j].ok) \/ (\E j \in 1 .. b : ~y[j].ok)
  <2>1. i \in 1 .. a + b
    BY <1>2
  <2>2. (i \in 1 .. a /\ z[i] = x[i]) \/ (i - a \in 1 .. b /\ z[i] = y[i - a])
    BY <1>5, <2>1
  <2> QED
    BY <1>1, <1>6, <2>2
<1>7. ASSUME NEW i \in DOMAIN x, ~x[i].ok PROVE \E j \in DOMAIN z : ~z[j].ok
  BY <1>1, <1>2, <1>3, <1>7
<1>8. ASSUME NEW i \in 1 .. b, ~y[i].ok PROVE \E j \in DOMAIN z : ~z[j].ok
  BY <1>2, <1>4, <1>8
<1>9. (\E i \in DOMAIN z : ~z[i].ok) <=> (\E i \in DOMAIN x : ~x[i].ok) \/ (\E i \in 1 .. b : ~y[i].ok)
  BY <1>6, <1>7, <1>8, Zenon
<1> QED
  BY <1>9 DEF z, b

-----------------------------------------------------------------------------
(* While it goes on.                                                       *)

\* All but the rest of a text is whole, and is read as what was executed.
Goes(text, rest, done) ==
  \E h \in Texts : Whole(h) /\ text = h \o rest /\ Reading(h) = done

\* What was executed is all of the input, or the first of it.
Agrees(io, done, all) == IF io THEN IsPrefix(done.tokens, all.tokens) ELSE done = all

\* While it goes on, the input is read as what was executed and then the rest.
LEMMA GoesRead ==
  ASSUME NEW text, NEW rest \in Texts, NEW done, Goes(text, rest, done)
  PROVE  /\ text \in Texts /\ done \in Readings /\ Reading(rest) \in Readings
         /\ Reading(text) = Then(done, Reading(rest))
<1>1. PICK h \in Texts : Whole(h) /\ text = h \o rest /\ Reading(h) = done
  BY DEF Goes
<1>2. Meet(h, rest) /\ Lex(h).error.k # "UnterminatedString"
  BY <1>1 DEF Whole, Meet, EndsStatement
<1>3. h \o rest \in Texts /\ Reading(h \o rest) = Then(Reading(h), Reading(rest))
  BY <1>2, ReadingJoined
<1>4. Reading(h) \in Readings /\ Reading(rest) \in Readings
  BY ReadingIs
<1> QED
  BY <1>1, <1>3, <1>4

\* If the rest is white space, all of the input is whole and was executed.
LEMMA GoesBlank ==
  ASSUME NEW text, NEW rest \in Seq(WhiteSpace), NEW done, Goes(text, rest, done)
  PROVE  Goes(text, <<>>, done) /\ Whole(text) /\ Reading(text) = done
<1>1. PICK h \in Texts : Whole(h) /\ text = h \o rest /\ Reading(h) = done
  BY DEF Goes
<1>2. rest \in Texts /\ Whole(rest) /\ Reading(rest) = Nothing
  BY BlankIs, BlankWhole
<1>3. Whole(text) /\ Reading(text) = Then(Reading(h), Reading(rest))
  BY <1>1, <1>2, WholeJoined
<1>4. Reading(h) \in Readings
  BY ReadingIs
<1>5. Reading(text) = done
  BY <1>1, <1>2, <1>3, <1>4, ThenAssociates
<1>6. text \in Texts /\ text \o <<>> = text
  <2>1. text \in Texts
    BY <1>3 DEF Whole
  <2> QED
    BY <2>1, ConcatEmptySeq DEF Texts
<1> QED
  BY <1>3, <1>5, <1>6 DEF Goes

\* Three texts one after the other, however they are grouped.
LEMMA TextsAssociate ==
  ASSUME NEW x \in Texts, NEW y \in Texts, NEW z \in Texts
  PROVE  (x \o y) \o z = x \o (y \o z)
BY ConcatAssociative DEF Texts

\* Reading a line: it goes on with what is left of the line, or the output has
\* broken after the first of the statements.
LEMMA LineDoes ==
  ASSUME NEW text, NEW rest \in Texts, NEW list \in Seq(Outcomes), NEW line \in Texts,
         Goes(text, rest, Piecewise(TextsOf(list))), NEW new, NEW io \in BOOLEAN,
         Executes(list, new, SplitAll(rest \o line).statements, io)
  PROVE  /\ text \o line \in Texts /\ SplitAll(rest \o line).rest \in Texts
         /\ ~io => Goes(text \o line, SplitAll(rest \o line).rest, Piecewise(TextsOf(list \o new)))
         /\ io => Agrees(io, Piecewise(TextsOf(list \o new)), Reading(text \o line))
<1> DEFINE split == SplitAll(rest \o line)
           more == split.rest
           was == Piecewise(TextsOf(list))
           is == Piecewise(TextsOf(list \o new))
           run == Piecewise(split.statements)
<1>1. PICK h \in Texts : Whole(h) /\ text = h \o rest /\ Reading(h) = was
  BY DEF Goes
<1>2. rest \o line \in Texts
  BY JoinIs
<1>3. IsSplit(rest \o line, split)
  BY <1>2, SplitAllIs
<1> HIDE DEF split
<1>4. more \in Texts /\ split.statements \in Seq(Texts)
  BY <1>3 DEF IsSplit
<1>5. PICK c \in Texts : rest \o line = c \o more /\ Whole(c) /\ Reading(c) = run
  BY <1>3 DEF IsSplit
<1>6. new \in Seq(Outcomes)
  BY DEF Executes, split
<1>7. PICK left \in Readings : Then(is, left) = Then(was, run) /\ (~io => left = Nothing)
  BY DEF Executes, split
<1>8. is \in Readings
  <2>1. list \o new \in Seq(Outcomes)
    BY <1>6, ConcatProperties
  <2>2. TextsOf(list \o new) \in Seq(Texts)
    BY <2>1, TextsOfIs
  <2> QED
    BY <2>2, PiecewiseJoined
<1> HIDE DEF more, was, is, run
<1>9. text \o line = (h \o c) \o more /\ h \o c \in Texts
  <2>1. (h \o rest) \o line = h \o (rest \o line)
    BY TextsAssociate
  <2>2. (h \o c) \o more = h \o (c \o more)
    BY <1>4, TextsAssociate
  <2> QED
    BY <1>1, <1>5, <2>1, <2>2, JoinIs
<1>10. Whole(h \o c) /\ Reading(h \o c) = Then(was, run)
  BY <1>1, <1>5, WholeJoined
<1>11. Goes(text \o line, more, Then(is, left))
  BY <1>7, <1>9, <1>10 DEF Goes
<1>12. ~io => Then(is, left) = is
  BY <1>7, <1>8, ThenAssociates
<1>13. io => Agrees(io, is, Reading(text \o line))
  <2>1. Reading(text \o line) = Then(Then(is, left), Reading(more)) /\ Reading(more) \in Readings
    BY <1>4, <1>11, GoesRead
  <2>2. Then(Then(is, left), Reading(more)) = Then(is, Then(left, Reading(more)))
    BY <1>7, <1>8, <2>1, ThenAssociates
  <2>3. Then(left, Reading(more)) \in Readings
    BY <1>7, <2>1, ThenIs
  <2>4. IsPrefix(is.tokens, Then(is, Then(left, Reading(more))).tokens)
    BY <1>8, <2>3, PrefixIs
  <2> QED
    BY <2>1, <2>2, <2>4 DEF Agrees
<1>14. text \o line \in Texts
  BY <1>4, <1>11, GoesRead
<1> QED
  BY <1>4, <1>11, <1>12, <1>13, <1>14 DEF is, more, split

\* The end of the input: all of it has been executed, or the first of it.
LEMMA EndDoes ==
  ASSUME NEW text, NEW rest \in Texts, NEW list \in Seq(Outcomes),
         Goes(text, rest, Piecewise(TextsOf(list))), NEW new, NEW io \in BOOLEAN,
         Executes(list, new, <<rest>>, io)
  PROVE  Agrees(io, Piecewise(TextsOf(list \o new)), Reading(text))
<1> DEFINE was == Piecewise(TextsOf(list))
           is == Piecewise(TextsOf(list \o new))
<1>1. Reading(text) = Then(was, Reading(rest))
  BY GoesRead
<1>2. Piecewise(<<rest>>) = Reading(rest)
  BY PiecewiseSmall
<1>3. new \in Seq(Outcomes)
  BY DEF Executes
<1>4. PICK left \in Readings : Then(is, left) = Then(was, Piecewise(<<rest>>)) /\ (~io => left = Nothing)
  BY DEF Executes
<1>5. is \in Readings
  <2>1. list \o new \in Seq(Outcomes)
    BY <1>3, ConcatProperties
  <2>2. TextsOf(list \o new) \in Seq(Texts)
    BY <2>1, TextsOfIs
  <2> QED
    BY <2>2, PiecewiseJoined
<1> HIDE DEF was, is
<1>6. Reading(text) = Then(is, left)
  BY <1>1, <1>2, <1>4
<1>7. IsPrefix(is.tokens, Then(is, left).tokens)
  BY <1>4, <1>5, PrefixIs
<1>8. ~io => Then(is, left) = is
  BY <1>4, <1>5, ThenAssociates
<1>9. Agrees(io, is, Reading(text))
  BY <1>6, <1>7, <1>8 DEF Agrees
<1> QED
  BY <1>9 DEF is

\* Between two statements, at each of some places of a text.
AllBetween(places, text) ==
  \A n \in places : n \in 0 .. Len(text) /\ EndsStatement(Lex(SubSeq(text, 1, n)))

\* What is between two statements stays so as more is read.
LEMMA AllBetweenLonger ==
  ASSUME NEW x \in Texts, NEW y \in Texts, NEW places, AllBetween(places, x)
  PROVE  AllBetween(places, x \o y)
<1> DEFINE z == x \o y
<1>1. z \in Texts /\ Len(x) \in Nat /\ Len(y) \in Nat /\ Len(z) = Len(x) + Len(y)
      /\ \A i \in 1 .. Len(x) : z[i] = x[i]
  BY JoinIs
<1> HIDE DEF z
<1>2. ASSUME NEW n \in places PROVE n \in 0 .. Len(z) /\ EndsStatement(Lex(SubSeq(z, 1, n)))
  <2> DEFINE u == SubSeq(x, 1, n)
             v == SubSeq(z, 1, n)
  <2>1. n \in 0 .. Len(x) /\ EndsStatement(Lex(u))
    BY DEF AllBetween
  <2>2. n \in 0 .. Len(z) /\ n \in Nat /\ \A i \in 1 .. n : i \in 1 .. Len(x)
    BY <1>1, <2>1
  <2>3. u \in Texts /\ Len(u) = n /\ \A i \in 1 .. n : u[i] = x[i]
    BY <2>1, CutIs
  <2>4. v \in Texts /\ Len(v) = n /\ \A i \in 1 .. n : v[i] = z[i]
    BY <1>1, <2>2, CutIs
  <2> HIDE DEF u, v
  <2>5. \A i \in 1 .. n : u[i] = v[i]
    BY <1>1, <2>2, <2>3, <2>4
  <2>6. u = v
    BY <2>3, <2>4, <2>5, SeqEqual DEF Texts
  <2> QED
    BY <2>1, <2>2, <2>6 DEF v
<1> QED
  BY <1>2 DEF AllBetween, z

\* The end of a whole text is between two statements.
LEMMA AllBetweenHere ==
  ASSUME NEW text, Whole(text), NEW places, AllBetween(places, text)
  PROVE  AllBetween(places \cup {Len(text)}, text)
<1>1. text \in Texts /\ Len(text) \in Nat /\ EndsStatement(Lex(text))
  BY DEF Whole, Texts
<1>2. SubSeq(text, 1, Len(text)) = text
  <2> DEFINE n == Len(text)
             v == SubSeq(text, 1, n)
  <2>1. n \in 0 .. Len(text)
    BY <1>1
  <2>2. v \in Texts /\ Len(v) = n /\ \A i \in 1 .. n : v[i] = text[i]
    BY <1>1, <2>1, CutIs
  <2> HIDE DEF v
  <2>3. v = text
    BY <1>1, <2>2, SeqEqual DEF Texts
  <2> QED
    BY <2>3 DEF v
<1>3. ASSUME NEW n \in places \cup {Len(text)}
      PROVE  n \in 0 .. Len(text) /\ EndsStatement(Lex(SubSeq(text, 1, n)))
  <2>1. CASE n \in places
    BY <2>1 DEF AllBetween
  <2>2. CASE n = Len(text)
    <3>1. n \in 0 .. Len(text)
      BY <1>1, <2>2
    <3> QED
      BY <1>1, <1>2, <2>2, <3>1, Zenon
  <2> QED
    BY <1>3, <2>1, <2>2
<1> QED
  BY <1>3 DEF AllBetween

-----------------------------------------------------------------------------
(* The invariant.                                                          *)

\* The text, the outcomes and the flags are of their types.
ShellTypes ==
  /\ sql \in Texts /\ buf \in Texts
  /\ outcomes \in Seq(Outcomes)
  /\ had_error \in BOOLEAN /\ broken \in BOOLEAN /\ refused \in BOOLEAN

\* Before run is called.
NothingRead ==
  source = NoSource =>
    /\ sql = <<>> /\ buf = <<>> /\ outcomes = <<>> /\ commands = {}
    /\ had_error = FALSE /\ broken = FALSE /\ refused = FALSE

\* What the statements that were executed are read as.
Executed == Piecewise(TextsOf(outcomes))

\* While the shell runs, all of the input but buf is whole and was executed;
\* when it has ended, all of it, or the first of it if reading or writing
\* failed.
GoesOn      == status = Running => broken = FALSE /\ Goes(sql, buf, Executed)
HasEnded    == status # Running => Agrees(broken, Executed, Reading(sql))
\* had_error is whether something has failed, and decides the exit status.
ErrorIsKept == had_error = SomethingFailed
StatusIs    == status # Running /\ source # NoSource => status = ExitStatus(broken, had_error)

\* The inductive invariant.
ShellInv ==
  /\ ShellTypes /\ NothingRead /\ GoesOn /\ HasEnded
  /\ AllBetween(commands, sql) /\ ErrorIsKept /\ StatusIs

\* It holds of nothing.
LEMMA Began ==
  /\ <<>> \in Texts /\ <<>> \in Seq(Outcomes)
  /\ Goes(<<>>, <<>>, Piecewise(TextsOf(<<>>)))
  /\ Agrees(FALSE, Piecewise(TextsOf(<<>>)), Reading(<<>>))
  /\ AllBetween({}, <<>>)
  /\ ~\E i \in DOMAIN <<>> : ~(<<>>)[i].ok
<1>1. <<>> \in Texts /\ <<>> \in Seq(Outcomes) /\ <<>> \in Seq(WhiteSpace)
  BY DEF Texts
<1>2. TextsOf(<<>>) = <<>>
  <2> DEFINE none == <<>>
             list == TextsOf(none)
  <2>1. none \in Seq(Outcomes) /\ Len(none) = 0
    OBVIOUS
  <2> HIDE DEF none
  <2>2. list \in Seq(Texts) /\ Len(list) = 0
    BY <2>1, TextsOfIs
  <2> HIDE DEF list
  <2>3. list = <<>>
    BY <2>2, EmptySeq
  <2> QED
    BY <2>3 DEF none, list
<1>3. Piecewise(<<>>) = Nothing /\ Whole(<<>>) /\ Reading(<<>>) = Nothing
  BY <1>1, PiecewiseSmall, BlankWhole, BlankIs
<1>4. <<>> \o <<>> = <<>>
  BY <1>1, ConcatEmptySeq
<1>5. DOMAIN <<>> = {}
  <2> DEFINE none == <<>>
  <2>1. DOMAIN none = 1 .. 0
    OBVIOUS
  <2> HIDE DEF none
  <2>2. DOMAIN none = {}
    BY <2>1
  <2> QED
    BY <2>2 DEF none
<1>6. ~\E i \in DOMAIN <<>> : ~(<<>>)[i].ok
  BY <1>5, Zenon
<1> QED
  BY <1>1, <1>2, <1>3, <1>4, <1>6 DEF Goes, Agrees, AllBetween

\* It holds at first.
LEMMA ShellStarts ==
  ASSUME Init
  PROVE  ShellInv
<1>1. ShellTypes
  BY Began DEF Init, ShellTypes
<1>2. GoesOn /\ AllBetween(commands, sql)
  BY Began DEF Init, GoesOn, Executed
<1>3. HasEnded /\ StatusIs /\ NothingRead
  BY DEF Init, HasEnded, StatusIs, NothingRead
<1>4. ErrorIsKept
  <2>1. refused = FALSE /\ had_error = FALSE /\ outcomes = <<>>
    BY DEF Init
  <2>2. SomethingFailed = FALSE
    BY <2>1, Began, Zenon DEF SomethingFailed
  <2> QED
    BY <2>1, <2>2 DEF ErrorIsKept
<1> QED
  BY <1>1, <1>2, <1>3, <1>4 DEF ShellInv

\* main, before it calls run, leaves all but the source or the exit status
\* alone.
LEMMA StartKeeps ==
  ASSUME ShellInv, status = Running, NEW args, Start(args)
  PROVE  ShellInv'
<1>1. /\ sql = <<>> /\ buf = <<>> /\ outcomes = <<>> /\ commands = {}
      /\ had_error = FALSE /\ broken = FALSE /\ refused = FALSE
      /\ source = NoSource
  BY DEF ShellInv, NothingRead, Start
<1>2. /\ sql' = sql /\ buf' = buf /\ outcomes' = outcomes /\ commands' = commands
      /\ had_error' = had_error /\ broken' = broken /\ refused' = refused
  BY DEF Start
<1>3. status' = Running \/ source' = NoSource
  BY <1>1 DEF Start
<1>4. ShellTypes' /\ NothingRead' /\ StatusIs'
  BY <1>1, <1>2, <1>3, Began DEF ShellTypes, NothingRead, StatusIs
<1>5. GoesOn' /\ HasEnded' /\ AllBetween(commands, sql)'
  BY <1>1, <1>2, Began DEF GoesOn, HasEnded, Executed
<1>6. ErrorIsKept'
  BY <1>2 DEF ErrorIsKept, SomethingFailed, ShellInv
<1> QED
  BY <1>4, <1>5, <1>6 DEF ShellInv

\* A command stands after whole statements: it is run only if buf is blank.
LEMMA DotKeeps ==
  ASSUME ShellInv, status = Running, source # NoSource, NEW line, Dot(line)
  PROVE  ShellInv'
<1>1. ShellTypes /\ broken = FALSE /\ Goes(sql, buf, Executed) /\ AllBetween(commands, sql) /\ ErrorIsKept
  BY DEF ShellInv, GoesOn
<1>2. buf \in Seq(WhiteSpace)
  <2>1. \A i \in DOMAIN buf : buf[i] \in WhiteSpace
    BY DEF Dot, Continues, Blank
  <2>2. buf \in Seq(Characters)
    BY <1>1 DEF ShellTypes, Texts
  <2>3. Len(buf) \in Nat /\ DOMAIN buf = 1 .. Len(buf) /\ buf = [i \in 1 .. Len(buf) |-> buf[i]]
    BY <2>2, LenProperties
  <2>4. buf \in [1 .. Len(buf) -> WhiteSpace]
    BY <2>1, <2>3
  <2> QED
    BY <2>3, <2>4, SeqDef
<1>3. Goes(sql, <<>>, Executed) /\ Whole(sql) /\ Reading(sql) = Executed
  BY <1>1, <1>2, GoesBlank
<1>4. PICK ok \in Verdicts(FirstWord(line)) : had_error' = (had_error \/ ~ok) /\ refused' = (refused \/ ~ok)
  BY Zenon DEF Dot
<1>5. ok \in BOOLEAN /\ (FirstWord(line) \in Quit => ok = TRUE)
  BY DEF Verdicts
<1>6. /\ buf' = <<>> /\ commands' = commands \cup {Len(sql)}
      /\ source' = source /\ outcomes' = outcomes /\ sql' = sql
  BY DEF Dot
<1>7. \/ /\ FirstWord(line) \in Quit
         /\ status' = ExitStatus(FALSE, had_error) /\ broken' = broken
      \/ /\ broken' \in BOOLEAN
         /\ status' = IF broken' THEN 2 ELSE Running
  BY Zenon DEF Dot
<1>8. had_error \in BOOLEAN /\ refused \in BOOLEAN
  BY <1>1 DEF ShellTypes
<1>9. ShellTypes' /\ NothingRead'
  BY <1>1, <1>4, <1>5, <1>6, <1>7, <1>8, Began DEF ShellTypes, NothingRead
<1>10. GoesOn'
  <2>1. status' = Running => broken' = FALSE
    <3>1. CASE broken' = broken
      BY <1>1, <3>1
    <3>2. CASE broken' \in BOOLEAN /\ status' = IF broken' THEN 2 ELSE Running
      BY <3>2 DEF Running
    <3> QED
      BY <1>7, <3>1, <3>2
  <2> QED
    BY <1>3, <1>6, <2>1 DEF GoesOn, Executed
<1>11. HasEnded'
  <2>1. Agrees(FALSE, Executed, Reading(sql))
    BY <1>3 DEF Agrees
  <2>2. Agrees(TRUE, Executed, Reading(sql))
    <3>1. Executed \in Readings /\ Nothing \in Readings /\ Then(Executed, Nothing) = Executed
      <4>1. Reading(sql) \in Readings
        BY <1>1, ReadingIs DEF ShellTypes
      <4> QED
        BY <1>3, <4>1, ThenAssociates
    <3>2. IsPrefix(Executed.tokens, Executed.tokens)
      BY <3>1, PrefixIs
    <3> QED
      BY <1>3, <3>2 DEF Agrees
  <2>3. broken' = TRUE \/ broken' = FALSE
    BY <1>1, <1>7
  <2>4. Executed' = Executed /\ Reading(sql)' = Reading(sql)
    BY <1>6 DEF Executed
  <2> QED
    BY <2>1, <2>2, <2>3, <2>4 DEF HasEnded
<1>12. AllBetween(commands, sql)'
  BY <1>1, <1>3, <1>6, AllBetweenHere
<1>13. ErrorIsKept'
  BY <1>1, <1>4, <1>5, <1>6, <1>8 DEF ErrorIsKept, SomethingFailed
<1>14. StatusIs'
  <2>1. CASE FirstWord(line) \in Quit /\ status' = ExitStatus(FALSE, had_error) /\ broken' = broken
    <3>1. had_error' = had_error
      BY <1>4, <1>5, <1>8, <2>1
    <3> QED
      BY <1>1, <2>1, <3>1 DEF StatusIs
  <2>2. CASE broken' \in BOOLEAN /\ status' = IF broken' THEN 2 ELSE Running
    BY <2>2 DEF StatusIs, ExitStatus
  <2> QED
    BY <1>7, <2>1, <2>2
<1> QED
  BY <1>9, <1>10, <1>11, <1>12, <1>13, <1>14 DEF ShellInv

\* What executing does to had_error and to outcomes.
LEMMA StatementsKeep ==
  ASSUME ShellInv, NEW texts \in Seq(Texts), Statements(texts), refused' = refused
  PROVE  /\ outcomes' \in Seq(Outcomes) /\ had_error' \in BOOLEAN /\ broken' \in BOOLEAN /\ ErrorIsKept'
         /\ \E new : Executes(outcomes, new, texts, broken') /\ outcomes' = outcomes \o new
<1>1. outcomes \in Seq(Outcomes) /\ had_error \in BOOLEAN /\ had_error = SomethingFailed
  BY DEF ShellInv, ShellTypes, ErrorIsKept
<1>2. broken' \in BOOLEAN
  BY <1>1, StatementsDo
<1>3. PICK new : /\ Executes(outcomes, new, texts, broken')
                 /\ outcomes' = outcomes \o new
                 /\ had_error' = (had_error \/ \E i \in 1 .. Len(new) : ~new[i].ok)
  BY <1>1, StatementsDo
<1>4. new \in Seq(Outcomes)
  BY <1>3 DEF Executes
<1>5. outcomes' \in Seq(Outcomes)
  BY <1>1, <1>3, <1>4, ConcatProperties
<1>6. (\E i \in DOMAIN outcomes' : ~outcomes'[i].ok) <=>
        (\E i \in DOMAIN outcomes : ~outcomes[i].ok) \/ (\E i \in 1 .. Len(new) : ~new[i].ok)
  BY <1>1, <1>3, <1>4, FailuresJoined
<1>7. ErrorIsKept'
  BY <1>1, <1>3, <1>6, Zenon DEF ErrorIsKept, SomethingFailed
<1> QED
  BY <1>1, <1>2, <1>3, <1>5, <1>7

\* A line is added to the input and cut into statements.
LEMMA ReadLineKeeps ==
  ASSUME ShellInv, status = Running, source # NoSource, NEW line \in Lines, ReadLine(line)
  PROVE  ShellInv'
<1> DEFINE split == SplitAll(buf \o line)
<1>1. ShellTypes /\ broken = FALSE /\ Goes(sql, buf, Executed) /\ AllBetween(commands, sql)
  BY DEF ShellInv, GoesOn
<1>2. sql \in Texts /\ buf \in Texts /\ line \in Texts /\ outcomes \in Seq(Outcomes)
  BY <1>1, ShellAssumption DEF ShellTypes, Texts
<1>3. /\ Statements(split.statements) /\ buf' = split.rest
      /\ status' = (IF broken' THEN 2 ELSE Running) /\ sql' = sql \o line
      /\ source' = source /\ commands' = commands /\ refused' = refused
  BY DEF ReadLine
<1>4. split.statements \in Seq(Texts)
  <2>1. buf \o line \in Texts
    BY <1>2, JoinIs
  <2> QED
    BY <2>1, SplitAllIs DEF IsSplit
<1>5. outcomes' \in Seq(Outcomes) /\ had_error' \in BOOLEAN /\ broken' \in BOOLEAN /\ ErrorIsKept'
  BY <1>3, <1>4, StatementsKeep
<1>6. PICK new : Executes(outcomes, new, split.statements, broken') /\ outcomes' = outcomes \o new
  BY <1>3, <1>4, StatementsKeep
<1>7. /\ sql \o line \in Texts /\ split.rest \in Texts
      /\ ~broken' => Goes(sql \o line, split.rest, Piecewise(TextsOf(outcomes \o new)))
      /\ broken' => Agrees(broken', Piecewise(TextsOf(outcomes \o new)), Reading(sql \o line))
  BY <1>1, <1>2, <1>5, <1>6, LineDoes DEF Executed
<1> HIDE DEF split
<1>8. ShellTypes' /\ NothingRead'
  BY <1>1, <1>3, <1>5, <1>7 DEF ShellTypes, NothingRead
<1>9. GoesOn'
  BY <1>3, <1>5, <1>6, <1>7 DEF GoesOn, Executed, Running
<1>10. HasEnded'
  BY <1>3, <1>5, <1>6, <1>7 DEF HasEnded, Executed
<1>11. AllBetween(commands, sql)'
  BY <1>1, <1>2, <1>3, AllBetweenLonger
<1>12. StatusIs'
  BY <1>3, <1>5 DEF StatusIs, ExitStatus
<1> QED
  BY <1>5, <1>8, <1>9, <1>10, <1>11, <1>12 DEF ShellInv

\* At the end of the input what is left is executed.
LEMMA EndOfInputKeeps ==
  ASSUME ShellInv, status = Running, source # NoSource, EndOfInput
  PROVE  ShellInv'
<1>1. ShellTypes /\ broken = FALSE /\ Goes(sql, buf, Executed) /\ AllBetween(commands, sql)
  BY DEF ShellInv, GoesOn
<1>2. sql \in Texts /\ buf \in Texts /\ outcomes \in Seq(Outcomes) /\ <<buf>> \in Seq(Texts)
  BY <1>1, OneIs DEF ShellTypes
<1>3. /\ Statements(<<buf>>) /\ status' = ExitStatus(broken', had_error')
      /\ source' = source /\ buf' = buf /\ sql' = sql /\ commands' = commands /\ refused' = refused
  BY DEF EndOfInput
<1>4. outcomes' \in Seq(Outcomes) /\ had_error' \in BOOLEAN /\ broken' \in BOOLEAN /\ ErrorIsKept'
  BY <1>2, <1>3, StatementsKeep
<1>5. PICK new : Executes(outcomes, new, <<buf>>, broken') /\ outcomes' = outcomes \o new
  BY <1>2, <1>3, StatementsKeep
<1>6. Agrees(broken', Piecewise(TextsOf(outcomes \o new)), Reading(sql))
  BY <1>1, <1>2, <1>4, <1>5, EndDoes DEF Executed
<1>7. status' # Running
  BY <1>3 DEF ExitStatus, Running
<1>8. ShellTypes' /\ NothingRead'
  BY <1>1, <1>3, <1>4 DEF ShellTypes, NothingRead
<1>9. GoesOn' /\ HasEnded'
  BY <1>3, <1>5, <1>6, <1>7 DEF GoesOn, HasEnded, Executed
<1>10. AllBetween(commands, sql)' /\ StatusIs'
  BY <1>1, <1>3 DEF StatusIs
<1> QED
  BY <1>4, <1>8, <1>9, <1>10 DEF ShellInv

\* When reading fails, the statements executed so far are the first of the
\* input.
LEMMA InputFailsKeeps ==
  ASSUME ShellInv, status = Running, source # NoSource, InputFails
  PROVE  ShellInv'
<1>1. ShellTypes /\ Goes(sql, buf, Executed) /\ AllBetween(commands, sql) /\ ErrorIsKept
  BY DEF ShellInv, GoesOn
<1>2. /\ broken' = TRUE /\ status' = 2 /\ source' = source /\ buf' = buf /\ had_error' = had_error
      /\ outcomes' = outcomes /\ sql' = sql /\ commands' = commands /\ refused' = refused
  BY DEF InputFails
<1>3. Agrees(TRUE, Executed, Reading(sql))
  <2>1. /\ Executed \in Readings /\ Reading(buf) \in Readings
        /\ Reading(sql) = Then(Executed, Reading(buf))
    BY <1>1, GoesRead DEF ShellTypes
  <2> QED
    BY <2>1, PrefixIs DEF Agrees
<1>4. ShellTypes' /\ NothingRead'
  BY <1>1, <1>2 DEF ShellTypes, NothingRead
<1>5. GoesOn' /\ HasEnded'
  <2>1. status' # Running
    BY <1>2 DEF Running
  <2>2. GoesOn'
    BY <2>1 DEF GoesOn
  <2>3. Executed' = Executed /\ Reading(sql)' = Reading(sql)
    BY <1>2 DEF Executed
  <2>4. HasEnded'
    BY <1>2, <1>3, <2>3 DEF HasEnded
  <2> QED
    BY <2>2, <2>4
<1>6. AllBetween(commands, sql)' /\ StatusIs'
  BY <1>1, <1>2 DEF StatusIs, ExitStatus
<1>7. ErrorIsKept'
  BY <1>1, <1>2 DEF ErrorIsKept, SomethingFailed
<1> QED
  BY <1>4, <1>5, <1>6, <1>7 DEF ShellInv

\* The invariant holds always: in every state of choamc's run (lib.rs run,
\* statement, dot) the input read so far is the statements executed and then
\* buf.
THEOREM ShellInvariant == Spec => []ShellInv
<1>1. Init => ShellInv
  BY ShellStarts
<1>2. ShellInv /\ [Next]_vars => ShellInv'
  <2> SUFFICES ASSUME ShellInv, [Next]_vars PROVE ShellInv'
    OBVIOUS
  <2>1. ASSUME NEW args \in Arguments, status = Running, Start(args) PROVE ShellInv'
    BY <2>1, StartKeeps
  <2>2. CASE status = Running /\ source # NoSource /\ EndOfInput
    BY <2>2, EndOfInputKeeps
  <2>3. CASE status = Running /\ source # NoSource /\ InputFails
    BY <2>3, InputFailsKeeps
  <2>4. ASSUME NEW line \in Lines, status = Running, source # NoSource, Dot(line) PROVE ShellInv'
    BY <2>4, DotKeeps
  <2>5. ASSUME NEW line \in Lines, status = Running, source # NoSource, ReadLine(line) PROVE ShellInv'
    BY <2>5, ReadLineKeeps
  <2>6. CASE UNCHANGED vars
    BY <2>6 DEF vars, ShellInv, ShellTypes, NothingRead, GoesOn, HasEnded, Executed, ErrorIsKept,
                SomethingFailed, StatusIs
  <2> QED
    BY <2>1, <2>2, <2>3, <2>4, <2>5, <2>6 DEF Next, Run
<1> QED
  BY <1>1, <1>2, PTL DEF Spec

-----------------------------------------------------------------------------
(* The properties.                                                         *)

\* White space and semicolons outside of string literals separate, in whatever
\* choamc reads (lexer.rs lex).
THEOREM SeparatorsAlwaysSeparate == Spec => []SeparatorsSeparate
<1>1. ShellInv => SeparatorsSeparate
  <2> SUFFICES ASSUME ShellInv PROVE SeparatorsSeparate
    OBVIOUS
  <2>1. sql \in Texts
    BY DEF ShellInv, ShellTypes
  <2>2. DOMAIN sql = 1 .. Len(sql)
    BY <2>1, LenProperties DEF Texts
  <2> QED
    BY <2>1, <2>2, AllSeparate DEF SeparatorsSeparate
<1> QED
  BY <1>1, ShellInvariant, PTL

\* Whatever text choamc has read, the literal that Display makes of it is read
\* back as that text (ast.rs, lexer.rs).
THEOREM QuotedTextsAlwaysReadBack == Spec => []QuotedTextsReadBack
<1>1. ShellInv => QuotedTextsReadBack
  BY AllQuotedReadBack DEF ShellInv, ShellTypes, QuotedTextsReadBack
<1> QED
  BY <1>1, ShellInvariant, PTL

\* The exit status says whether anything failed (main.rs, ADR-005), whatever is
\* read and however often it fails.
THEOREM ExitStatusIsAlwaysRight == Spec => []ExitStatusIsRight
<1>1. ShellInv => ExitStatusIsRight
  BY DEF ShellInv, ErrorIsKept, StatusIs, ExitStatus, ExitStatusIsRight
<1> QED
  BY <1>1, ShellInvariant, PTL

\* No line inside a statement or a string literal is taken for a command
\* (lib.rs run).
THEOREM CommandsAreAlwaysBetweenStatements == Spec => []CommandsAreBetweenStatements
<1>1. ShellInv => CommandsAreBetweenStatements
  <2> SUFFICES ASSUME ShellInv, NEW n \in commands PROVE Between(SubSeq(sql, 1, n))
    BY DEF CommandsAreBetweenStatements
  <2>1. EndsStatement(Lex(SubSeq(sql, 1, n)))
    BY DEF ShellInv, AllBetween
  <2> QED
    BY <2>1 DEF Between, EndsStatement
<1> QED
  BY <1>1, ShellInvariant, PTL

\* However the input is cut into lines, counting quotes cuts it into the
\* statements the lexer finds in all of it (lib.rs split_statement, lexer.rs
\* lex).
THEOREM ShellAlwaysAgreesWithLexer == Spec => []ShellAgreesWithLexer
<1>1. ShellInv => ShellAgreesWithLexer
  <2> SUFFICES ASSUME ShellInv PROVE ShellAgreesWithLexer
    OBVIOUS
  <2> DEFINE texts == TextsOf(outcomes)
             read == Piecewise(IF status = Running THEN Append(texts, buf) ELSE texts)
  <2>1. outcomes \in Seq(Outcomes) /\ buf \in Texts
    BY DEF ShellInv, ShellTypes
  <2>2. texts \in Seq(Texts)
    BY <2>1, TextsOfIs
  <2>3. CASE status = Running
    <3>1. broken = FALSE /\ Goes(sql, buf, Executed)
      BY <2>3 DEF ShellInv, GoesOn
    <3>2. Reading(sql) = Then(Executed, Reading(buf))
      BY <2>1, <3>1, GoesRead
    <3>3. Append(texts, buf) = texts \o <<buf>> /\ <<buf>> \in Seq(Texts)
      BY <2>1, <2>2, AppendIsConcat, OneIs
    <3>4. Piecewise(texts \o <<buf>>) = Then(Executed, Reading(buf))
      BY <2>1, <2>2, <3>3, PiecewiseJoined, PiecewiseSmall DEF Executed
    <3>5. read = Reading(sql)
      BY <2>3, <3>2, <3>3, <3>4
    <3> QED
      BY <3>1, <3>5 DEF ShellAgreesWithLexer, TextsOf
  <2>4. CASE status # Running
    <3>1. Agrees(broken, Executed, Reading(sql))
      BY <2>4 DEF ShellInv, HasEnded
    <3>2. read = Executed
      BY <2>4 DEF Executed
    <3> QED
      BY <3>1, <3>2 DEF ShellAgreesWithLexer, TextsOf, Agrees
  <2> QED
    BY <2>3, <2>4
<1> QED
  BY <1>1, ShellInvariant, PTL
=============================================================================
