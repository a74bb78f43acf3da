------------------------------- MODULE Lexer --------------------------------
(***************************************************************************)
(* crates/sql/src/lexer.rs: from text to tokens.  A text is a sequence of  *)
(* characters, and a character stands for its class: "a" for letters and   *)
(* the underscore, "0" and "1" for digits, " " and "nl" for white space,   *)
(* "#" and "." for characters SQL has no use for.  Positions count from 1. *)
(***************************************************************************)
EXTENDS Naturals, Sequences

CONSTANTS MaxDigits   \* integers have at most so many digits after leading zeros

Digits     == {"0", "1"}
Letters    == {"a"}
WhiteSpace == {" ", "nl"}
Singles    == {"(", ")", ",", ";", "*", "+", "-", "/", "="}
Characters == Digits \cup Letters \cup WhiteSpace \cup Singles \cup {"<", ">", "!", "'", "#", "."}

Token(k, pos, text) == [k |-> k, pos |-> pos, text |-> text]
NoError             == [k |-> "none", pos |-> 0]
LexError(k, pos)    == [k |-> k, pos |-> pos]
Errors              == {"UnexpectedChar", "UnterminatedString", "IntegerOutOfRange"}

CharAt(text, i) == IF i <= Len(text) THEN text[i] ELSE "end"

\* The end of the longest run of characters of a class that begins at i.
RunEnd(text, i, class) ==
  CHOOSE j \in i .. Len(text) + 1 :
    CharAt(text, j) \notin class /\ \A m \in i .. j - 1 : text[m] \in class

Significant(digits) == SubSeq(digits, RunEnd(digits, 1, {"0"}), Len(digits))

\* Mutant of StringFrom: a quote always ends the literal.
StringUndoubled(text, i) ==
  LET end == RunEnd(text, i, Characters \ {"'"})
  IN  IF end > Len(text) THEN [end |-> 0, text |-> <<>>]
      ELSE [end |-> end + 1, text |-> SubSeq(text, i, end - 1)]

Says(c, rest) == [rest EXCEPT !.text = <<c>> \o @]

\* The rest of a string literal, from every position: where it ends (0 if it
\* does not) and what it says.  Two quotes stand for one.
Strings(text) ==
  LET from[i \in 1 .. Len(text) + 1] ==
        IF i > Len(text) THEN [end |-> 0, text |-> <<>>]
        ELSE IF text[i] # "'" THEN Says(text[i], from[i + 1])
        ELSE IF CharAt(text, i + 1) = "'" THEN Says("'", from[i + 2])
        ELSE [end |-> i + 1, text |-> <<>>]
  IN  from

StringFrom(text, i) == Strings(text)[i]

\* Mutant of Comparison: it always takes the next character along.
ComparisonTakesTwo(text, i) == SubSeq(text, i, IF i < Len(text) THEN i + 1 ELSE i)

\* The operators of one or two characters.
Comparison(text, i) ==
  LET pair == <<text[i], CharAt(text, i + 1)>>
  IN  IF pair \in {<<"<", "=">>, <<">", "=">>, <<"!", "=">>, <<"<", ">">>} THEN pair ELSE <<text[i]>>

\* What stands at a position: white space, a token or an error, and the
\* position after it.
Lexeme(k, text, end) == [k |-> k, text |-> text, end |-> end]
Failure(k)           == Lexeme(k, <<>>, 0)

ComparisonAt(text, i) ==
  LET op == Comparison(text, i)
  IN  IF op = <<"!">> THEN Failure("UnexpectedChar") ELSE Lexeme("symbol", op, i + Len(op))

StringAt(text, i) ==
  LET literal == StringFrom(text, i + 1)
  IN  IF literal.end = 0 THEN Failure("UnterminatedString")
      ELSE Lexeme("string", literal.text, literal.end)

IntegerAt(text, i) ==
  LET end    == RunEnd(text, i, Digits)
      digits == Significant(SubSeq(text, i, end - 1))
  IN  IF Len(digits) > MaxDigits THEN Failure("IntegerOutOfRange") ELSE Lexeme("integer", digits, end)

WordAt(text, i) ==
  LET end == RunEnd(text, i, Letters \cup Digits)
  IN  Lexeme("word", SubSeq(text, i, end - 1), end)

LexemeAt(text, i) ==
  CASE text[i] \in WhiteSpace      -> Lexeme("blank", <<>>, i + 1)
    [] text[i] \in Singles         -> Lexeme("symbol", <<text[i]>>, i + 1)
    [] text[i] \in {"<", ">", "!"} -> ComparisonAt(text, i)
    [] text[i] = "'"               -> StringAt(text, i)
    [] text[i] \in Digits          -> IntegerAt(text, i)
    [] text[i] \in Letters         -> WordAt(text, i)
    [] OTHER                       -> Failure("UnexpectedChar")

Finds(token, rest) == [tokens |-> <<token>> \o rest.tokens, error |-> rest.error]

\* One turn of the loop, at i: rest[end] is what the turns after it find.
Turn(lexeme, i, rest) ==
  IF lexeme.k \in Errors THEN [tokens |-> <<>>, error |-> LexError(lexeme.k, i)]
  ELSE IF lexeme.k = "blank" THEN rest[lexeme.end]
  ELSE Finds(Token(lexeme.k, i, lexeme.text), rest[lexeme.end])

\* lex, from every position: all tokens, or those before the first error and
\* the error.
Lexing(text) ==
  LET from[i \in 1 .. Len(text) + 1] ==
        IF i > Len(text) THEN [tokens |-> <<>>, error |-> NoError]
        ELSE Turn(LexemeAt(text, i), i, from)
  IN  from

\* lex.
Lex(text) == Lexing(text)[1]

-----------------------------------------------------------------------------
(* Properties of texts.                                                    *)

Shifted(tokens, n) == [i \in DOMAIN tokens |-> [tokens[i] EXCEPT !.pos = @ + n]]

\* White space and semicolons outside of string literals separate: what
\* follows them is read as if it stood alone, errors included.
Separates(text, n) ==
  LET before == Lex(SubSeq(text, 1, n - 1))
      after  == Lex(SubSeq(text, n + 1, Len(text)))
      mark   == IF text[n] = ";" THEN <<Token("symbol", n, <<";">>)>> ELSE <<>>
  IN  text[n] \in {" ", "nl", ";"} /\ before.error = NoError =>
        Lex(text) =
          [tokens |-> before.tokens \o mark \o Shifted(after.tokens, n),
           error  |-> IF after.error = NoError THEN NoError
                      ELSE LexError(after.error.k, after.error.pos + n)]

Doubled(text) ==
  LET upTo[n \in 0 .. Len(text)] ==
        IF n = 0 THEN <<>>
        ELSE upTo[n - 1] \o (IF text[n] = "'" THEN <<"'", "'">> ELSE <<text[n]>>)
  IN  upTo[Len(text)]

\* The Display of a text literal.
Quoted(text) == <<"'">> \o Doubled(text) \o <<"'">>

\* A rendered string literal is read as the string it was rendered from.
QuotesBack(text) == Lex(Quoted(text)) = [tokens |-> <<Token("string", 1, text)>>, error |-> NoError]
=============================================================================
