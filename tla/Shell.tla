------------------------------- MODULE Shell --------------------------------
(***************************************************************************)
(* choamc, crates/cli.  main reads its arguments, opens the database and   *)
(* hands its input to run, which reads lines, cuts them into statements at *)
(* semicolons outside of string literals, and executes each, going on      *)
(* after errors.  A line that begins with a dot, between two statements,   *)
(* is a command.  An error of input or output ends the program at once.    *)
(*                                                                         *)
(* Whether an execution succeeds is up to the session, except that a text  *)
(* that does not lex never does.                                           *)
(***************************************************************************)
EXTENDS Lexer, SequencesExt

CONSTANTS
  Arguments, \* the lists of arguments the program may be started with
  Lines,     \* the lines that may be read; the last may lack its "nl"
  Quit,      \* the first words of .quit and .exit,
  Help,      \* .help,
  Listing,   \* .tables and .schema, which ask the catalog
  MaxText,   \* bound: no more is read after so many characters
  MaxFault   \* bound: reading and writing fail no later than after so many

ASSUME ShellAssumption == Lines \subseteq Seq(Characters)

VARIABLES
  source,     \* what run reads from, NoSource before it is called
  buf,        \* text read and not executed yet
  had_error,
  status,     \* the exit status, Running before there is one
  broken,     \* history: reading or writing has failed
  outcomes,   \* history: the statements executed, and whether each succeeded
  sql,        \* history: the lines read that were not commands
  commands,   \* history: how much of sql had been read before each command
  refused     \* history: a command has failed

vars == <<source, buf, had_error, status, broken, outcomes, sql, commands, refused>>

Running  == -1
NoSource == "none"

-----------------------------------------------------------------------------
(* The arguments.                                                          *)

ValueOptions == {"--dir", "-c", "-f"}

\* What is known after some arguments: the options that were given, the one
\* that waits for its value, and whether the program has ended.
NoOptions == [given |-> {}, waits |-> "nothing", status |-> Running]

TakeArgument(o, a) ==
  IF o.status # Running THEN o
  ELSE IF o.waits # "nothing" THEN [o EXCEPT !.waits = "nothing"]
  ELSE IF a \in ValueOptions THEN [o EXCEPT !.given = @ \cup {a}, !.waits = a]
  ELSE [o EXCEPT !.status = IF a \in {"-h", "--help"} THEN 0 ELSE 2]

Options(args) ==
  LET o == FoldLeft(TakeArgument, NoOptions, args)
  IN  IF o.waits # "nothing" THEN [o EXCEPT !.status = 2] ELSE o

SourceOf(o) == IF "-c" \in o.given THEN "-c" ELSE IF "-f" \in o.given THEN "-f" ELSE "stdin"

\* What main makes of the result of run.
ExitStatus(failed_io, had) == IF failed_io THEN 2 ELSE IF had THEN 1 ELSE 0

-----------------------------------------------------------------------------
(* Text.                                                                   *)

Blank(text) == \A i \in DOMAIN text : text[i] \in WhiteSpace

\* line.trim_start().starts_with('.').
IsCommand(line) ==
  \E i \in DOMAIN line : line[i] = "." /\ Blank(SubSeq(line, 1, i - 1))

\* The first word of line.split_whitespace().
FirstWord(line) ==
  LET start == CHOOSE i \in DOMAIN line : line[i] = "." /\ Blank(SubSeq(line, 1, i - 1))
      ends  == {i \in start .. Len(line) : line[i] \in WhiteSpace}
      end   == IF ends = {} THEN Len(line) + 1 ELSE CHOOSE i \in ends : \A j \in ends : i <= j
  IN  SubSeq(line, start, end - 1)

\* Mutant of FirstSplit: semicolons in strings split as well.
FirstSplitAnywhere(text) ==
  LET cuts == {i \in DOMAIN text : text[i] = ";"}
  IN  IF cuts = {} THEN 0 ELSE CHOOSE i \in cuts : \A j \in cuts : i <= j

\* in_str, after each character: every quote turns it over.
InString(text) ==
  LET after[i \in 0 .. Len(text)] ==
        IF i = 0 THEN FALSE ELSE after[i - 1] # (text[i] = "'")
  IN  after

\* split_statement: where the first statement ends, 0 if it has no end yet.
FirstSplit(text) ==
  LET cuts == {i \in DOMAIN text : text[i] = ";" /\ ~InString(text)[i]}
  IN  IF cuts = {} THEN 0 ELSE CHOOSE i \in cuts : \A j \in cuts : i <= j

\* One turn of run's inner loop: the first statement moves out of the buffer.
SplitOff(split, i) ==
  IF i = 0 THEN split
  ELSE [statements |-> Append(split.statements, SubSeq(split.rest, 1, i - 1)),
        rest       |-> SubSeq(split.rest, i + 1, Len(split.rest))]

\* The statements of a text, and what is left of it.  It has no more statements
\* than characters.
SplitAll(text) ==
  LET after[n \in 0 .. Len(text)] ==
        IF n = 0 THEN [statements |-> <<>>, rest |-> text]
        ELSE LET split == after[n - 1] IN SplitOff(split, FirstSplit(split.rest))
  IN  after[Len(text)]

\* A sequence without some of its elements.
Without(seq, dropped) ==
  LET upTo[n \in 0 .. Len(seq)] ==
        IF n = 0 THEN <<>>
        ELSE IF seq[n] \in dropped THEN upTo[n - 1] ELSE Append(upTo[n - 1], seq[n])
  IN  upTo[Len(seq)]

NotBlank(statements) == Without(statements, Seq(WhiteSpace))

Lexes(statement) == Lex(statement).error = NoError

\* Mutant of HadError: the last statement decides.
HadErrorOfLast(oks) == IF oks = <<>> THEN had_error ELSE ~oks[Len(oks)]

\* fail: once a statement has failed, had_error stays.
HadError(oks) == had_error \/ \E i \in DOMAIN oks : ~oks[i]

Breaks(io) == io => Len(sql) <= MaxFault

\* Shell.statement, for each of some statements in turn.  Blank ones are
\* skipped.  When the output cannot be written the rest is not executed.
Statements(texts) ==
  LET statements == NotBlank(texts)
  IN  \E n \in 0 .. Len(statements), io \in BOOLEAN : \E oks \in [1 .. n -> BOOLEAN] :
        /\ n < Len(statements) => io
        /\ io => n > 0
        /\ Breaks(io)
        /\ \A i \in 1 .. n : oks[i] => Lexes(statements[i])
        /\ broken' = io
        /\ had_error' = HadError(oks)
        /\ outcomes' = outcomes \o [i \in 1 .. n |-> [text |-> statements[i], ok |-> oks[i]]]

-----------------------------------------------------------------------------
Init ==
  /\ source = NoSource /\ status = Running /\ broken = FALSE
  /\ buf = <<>> /\ had_error = FALSE
  /\ outcomes = <<>> /\ sql = <<>> /\ commands = {} /\ refused = FALSE

\* main up to its call of run.  The database, or the file, may not open.
Start(args) ==
  LET o == Options(args)
  IN  /\ source = NoSource
      /\ \/ /\ o.status = Running
            /\ source' = SourceOf(o)
            /\ UNCHANGED status
         \/ /\ status' = IF o.status # Running THEN o.status ELSE 2
            /\ UNCHANGED source
      /\ UNCHANGED <<buf, had_error, broken, outcomes, sql, commands, refused>>

\* Mutant of Continues: any line with a dot is a command.
ContinuesWithoutDots(line) == ~IsCommand(line)

\* The line belongs to the statements.
Continues(line) == ~(Blank(buf) /\ IsCommand(line))

\* Whether a command may succeed and may fail: .tables and .schema fail with the
\* catalog, or for want of the table asked for.
Verdicts(word) ==
  IF word \in Quit \cup Help THEN {TRUE} ELSE IF word \in Listing THEN BOOLEAN ELSE {FALSE}

\* Shell.dot.
Dot(line) ==
  /\ ~Continues(line)
  /\ buf' = <<>>
  /\ \E ok \in Verdicts(FirstWord(line)) : /\ had_error' = (had_error \/ ~ok)
                                           /\ refused' = (refused \/ ~ok)
  /\ commands' = commands \cup {Len(sql)}
  /\ \/ /\ FirstWord(line) \in Quit
        /\ status' = ExitStatus(FALSE, had_error)
        /\ UNCHANGED broken
     \/ /\ FirstWord(line) \notin Quit
        /\ broken' \in BOOLEAN /\ Breaks(broken')
        /\ status' = IF broken' THEN 2 ELSE Running
  /\ UNCHANGED <<source, outcomes, sql>>

ReadLine(line) ==
  /\ Continues(line)
  /\ LET split == SplitAll(buf \o line)
     IN  Statements(split.statements) /\ buf' = split.rest
  /\ status' = IF broken' THEN 2 ELSE Running
  /\ sql' = sql \o line
  /\ UNCHANGED <<source, commands, refused>>

\* read_line returns 0: what is left is executed without its semicolon.
EndOfInput ==
  /\ Statements(<<buf>>)
  /\ status' = ExitStatus(broken', had_error')
  /\ UNCHANGED <<source, buf, sql, commands, refused>>

\* The prompt cannot be written, or the next line cannot be read, such as one
\* that is not UTF-8.  Neither happens to an argument.
InputFails ==
  /\ source # "-c"
  /\ Breaks(TRUE)
  /\ broken' = TRUE
  /\ status' = 2
  /\ UNCHANGED <<source, buf, had_error, outcomes, sql, commands, refused>>

\* Only the last line may lack its end.
MayReadMore == Len(sql) < MaxText /\ Last(<<"nl">> \o sql) = "nl"

Run ==
  /\ source # NoSource
  /\ \/ EndOfInput
     \/ InputFails
     \/ MayReadMore /\ \E line \in Lines : Dot(line) \/ ReadLine(line)

Next == status = Running /\ ((\E args \in Arguments : Start(args)) \/ Run)

Spec == Init /\ [][Next]_vars

-----------------------------------------------------------------------------
(* Properties.                                                             *)

Semicolon == <<"symbol", <<";">>>>

\* Tokens without their positions and without the semicolons.
Bare(tokens) ==
  Without([i \in DOMAIN tokens |-> <<tokens[i].k, tokens[i].text>>], {Semicolon})

\* What the parser sees of a text: its tokens, up to the first error.
Reading(text) == [tokens |-> Bare(Lex(text).tokens), error |-> Lex(text).error.k]

Then(first, second) ==
  IF first.error # "none" THEN first
  ELSE [tokens |-> first.tokens \o second.tokens, error |-> second.error]

\* Some texts read one after the other, up to the first error.
Piecewise(texts) ==
  LET upTo[n \in 0 .. Len(texts)] ==
        IF n = 0 THEN [tokens |-> <<>>, error |-> "none"]
        ELSE Then(upTo[n - 1], Reading(texts[n]))
  IN  upTo[Len(texts)]

\* The shell finds the end of a statement by counting quotes, the lexer by
\* reading tokens.  They agree: however the input is divided into lines, the
\* statements executed, and then what is in buf, are what parse_script would
\* find in all of it, up to the first character it would reject.  When writing
\* fails they are the first of those.
ShellAgreesWithLexer ==
  LET texts == [i \in DOMAIN outcomes |-> outcomes[i].text]
      read  == Piecewise(IF status = Running THEN Append(texts, buf) ELSE texts)
  IN  IF broken THEN IsPrefix(read.tokens, Reading(sql).tokens) ELSE read = Reading(sql)

\* Nothing, a complete statement, or what the lexer rejects other than for a
\* string without an end.
Between(text) ==
  LET l    == Lex(text)
      last == l.tokens[Len(l.tokens)]
  IN  /\ l.error.k # "UnterminatedString"
      /\ l.error.k = "none" => l.tokens = <<>> \/ <<last.k, last.text>> = Semicolon

\* A dot inside a statement or a string literal is no command (lib.rs run):
\* commands are run only where a statement has just ended, or none has begun.
CommandsAreBetweenStatements == \A n \in commands : Between(SubSeq(sql, 1, n))

SomethingFailed == refused \/ \E i \in DOMAIN outcomes : ~outcomes[i].ok

\* ADR-005: choamc "exits 1 if any failed (2 for usage/IO errors)".  Once it has
\* read any input it exits with 0 only if every statement and every command has
\* succeeded, with 1 if one has failed whatever succeeded after it, and with 2
\* only if it could not read or write.
ExitStatusIsRight ==
  source # NoSource /\ status # Running =>
    status = (IF broken THEN 2 ELSE IF SomethingFailed THEN 1 ELSE 0)

\* lexer.rs lex: what stands after white space or a semicolon outside of a
\* string is read as if it stood alone, wherever in the input that is.
SeparatorsSeparate == \A n \in DOMAIN sql : Separates(sql, n)

\* A rendered string literal is read as the text it was made of (ast.rs Display
\* of Literal, lexer.rs lex), whatever text the input is.
QuotedTextsReadBack == QuotesBack(sql)
=============================================================================
