------------------------------- MODULE MCShell ------------------------------
(* Shell for TLC: every line of up to MaxLine characters, one with two     *)
(* statements, and lines with what else the lexer tells apart.             *)
EXTENDS Shell

CONSTANTS MaxLine   \* bound: the length of a line

MCLines ==
  LET contents == UNION {[1 .. n -> {"a", "'", ";", "."}] : n \in 0 .. MaxLine}
                    \cup {<<"<">>, <<"<", "=">>, <<"!", "=">>, <<"a", " ">>, <<"0", "1">>, <<"1", "0">>,
                       <<"a", ";", "a", ";">>}
  IN  {Append(line, "nl") : line \in contents} \cup (contents \ {<<>>})

\* Short words stand for those of the commands.
MCQuit    == {<<".", "a">>}
MCHelp    == {<<".">>}
MCListing == {<<".", ".">>}

\* Options in every order, with and without values, and help as a value.
MCArguments ==
  UNION {[1 .. n -> {"--dir", "-c", "-f", "-h", "x"}] : n \in 0 .. 4}

\* What is read from makes no difference when reading fails no more, and a file
\* is read like the standard input.
MCView == <<IF source = NoSource THEN 0 ELSE IF Len(sql) <= MaxFault /\ source = "-c" THEN 1 ELSE 2,
            buf, had_error, status, broken, outcomes, sql, commands, refused>>

=============================================================================
