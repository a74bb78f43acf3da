---------------------------- MODULE MCCommitLog -----------------------------
(* CommitLog for TLC: two threads that write the same row.                 *)
EXTENDS CommitLog

CONSTANTS t1, t2, row, one, two

MCThreads == {t1, t2}
MCPks     == {row}

MCJob == [t \in MCThreads |-> [pk |-> row, label |-> IF t = t1 THEN one ELSE two]]
=============================================================================
