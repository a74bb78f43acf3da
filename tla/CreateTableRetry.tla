-------------------------- MODULE CreateTableRetry --------------------------
(***************************************************************************)
(* The way ConcurrentCreateTable is meant to be handled (tests             *)
(* concurrent_create_table in crates/catalog/src/catalog.rs): every thread *)
(* has one table to create and calls create_table again each time it loses *)
(* the race.                                                               *)
(***************************************************************************)
EXTENDS Catalog

CONSTANT Wanted   \* the name each creator is to create, all different

ASSUME WantedAssumption ==
  /\ Wanted \in [Creators -> Names]
  /\ \A c, d \in Creators : Wanted[c] = Wanted[d] => c = d

Call(c) ==
  /\ result[c] \in {"none", "ConcurrentCreateTable"}
  /\ \E sch \in ValidSchemas : CreateBegin(c, Wanted[c], sch)

CreatorStep(c) == Call(c) \/ CommitOk(c) \/ CommitConflict(c)

\* Nobody loses forever: a conflict is another thread's success, so every
\* loop ends, with its table created.
EveryRetrySucceeds == <>[](\A c \in Creators : result[c] = "Ok")
=============================================================================
