----------------------------- MODULE CommitLog ------------------------------
(***************************************************************************)
(* The harness of crates/txn/tests/concurrency.rs: threads blindly write   *)
(* one row each, retry on conflict, and note every success in a shared     *)
(* log, which the test then replays and compares with the table.           *)
(***************************************************************************)
EXTENDS RelTxn

CONSTANTS Threads,
          Job         \* per thread: the primary key and the label it writes

Table == 0

VARIABLES store, tx,
          at,           \* per thread: "begin", "commit", "log" or "done"
          commit_log

logVars == <<store, tx, at, commit_log>>

NoTx == Begin(NewStore({}))

LogInit ==
  /\ store = NewStore(AllKeys)
  /\ tx = [t \in Threads |-> NoTx]
  /\ at = [t \in Threads |-> "begin"]
  /\ commit_log = <<>>

JobWrite(t) ==
  /\ at[t] = "begin"
  /\ tx' = [tx EXCEPT ![t] = RelWrite(Begin(store), Table, Job[t].pk, Job[t].label)]
  /\ at' = [at EXCEPT ![t] = "commit"]
  /\ UNCHANGED <<store, commit_log>>

JobCommit(t) ==
  /\ at[t] = "commit"
  /\ tx' = [tx EXCEPT ![t] = NoTx]
  /\ \/ /\ Conflicts(store, tx[t]) = {}
        /\ store' = Apply(store, tx[t])
        /\ at' = [at EXCEPT ![t] = "log"]
     \/ /\ Conflicts(store, tx[t]) # {}
        /\ at' = [at EXCEPT ![t] = "begin"]
        /\ UNCHANGED store
  /\ UNCHANGED commit_log

\* The lock around the log is taken only after commit has returned.
JobLog(t) ==
  /\ at[t] = "log"
  /\ commit_log' = Append(commit_log, Job[t])
  /\ at' = [at EXCEPT ![t] = "done"]
  /\ UNCHANGED <<store, tx>>

LogNext == \E t \in Threads : JobWrite(t) \/ JobCommit(t) \/ JobLog(t)

LogSpec == LogInit /\ [][LogNext]_logVars

-----------------------------------------------------------------------------
\* The serial reference model: the last label logged for a row.
Replayed(pk) ==
  LET hits == {i \in 1 .. Len(commit_log) : commit_log[i].pk = pk}
  IN  IF hits = {} THEN Absent
      ELSE commit_log[CHOOSE i \in hits : \A j \in hits : j <= i].label

\* "row {} must match the serial replay of the actual commit order"
\* (concurrency.rs:128): the log is taken to be in commit order.
LogIsInCommitOrder ==
  (\A t \in Threads : at[t] = "done") =>
    \A pk \in Pks : RelRead(Begin(store), Table, pk) = Replayed(pk)
=============================================================================
