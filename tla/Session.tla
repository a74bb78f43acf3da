------------------------------ MODULE Session -------------------------------
(***************************************************************************)
(* crates/engine: Session::execute_statement.  A session runs statements   *)
(* one after the other, each in a transaction of its own (autocommit) or   *)
(* all of those between BEGIN and COMMIT or ROLLBACK in one.  A store      *)
(* transaction has no savepoints: a statement that fails half way, such as *)
(* an INSERT whose second row is a duplicate, leaves its first half in the *)
(* buffer, and the session marks the transaction as failed instead.        *)
(*                                                                         *)
(* Sessions are the clients of module Database, and its creators when they *)
(* run CREATE TABLE.  What a statement does to the rows of a table is a    *)
(* parameter here; MCSession takes it from RowStatements.                  *)
(***************************************************************************)
EXTENDS Database

CONSTANTS
  Statements,      \* pairs of a table and a statement on it
  Effect(_, _, _), \* what run does with a schema, the rows and a statement
  RowFits(_, _, _), \* whether encode_row takes a row for a schema, under a primary key
  Answers,         \* rows a SELECT returns, of some of the columns
  MaxStatements    \* bound: statements of a transaction that succeed

Sessions == Clients

\* What Effect gives: whether the statement succeeded, the rows it returned and
\* the changes it made, half way if it failed, each from the row it found to
\* the one it left, Absent for none; and what it read, all keys or some.
Outcomes == [ok : BOOLEAN, returned : Seq(Answers),
             changes : Seq([pk : Pks, from : Rows \cup {Absent}, to : Rows \cup {Absent}]),
             scanned : BOOLEAN, looked : SUBSET Pks]

ASSUME SessionAssumption ==
  /\ Creators = Sessions
  /\ MaxStatements \in Nat
  /\ \A st \in Statements : st.table \in Names

\* The tables of a schema, and the row under a key of one.
TablesUnder(schema) == {rows \in UNION {[D -> Rows] : D \in SUBSET Pks} :
                       \A pk \in DOMAIN rows : RowFits(schema, pk, rows[pk])}

Found(rows, pk) == IF pk \in DOMAIN rows THEN rows[pk] ELSE Absent

ReadBy(r) == IF r.scanned THEN Pks ELSE r.looked

\* A statement that succeeds changes each row at most once, from what it found
\* to one that fits (RowsChangeOnce and RowsFitSchema of Executor), and it would
\* have done the same on any table with the same rows where it has read.
ASSUME EffectAssumption ==
  \A schema \in ValidSchemas, st \in Statements : \A rows \in TablesUnder(schema) :
    LET r == Effect(schema, rows, st.body) IN
    /\ r \in Outcomes
    /\ r.ok =>
         /\ \A i, j \in DOMAIN r.changes : r.changes[i].pk = r.changes[j].pk => i = j
         /\ \A i \in DOMAIN r.changes :
              LET c == r.changes[i] IN
              /\ c.from = Found(rows, c.pk)
              /\ c.to = Absent \/ RowFits(schema, c.pk, c.to)
         /\ \A others \in TablesUnder(schema) :
              (\A pk \in ReadBy(r) : Found(rows, pk) = Found(others, pk))
              => Effect(schema, others, st.body) = r

VARIABLES
  auto,      \* per session: its open transaction is a single statement's own
  failed,    \* per session: Session.failed
  erred,     \* history: a statement returned an error since BEGIN
  done,      \* history: the successful statements since BEGIN, with their results
  due        \* history: the rows, by redoing the changes of every commit in order

sessionVars == <<auto, failed, erred, done, due>>
allVars == <<dbVars, sessionVars>>

-----------------------------------------------------------------------------
(* A statement on a transaction and the handle of its table.               *)

RowsIn(t, h) == [pk \in RelScan(t, h.table_id) |-> RelRead(t, h.table_id, pk)]

\* Mutant of MakeChange: a row that stays the same is not written.
MakeChangeIfAny(t, h, c) ==
  IF c.from = c.to THEN t
  ELSE IF c.to = Absent THEN RelDelete(t, h.table_id, c.pk)
  ELSE RelWrite(t, h.table_id, c.pk, c.to)

MakeChange(t, h, c) ==
  IF c.to = Absent THEN RelDelete(t, h.table_id, c.pk) ELSE RelWrite(t, h.table_id, c.pk, c.to)

MakeChanges(t, h, changes) ==
  LET upTo[i \in 0 .. Len(changes)] ==
        IF i = 0 THEN t ELSE MakeChange(upTo[i - 1], h, changes[i])
  IN  upTo[Len(changes)]

\* The transaction and what became of the statement.  A table the catalog does
\* not have is an error.
Ran(t, h, r) == [tx |-> MakeChanges(t, h, r.changes), did |-> r]

NoSuchTable(t) ==
  [tx |-> t, did |-> [ok |-> FALSE, returned |-> <<>>, changes |-> <<>>,
                      scanned |-> FALSE, looked |-> {}]]

RunOn(t, h, st) ==
  IF h = Absent THEN NoSuchTable(t) ELSE Ran(t, h, Effect(h.schema, RowsIn(t, h), st.body))

RunIn(t, st) == RunOn(t, TableHandle(st.table), st)

-----------------------------------------------------------------------------
(* Redoing what successful statements reported.                            *)

\* Marks a place where a change does not start from the row that is there.
Broken == <<"broken">>

Redo(rows, place, c) == [rows EXCEPT ![place] = IF @ = c.from THEN c.to ELSE Broken]

RedoStatement(rows, table, changes) ==
  LET upTo[i \in 0 .. Len(changes)] ==
        IF i = 0 THEN rows ELSE Redo(upTo[i - 1], <<table, changes[i].pk>>, changes[i])
  IN  upTo[Len(changes)]

RedoAll(rows, entries) ==
  LET upTo[i \in 0 .. Len(entries)] ==
        IF i = 0 THEN rows
        ELSE RedoStatement(upTo[i - 1], entries[i].st.table, entries[i].did.changes)
  IN  upTo[Len(entries)]

RedoFirst(rows, entries, i) == RedoAll(rows, SubSeq(entries, 1, i))

-----------------------------------------------------------------------------
SessionInit ==
  /\ DbInit
  /\ auto = [s \in Sessions |-> FALSE]
  /\ failed = [s \in Sessions |-> FALSE]
  /\ erred = [s \in Sessions |-> FALSE]
  /\ done = [s \in Sessions |-> <<>>]
  /\ due = [r \in Names \X Pks |-> Absent]

\* A session runs one statement at a time: none while another waits for a
\* commit or for conflict_error.
Ready(s) == pc[s] = "idle" /\ phase[s] # "refused" /\ ~auto[s]

InTxn(s) == phase[s] = "open" /\ ~auto[s]

\* Mutant of Closed: the failure outlives the transaction.
ClosedStillFailed(s) ==
  /\ auto' = [auto EXCEPT ![s] = FALSE]
  /\ erred' = [erred EXCEPT ![s] = FALSE]
  /\ done' = [done EXCEPT ![s] = <<>>]
  /\ UNCHANGED failed

\* The transaction is gone, whatever became of it.
Closed(s) ==
  /\ auto' = [auto EXCEPT ![s] = FALSE]
  /\ failed' = [failed EXCEPT ![s] = FALSE]
  /\ erred' = [erred EXCEPT ![s] = FALSE]
  /\ done' = [done EXCEPT ![s] = <<>>]

ExecBegin(s) ==
  /\ Ready(s) /\ ~InTxn(s)
  /\ BeginTxn(s)
  /\ UNCHANGED sessionVars

\* An error that is returned before the session's state is looked at, or
\* changed: BEGIN inside a transaction (AlreadyInTransaction), CREATE TABLE
\* inside a transaction (DdlInTransaction), or a text that does not parse.
ExecRefused(s) ==
  /\ Ready(s) /\ InTxn(s)
  /\ erred' = [erred EXCEPT ![s] = TRUE]
  /\ UNCHANGED <<dbVars, auto, failed, done, due>>

\* Session.failed after a statement that gave r.
Poisoned(s, r) == ~r.did.ok

TablesOf(st, r) == IF r.did.changes = <<>> THEN {} ELSE {st.table}

\* A statement inside a transaction that has not failed.
RanInTxn(s, st, r) ==
  /\ dtx' = [dtx EXCEPT ![s] = r.tx]
  /\ failed' = [failed EXCEPT ![s] = Poisoned(s, r)]
  /\ erred' = [erred EXCEPT ![s] = @ \/ ~r.did.ok]
  /\ done' = [done EXCEPT ![s] = IF r.did.ok THEN Append(@, [st |-> st, did |-> r.did]) ELSE @]
  /\ touched' = [touched EXCEPT ![s] = @ \cup TablesOf(st, r)]

ExecInTxn(s) ==
  /\ Ready(s) /\ InTxn(s)
  /\ ~failed[s]
  /\ Len(done[s]) < MaxStatements
  /\ \E st \in Statements : RanInTxn(s, st, RunIn(dtx[s], st))
  /\ UNCHANGED <<vars, phase, refusal, outcome, auto, due>>

\* A statement outside one: begin and run; an error drops the transaction,
\* otherwise its commit follows.
RanAuto(s, st, r) ==
  /\ r.did.ok
  /\ dtx' = [dtx EXCEPT ![s] = r.tx]
  /\ done' = [done EXCEPT ![s] = <<[st |-> st, did |-> r.did]>>]
  /\ touched' = [touched EXCEPT ![s] = TablesOf(st, r)]

ExecAuto(s) ==
  /\ Ready(s) /\ ~InTxn(s)
  /\ store.version < MaxCommits
  /\ \E st \in Statements : RanAuto(s, st, RunIn(Begin(store), st))
  /\ phase' = [phase EXCEPT ![s] = "open"]
  /\ auto' = [auto EXCEPT ![s] = TRUE]
  /\ outcome' = [outcome EXCEPT ![s] = Done("none")]
  /\ UNCHANGED <<vars, refusal, failed, erred, due>>

\* What lets a COMMIT through.  Mutant: a failed transaction commits too.
CommitsAlways(s) == pc[s] = "idle"
MayCommit(s)     == pc[s] = "idle" /\ ~failed[s]

\* COMMIT, or the end of an autocommitted statement.
ExecCommit(s) ==
  /\ MayCommit(s)
  /\ \/ /\ CommitTxn(s)
        /\ due' = RedoAll(due, done[s])
        /\ Closed(s)
     \/ /\ TxnStoreError(s)
        /\ due' = IF store' = store THEN due ELSE RedoAll(due, done[s])
        /\ Closed(s)
     \/ /\ RefuseTxn(s)
        /\ UNCHANGED sessionVars

ExecConflictError(s) ==
  /\ ConflictError(s)
  /\ Closed(s)
  /\ UNCHANGED due

\* COMMIT of a failed transaction rolls it back; ROLLBACK always does, and so
\* does dropping the session.
ExecCommitFailed(s) ==
  /\ Ready(s) /\ InTxn(s)
  /\ failed[s]
  /\ AbortTxn(s)
  /\ Closed(s)
  /\ UNCHANGED due

ExecRollback(s) ==
  /\ Ready(s) /\ InTxn(s)
  /\ AbortTxn(s)
  /\ Closed(s)
  /\ UNCHANGED due

\* CREATE TABLE, in create_table's own transaction.
ExecCreateTable(s) ==
  /\ \/ /\ Ready(s) /\ ~InTxn(s)
        /\ store.version < MaxCommits
        /\ \E n \in Names, sch \in ValidSchemas : CreateBegin(s, n, sch)
     \/ CommitOk(s) \/ CommitConflict(s) \/ CommitStoreError(s)
  /\ UNCHANGED <<clientVars, sessionVars>>

\* The process dies.  A commit was in flight in at most one session, and not
\* in one whose transaction had failed.
SessionCrash ==
  /\ \/ /\ CrashAndReopen
        /\ UNCHANGED due
     \/ \E s \in Sessions : /\ phase[s] = "open" /\ ~failed[s]
                            /\ Conflicts(store, dtx[s]) = {}
                            /\ store' = Apply(store, dtx[s])
                            /\ ForgetLocals
                            /\ due' = RedoAll(due, done[s])
  /\ ForgetClients
  /\ auto' = [s \in Sessions |-> FALSE]
  /\ failed' = [s \in Sessions |-> FALSE]
  /\ erred' = [s \in Sessions |-> FALSE]
  /\ done' = [s \in Sessions |-> <<>>]

SessionStep(s) ==
  \/ ExecBegin(s) \/ ExecRefused(s) \/ ExecInTxn(s) \/ ExecAuto(s)
  \/ ExecCommit(s) \/ ExecConflictError(s) \/ ExecCommitFailed(s)
  \/ ExecRollback(s) \/ ExecCreateTable(s)

SessionNext == (\E s \in Sessions : SessionStep(s)) \/ SessionCrash

SessionSpec == SessionInit /\ [][SessionNext]_allVars

-----------------------------------------------------------------------------
(* Properties *)

SessionTypeOK ==
  /\ DbTypeOK
  /\ auto \in [Sessions -> BOOLEAN] /\ failed \in [Sessions -> BOOLEAN]
  /\ erred \in [Sessions -> BOOLEAN]
  /\ \A s \in Sessions : \A i \in DOMAIN done[s] :
       done[s][i].st \in Statements /\ done[s][i].did \in Outcomes

\* The committed rows are what the reported changes of the committed
\* transactions add up to, applied one transaction after the other in commit
\* order, and each change starts from the very row that is there: nothing of a
\* statement that failed half way is committed, no two inserts of a primary key
\* without a delete between, no update lost, no delete or update of a row that
\* was gone or had become another.
CommittedRowsAreDue == RowsOf(Begin(store)) = due

KeysRead(entry)    == {<<entry.st.table, pk>> :
                         pk \in ReadBy(entry.did)}
KeysChanged(entry) == {<<entry.st.table, entry.did.changes[i].pk>> :
                         i \in DOMAIN entry.did.changes}

ChangedBy(entries) == UNION {KeysChanged(entries[i]) : i \in DOMAIN entries}

\* The transaction has changed every row it has read.
ChangesWhatItReads(entries) ==
  UNION {KeysRead(entries[i]) : i \in DOMAIN entries} \subseteq ChangedBy(entries)

\* A statement run with nobody beside it.
RowsHeld(rows, table) ==
  [pk \in {p \in Pks : rows[<<table, p>>] # Absent} |-> rows[<<table, pk>>]]
RunAlone(rows, st) == Effect(TableHandle(st.table).schema, RowsHeld(rows, st.table), st.body)

\* A transaction that changed every row it read, and that would be committed
\* now, is one of a serial schedule: run now with nobody beside them, its
\* statements would return the same rows and make the same changes.  Snapshot
\* isolation admits more than serial schedules (write skew), but only to
\* transactions that decide by rows they leave alone.
CommitsSerialize ==
  \A s \in Sessions :
    /\ phase[s] = "open" /\ ~failed[s]
    /\ Conflicts(store, dtx[s]) = {}
    /\ ChangesWhatItReads(done[s])
    => \A i \in DOMAIN done[s] :
         RunAlone(RedoFirst(due, done[s], i - 1), done[s][i].st) = done[s][i].did

\* A failed session is always inside an explicit transaction, so COMMIT or
\* ROLLBACK can clear the failure and autocommit never runs under it; and a
\* statement of that very transaction has failed: none inherits the failure of
\* an earlier one.  No session ends up in CREATE TABLE with a transaction open.
NeverWedged ==
  \A s \in Sessions : /\ failed[s] => InTxn(s) /\ erred[s]
                      /\ pc[s] = "commit" => phase[s] = "idle"

-----------------------------------------------------------------------------
(* The inductive invariant behind CommittedRowsAreDue and CommitsSerialize. *)

\* Rows by place, none but those of a table, and each fits it.
FittingRows ==
  {rows \in [Names \X Pks -> Rows \cup {Absent}] :
     \A r \in Names \X Pks : rows[r] # Absent =>
       HasTable(r[1]) /\ RowFits(TableHandle(r[1]).schema, r[2], rows[r])}

\* The rows a transaction began with.
RowsAtBegin(t) == RowsOf([t EXCEPT !.writes = [k \in AllKeys |-> Unwritten]])

\* What a transaction that has not failed sees is its snapshot with what its
\* statements reported; it will write what they changed and nothing else; and
\* each did what it would have done alone on what the ones before it left.  A
\* row nobody has committed since is still as in the snapshot.
ReportsInv(t, entries) ==
  /\ t = [at |-> t.at, view |-> t.view, writes |-> [k \in AllKeys |-> t.writes[k]]]
  /\ \A k \in RowKeys : store.modified[k] <= t.at => store.data[k] = t.view[k]
  /\ RowsOf(t) = RedoAll(RowsAtBegin(t), entries)
  /\ PlacesOf(WriteSet(t)) = ChangedBy(entries)
  /\ \A i \in 0 .. Len(entries) : RedoFirst(RowsAtBegin(t), entries, i) \in FittingRows
  /\ \A i \in DOMAIN entries :
       /\ HasTable(entries[i].st.table) /\ entries[i].did.ok
       /\ RunAlone(RedoFirst(RowsAtBegin(t), entries, i - 1), entries[i].st) = entries[i].did

Reports == [st : Statements, did : Outcomes]

DueInv ==
  /\ done \in [Sessions -> Seq(Reports)]
  /\ due \in FittingRows
  /\ CommittedRowsAreDue
  /\ \A s \in Sessions : phase[s] = "idle" => done[s] = <<>>
  /\ \A s \in Sessions : phase[s] = "open" /\ ~failed[s] => ReportsInv(dtx[s], done[s])
=============================================================================
