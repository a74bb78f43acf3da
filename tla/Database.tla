------------------------------ MODULE Database ------------------------------
(***************************************************************************)
(* crates/txn: Database and RelTransaction, relational transactions over   *)
(* the store the catalog lives in.                                         *)
(*                                                                         *)
(* A client's transaction is one store transaction.  Every call that names *)
(* a table looks its handle up in the latest committed catalog             *)
(* (table_handle) and works on the row keys of that handle's id.  A        *)
(* refused commit gives back a key of the store; conflict_error then reads *)
(* the catalog, in a later step, to say which table and row that was.      *)
(*                                                                         *)
(* Creators and listers (module Catalog) run beside the clients.           *)
(***************************************************************************)
EXTENDS Catalog, RelTxn

CONSTANTS Clients,
          Rows,          \* the non-key columns of a row
          MaxCommits     \* bound: no transaction begins after so many commits

ASSUME DatabaseAssumption ==
  /\ MaxCommits \in Nat
  /\ {Absent, Unwritten} \cap Rows = {}

VARIABLES
  phase,     \* per client: "idle", "open", or "refused" inside conflict_error
  dtx,       \* per client: the transaction in RelTransaction.inner
  refusal,   \* per client: the key TxnError::Conflict carried, or NoKey
  outcome,   \* per client: how its last transaction ended
  touched    \* history, per client: tables its open transaction changed

clientVars == <<phase, dtx, refusal, outcome, touched>>
dbVars == <<vars, clientVars>>

NoKey == <<>>
Done(kind)      == [kind |-> kind, row |-> <<>>]
ConflictAt(row) == [kind |-> "conflict", row |-> row]

-----------------------------------------------------------------------------
(* What RelTransaction and commit ask of the catalog.                      *)

\* Database::table_handle; Absent is DbError::UnknownTable.
TableHandle(n) == GetTable(store, n)

\* Mutant of BlameKey: the newest table, whatever key it was.
BlameNewest(st, k) ==
  LET names == NamesIn(st.data[IndexKey])
  IN  IF ~IsRowKey(k) \/ names = <<>>
      THEN Done("unrecognized")
      ELSE ConflictAt(<<names[Len(names)], k[3]>>)

\* conflict_error: the table with the key's id among those list_tables gives,
\* in creation order; DbError::UnrecognizedConflict when there is none.
BlameKey(st, k) ==
  LET names == NamesIn(st.data[IndexKey])
      hits  == {i \in 1 .. Len(names) : GetTable(st, names[i]).table_id = k[2]}
  IN  IF ~IsRowKey(k) \/ hits = {}
      THEN Done("unrecognized")
      ELSE ConflictAt(<<names[CHOOSE i \in hits : \A j \in hits : i <= j], k[3]>>)

-----------------------------------------------------------------------------
DbInit ==
  /\ Init
  /\ phase = [p \in Clients |-> "idle"]
  /\ dtx = [p \in Clients |-> NoTx]
  /\ refusal = [p \in Clients |-> NoKey]
  /\ outcome = [p \in Clients |-> Done("none")]
  /\ touched = [p \in Clients |-> {}]

BeginTxn(p) ==
  /\ phase[p] = "idle"
  /\ store.version < MaxCommits
  /\ phase' = [phase EXCEPT ![p] = "open"]
  /\ dtx' = [dtx EXCEPT ![p] = Begin(store)]
  /\ outcome' = [outcome EXCEPT ![p] = Done("none")]
  /\ UNCHANGED <<vars, refusal, touched>>

\* A call that changes a table (reads change nothing: RelRead and RelScan are
\* functions of the state).  A name the catalog does not have is an error
\* without effect.
UseTable(p, n) ==
  /\ phase[p] = "open"
  /\ TableHandle(n) # Absent
  /\ touched' = [touched EXCEPT ![p] = @ \cup {n}]

WriteRow(p, n, pk, v) ==
  /\ UseTable(p, n)
  /\ dtx' = [dtx EXCEPT ![p] = RelWrite(@, TableHandle(n).table_id, pk, v)]
  /\ UNCHANGED <<vars, phase, refusal, outcome>>

DeleteRow(p, n, pk) ==
  /\ UseTable(p, n)
  /\ dtx' = [dtx EXCEPT ![p] = RelDelete(@, TableHandle(n).table_id, pk)]
  /\ UNCHANGED <<vars, phase, refusal, outcome>>

EndTxn(p, how) ==
  /\ phase' = [phase EXCEPT ![p] = "idle"]
  /\ dtx' = [dtx EXCEPT ![p] = NoTx]
  /\ refusal' = [refusal EXCEPT ![p] = NoKey]
  /\ touched' = [touched EXCEPT ![p] = {}]
  /\ outcome' = [outcome EXCEPT ![p] = how]

CommitTxn(p) ==
  /\ phase[p] = "open"
  /\ Conflicts(store, dtx[p]) = {}
  /\ store' = Apply(store, dtx[p])
  /\ EndTxn(p, Done("ok"))
  /\ UNCHANGED catalogVars

\* Mutant of RefuseTxn: the transaction stays open.
RefuseTxnStaysOpen(p) ==
  /\ phase[p] = "open"
  /\ \E k \in Conflicts(store, dtx[p]) : refusal' = [refusal EXCEPT ![p] = k]
  /\ UNCHANGED <<vars, phase, dtx, outcome, touched>>

\* The store refuses, naming one of the conflicting keys; the transaction is
\* over (its buffer is kept here only for the refinement below).
RefuseTxn(p) ==
  /\ phase[p] = "open"
  /\ \E k \in Conflicts(store, dtx[p]) : refusal' = [refusal EXCEPT ![p] = k]
  /\ phase' = [phase EXCEPT ![p] = "refused"]
  /\ UNCHANGED <<vars, dtx, outcome, touched>>

ConflictError(p) ==
  /\ phase[p] = "refused"
  /\ EndTxn(p, BlameKey(store, refusal[p]))
  /\ UNCHANGED vars

AbortTxn(p) ==
  /\ phase[p] = "open"
  /\ EndTxn(p, Done("aborted"))
  /\ UNCHANGED vars

TxnStoreError(p) ==
  /\ phase[p] = "open"
  /\ Conflicts(store, dtx[p]) = {}
  /\ store' \in {store, Apply(store, dtx[p])}
  /\ EndTxn(p, Done("store"))
  /\ UNCHANGED catalogVars

\* One process runs the creators, the listers and the clients: a crash takes
\* them all, and one commit in flight may or may not have become durable.
ForgetClients ==
  /\ phase' = [p \in Clients |-> "idle"]
  /\ dtx' = [p \in Clients |-> NoTx]
  /\ refusal' = [p \in Clients |-> NoKey]
  /\ outcome' = [p \in Clients |-> Done("none")]
  /\ touched' = [p \in Clients |-> {}]

DbCrash ==
  /\ \/ CrashAndReopen
     \/ /\ \E p \in Clients : /\ phase[p] = "open"
                              /\ Conflicts(store, dtx[p]) = {}
                              /\ store' = Apply(store, dtx[p])
        /\ ForgetLocals
  /\ ForgetClients

CatalogStep ==
  /\ \/ \E c \in Creators, n \in Names, sch \in ValidSchemas : CreateBegin(c, n, sch)
     \/ \E c \in Creators : CommitOk(c) \/ CommitConflict(c) \/ CommitStoreError(c)
     \/ \E l \in Listers : ListBegin(l) \/ ListNext(l)
  /\ UNCHANGED clientVars

ClientStep(p) ==
  \/ BeginTxn(p) \/ CommitTxn(p) \/ RefuseTxn(p) \/ ConflictError(p)
  \/ AbortTxn(p) \/ TxnStoreError(p)
  \/ \E n \in Names, pk \in Pks : DeleteRow(p, n, pk)
  \/ \E n \in Names, pk \in Pks, v \in Rows : WriteRow(p, n, pk, v)

DbNext ==
  \/ CatalogStep
  \/ \E p \in Clients : ClientStep(p)
  \/ DbCrash

DbSpec == DbInit /\ [][DbNext]_dbVars

-----------------------------------------------------------------------------
(* Properties *)

IsOpen(p) == phase[p] # "idle"

\* Types of the rows' part of the store and of the clients' locals.
DbTypeOK ==
  /\ TypeOK
  /\ \A k \in RowKeys : store.data[k] = Absent \/ store.data[k] \in Rows
  /\ phase \in [Clients -> {"idle", "open", "refused"}]
  /\ \A p \in Clients : IsOpen(p) =>
       /\ dtx[p].at \in 0 .. store.version
       /\ WriteSet(dtx[p]) \subseteq RowKeys
  /\ \A p \in Clients : phase[p] = "refused" <=> refusal[p] # NoKey
  /\ touched \in [Clients -> SUBSET Names]

\* No row is stored, snapshotted or buffered under an id no table has yet: a
\* new table starts empty, and stays invisible to what ran before it.
NoOrphanRows ==
  \A id \in TableIds, pk \in Pks : id >= NextId(store.data[CounterKey]) =>
    /\ store.data[RowKey(id, pk)] = Absent
    /\ \A p \in Clients : IsOpen(p) => Get(dtx[p], RowKey(id, pk)) = Absent
                                       /\ RowKey(id, pk) \notin WriteSet(dtx[p])

\* UnrecognizedConflict is "not reachable" (txn/src/lib.rs:44), whatever
\* table was created meanwhile; and the row a client is told of is one it had
\* changed, in a table it used.
ConflictsAreAttributed ==
  /\ \A p \in Clients : outcome[p].kind # "unrecognized"
  /\ \A p \in Clients : phase[p] = "refused" =>
       LET blame == BlameKey(store, refusal[p])
       IN  /\ blame.kind = "conflict"
           /\ blame.row[1] \in touched[p]
           /\ RowKey(TableHandle(blame.row[1]).table_id, blame.row[2])
                \in WriteSet(dtx[p])

-----------------------------------------------------------------------------
(* The inductive invariant behind NoOrphanRows and ConflictsAreAttributed.  *)

\* The types DbTypeOK has no need of, and the first half of
\* ConflictsAreAttributed.
LocalsInv ==
  /\ phase \in [Clients -> {"idle", "open", "refused"}]
  /\ touched \in [Clients -> SUBSET Names]
  /\ DOMAIN dtx = Clients /\ DOMAIN refusal = Clients /\ DOMAIN outcome = Clients
  /\ \A p \in Clients : /\ phase[p] = "refused" <=> refusal[p] # NoKey
                        /\ outcome[p].kind # "unrecognized"

\* Keys of an id no table has yet were never written.
RowsInv ==
  \A id \in TableIds, pk \in Pks :
    /\ store.data[RowKey(id, pk)] \in Rows \cup {Absent}
    /\ id >= NextId(store.data[CounterKey]) =>
         store.data[RowKey(id, pk)] = Absent /\ store.modified[RowKey(id, pk)] = 0

\* An open transaction wrote to tables that its client touched, which exist;
\* a refused one still conflicts.
ClientInv(p) ==
  LET t == dtx[p] IN
  /\ DOMAIN t = {"at", "view", "writes"}
  /\ t.at \in 0 .. store.version
  /\ DOMAIN t.view = AllKeys /\ DOMAIN t.writes = AllKeys
  /\ \A id \in TableIds, pk \in Pks :
       /\ t.writes[RowKey(id, pk)] \in Rows \cup {Absent, Unwritten}
       /\ id >= NextId(store.data[CounterKey]) => t.view[RowKey(id, pk)] = Absent
  /\ \A k \in WriteSet(t) : \E n \in touched[p], pk \in Pks :
       HasTable(n) /\ k = RowKey(TableHandle(n).table_id, pk)
  /\ phase[p] = "refused" => refusal[p] \in Conflicts(store, t)

DbInv ==
  /\ CatalogInv
  /\ LocalsInv
  /\ RowsInv
  /\ \A p \in Clients : IsOpen(p) => ClientInv(p)

-----------------------------------------------------------------------------
(* The rows by table name: what SnapshotRows says of them. *)

RowsOf(t) == [r \in Names \X Pks |->
                IF HasTable(r[1]) THEN RelRead(t, TableHandle(r[1]).table_id, r[2])
                                  ELSE Absent]

PlacesOf(keys) == {r \in Names \X Pks :
                     /\ HasTable(r[1])
                     /\ RowKey(TableHandle(r[1]).table_id, r[2]) \in keys}

Changed(p) == {k \in AllKeys : store.modified[k] > dtx[p].at}

TablesNow == {n \in Names : HasTable(n)}
RowsNow   == RowsOf(Begin(store))
OpenNow   == {p \in Clients : IsOpen(p)}
ViewNow   == [p \in Clients |-> IF IsOpen(p) THEN RowsOf(dtx[p])
                                             ELSE [r \in Names \X Pks |-> Absent]]
DirtyNow  == [p \in Clients |-> IF IsOpen(p) THEN PlacesOf(WriteSet(dtx[p])) ELSE {}]
StaleNow  == [p \in Clients |-> IF IsOpen(p) THEN PlacesOf(Changed(p)) ELSE {}]

Snapshots == INSTANCE SnapshotRows WITH
  tables <- TablesNow, rows <- RowsNow, open <- OpenNow,
  view <- ViewNow, dirty <- DirtyNow, stale <- StaleNow

\* Every client works with rows of named tables under snapshot isolation, as
\* if there were no table ids, no shared key space and no catalog in it.
ImplementsSnapshots == Snapshots!Spec
=============================================================================
