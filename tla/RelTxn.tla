------------------------------- MODULE RelTxn -------------------------------
(***************************************************************************)
(* The calls of crates/txn's RelTransaction on one table, given its id: a  *)
(* row is a value under the table's row_key.  A primary key value encodes  *)
(* and decodes to itself here, and so does a row.                          *)
(***************************************************************************)
EXTENDS Keys, Sietch

RelRead(t, id, pk)     == Get(t, RowKey(id, pk))
RelScan(t, id)         == {k[3] : k \in Scan(t, RowKeyPrefix(id))}
RelWrite(t, id, pk, v) == Put(t, RowKey(id, pk), v)

\* Mutant of RelDelete: an empty row is stored instead.
RelDeleteAsEmpty(t, id, pk) == Put(t, RowKey(id, pk), <<>>)

RelDelete(t, id, pk) == Delete(t, RowKey(id, pk))
=============================================================================
