------------------------------- MODULE Sietch -------------------------------
(***************************************************************************)
(* The storage engine choam is built on, sietch::TransactionalStore, as    *)
(* operators on store and transaction values.  Its code is not part of     *)
(* this repository; this is the contract that crates/catalog and           *)
(* crates/txn use: a transaction reads a snapshot overlaid with its own    *)
(* buffered writes, and commits all of them at once or, when another       *)
(* transaction has since committed a write to one of its keys, none        *)
(* (first committer wins).                                                 *)
(*                                                                         *)
(* A store is a record:                                                    *)
(*   version   number of commits applied so far                            *)
(*   data      the newest committed value of every key, or Absent          *)
(*   modified  the commit that last wrote each key, 0 if none did          *)
(* A transaction is a record:                                              *)
(*   at      the version its snapshot was taken at                         *)
(*   view    the data of that version                                      *)
(*   writes  its buffer: Unwritten, a value, or Absent for a tombstone     *)
(***************************************************************************)
EXTENDS Naturals

CONSTANTS Absent,     \* the key has no value (never written, or deleted)
          Unwritten   \* the transaction has not touched the key

NewStore(keys) ==
  [version  |-> 0,
   data     |-> [k \in keys |-> Absent],
   modified |-> [k \in keys |-> 0]]

\* TransactionalStore::begin.
Begin(st) ==
  [at     |-> st.version,
   view   |-> st.data,
   writes |-> [k \in DOMAIN st.data |-> Unwritten]]

\* Transaction::get, ::put and ::delete.
Get(t, k)    == IF t.writes[k] = Unwritten THEN t.view[k] ELSE t.writes[k]
Put(t, k, v) == [t EXCEPT !.writes[k] = v]
Delete(t, k) == Put(t, k, Absent)

\* Transaction::scan: the keys of a prefix (given as a set of keys) that
\* have a value, as this transaction sees them.
Scan(t, prefix) == {k \in prefix : Get(t, k) # Absent}

WriteSet(t) == {k \in DOMAIN t.writes : t.writes[k] # Unwritten}

\* Transaction::commit: the keys another transaction committed since the
\* snapshot.  Any of them may be the one TxnError::Conflict reports.
Conflicts(st, t) == {k \in WriteSet(t) : st.modified[k] > t.at}

\* Transaction::commit, no conflict: one atomic, durable batch.  A buffer
\* without writes is no commit: nobody could tell.
Apply(st, t) ==
  IF WriteSet(t) = {} THEN st
  ELSE [version  |-> st.version + 1,
        data     |-> [k \in DOMAIN st.data |->
                        IF t.writes[k] # Unwritten THEN t.writes[k]
                                                   ELSE st.data[k]],
        modified |-> [k \in DOMAIN st.modified |->
                        IF t.writes[k] # Unwritten THEN st.version + 1
                                                   ELSE st.modified[k]]]
=============================================================================
