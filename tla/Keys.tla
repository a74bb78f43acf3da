-------------------------------- MODULE Keys --------------------------------
(***************************************************************************)
(* The key space of crates/row/src/key.rs.  A key is the tuple of the      *)
(* components its bytes are the concatenation of:                          *)
(*                                                                         *)
(*   <<"counter">>          [0x00, 0x00]         next table id             *)
(*   <<"index">>            [0x00, 0x01]         list of table names       *)
(*   <<"table", name>>      [0x00, 0x02] ++ name one schema                *)
(*   <<"row", id, pk>>      [0x01] ++ id ++ pk   one row                   *)
(*                                                                         *)
(* Here the layout is taken to be injective: distinct tuples are distinct  *)
(* byte strings.                                                           *)
(***************************************************************************)
EXTENDS Naturals, FiniteSets, Sequences

CONSTANTS Names,     \* non-empty table names
          Pks,       \* primary key values
          IdSpace    \* number of distinct table ids: 2^32 for the code's u32

\* The counter is a u32 that every CREATE TABLE increments; this is the
\* number of tables for which it cannot overflow.
ASSUME IdSpaceAssumption ==
  /\ IdSpace \in Nat
  /\ IsFiniteSet(Names)
  /\ Cardinality(Names) < IdSpace

TableIds == 0 .. IdSpace - 1

CounterKey     == <<"counter">>
IndexKey       == <<"index">>
TableKey(n)    == <<"table", n>>

\* row_key.  Mutant: the table id is left out.
RowKeyOfNoTable(id, pk) == <<"row", 0, pk>>
RowKey(id, pk)          == <<"row", id, pk>>

\* split_row_key: whether a key is a row's; it has the id k[2] then.
IsRowKey(k) == Len(k) = 3

\* row_key_prefix as the set of keys it is a prefix of.
RowKeyPrefix(id) == {RowKey(id, pk) : pk \in Pks}

CatalogKeys == {CounterKey, IndexKey} \cup {TableKey(n) : n \in Names}
RowKeys     == UNION {RowKeyPrefix(id) : id \in TableIds}
AllKeys     == CatalogKeys \cup RowKeys
=============================================================================
